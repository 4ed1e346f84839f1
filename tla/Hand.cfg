\* One hand worked on at a time out of four, the lessons included; every deal checked.
SPECIFICATION Spec
CONSTANTS
  BetFractions <- MCBetFractions
  Seeds <- MCSeeds
  Played <- MCPlayed
  Lessons <- MCLessons
  Options <- MCOptions
  Modes <- MCModes
  AggressorWeight = 50
  Slips <- MCSlips
INVARIANTS
  GradedAsShown
  RecapShowsEveryGrade
  CaretFollowsTheRing
  LessonSheetIsComplete
PROPERTY
  DealIsSound
