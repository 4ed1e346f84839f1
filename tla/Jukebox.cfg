SPECIFICATION JukeboxFairSpec
CONSTANTS
  Tracks <- ThreeTracks
  Genres = {"jazz", "classical"}
  Genre <- ThreeGenres
  Starters <- OneStarter
  All = "all"
  NoTrack = "none"
  Price <- OneTomato
  Rows <- OtherBrowser
  Filters = {"all", "jazz"}
  MaxEarned = 1
  MaxLate = 0
INVARIANTS
  PlaysOnlyItsScope
  RotationIsThePersistedOne
  StopsAreTheLiveRows
  WalletAccountsForUnlocks
PROPERTIES
  TrackComesRound
