------------------------------ MODULE Tutorial ------------------------------
(***************************************************************************)
(* The tutorial (tutorial/overlay.cpp, step_sequencer.cpp,                 *)
(* forced_settings.cpp): its script, its cursor and the settings it forces *)
(* while it runs.  The screens, the modals and the launches it works on    *)
(* belong to the modules that extend this one, so everything here is a     *)
(* function of the lesson's record and of the settings' record.            *)
(*                                                                         *)
(* A value of a setting is one of two: the user's own, or the one the      *)
(* tutorial forces.  "live" is the Settings object the app runs on,        *)
(* "stored" the profile in the browser store, "saved" what the tutorial    *)
(* captured before forcing.                                                *)
(***************************************************************************)
EXTENDS Naturals, Sequences

CONSTANT
  MaxRun      \* bound: Next steps, or boxes, the script shows in a row

ASSUME TutorialAssumption == MaxRun \in Nat \ {0}

VARIABLES
  lesson,     \* TutorialRuntime and the backbone's TutorialState
  settings    \* the forced settings: live, stored, saved, and whether forced

TutorialPhases == {"Inactive", "Prompt", "Active", "Complete"}

(* -------------------------------- the script ---------------------------- *)

Least(a, b) == IF a < b THEN a ELSE b

\* count substeps that a Next control advances.
Tour(step, at, count) ==
  [i \in 1..Least(count, MaxRun) |-> [step |-> step, at |-> at, advance |-> "Next"]]

Action(step, at, advance) == <<[step |-> step, at |-> at, advance |-> advance]>>

Walk(step, boxes) ==
  [i \in 1..2 * Least(boxes, MaxRun) |->
     [step |-> step, at |-> "Game",
      advance |-> IF i % 2 = 1 THEN "MathStage1" ELSE "MathStage2"]]

Script ==
  Tour(1, "Root", 2)
    \o Action(1, "Root", "ExploreSettings") \o Action(1, "Root", "ExploreShop")
    \o Action(1, "Root", "LeaderboardExplore") \o Action(1, "Root", "ExploreHelp")
    \o Tour(1, "Root", 1) \o Action(1, "Root", "PlayMorph")
    \o Tour(2, "ModeSelection", 3) \o Action(2, "ModeSelection", "CustomExplore")
    \o Action(2, "ModeSelection", "LaunchCaller")
    \o Tour(3, "Game", 7)
    \o Walk(4, 3) \o Action(4, "Game", "MathStage1") \o Action(4, "Game", "MathSubmit")
    \o Tour(5, "PostRound", 5) \o Action(5, "PostRound", "LaunchAggressor")
    \o Tour(6, "Game", 2) \o Walk(6, 3) \o Action(6, "Game", "MathTiers234")
    \o Tour(7, "PostRound", 2) \o Action(7, "PostRound", "FinishTutorial")

ModalExplores == {"ExploreSettings", "ExploreShop", "ExploreHelp"}
MathKinds == {"MathStage1", "MathStage2", "MathSubmit", "MathTiers234"}

\* The panel behind the spotlit Root button of an explore step.
SpotPanel(kind) ==
  CASE kind = "ExploreSettings" -> "Settings"
    [] kind \in {"ExploreShop", "LeaderboardExplore"} -> "Shop"
    [] kind = "ExploreHelp" -> "Help"

IsActive(l) == l.phase = "Active"

\* The cursor past the end stands for "no substep".
Running(l) == IsActive(l) /\ l.cursor \in DOMAIN Script

Advance(l) == Script[l.cursor].advance

\* Previous stays on the screen and never crosses a scripted action.
PreviousAvailable(l) ==
  /\ l.cursor > 1
  /\ Advance(l) = "Next"
  /\ Script[l.cursor - 1].advance = "Next"
  /\ Script[l.cursor - 1].at = Script[l.cursor].at

(* ------------------------------- the cursor ----------------------------- *)

TutorialTypeOK ==
  /\ lesson \in [phase : TutorialPhases, cursor : 1..Len(Script) + 1, seen : BOOLEAN,
                 shown : BOOLEAN, hasSeen : BOOLEAN]
  /\ settings \in [live : {"own", "forced"}, stored : {"own", "forced"},
                   saved : {"own", "forced"}, on : BOOLEAN]

\* A player who has seen the tutorial is in the place of one who dismissed the prompt.
TutorialInit ==
  /\ lesson = [phase |-> "Inactive", cursor |-> 1, seen |-> FALSE, shown |-> FALSE, hasSeen |-> FALSE]
  /\ settings = [live |-> "own", stored |-> "own", saved |-> "own", on |-> FALSE]

AdvanceCursor(l) ==
  [l EXCEPT !.cursor = IF @ \in DOMAIN Script THEN @ + 1 ELSE @, !.seen = FALSE]

StepBack(l) == [l EXCEPT !.cursor = @ - 1, !.seen = FALSE]

\* maybe_trigger_prompt: on Root, once in a session, unless it was seen before.
MaybeTriggerPrompt(l, at) ==
  IF l.phase = "Inactive" /\ at = "Root" /\ ~l.shown /\ ~l.hasSeen
  THEN [l EXCEPT !.phase = "Prompt", !.shown = TRUE]
  ELSE l

DismissPrompt(l) == [l EXCEPT !.phase = "Inactive", !.hasSeen = TRUE]

\* An explore step is over when what it opened has been seen open, then closed.
Explored(l, open, closed) ==
  IF open THEN [l EXCEPT !.seen = TRUE]
  ELSE IF l.seen /\ closed THEN AdvanceCursor(l)
  ELSE l

AdvanceOn(l, condition) == IF condition THEN AdvanceCursor(l) ELSE l

\* poll_advance, once a frame: top is the open modal, "None" for none.
PollAdvance(l, at, top, popupOpen) ==
  IF ~Running(l) THEN l ELSE
  CASE Advance(l) \in ModalExplores -> Explored(l, top # "None", TRUE)
    [] Advance(l) = "LeaderboardExplore" -> Explored(l, top = "Leaderboard", top = "None")
    [] Advance(l) = "CustomExplore" -> Explored(l, popupOpen, TRUE)
    [] Advance(l) = "PlayMorph" -> AdvanceOn(l, at = "ModeSelection")
    [] Advance(l) \in {"LaunchCaller", "LaunchAggressor"} -> AdvanceOn(l, at = "Game")
    [] Advance(l) \in {"MathSubmit", "MathTiers234"} -> AdvanceOn(l, at = "PostRound")
    [] OTHER -> l

(* -------------------------- start, skip and finish ---------------------- *)

\* tutorial_start, unless it already runs.  The prompt cannot come back after it, so
\* whether it was shown is not remembered any longer.
Started(l) ==
  [l EXCEPT !.phase = "Active", !.cursor = 1, !.seen = FALSE, !.shown = TRUE, !.hasSeen = FALSE]

Forced(s) == [s EXCEPT !.live = "forced", !.saved = s.live, !.on = TRUE]

\* tutorial_restore_forced_settings: the live object only.
Restored(s) == IF s.on THEN [s EXCEPT !.live = s.saved, !.on = FALSE] ELSE s

\* tutorial_skip and tutorial_finish_to.  The next start clears seen; it is forgotten here.
Ended(l) ==
  [l EXCEPT !.phase = "Inactive", !.cursor = Len(Script) + 1, !.seen = FALSE, !.hasSeen = TRUE]

\* finish_to_complete_screen: the settings stay forced until a destination is chosen.
ReachedTheEnd(l) == [l EXCEPT !.phase = "Complete", !.cursor = Len(Script) + 1]

\* The user sets the control, then the change is saved.
SettingChanged(s, value) == [s EXCEPT !.live = value, !.stored = value]

\* boot.cpp reload_live_settings after a sign-in.
SettingsReloaded(s) == [s EXCEPT !.live = s.stored]
=============================================================================
