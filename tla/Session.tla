------------------------------ MODULE Session ------------------------------
(***************************************************************************)
(* One run of the app from the loading screen on: boot route, navigation   *)
(* between the screens, launch of a hand, the drill round (answer, grade,  *)
(* recap, replay), the screen transitions and the Delta Timer.  Everything *)
(* runs on the browser's main thread: input callbacks and asset answers    *)
(* arrive between frames, and a frame runs its parts in a fixed order      *)
(* (bridge/main_loop.cpp app_frame).  The frame is split into stages so    *)
(* that each part is an action; nothing happens between two stages.        *)
(*                                                                         *)
(* A hand is a number: hand n is the n-th scenario dealt, 0 stands for no  *)
(* scenario.  Durations are abstracted to "elapsed or not" at the point of *)
(* the frame where the code compares the clock.  The tutorial is inactive. *)
(***************************************************************************)
EXTENDS Integers, Sequences

CONSTANTS
  Modes,      \* the launch configurations (game mode and its custom weights)
  NoMode,     \* no launch recorded, or none pending
  Queries,    \* the page addresses considered: sequences of key-value pairs
  MaxId,      \* the largest scenario id a 64-bit integer holds
  MaxHands,   \* bound: hands dealt in one run
  MaxInputs,  \* bound: inputs handled between two frames
  Target      \* target time of a hand, in frames that count

ASSUME SessionAssumption ==
  /\ NoMode \notin Modes
  /\ MaxId \in Nat \ {0}
  /\ \A query \in Queries : \A i \in DOMAIN query :
       query[i] \in [key : {"scenario", "other"},
                    text : {"Digits", "Signed", "Mixed", "Blank"}, number : 0..MaxId + 1]
  /\ MaxHands \in Nat
  /\ MaxInputs \in Nat
  /\ Target \in Nat

VARIABLES
  stage,      \* which part of the frame runs next; "Events" is between frames
  inputs,     \* inputs handled since the last frame
  phase,      \* BootPhase
  route,      \* BootRoute, resolved from the URL before the first frame
  kicked,     \* g_tier_kicked: the asset tiers asked for
  tier1,      \* outcome of the Tier-1 load
  assets,     \* outcome of the Tier-2 assets a launch needs
  animate,    \* Screen transitions on and Reduce Motion off
  screen,     \* ScreenStateSnapshot.current
  shown,      \* ScreenStateSnapshot.active_scenario
  observed,   \* the screen the re-entry watcher saw last
  hand,       \* g_active_scenario
  dealt,      \* the mode whose filter picked the active scenario's id
  lastConfig, \* g_last_launch_config
  pending,    \* g_pending_launch
  transition, \* the TransitionState of screen_transition.cpp
  morph,      \* the Root <-> Mode Selection button morph
  modal,      \* the open modal of the modal stack
  popup,      \* CustomPopupState.open: the popup is not on the modal stack
  click,      \* the button went down since the last frame: what is drawn reads it
  timer,      \* TimerState
  sheet,      \* InterrogatorState: its hand, tiers left to show, graded or not
  recap,      \* PostRoundSnapshot
  armed,      \* the Again button shows CONFIRM
  awards      \* history: awards paid for each hand

boot == <<phase, route, kicked, tier1, assets>>
ui == <<animate, observed, morph, modal, popup, click, armed>>
table == <<screen, shown, hand, dealt, timer, sheet, recap>>
launch == <<lastConfig, pending>>
vars == <<stage, inputs, boot, ui, table, launch, transition, awards>>

Screens == {"Root", "ModeSelection", "Game", "PostRound", "Error"}
Hands == 1..MaxHands

(* ---------------------------- small state machines ---------------------- *)

\* What a ceremonial fade runs at its black midpoint.
Swaps == [to : {"Leave", "Exit", "Home"}] \cup [to : {"Launch"}, mode : Modes]

Idle == [kind |-> "None"]
Slides == {"ToPostRound", "ToGame"}
Transitions == {Idle} \cup [kind : Slides]
                 \cup [kind : {"Fade"}, swap : Swaps, swapped : BOOLEAN]

\* The boot route: the first `scenario` parameter of the page's address, when its
\* value is a number in range.
ExtractQueryParam(query, key) ==
  SelectSeq(query, LAMBDA pair : pair.key = key)
ParseScenarioId(value) == value.text = "Digits" /\ value.number \in 1..MaxId
RouteOf(query) ==
  LET given == ExtractQueryParam(query, "scenario")
  IN IF given # <<>> /\ ParseScenarioId(given[1]) THEN "Shared" ELSE "Normal"

\* What boot asks for: a shared link skips the screens that ask for the rest.
StartTieredLoading(r) == {1} \cup (IF r = "Shared" THEN {2, 3} ELSE {})

Stopped == [running |-> FALSE, paused |-> FALSE, elapsed |-> 0]
\* timer_start: a fresh round, counted from now.
Started == [running |-> TRUE, paused |-> FALSE, elapsed |-> 0]
TimeWithinTarget == timer.elapsed <= Target
\* One reading of the clock.  Bound: every overtime counts as Target + 1.
Advance(t, delta, frozen) ==
  LET total == IF t.running /\ ~t.paused THEN t.elapsed + delta ELSE t.elapsed
  IN [running |-> t.running,
      paused |-> t.running /\ frozen,
      elapsed |-> IF total > Target THEN Target + 1 ELSE total]

NoRecap == [valid |-> FALSE, id |-> 0, pass |-> FALSE, elapsed |-> 0]

\* set_screen: only Game and Post-Round keep an active scenario.
SetScreen(s, id) ==
  /\ screen' = s
  /\ shown' = IF s \in {"Game", "PostRound"} THEN id ELSE 0

\* What the subscribers of each bus event do, in the order they are called: a
\* spawn resets the answer sheet and starts the timer, an answer freezes it, an
\* exit clears it.
ScenarioSpawned(id) ==
  /\ \E tiers \in 0..1 : sheet' = [id |-> id, left |-> tiers, graded |-> FALSE]
  /\ timer' = Started
AnswersSubmitted == timer' = [timer EXCEPT !.running = FALSE]
ExitToModeSelection == timer' = Stopped

\* The launch mechanics: the new scenario becomes the active one, its spawn
\* event resets the answer sheet and starts the timer, and Game is shown.
Perform(mode) ==
  /\ hand' = hand + 1
  /\ dealt' = mode
  /\ ScenarioSpawned(hand + 1)
  /\ SetScreen("Game", hand + 1)

\* on_swap of each fade.
OnSwap(swap) ==
  \/ /\ swap.to = "Launch"
     /\ Perform(swap.mode)
     /\ UNCHANGED recap
  \/ /\ swap.to = "Exit"
     /\ ExitToModeSelection
     /\ recap' = [recap EXCEPT !.valid = FALSE]
     /\ SetScreen("ModeSelection", 0)
     /\ UNCHANGED <<hand, dealt, sheet>>
  \/ /\ swap.to \in {"Leave", "Home"}
     /\ SetScreen(IF swap.to = "Leave" THEN "ModeSelection" ELSE "Root", 0)
     /\ UNCHANGED <<hand, dealt, timer, sheet, recap>>

\* begin_ceremonial_transition: one transition at a time, an instant cut when
\* transitions are off.
BeginFade(swap) ==
  \/ /\ transition # Idle
     /\ UNCHANGED <<table, transition>>
  \/ /\ transition = Idle
     /\ ~animate
     /\ OnSwap(swap)
     /\ UNCHANGED transition
  \/ /\ transition = Idle
     /\ animate
     /\ transition' = [kind |-> "Fade", swap |-> swap, swapped |-> FALSE]
     /\ UNCHANGED table

\* begin_slide_transition as far as the transition's own state goes.
SlideBegun(kind) ==
  IF transition = Idle /\ animate THEN [kind |-> kind] ELSE transition

(* ------------------------------- launching ------------------------------ *)

\* do_launch.  The register depends on the screen the launch comes from.
DoLaunch(mode) ==
  /\ lastConfig' = mode
  /\ \/ /\ screen = "ModeSelection"
        /\ BeginFade([to |-> "Launch", mode |-> mode])
     \/ /\ screen # "ModeSelection"
        /\ Perform(mode)
        /\ transition' = IF screen = "PostRound" THEN SlideBegun("ToGame") ELSE transition
        /\ UNCHANGED recap

LaunchFails ==
  /\ pending' = NoMode
  /\ SetScreen("Error", 0)
  /\ UNCHANGED <<hand, dealt, timer, sheet, recap, transition, lastConfig>>

\* Mutant: the guard refuses failed assets but not missing ones.
RequestGameLaunchBug(mode) ==
  \/ /\ assets = "Failed"
     /\ LaunchFails
  \/ /\ assets # "Failed"
     /\ DoLaunch(mode)
     /\ UNCHANGED pending

\* request_game_launch under the Tier-2 guard.
RequestGameLaunch(mode) ==
  \/ /\ assets = "Failed"
     /\ LaunchFails
  \/ /\ assets = "Pending"
     /\ pending' = mode
     /\ UNCHANGED <<table, transition, lastConfig>>
  \/ /\ assets = "Ready"
     /\ DoLaunch(mode)
     /\ UNCHANGED pending

\* Bound: a launch is asked for only while a hand is left for it.
Outstanding == IF pending # NoMode THEN 1 ELSE 0
HandLeft == hand + Outstanding < MaxHands

(* ------------------------- input between frames ------------------------- *)

\* Mutant: input is not gated while a transition animates.
ReceiveBug ==
  /\ stage = "Events"
  /\ inputs < MaxInputs
  /\ inputs' = inputs + 1

\* Keys and clicks reach a handler only while no transition animates.
Receive ==
  /\ stage = "Events" /\ transition = Idle
  /\ inputs < MaxInputs
  /\ inputs' = inputs + 1

Interactive(s) == Receive /\ screen = s /\ modal = "None"

\* The popup's handlers sit above the screen's.
ModeSelectionInput == Interactive("ModeSelection") /\ ~popup

\* Play on Root; MorphController::start ignores a second start.
StartMorph ==
  /\ Interactive("Root")
  /\ morph = "None"
  /\ morph' = "ToMode"
  /\ UNCHANGED <<stage, boot, animate, observed, modal, popup, click, armed, table, launch, transition, awards>>

\* Home or Escape on Mode Selection: the morph in reverse.
BeginModeToRootMorph ==
  /\ ModeSelectionInput
  /\ morph' = "ToRoot"
  /\ UNCHANGED <<stage, boot, animate, observed, modal, popup, click, armed, table, launch, transition, awards>>

\* STANDARD, Aggressor or Caller on Mode Selection.
LaunchPreset ==
  /\ ModeSelectionInput
  /\ HandLeft
  /\ \E mode \in Modes : RequestGameLaunch(mode)
  /\ UNCHANGED <<stage, boot, ui, awards>>

OpenCustomPopup ==
  /\ ModeSelectionInput
  /\ popup' = TRUE
  /\ UNCHANGED <<stage, boot, animate, observed, morph, modal, click, armed, table, launch, transition, awards>>

\* Escape, whatever the screen.
CloseCustomPopup ==
  /\ \E s \in Screens : Interactive(s)
  /\ popup
  /\ popup' = FALSE
  /\ UNCHANGED <<stage, boot, animate, observed, morph, modal, click, armed, table, launch, transition, awards>>

PopupDrawn == popup /\ screen = "ModeSelection" /\ morph # "ToRoot"

\* A dismissed popup closes first; if it was its Play button, it launches then.
DismissPopup(launches) ==
  /\ popup' = FALSE
  /\ IF launches THEN HandLeft /\ \E mode \in Modes : RequestGameLaunch(mode)
                 ELSE UNCHANGED <<table, launch, transition>>

\* Space or Enter on the popup's focused Play or X.
PopupKey ==
  /\ Interactive("ModeSelection")
  /\ PopupDrawn
  /\ \E launches \in BOOLEAN : DismissPopup(launches)
  /\ UNCHANGED <<stage, boot, animate, observed, morph, modal, click, armed, awards>>

\* The popup, Game and Post-Round look at the mouse when they are drawn; Root and
\* Mode Selection handle it at once, like a key.
MouseDown ==
  /\ Receive
  /\ screen \in {"Game", "PostRound"} \/ (modal = "None" /\ PopupDrawn)
  /\ click' = TRUE
  /\ UNCHANGED <<stage, boot, animate, observed, morph, modal, popup, armed, table, launch, transition, awards>>

\* Settings, Shop or Help, from a cluster icon or a Root button.
OpenPanel ==
  /\ \E s \in Screens \ {"Error"} : Interactive(s)
  /\ screen = "ModeSelection" => ~popup
  /\ modal' = "Panel"
  /\ UNCHANGED <<stage, boot, animate, observed, morph, popup, click, armed, table, launch, transition, awards>>

\* X on Game, or Escape when the popup does not take it.
OpenLeaveDrillConfirm ==
  /\ Interactive("Game")
  /\ modal' = "Leave"
  /\ UNCHANGED <<stage, boot, animate, observed, morph, popup, click, armed, table, launch, transition, awards>>

\* Escape, No or X of any modal.
CloseModal ==
  /\ Receive /\ modal # "None"
  /\ modal' = "None"
  /\ UNCHANGED <<stage, boot, animate, observed, morph, popup, click, armed, table, launch, transition, awards>>

\* Yes of the leave-drill confirmation: close first, then fade.
LeaveDrill ==
  /\ Receive /\ modal = "Leave"
  /\ modal' = "None"
  /\ BeginFade([to |-> "Leave"])
  /\ UNCHANGED <<stage, boot, animate, observed, morph, popup, click, armed, launch, awards>>

\* The Screen transitions and Reduce Motion rows of the settings panel.
ToggleTransitions ==
  /\ Receive /\ modal = "Panel"
  /\ animate' = ~animate
  /\ UNCHANGED <<stage, boot, observed, morph, modal, popup, click, armed, table, launch, transition, awards>>

(* --------------------------- the drill round ---------------------------- *)

\* capture_and_enter: snapshot the graded hand, then slide to Post-Round.
CaptureAndEnter(pass) ==
  /\ recap' = [valid |-> TRUE, id |-> hand, pass |-> pass, elapsed |-> timer.elapsed]
  /\ armed' = FALSE
  /\ transition' = SlideBegun("ToPostRound")
  /\ IF transition = Idle /\ ~animate THEN SetScreen("PostRound", hand)
                                      ELSE UNCHANGED <<screen, shown>>

\* The award hook, after capture_and_enter among the subscribers.
Award(pass) == awards' = [awards EXCEPT ![sheet.id] = @ + (IF pass THEN 1 ELSE 0)]

\* The subscribers of GradingComplete: the recap, then the award.
GradingComplete(pass) == CaptureAndEnter(pass) /\ Award(pass)

\* Mutant: the timer keeps running after the answer.
SubmitBug ==
  /\ sheet' = [sheet EXCEPT !.graded = TRUE]
  /\ UNCHANGED timer
  /\ \E math \in BOOLEAN : GradingComplete(math /\ TimeWithinTarget)

\* on_submit: stop the timer, grade, report to the subscribers.  The math is
\* right or wrong; the time is what the timer stopped at.
Submit ==
  /\ AnswersSubmitted
  /\ sheet' = [sheet EXCEPT !.graded = TRUE]
  /\ \E math \in BOOLEAN : GradingComplete(math /\ TimeWithinTarget)

\* Enter in the math inputs: the next tier of a multi-tier hand, or submit.
EnterKey ==
  /\ Interactive("Game")
  /\ sheet.id # 0
  /\ \/ /\ sheet.left > 0
        /\ sheet' = [sheet EXCEPT !.left = @ - 1]
        /\ UNCHANGED <<screen, shown, timer, recap, armed, transition, awards>>
     \/ /\ sheet.left = 0
        /\ Submit
  /\ UNCHANGED <<stage, boot, animate, observed, morph, modal, popup, click, hand, dealt, launch>>

\* Again: the first press arms, the second commits to a replay.
PressAgain ==
  /\ armed' = ~armed
  /\ IF armed THEN HandLeft /\ RequestGameLaunch(lastConfig)
              ELSE UNCHANGED <<table, launch, transition>>

AgainKey ==
  /\ Interactive("PostRound")
  /\ PressAgain
  /\ UNCHANGED <<stage, boot, animate, observed, morph, modal, popup, click, awards>>

\* Exit and the cluster's Home fade out; Escape cuts to Root.
LeavePostRound ==
  /\ Interactive("PostRound")
  /\ \/ \E to \in {"Exit", "Home"} : BeginFade([to |-> to])
     \/ /\ ~popup
        /\ SetScreen("Root", 0)
        /\ UNCHANGED <<hand, dealt, timer, sheet, recap, transition>>
  /\ UNCHANGED <<stage, boot, ui, launch, awards>>

(* ------------------------------ asset answers --------------------------- *)

\* The Tier-1 load ends one way or the other.
Tier1Resolves ==
  /\ stage = "Events" /\ tier1 = "Pending"
  /\ tier1' \in {"Ready", "Failed"}
  /\ UNCHANGED <<stage, inputs, phase, route, kicked, assets, ui, table, launch, transition, awards>>

\* So do the assets of a launch, all of Tier 2, once that tier was asked for.
AssetsResolve ==
  /\ stage = "Events" /\ assets = "Pending"
  /\ 2 \in kicked
  /\ assets' \in {"Ready", "Failed"}
  /\ UNCHANGED <<stage, inputs, phase, route, kicked, tier1, ui, table, launch, transition, awards>>

(* ------------------------------- the frame ------------------------------ *)

\* timer_update: a modal or a transition freezes the timer.
TimerUpdate ==
  \E delta \in 0..1 : timer' = Advance(timer, delta, modal # "None" \/ transition # Idle)

\* The move that asks for Tier 3, seen from one frame to the next.
IsRootToModeTransition == observed = "Root" /\ screen = "ModeSelection"

\* The orchestrator's part of the frame: Tier 2 once the app runs, and Tier 3.
\* Asking again for a tier does nothing.
OrchestratorTick ==
  kicked' = kicked \cup (IF phase = "Running" THEN {2} ELSE {})
                   \cup (IF IsRootToModeTransition THEN {3} ELSE {})

\* The frame ticks: the re-entry watcher, which drops a morph left behind on
\* another screen, then the timer and the orchestrator.
Tick ==
  /\ stage = "Events"
  /\ stage' = "Poll"
  /\ observed' = screen
  /\ morph' = IF screen # observed /\ screen \notin {"Root", "ModeSelection"} THEN "None" ELSE morph
  /\ TimerUpdate
  /\ OrchestratorTick
  /\ inputs' = 0
  /\ UNCHANGED <<phase, route, tier1, assets, animate, modal, popup, click, armed, screen, shown, hand, dealt, sheet, recap, launch, transition, awards>>

\* Mutant: the deferred launch is looked at on Mode Selection only.
PollPendingLaunchBug ==
  /\ stage = "Poll"
  /\ stage' = "Boot"
  /\ \/ /\ pending = NoMode \/ assets = "Pending" \/ screen # "ModeSelection"
        /\ UNCHANGED <<table, launch, transition>>
     \/ /\ pending # NoMode /\ screen = "ModeSelection"
        /\ \/ assets = "Failed" /\ LaunchFails
           \/ assets = "Ready" /\ pending' = NoMode /\ DoLaunch(pending)
  /\ UNCHANGED <<inputs, boot, ui, awards>>

\* The orchestrator's tick: a deferred launch whose assets are settled.
PollPendingLaunch ==
  /\ stage = "Poll"
  /\ stage' = "Boot"
  /\ \/ /\ pending = NoMode \/ assets = "Pending"
        /\ UNCHANGED <<table, launch, transition>>
     \/ /\ pending # NoMode
        /\ \/ assets = "Failed" /\ LaunchFails
           \/ assets = "Ready" /\ pending' = NoMode /\ DoLaunch(pending)
  /\ UNCHANGED <<inputs, boot, ui, awards>>

\* has_error_screen_failure: any failed asset of Tier 1 or Tier 2.
ErrorScreenFailure == tier1 = "Failed" \/ assets = "Failed"

\* The boot phase.  While it is Loading nothing but the loading screen is drawn.
BootStep ==
  /\ stage = "Boot"
  /\ \/ /\ phase = "Running"
        /\ stage' = "Screen"
        /\ UNCHANGED <<phase, screen, shown>>
     \/ /\ phase = "Loading" /\ tier1 = "Pending" /\ ~ErrorScreenFailure
        /\ stage' = "Events"
        /\ UNCHANGED <<phase, screen, shown>>
     \/ /\ phase = "Loading" /\ ErrorScreenFailure
        /\ stage' = "Screen" /\ phase' = "Running"
        /\ SetScreen("Error", 0)
     \/ /\ phase = "Loading" /\ tier1 = "Ready" /\ ~ErrorScreenFailure
        /\ stage' = "Screen" /\ phase' = "Running"
        \* the link's scenario id stands outside the hands dealt: MaxHands + 1
        /\ IF route = "Shared" THEN SetScreen("Game", MaxHands + 1) ELSE SetScreen("Root", 0)
  /\ UNCHANGED <<inputs, route, kicked, tier1, assets, ui, hand, dealt, timer, sheet, recap, launch, transition, awards>>

Sliding == transition.kind \in Slides

\* Mutant: only the slide into Post-Round is cleared at its end.
SlideEndsBug ==
  /\ stage = "Screen" /\ Sliding
  /\ IF transition.kind = "ToPostRound" THEN transition' = Idle /\ SetScreen("PostRound", recap.id)
                                         ELSE UNCHANGED <<transition, screen, shown>>
  /\ UNCHANGED <<stage, inputs, boot, ui, hand, dealt, timer, sheet, recap, launch, awards>>

\* render_active_slide on the frame that finds the slide over: that frame draws the
\* screen the slide leads to.
SlideEnds ==
  /\ stage = "Screen" /\ Sliding
  /\ transition' = Idle
  /\ IF transition.kind = "ToPostRound" THEN SetScreen("PostRound", recap.id)
                                         ELSE UNCHANGED <<screen, shown>>
  /\ UNCHANGED <<stage, inputs, boot, ui, hand, dealt, timer, sheet, recap, launch, awards>>

\* The dispatch of Root or Mode Selection on the frame that ends its morph.
MorphEnds ==
  /\ stage = "Screen" /\ ~Sliding
  /\ \/ screen = "Root" /\ morph = "ToMode" /\ SetScreen("ModeSelection", 0)
     \/ screen = "ModeSelection" /\ morph = "ToRoot" /\ SetScreen("Root", 0)
  /\ stage' = "Overlay"
  /\ morph' = "None" /\ click' = FALSE
  /\ UNCHANGED <<inputs, boot, animate, observed, modal, popup, armed, hand, dealt, timer, sheet, recap, launch, transition, awards>>

\* A click on the drawn popup: Play, X or outside.
ClickOnPopup ==
  /\ PopupDrawn
  /\ \E launches \in BOOLEAN : DismissPopup(launches)
  /\ UNCHANGED <<morph, modal, armed>>

\* A click on Game's cluster: a panel, or X.
ClickOnGame ==
  /\ (screen = "Game" \/ Sliding) /\ hand # 0 /\ modal = "None"
  /\ modal' \in {"Panel", "Leave"}
  /\ UNCHANGED <<morph, popup, armed, table, launch, transition>>

\* A click on Post-Round, which a slide draws on either side of its swap: a panel,
\* Again, Exit or Home.  While the screen is still, or already, Game, Home starts
\* the morph, and the Game drawn after it may take the same click for its X.
ClickOnPostRound ==
  /\ (screen = "PostRound" \/ Sliding) /\ recap.valid /\ modal = "None"
  /\ \/ /\ modal' = "Panel"
        /\ UNCHANGED <<morph, armed, table, launch, transition>>
     \/ /\ PressAgain
        /\ UNCHANGED <<morph, modal>>
     \/ /\ \/ BeginFade([to |-> "Exit"])
           \/ screen = "PostRound" /\ BeginFade([to |-> "Home"])
        /\ UNCHANGED <<morph, modal, armed, launch>>
     \/ /\ screen = "Game"
        /\ morph' = "ToRoot"
        /\ modal' \in {"None"} \cup (IF transition.kind = "ToGame" THEN {"Leave"} ELSE {})
        /\ UNCHANGED <<armed, table, launch, transition>>
  /\ UNCHANGED popup

\* A frame whose drawing takes the click.
DrawClicked ==
  /\ stage = "Screen" /\ click
  /\ stage' = "Overlay"
  /\ click' = FALSE
  /\ ClickOnPopup \/ ClickOnGame \/ ClickOnPostRound
  /\ UNCHANGED <<inputs, boot, animate, observed, awards>>

\* Any other frame draws the screen, or both screens of a slide.
DrawScreen ==
  /\ stage = "Screen"
  /\ stage' = "Overlay"
  /\ click' = FALSE
  /\ UNCHANGED <<inputs, boot, animate, observed, morph, modal, popup, armed, table, launch, transition, awards>>

\* render_ceremonial_overlay: the swap at black, once, and the end of the fade,
\* on the same frame if the clock jumped over both.
FadeSwaps ==
  /\ stage = "Overlay" /\ transition.kind = "Fade" /\ ~transition.swapped
  /\ stage' = "Events"
  /\ OnSwap(transition.swap)
  /\ transition' \in {Idle, [transition EXCEPT !.swapped = TRUE]}
  /\ UNCHANGED <<inputs, boot, ui, launch, awards>>

FadeEnds ==
  /\ stage = "Overlay" /\ transition.kind = "Fade" /\ transition.swapped
  /\ stage' = "Events"
  /\ transition' = Idle
  /\ UNCHANGED <<inputs, boot, ui, table, launch, awards>>

DrawOverlay ==
  /\ stage = "Overlay"
  /\ stage' = "Events"
  /\ UNCHANGED <<inputs, boot, ui, table, launch, transition, awards>>

(* ---------------------------- the specification ------------------------- *)

Init ==
  /\ stage = "Events" /\ inputs = 0 /\ phase = "Loading"
  /\ route \in {RouteOf(query) : query \in Queries} /\ kicked = StartTieredLoading(route)
  /\ tier1 = "Pending" /\ assets = "Pending" /\ animate = TRUE
  /\ screen = "Root" /\ shown = 0 /\ observed = "Root"
  /\ hand = 0 /\ dealt = NoMode /\ lastConfig = NoMode /\ pending = NoMode
  /\ transition = Idle /\ morph = "None" /\ modal = "None" /\ popup = FALSE /\ click = FALSE
  /\ timer = Stopped /\ sheet = [id |-> 0, left |-> 0, graded |-> FALSE]
  /\ recap = NoRecap /\ armed = FALSE
  /\ awards = [h \in Hands |-> 0]

Input ==
  \/ StartMorph \/ BeginModeToRootMorph \/ LaunchPreset \/ OpenCustomPopup
  \/ CloseCustomPopup \/ PopupKey \/ MouseDown \/ OpenPanel \/ OpenLeaveDrillConfirm
  \/ CloseModal \/ LeaveDrill \/ ToggleTransitions
  \/ EnterKey \/ AgainKey \/ LeavePostRound

Frame ==
  \/ Tick \/ PollPendingLaunch \/ BootStep \/ SlideEnds \/ MorphEnds
  \/ DrawClicked \/ DrawScreen \/ FadeSwaps \/ FadeEnds \/ DrawOverlay

Next == Input \/ Tier1Resolves \/ AssetsResolve \/ Frame

\* The browser keeps calling the frame; the clock a transition is measured with
\* advances on every frame, so each threshold is crossed; and the loader settles
\* every asset (TierLoader).
Fairness ==
  /\ WF_vars(Frame)
  /\ SF_vars(SlideEnds) /\ SF_vars(FadeSwaps) /\ SF_vars(FadeEnds)
  /\ SF_vars(AssetsResolve)

Spec == Init /\ [][Next]_vars /\ Fairness

(* ------------------------------- properties ----------------------------- *)

\* Types, and screen_state.hpp's contract: only Game and Post-Round carry an
\* active scenario.
SessionTypeOK ==
  /\ stage \in {"Events", "Poll", "Boot", "Screen", "Overlay"}
  /\ inputs \in 0..MaxInputs
  /\ phase \in {"Loading", "Running"} /\ route \in {"Normal", "Shared"}
  /\ kicked \in SUBSET (1..3)
  /\ tier1 \in {"Pending", "Ready", "Failed"} /\ assets \in {"Pending", "Ready", "Failed"}
  /\ animate \in BOOLEAN /\ popup \in BOOLEAN /\ click \in BOOLEAN /\ armed \in BOOLEAN
  /\ screen \in Screens /\ observed \in Screens
  /\ shown \in 0..MaxHands + 1 /\ (shown # 0 => screen \in {"Game", "PostRound"})
  /\ hand \in 0..MaxHands
  /\ dealt \in Modes \cup {NoMode}
  /\ lastConfig \in Modes \cup {NoMode} /\ pending \in Modes \cup {NoMode}
  /\ transition \in Transitions
  /\ morph \in {"None", "ToMode", "ToRoot"} /\ modal \in {"None", "Panel", "Leave"}
  /\ timer \in [running : BOOLEAN, paused : BOOLEAN, elapsed : 0..Target + 1]
  /\ sheet \in [id : 0..MaxHands, left : 0..1, graded : BOOLEAN]
  /\ recap \in [valid : BOOLEAN, id : 0..MaxHands, pass : BOOLEAN, elapsed : 0..Target + 1]
  /\ awards \in [Hands -> Nat]

\* The screen state, the bridge's active scenario, the answer sheet and the
\* recap name the same hand.  On Game it was dealt with its assets loaded (the
\* one Game screen without a hand is that of a shared link); on Post-Round it is
\* the one just played, with the verdict and the time it was graded with, and a
\* relaunch has a mode.  (The types are part of it.)
HandsInStep ==
  /\ SessionTypeOK
  /\ screen = "Game" =>
       \/ hand = 0 /\ route = "Shared"
       \/ hand # 0 /\ shown = hand /\ sheet.id = hand /\ assets = "Ready"
  /\ screen = "PostRound" =>
       /\ recap.valid /\ recap.id = hand /\ shown = hand
       /\ sheet.id = hand /\ sheet.graded
       /\ ~timer.running /\ timer.elapsed = recap.elapsed
       /\ recap.pass => recap.elapsed <= Target
       /\ lastConfig # NoMode

\* A hand is paid for once, when its recap says it passed, and never otherwise.
PaidOnce ==
  /\ \A h \in Hands : awards[h] <= 1
  /\ recap.valid => awards[recap.id] = (IF recap.pass THEN 1 ELSE 0)
  /\ \A h \in Hands : h > hand => awards[h] = 0

\* Every transition ends: input is refused while one animates, so one that
\* never ended would leave the app dead.
TransitionsEnd == transition # Idle ~> transition = Idle

\* A launch deferred on its assets is carried out or ends on the Error screen,
\* wherever the user has gone meanwhile.
DeferredLaunchResolves == pending # NoMode ~> pending = NoMode

=============================================================================
