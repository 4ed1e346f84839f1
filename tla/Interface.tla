----------------------------- MODULE Interface ------------------------------
(***************************************************************************)
(* The whole user interface: screens, Custom popup, modal panels and the   *)
(* tutorial over one keyboard focus, one router and one frame loop.        *)
(*                                                                         *)
(* Between frames ("Events") keys and routed clicks run their handler at   *)
(* once, in the order of the router: tutorial, modal panel, popup, screen. *)
(* A frame then runs its parts in order, and each part is an action:       *)
(*   Tick    the re-entry watcher, the poll of a deferred launch, and the  *)
(*           screen registers its focus list, once per entry               *)
(*   Screen  the current screen is drawn, with the popup or the clipboard  *)
(*           fallback over it                                              *)
(*   Tour    the tutorial overlay                                          *)
(*   Panel   the top modal panel                                           *)
(* What is drawn reads the mouse by itself.                                *)
(*                                                                         *)
(* Screen transitions are off and Reduce Motion is on: cuts are instant.   *)
(* Session has the transitions, the timer and the hand.                    *)
(***************************************************************************)
EXTENDS Tutorial, Panels, EventRouter

CONSTANT
  MaxInputs   \* bound: inputs handled between two frames

ASSUME InterfaceAssumption == MaxInputs \in Nat

VARIABLES
  stage,      \* which part of the frame runs next; "Events" is between frames
  inputs,     \* inputs handled since the last frame
  click,      \* where the button went down since the last frame: in one of the windows
              \* drawn last (ImGui keeps it from the router) or outside
  drawn,      \* between frames, the windows drawn in the last one
  screen,     \* the current screen
  observed,   \* the screen the re-entry watcher saw last
  entered,    \* last_focus_screen: Root or Mode Selection, or "Error"
  morph,      \* the Root <-> Mode Selection morph
  recapFresh, \* Post-Round has not registered its list since the last capture
  complete,   \* the list Tutorial Complete registered last, "Never" for none
  assets,     \* the assets a launch needs
  pending,    \* a launch waits for them
  popup,      \* the Custom popup; "Opening" until the opening button is up
  fallback,   \* the clipboard fallback's own open flag
  astray      \* history: a list was registered, or a context popped, by a caller
              \* whose own context was not on top; a pending launch outlived its
              \* screen; a re-entry went unseen; the tutorial's script was left, or
              \* begun while Root was on its way out

frame == <<stage, inputs, click, drawn>>
watch == <<observed, entered, morph, recapFresh, complete>>
play == <<screen, assets, pending>>
panels == <<ui, member>>
tour == <<lesson, settings>>
vars == <<frame, watch, play, panels, tour, popup, fallback, astray>>

Screens == {"Root", "ModeSelection", "Game", "PostRound", "TutorialComplete"}

InterfaceTypeOK ==
  /\ TutorialTypeOK /\ PanelTypeOK
  /\ stage \in {"Events", "Screen", "Tour", "Panel"}
  /\ inputs \in 0..MaxInputs
  /\ click \in {"None", "Outside", "Popup"} \cup PanelIds
  /\ drawn \subseteq PanelIds \cup {"Popup"}
  /\ screen \in Screens /\ observed \in Screens
  /\ entered \in {"Root", "ModeSelection", "Error"}
  /\ morph \in {"None", "ToMode", "ToRoot"}
  /\ recapFresh \in BOOLEAN
  /\ complete \in {"Never", "CompleteGuest", "CompleteMember"}
  /\ assets \in {"Pending", "Ready"} /\ pending \in BOOLEAN
  /\ popup \in {"Closed", "Opening", "Open"}
  /\ fallback \in BOOLEAN /\ astray \in BOOLEAN

Init ==
  /\ TutorialInit /\ PanelInit
  /\ stage = "Events" /\ inputs = 0 /\ click = "None" /\ drawn = {}
  /\ screen = "Root" /\ observed = "Root" /\ entered = "Error" /\ morph = "None"
  /\ recapFresh = FALSE /\ complete = "Never"
  /\ assets = "Pending" /\ pending = FALSE
  /\ popup = "Closed" /\ fallback = FALSE /\ astray = FALSE

(* --------------------------- effects of a control ------------------------ *)

\* What a control of a panel may change.
acted == <<panels, tour, play, astray>>

\* A control that only opens, closes or re-lays panels.
Only(u) == ui' = u /\ UNCHANGED <<member, tour, play, astray>>

OneOf(us) == \E u \in us : Only(u)

\* set_screen, instant.  A screen entered again before the watcher saw it left keeps
\* the list of the screen in between; a launch still pending will leave the new one.
Missed(s) == s # screen /\ s = observed /\ s \in {"Root", "ModeSelection"}

\* The script has no step that goes back to Mode Selection.
OffScript(s) == Running(lesson) /\ s = "ModeSelection" /\ screen # "Root"

EnterScreen(s) == screen' = s /\ astray' = (astray \/ Missed(s) \/ OffScript(s) \/ (pending /\ s # screen))

Cut(u, s) == ui' = u /\ EnterScreen(s) /\ UNCHANGED <<member, tour, assets, pending>>

\* on_setting_change, Save, opt-in: a control may be one of the forced three or not.
Change(u) ==
  /\ ui' = u
  /\ \E value \in {settings.live, "own"} : settings' = SettingChanged(settings, value)
  /\ UNCHANGED <<member, lesson, play, astray>>

LeaveAccount(u) ==
  ui' = u /\ member' = FALSE /\ UNCHANGED <<tour, play, astray>>

\* The launch mechanics register the Game list in whatever context is on top.
Perform(u, stray) ==
  /\ screen' = "Game"
  /\ ui' = RegisterList(u, "Game")
  /\ astray' = (astray \/ stray \/ Len(u.contexts) > 1)

\* request_game_launch once the panels are as in u.  The assets did not fail.
RequestLaunch(u, stray) ==
  /\ \/ assets = "Ready" /\ Perform(u, stray) /\ UNCHANGED pending
     \/ /\ assets = "Pending" /\ pending' = TRUE
        /\ ui' = u /\ astray' = (astray \/ stray)
        /\ UNCHANGED screen
  /\ UNCHANGED <<member, tour, assets>>

\* tutorial_start: no-op while it runs, otherwise from Root with one panel closed.  A
\* morph on its way is not stopped: it then leaves Root without the script.
StartTutorial(u) ==
  \/ IsActive(lesson) /\ Only(u)
  \/ /\ ~IsActive(lesson)
     /\ lesson' = Started(lesson)
     /\ settings' = Forced(settings)
     /\ ui' = CloseModal(u)
     /\ screen' = "Root"
     /\ astray' = (astray \/ Missed("Root") \/ morph = "ToMode" \/ (pending /\ screen # "Root"))
     /\ UNCHANGED <<member, assets, pending>>

\* Mutant: skipping does not put the user's settings back.
SkipTutorialBug(u) ==
  /\ lesson' = Ended(lesson)
  /\ ui' = u
  /\ EnterScreen("Root")
  /\ UNCHANGED <<settings, member, assets, pending>>

\* tutorial_skip.  The popup may be open: its context then outlives the screen.
SkipTutorial(u) ==
  /\ lesson' = Ended(lesson)
  /\ settings' = Restored(settings)
  /\ ui' = u
  /\ screen' = "Root"
  /\ astray' = (astray \/ popup # "Closed" \/ Missed("Root") \/ pending)
  /\ UNCHANGED <<member, assets, pending>>

\* tutorial_finish_to.
FinishTo(s) ==
  /\ lesson' = Ended(lesson)
  /\ settings' = Restored(settings)
  /\ EnterScreen(s)
  /\ UNCHANGED <<panels, assets, pending>>

CompleteList == IF member THEN "CompleteMember" ELSE "CompleteGuest"

\* commit_again: the tutorial redirects it at two of its steps.
CommitAgain ==
  \/ /\ Running(lesson) /\ Advance(lesson) = "FinishTutorial"
     /\ lesson' = ReachedTheEnd(lesson)
     /\ screen' = "TutorialComplete"
     /\ astray' = (astray \/ pending)
     /\ UNCHANGED <<panels, settings, assets, pending>>
  \/ /\ ~(Running(lesson) /\ Advance(lesson) = "FinishTutorial")
     /\ RequestLaunch(ui, Running(lesson) /\ Advance(lesson) # "LaunchAggressor")

(* --------------------------- controls of the panels ---------------------- *)

\* rows: the account rows offered, by the focus list or by the drawn body.
SettingsControls(u, rows) ==
  \/ OneOf(SettingsOpens(u) \cup AccountRows(u, rows))
  \/ Change(u)
  \/ rows = "SettingsMember" /\ LeaveAccount(u)

\* Yes, once the confirmation is closed.
Confirmed(u, what) ==
  \/ what = "Leave" /\ Cut(u, "ModeSelection")
  \/ what = "Skip" /\ SkipTutorial(u)
  \/ what = "Delete" /\ LeaveAccount(u)
  \/ /\ what \in {"ResetAll", "ResetSection"}
     /\ \E value \in IF what = "ResetAll" THEN {"own"} ELSE {settings.live, "own"} :
          settings' = SettingChanged(settings, value)
     /\ ui' = u
     /\ UNCHANGED <<member, lesson, play, astray>>
  \/ what \in {"Harmless", "None"} /\ Only(u)

ConfirmControls(u) == Only(CloseModal(u)) \/ Confirmed(CloseModal(u), u.confirm)

HelpControls(u, locked) ==
  Only(CloseModal(u)) \/ (~locked /\ StartTutorial(CloseModal(u)))

\* The board without its report panel.
BoardControls(u) ==
  \/ OneOf({SwapTo(u, "Shop"), OpenReport(u)})
  \/ ~member /\ OneOf(YourRowSignsIn(u))
  \/ member /\ Change(u)

\* A submit that is refused says so in the form or in the banner.
SubmitForm(u) ==
  \/ Only(u)
  \/ /\ ui' = CloseModal(u)
     /\ member' = TRUE
     /\ \E row \in IF u.mode = "SignIn" THEN {settings.stored, "own"} ELSE {settings.stored} :
          settings' = SettingsReloaded([settings EXCEPT !.stored = row])
     /\ UNCHANGED <<lesson, play, astray>>

AuthControls(u, stops) ==
  \/ OneOf(FormLinks(u, stops))
  \/ "Submit" \in stops /\ SubmitForm(u)

(* ---------------------------- input between frames ----------------------- *)

Open(id) == \E i \in DOMAIN ui.modals : ui.modals[i] = id

\* What follows one of the known defects is not explored: besides the strays, a forced
\* setting in the store, a flag of a panel that outlives it.
Derailed ==
  \/ astray
  \/ settings.stored = "forced"
  \/ ui.forgot /\ ~Open("Auth")
  \/ fallback /\ ~Open("Fallback")

\* Bounds: so many inputs in one gap between two frames, none once derailed, and none
\* after the tutorial was completed.
Receive ==
  /\ stage = "Events" /\ inputs < MaxInputs /\ inputs' = inputs + 1
  /\ ~Derailed
  /\ complete # "Never" => lesson.phase # "Inactive"

Untouched == UNCHANGED <<stage, click, drawn>>

\* A handler that changes nothing but what a control changes.
Handled == Untouched /\ UNCHANGED <<watch, popup, fallback>>

NoModal == ~IsAnyModalOpen(ui)

\* The handlers of the command keys (Escape; Space and Enter in the layers above the
\* screens), in the order boot installs them.  The popup's two have one condition.
KeyHandlers ==
  InstalledInOrder(
    <<Handler("focus_nav", "BackgroundCatchAll"),
      Handler("mode.escape", "ScreenContext"), Handler("root.escape", "ScreenContext"),
      Handler("custom_popup", "ModalLayer"), Handler("post_round.escape", "ScreenContext"),
      Handler("modal.keys", "ModalLayer"), Handler("modal.game_escape", "ScreenContext"),
      Handler("tutorial.key", "TutorialOverlay")>>)

\* Which of them would take one now.  The tutorial lets a modal above it have the
\* keys, its prompt swallows them all; the popup is asked on whatever screen.
TutorialClaims == lesson.phase = "Prompt" \/ (IsActive(lesson) /\ NoModal)
PopupClaims == popup # "Closed"
RootClaims == NoModal /\ screen = "Root"
ModeClaims == NoModal /\ screen = "ModeSelection" /\ popup = "Closed"
GameClaims == NoModal /\ screen = "Game"
RecapClaims == NoModal /\ screen = "PostRound"

KeyTags == {KeyHandlers[i].tag : i \in DOMAIN KeyHandlers}

Claims ==
  {tag \in KeyTags :
     \/ tag = "tutorial.key" /\ TutorialClaims
     \/ tag = "modal.keys" /\ ~NoModal
     \/ tag = "custom_popup" /\ PopupClaims
     \/ tag = "root.escape" /\ RootClaims
     \/ tag = "mode.escape" /\ ModeClaims
     \/ tag = "modal.game_escape" /\ GameClaims
     \/ tag = "post_round.escape" /\ RecapClaims}

\* The handler that takes a command key now.
KeyGoesTo == Dispatch(KeyHandlers, Claims)

AssetsArrive ==
  /\ stage = "Events" /\ assets = "Pending"
  /\ assets' = "Ready"
  /\ UNCHANGED <<frame, watch, screen, pending, panels, tour, popup, fallback, astray>>

\* The prompt swallows every other key, and every click inside its panel.
AnswerPrompt ==
  /\ Receive /\ lesson.phase = "Prompt" /\ KeyGoesTo = "tutorial.key"
  /\ \/ StartTutorial(ui)
     \/ lesson' = DismissPrompt(lesson) /\ UNCHANGED <<panels, settings, play, astray>>
  /\ Handled

\* Escape, the Skip control, or the Skip button, which is a routed click.
AskToSkip ==
  /\ Receive /\ Running(lesson) /\ KeyGoesTo = "tutorial.key"
  /\ click' \in {click, IF click = "None" THEN "Outside" ELSE click}
  /\ Only(OpenConfirm(ui, "Skip"))
  /\ UNCHANGED <<stage, drawn, watch, popup, fallback>>

\* Mutant: Next also steps over the scripted actions.
NextStepBug ==
  /\ Receive /\ Running(lesson) /\ NoModal
  /\ Advance(lesson) \notin MathKinds
  /\ lesson' = AdvanceCursor(lesson)
  /\ Handled /\ UNCHANGED <<panels, settings, play, astray>>

\* Next, the digit a box asks for, Tab out of the box.
NextStep ==
  /\ Receive /\ Running(lesson) /\ NoModal
  /\ Advance(lesson) \in {"Next", "MathStage1", "MathStage2"}
  /\ lesson' = AdvanceCursor(lesson)
  /\ Handled /\ UNCHANGED <<panels, settings, play, astray>>

PreviousStep ==
  /\ Receive /\ Running(lesson) /\ NoModal
  /\ PreviousAvailable(lesson)
  /\ lesson' = StepBack(lesson)
  /\ Handled /\ UNCHANGED <<panels, settings, play, astray>>

\* perform_scripted_advance: Enter on the Primary control of an action step.
ScriptedAdvance ==
  /\ Receive /\ Running(lesson) /\ NoModal
  /\ \/ /\ Advance(lesson) \in ModalExplores \cup {"LeaderboardExplore"}
        /\ Only(OpenModal(ui, SpotPanel(Advance(lesson))))
     \/ Advance(lesson) = "LaunchCaller" /\ RequestLaunch(ui, FALSE)
     \/ Advance(lesson) \in {"LaunchAggressor", "FinishTutorial"} /\ CommitAgain
  /\ Handled

\* A click, or a key while the tutorial does not trap it, on a control of the screen:
\* during the tutorial only the spotlit control is clicked through.
Reaches(s, spots) ==
  /\ Receive /\ NoModal /\ screen = s
  /\ lesson.phase \in {"Inactive", "Complete"} \/ (Running(lesson) /\ Advance(lesson) \in spots)

StartMorph ==
  /\ Reaches("Root", {"PlayMorph"})
  /\ morph = "None"
  /\ morph' = "ToMode"
  /\ Untouched
  /\ UNCHANGED <<observed, entered, recapFresh, complete, popup, fallback, play, panels, tour, astray>>

OpenRootPanel ==
  /\ \E id \in {"Settings", "Shop", "Help"} :
       /\ Reaches("Root", {kind \in ModalExplores \cup {"LeaderboardExplore"} : SpotPanel(kind) = id})
       /\ Only(OpenModal(ui, id))
  /\ Handled

\* Mode Selection's own handlers stand back while the popup is open.
LaunchMode ==
  /\ Reaches("ModeSelection", {}) /\ popup = "Closed"
  /\ RequestLaunch(ui, FALSE)
  /\ Handled

OpenCustomPopup ==
  /\ Reaches("ModeSelection", {"CustomExplore"}) /\ popup = "Closed"
  /\ popup' = "Opening"
  /\ Only(PushContext(ui, "Popup"))
  /\ Untouched /\ UNCHANGED <<watch, fallback>>

\* Escape or Home: the reverse morph.
GoHomeFromMode ==
  /\ Reaches("ModeSelection", {}) /\ popup = "Closed"
  /\ morph' = "ToRoot"
  /\ Untouched
  /\ UNCHANGED <<observed, entered, recapFresh, complete, popup, fallback, play, panels, tour, astray>>

\* A cluster icon of Mode Selection, Game (Space) or Post-Round (Space or Enter).
ClusterPanels ==
  {OpenModal(ui, id) : id \in {"Settings", "Shop", "Help"}}
    \cup (IF screen = "Game" THEN {OpenConfirm(ui, "Leave")} ELSE {})

PressClusterIcon ==
  /\ \/ Reaches("ModeSelection", {}) /\ popup = "Closed"
     \/ Reaches("Game", {"MathTiers234"}) /\ Active(ui) = "Game"
     \/ Reaches("PostRound", {}) /\ Active(ui) = "PostRound"
  /\ OneOf(ClusterPanels)
  /\ Handled

AskToLeave ==
  /\ Receive /\ KeyGoesTo = "modal.game_escape"
  /\ Only(OpenConfirm(ui, "Leave"))
  /\ Handled

\* Enter in the last box: Game hands over to Post-Round.
SubmitAnswers ==
  /\ Reaches("Game", {"MathSubmit", "MathTiers234"})
  /\ recapFresh' = TRUE
  /\ Cut(ui, "PostRound")
  /\ Untouched /\ UNCHANGED <<observed, entered, morph, complete, popup, fallback>>

PressAgain ==
  /\ Reaches("PostRound", {}) /\ Active(ui) = "PostRound"
  /\ CommitAgain
  /\ Handled

LeavePostRound ==
  /\ Reaches("PostRound", {})
  /\ \/ Active(ui) = "PostRound" /\ \E s \in {"ModeSelection", "Root"} : Cut(ui, s)
     \/ KeyGoesTo = "post_round.escape" /\ Cut(ui, "Root")
  /\ Handled

\* Copy or Share fails: on mouse up, which the tutorial does not look at.
OpenClipboardFallback ==
  /\ Receive /\ NoModal /\ screen = "PostRound"
  /\ fallback' = TRUE
  /\ Only(OpenFallback(ui))
  /\ Untouched /\ UNCHANGED <<watch, popup>>

PressCompleteButton ==
  /\ Reaches("TutorialComplete", {})
  /\ \/ ~member /\ Only(OpenAuth(ui, "SignUp"))
     \/ \E s \in {"ModeSelection", "Root"} : FinishTo(s)
  /\ Handled

\* Escape closes the popup, wherever it was left open.
EscapePopup ==
  /\ Receive /\ KeyGoesTo = "custom_popup"
  /\ popup' = "Closed"
  /\ ui' = PopContext(ui)
  /\ astray' = (astray \/ Active(ui) # "Popup")
  /\ Untouched /\ UNCHANGED <<member, tour, play, watch, fallback>>

\* Play or X of the popup: it closes, then the launch is asked for.  The tutorial
\* locks Play.
PopupControl ==
  /\ popup' = "Closed"
  /\ \/ /\ ui' = PopContext(ui)
        /\ astray' = (astray \/ Active(ui) # "Popup")
        /\ UNCHANGED <<member, tour, play>>
     \/ ~IsActive(lesson) /\ RequestLaunch(PopContext(ui), Active(ui) # "Popup")

PressPopupControl ==
  /\ Receive /\ Active(ui) = "Popup" /\ KeyGoesTo = "custom_popup"
  /\ PopupControl
  /\ Untouched /\ UNCHANGED <<watch, fallback>>

(* -------------------------- keys of the top panel ------------------------ *)

PanelTakesKeys == Receive /\ KeyGoesTo = "modal.keys"

\* Escape closes the top panel, but only the report panel of the board.
EscapePanel ==
  /\ PanelTakesKeys
  /\ IF TopModal(ui) = "Leaderboard" /\ ui.report THEN Only([ui EXCEPT !.closing = TRUE])
                                                  ELSE Only(CloseModal(ui))
  /\ Handled

Focused(id) == TopModal(ui) = id /\ Active(ui) \in PanelLists(id) /\ PanelTakesKeys

\* Space or Enter on a stop.  The keyboard does not know the tutorial's lock.
PressSettingsStop ==
  /\ Focused("Settings") /\ ui.registry = "Settings"
  /\ Only(CloseModal(ui)) \/ SettingsControls(ui, Active(ui))
  /\ Handled

PressSubmodalStop ==
  /\ \E id \in {"Section", "Doc"} :
       /\ Focused(id) /\ ui.registry = id
       /\ \/ Only(CloseModal(ui))
          \/ id = "Section" /\ Only(SectionReset(ui))
          \/ id = "Doc" /\ Active(ui) = "DocLegal" /\ Only(RequestDocSwitch(ui))
  /\ Handled

PressAuthStop ==
  /\ Focused("Auth")
  /\ Only(CloseModal(ui)) \/ AuthControls(ui, FormStops(Active(ui)) \cap FormStops(FormOf(ui)))
  /\ Handled

PressBoardStop ==
  /\ Focused("Leaderboard")
  /\ IF ui.report
     THEN \/ Only([ui EXCEPT !.closing = TRUE])
          \/ member /\ Only([ui EXCEPT !.submitting = TRUE])
     ELSE Only(CloseModal(ui)) \/ BoardControls(ui)
  /\ Handled

PressShopStop ==
  /\ Focused("Shop")
  /\ OneOf({CloseModal(ui), SwapTo(ui, "Leaderboard")})
  /\ Handled

\* Any focus but the one control closes these two.
PressHelpStop == Focused("Help") /\ HelpControls(ui, FALSE) /\ Handled
PressConfirmStop == Focused("Confirm") /\ ConfirmControls(ui) /\ Handled

\* Help, the confirmation and the fallback close on any other focused stop.
PressForeignStop ==
  /\ \/ TopModal(ui) = "Fallback"
     \/ TopModal(ui) \in {"Help", "Confirm"} /\ Active(ui) # TopModal(ui)
  /\ PanelTakesKeys
  /\ Only(CloseModal(ui))
  /\ Handled

(* ------------------------------- the frame ------------------------------- *)

\* Mutant: the watcher does not invalidate the once-per-entry guard.
WatchedBug == entered

\* watch_screen_for_focus_reentry: what is left of the once-per-entry guard.
Watched == IF screen # observed THEN "Error" ELSE entered

Watch ==
  /\ observed' = screen
  /\ morph' = IF screen # observed /\ screen \notin {"Root", "ModeSelection"} THEN "None" ELSE morph

\* The button went down since the last frame, over a window drawn last or outside all.
Clicks ==
  IF click # "None" \/ Derailed THEN {click}
  ELSE {"None"} \cup drawn
         \cup (IF drawn # {} \/ screen \in {"Game", "PostRound"} THEN {"Outside"} ELSE {})

\* register_focus_list of a screen: into the context on top.
Register(list) ==
  /\ ui' = RegisterList(ui, list)
  /\ astray' = (astray \/ Len(ui.contexts) > 1)

LaunchIsDue == pending /\ assets = "Ready"

\* poll_pending_launch fires whatever is open by now.
FireLaunch ==
  /\ LaunchIsDue
  /\ Perform(ui, screen = "Game") /\ pending' = FALSE
  /\ entered' = Watched
  /\ UNCHANGED <<recapFresh, complete>>

\* Root, Mode Selection, Post-Round and Tutorial Complete register when they are
\* drawn, each behind its own once-per-entry guard; Game did at the launch.
EnsureFocus ==
  /\ ~LaunchIsDue
  /\ \/ /\ screen \in {"Root", "ModeSelection"} /\ Watched # screen
        /\ entered' = screen /\ Register(screen)
        /\ UNCHANGED <<recapFresh, complete>>
     \/ /\ screen = "PostRound" /\ recapFresh
        /\ recapFresh' = FALSE /\ Register(screen)
        /\ entered' = Watched /\ UNCHANGED complete
     \/ /\ screen = "TutorialComplete" /\ complete # CompleteList
        /\ complete' = CompleteList /\ Register(CompleteList)
        /\ entered' = Watched /\ UNCHANGED recapFresh
     \/ /\ CASE screen = "PostRound" -> ~recapFresh
            [] screen = "TutorialComplete" -> complete = CompleteList
            [] screen = "Game" -> TRUE
            [] OTHER -> Watched = screen
        /\ entered' = Watched /\ UNCHANGED <<ui, astray, recapFresh, complete>>
  /\ UNCHANGED <<screen, pending>>

\* The ticks of a frame, up to the drawing of the screen.
Tick ==
  /\ stage = "Events" /\ stage' = "Screen"
  /\ inputs' = 0 /\ click' \in Clicks /\ drawn' = {}
  /\ Watch
  /\ FireLaunch \/ EnsureFocus
  /\ UNCHANGED <<assets, member, tour, popup, fallback>>

\* A morph that is due ends with the other screen, and leaves an open popup behind.
DrawMorph ==
  /\ screen \in {"Root", "ModeSelection"} /\ morph = IF screen = "Root" THEN "ToMode" ELSE "ToRoot"
  /\ morph' = "None"
  /\ screen' = IF screen = "Root" THEN "ModeSelection" ELSE "Root"
  /\ astray' = (astray \/ Missed(screen') \/ pending \/ popup # "Closed")
  /\ UNCHANGED <<ui, member, tour, assets, pending, observed, entered, recapFresh, complete, popup, fallback>>

\* The popup closes on a click outside, but not on the click that opened it.
DrawPopup ==
  /\ screen = "ModeSelection" /\ morph # "ToRoot" /\ popup # "Closed"
  /\ \/ popup' = (IF click = "None" THEN "Open" ELSE popup) /\ UNCHANGED acted
     \/ click = "Popup" /\ PopupControl
     \/ /\ click = "Outside" /\ popup = "Open"
        /\ popup' = "Closed"
        /\ ui' = PopContext(ui)
        /\ astray' = (astray \/ Active(ui) # "Popup")
        /\ UNCHANGED <<member, tour, play>>
  /\ UNCHANGED <<watch, fallback>>

\* The screens that look at the mouse while they are drawn.
ScreenIsClicked ==
  /\ click # "None" /\ NoModal
  /\ \/ screen \in {"Game", "PostRound"} /\ ~IsActive(lesson) /\ OneOf(ClusterPanels)
     \/ screen = "PostRound" /\ CommitAgain
     \/ /\ screen = "PostRound" /\ ~IsActive(lesson)
        /\ \E s \in {"ModeSelection", "Root"} : Cut(ui, s)
  /\ UNCHANGED <<watch, popup, fallback>>

\* The X of the clipboard fallback, drawn from its own flag.
FallbackIsClicked ==
  /\ screen = "PostRound" /\ fallback /\ click = "Fallback"
  /\ fallback' = FALSE
  /\ ui' = CloseFallback(ui)
  /\ astray' = (astray \/ TopModal(ui) # "Fallback")
  /\ UNCHANGED <<member, tour, play, watch, popup>>

DrawScreen ==
  /\ stage = "Screen" /\ stage' = "Tour"
  /\ \/ DrawMorph
     \/ DrawPopup
     \/ ScreenIsClicked
     \/ FallbackIsClicked
     \/ /\ morph # (IF screen = "Root" THEN "ToMode" ELSE "ToRoot") \/ screen \notin {"Root", "ModeSelection"}
        /\ UNCHANGED <<acted, watch, popup, fallback>>
  /\ UNCHANGED <<inputs, click, drawn>>

\* render_tutorial_overlay.
DrawTour ==
  /\ stage = "Tour" /\ stage' = "Panel"
  /\ lesson' = PollAdvance(MaybeTriggerPrompt(lesson, screen), screen, TopModal(ui), popup # "Closed")
  /\ UNCHANGED <<inputs, click, drawn, watch, play, panels, settings, popup, fallback, astray>>

(* --------------------------- drawing the top panel ----------------------- *)

\* Settings and its two sub-modals share a window.
WindowOf(id) == IF id \in {"Section", "Doc"} THEN "Settings" ELSE id

\* What is served before the body of a panel is drawn.
Serviced(u) ==
  CASE TopModal(u) = "Settings" -> RefreshAccountSection(u)
    [] TopModal(u) = "Doc" -> ServeDocSwitch(u)
    [] OTHER -> u

Locked == IsActive(lesson)

\* A click on a control of the panel; the tutorial disables most of them.
PanelControls(u) ==
  CASE TopModal(u) = "Settings" ->
         Only(CloseModal(u)) \/ (~Locked /\ SettingsControls(u, SettingsList))
    [] TopModal(u) = "Section" -> OneOf({CloseModal(u), SectionReset(u)})
    [] TopModal(u) = "Doc" -> OneOf({CloseModal(u)} \cup IF u.doc = "About" THEN {} ELSE {RequestDocSwitch(u)})
    [] TopModal(u) = "Auth" -> Only(CloseModal(u)) \/ AuthControls(u, FormStops(FormOf(u)))
    [] TopModal(u) = "Shop" -> OneOf({CloseModal(u), SwapTo(u, "Leaderboard")})
    [] TopModal(u) = "Help" -> HelpControls(u, Locked)
    [] TopModal(u) = "Confirm" -> ConfirmControls(u)

PanelIsDrawn(u) ==
  \/ Only([u EXCEPT !.fresh = @ /\ click # "None"])
  \/ click = WindowOf(TopModal(u)) /\ PanelControls(u)
  \/ click = "Outside" /\ ~u.fresh /\ Only(CloseModal(u))

\* A click on the board or on its report panel, before the requests are served.
BoardClicks(u) ==
  (IF u.report THEN {[u EXCEPT !.closing = TRUE], [u EXCEPT !.submitting = member]}
               ELSE {OpenReport(u)})
    \cup (IF member THEN {} ELSE YourRowSignsIn(u))

\* render_leaderboard_view: clicks, then the requests, then swap or dismissal.
BoardIsDrawn(u) ==
  LET inside == click = "Leaderboard"
  IN  \/ \E v \in IF inside THEN BoardClicks(u) ELSE {} : \E w \in ServeReport(v) :
           /\ ui' = w
           /\ astray' = (astray \/ (TopModal(v) # "Leaderboard" /\ w # v))
           /\ UNCHANGED <<member, tour, play>>
      \/ \E w \in ServeReport(u) :
           \/ OneOf({[w EXCEPT !.fresh = @ /\ click # "None"]}
                       \cup (IF inside THEN {SwapTo(w, "Shop"), CloseModal(w)} ELSE {})
                       \cup (IF click = "Outside" /\ ~w.fresh THEN {CloseModal(w)} ELSE {}))
           \/ inside /\ member /\ Change(w)

\* render_modal_overlay; the clipboard fallback is not one of its panels.
DrawPanel ==
  /\ stage = "Panel" /\ stage' = "Events"
  /\ CASE TopModal(ui) \in {"None", "Fallback"} -> UNCHANGED acted
       [] TopModal(ui) = "Leaderboard" -> BoardIsDrawn(ui)
       [] OTHER -> PanelIsDrawn(Serviced(ui))
  /\ click' = "None"
  /\ drawn' = {WindowOf(id) : id \in {TopModal(ui)} \ {"None", "Fallback"}}
                \cup (IF popup # "Closed" /\ screen = "ModeSelection" THEN {"Popup"} ELSE {})
                \cup (IF fallback /\ screen = "PostRound" THEN {"Fallback"} ELSE {})
  /\ UNCHANGED <<inputs, watch, popup, fallback>>

(* ----------------------------- specification ----------------------------- *)

Input ==
  \/ AnswerPrompt \/ AskToSkip \/ NextStep \/ PreviousStep \/ ScriptedAdvance
  \/ StartMorph \/ OpenRootPanel \/ LaunchMode \/ OpenCustomPopup \/ GoHomeFromMode
  \/ PressClusterIcon \/ AskToLeave \/ SubmitAnswers \/ PressAgain \/ LeavePostRound
  \/ OpenClipboardFallback \/ PressCompleteButton \/ EscapePopup \/ PressPopupControl
  \/ EscapePanel \/ PressSettingsStop \/ PressSubmodalStop \/ PressAuthStop
  \/ PressBoardStop \/ PressShopStop \/ PressHelpStop \/ PressConfirmStop \/ PressForeignStop

Frame == Tick \/ DrawScreen \/ DrawTour \/ DrawPanel

Next == Input \/ AssetsArrive \/ Frame

Spec == Init /\ [][Next]_vars

(* ------------------------------- properties ------------------------------ *)

\* The two stacks belong together: one context per open panel, one for the popup and
\* one for the screen.  A panel dropped at the cap of the modal stack, a pop too many
\* or too few would part them for good, and Tab would work on the wrong controls.
\* (The types are part of it.)
StacksInStep ==
  /\ InterfaceTypeOK
  /\ ~astray =>
       /\ Len(ui.contexts) = 1 + Len(ui.modals) + (IF popup = "Closed" THEN 0 ELSE 1)
       /\ Len(ui.modals) < kMaxModalDepth

\* The lists Tab may walk through: those of the top panel, else of the popup, else of
\* the screen.
ExpectedLists ==
  IF IsAnyModalOpen(ui) THEN PanelLists(TopModal(ui))
  ELSE IF popup # "Closed" THEN {"Popup"}
  ELSE IF screen = "TutorialComplete" THEN {"CompleteGuest", "CompleteMember"}
  ELSE {screen}

\* Whenever a screen is about to be drawn, the keyboard is trapped in the top panel, in
\* the popup or in that screen, however it was entered: the re-entry watcher and the
\* once-per-entry guards leave no list of an earlier screen.  Settings and its two
\* sub-modals fill one registry of stops, which always has those of the one on top, so
\* that a key never acts on a stop of the panel underneath.
FocusIsTrapped ==
  ~astray =>
    /\ stage = "Screen" => Active(ui) \in ExpectedLists
    /\ TopModal(ui) \in {"Settings", "Section", "Doc"} => ui.registry = TopModal(ui)

\* However the tutorial ends (finished, skipped, after a sign-in on its last screen),
\* a user whose profile holds no forced setting plays with none.
ForcingEndsWithTheLesson ==
  /\ settings.on <=> lesson.phase \in {"Active", "Complete"}
  /\ lesson.phase \notin {"Active", "Complete"} /\ settings.stored = "own" /\ settings.saved = "own" =>
       settings.live = "own"

\* The cursor of the script and the screen advance by different hands (keys, morphs,
\* launches, submissions): once polled, the step is one of the screen that is shown.
ScriptFollowsScreen ==
  ~astray /\ stage = "Panel" /\ Running(lesson) => screen = Script[lesson.cursor].at

\* A frame that draws Settings leaves it with the focus list of the account as it is:
\* its account rows follow a sign-in or a sign-out that came from a panel above it.
RowsFollowTheAccount ==
  [][stage = "Panel" /\ TopModal(ui) = "Settings" /\ TopModal(ui') = "Settings" /\ member' = member
       => Active(ui') = SettingsList]_vars

\* tutorial.hpp: the forced values live in memory only, the profile never holds them.
ForcedNeverPersisted == settings.stored # "forced"
=============================================================================
