--------------------------- MODULE SessionProofs ---------------------------
(***************************************************************************)
(* Proofs about Session, for any number of hands, modes, page addresses    *)
(* and target times.                                                       *)
(*                                                                         *)
(* Base is the invariant of every run: the types; Table, which ties the    *)
(* screen, the launches under way and the awards to the hands dealt; and   *)
(* Booting, what cannot happen before the loading screen is gone.  Steps   *)
(* reach the table through a few operators only, so there is a lemma for   *)
(* each of those and a short one for each action.  On top of it Recapped   *)
(* and Arming tie Post-Round to the hand just played; the one step that    *)
(* can break them is named DealtUnderTheRecap.                             *)
(***************************************************************************)
EXTENDS Session, TLAPS

\* A fade that has still to deal a hand at its black midpoint.
LaunchFades == [kind : {"Fade"}, swap : [to : {"Launch"}, mode : Modes], swapped : {FALSE}]

Faded == IF transition \in LaunchFades THEN 1 ELSE 0

\* The types of everything that is not on the table.
UiTypes ==
  /\ stage \in {"Events", "Poll", "Boot", "Screen", "Overlay"}
  /\ inputs \in 0..MaxInputs
  /\ phase \in {"Loading", "Running"} /\ route \in {"Normal", "Shared"}
  /\ kicked \in SUBSET (1..3)
  /\ tier1 \in {"Pending", "Ready", "Failed"} /\ assets \in {"Pending", "Ready", "Failed"}
  /\ animate \in BOOLEAN /\ popup \in BOOLEAN /\ click \in BOOLEAN /\ armed \in BOOLEAN
  /\ observed \in Screens
  /\ morph \in {"None", "ToMode", "ToRoot"} /\ modal \in {"None", "Panel", "Leave"}

TableTypes ==
  /\ screen \in Screens
  /\ shown \in 0..MaxHands + 1 /\ (shown # 0 => screen \in {"Game", "PostRound"})
  /\ hand \in 0..MaxHands
  /\ dealt \in Modes \cup {NoMode}
  /\ lastConfig \in Modes \cup {NoMode} /\ pending \in Modes \cup {NoMode}
  /\ transition \in Transitions
  /\ timer \in [running : BOOLEAN, paused : BOOLEAN, elapsed : 0..Target + 1]
  /\ sheet \in [id : 0..MaxHands, left : 0..1, graded : BOOLEAN]
  /\ recap \in [valid : BOOLEAN, id : 0..MaxHands, pass : BOOLEAN, elapsed : 0..Target + 1]
  /\ awards \in [Hands -> Nat]

\* No more hands are dealt, or on their way, than the bound leaves room for.
Within == hand + Outstanding + Faded <= MaxHands

\* Hands are dealt with their assets loaded.
Dealing ==
  /\ sheet.id = hand
  /\ hand # 0 \/ transition \in LaunchFades => assets = "Ready" /\ lastConfig # NoMode
  /\ transition \in LaunchFades => screen # "PostRound"
  /\ screen = "PostRound" \/ recap.valid \/ Sliding \/ sheet.graded => hand # 0

\* Game shows the hand it was dealt, and a graded hand is on its way out.
Playing ==
  /\ screen = "Game" => (hand = 0 /\ route = "Shared") \/ (hand # 0 /\ shown = hand)
  /\ screen = "Game" /\ sheet.graded => transition.kind = "ToPostRound"

\* Who was paid for what.
Paying ==
  /\ \A h \in Hands : awards[h] <= 1
  /\ \A h \in Hands : h > hand => awards[h] = 0
  /\ hand # 0 /\ ~sheet.graded => awards[hand] = 0
  /\ recap.valid => recap.id # 0 /\ awards[recap.id] = (IF recap.pass THEN 1 ELSE 0)

Table == TableTypes /\ Within /\ Dealing /\ Playing /\ Paying

\* The loading screen comes before everything else.
Booting ==
  /\ phase = "Loading" =>
       /\ screen = "Root" /\ hand = 0 /\ transition = Idle /\ pending = NoMode
       /\ modal # "Leave" /\ stage \in {"Events", "Poll", "Boot"}

Base == UiTypes /\ Table /\ Booting

----------------------------------------------------------------------------
(* What the operators that reach the table do to it. *)

\* What a step leaves of the world around the table.
Around == (assets = "Ready" => assets' = "Ready") /\ route' = route

\* A step that deals nothing, and asks for nothing.
LEMMA SameBudget ==
  ASSUME Within, UNCHANGED <<hand, pending, transition>>
  PROVE  Within'
  BY DEF Within, Outstanding, Faded

\* A step that leaves the table alone.
LEMMA QuietTable ==
  ASSUME Table, Around, UNCHANGED <<table, launch, transition, awards>>
  PROVE  Table'
<1>1. TableTypes'
  BY DEF Table, TableTypes, table, launch
<1>2. Within'
  BY SameBudget DEF Table, table, launch
<1>3. Dealing' /\ Playing'
  BY DEF Table, Dealing, Playing, Around, table, launch, Sliding
<1>4. Paying'
  BY DEF Table, Paying, table
<1>. QED
  BY <1>1, <1>2, <1>3, <1>4 DEF Table

\* A screen with no hand on it takes the place of the one that was.
LEMMA ScreenTable ==
  ASSUME Table, Around, NEW s \in {"Root", "ModeSelection", "Error"}, SetScreen(s, 0),
         UNCHANGED <<hand, dealt, timer, sheet, recap, launch, transition, awards>>
  PROVE  Table'
<1>1. screen' = s /\ shown' = 0
  BY DEF SetScreen
<1>2. TableTypes'
  BY <1>1, SessionAssumption DEF Table, TableTypes, launch, Screens
<1>3. Within'
  BY SameBudget DEF Table, launch
<1>4. Dealing' /\ Playing'
  BY <1>1 DEF Table, Dealing, Playing, Around, launch, Sliding
<1>5. Paying'
  BY DEF Table, Paying
<1>. QED
  BY <1>2, <1>3, <1>4, <1>5 DEF Table

\* The clock of the hand on the table.
LEMMA TimerTable ==
  ASSUME Table, Around, timer' \in [running : BOOLEAN, paused : BOOLEAN, elapsed : 0..Target + 1],
         UNCHANGED <<screen, shown, hand, dealt, sheet, recap, launch, transition, awards>>
  PROVE  Table'
<1>1. TableTypes'
  BY DEF Table, TableTypes, launch
<1>2. Within'
  BY SameBudget DEF Table, launch
<1>3. Dealing' /\ Playing'
  BY DEF Table, Dealing, Playing, Around, launch, Sliding
<1>4. Paying'
  BY DEF Table, Paying
<1>. QED
  BY <1>1, <1>2, <1>3, <1>4 DEF Table

\* A new hand is dealt.
LEMMA PerformTable ==
  ASSUME Table, Around, assets = "Ready", NEW mode \in Modes, Perform(mode),
         UNCHANGED <<recap, awards>>,
         lastConfig' \in Modes, pending' \in Modes \cup {NoMode}, transition' \in Transitions,
         Within'
  PROVE  Table'
<1>1. PICK tiers \in 0..1 : sheet' = [id |-> hand + 1, left |-> tiers, graded |-> FALSE]
  BY DEF Perform, ScenarioSpawned
<1>2. /\ hand' = hand + 1 /\ dealt' = mode /\ timer' = Started
      /\ screen' = "Game" /\ shown' = hand + 1
  BY DEF Perform, ScenarioSpawned, SetScreen
<1>3. hand \in Nat /\ hand + 1 \in Nat /\ MaxHands \in Nat /\ Target \in Nat
  BY SessionAssumption DEF Table, TableTypes
<1>5. hand + 1 <= MaxHands
  <2>. DEFINE o == Outstanding'
              f == Faded'
  <2>1. o \in Nat /\ f \in Nat
    BY DEF Outstanding, Faded
  <2>2. hand + 1 + o + f <= MaxHands
    BY <1>2 DEF Within
  <2>. HIDE DEF o, f
  <2>. QED
    BY <1>3, <2>1, <2>2
<1>6. TableTypes'
  BY <1>1, <1>2, <1>3, <1>5 DEF Table, TableTypes, Screens, Started
<1>7. Dealing'
  BY <1>1, <1>2, <1>3, SessionAssumption DEF Table, TableTypes, Dealing, Around
<1>8. Playing'
  BY <1>1, <1>2, <1>3 DEF Playing
<1>9. Paying'
  <2>1. hand + 1 \in Hands /\ awards[hand + 1] = 0
    BY <1>3, <1>5 DEF Table, Paying, Hands
  <2>. QED
    BY <1>1, <1>2, <1>3, <2>1 DEF Table, TableTypes, Paying, Hands
<1>. QED
  BY <1>6, <1>7, <1>8, <1>9 DEF Table

Leaving == [to : {"Leave", "Exit", "Home"}]

\* A fade away from the table reaches its midpoint, or is cut to it.
LEMMA LeaveTable ==
  ASSUME Table, Around, NEW swap \in Leaving, OnSwap(swap), UNCHANGED <<launch, awards>>,
         transition' \in Transitions, transition' \notin LaunchFades, ~Sliding'
  PROVE  Table'
<1>0. /\ screen' \in {"ModeSelection", "Root"} /\ shown' = 0
      /\ UNCHANGED <<hand, dealt, sheet>>
      /\ timer' \in {timer, Stopped}
      /\ recap' = recap \/ recap' = [recap EXCEPT !.valid = FALSE]
  BY DEF Leaving, OnSwap, ExitToModeSelection, SetScreen
<1>1. hand \in Nat /\ MaxHands \in Nat /\ Target \in Nat
  BY SessionAssumption DEF Table, TableTypes
<1>2. TableTypes'
  <2>1. timer' \in [running : BOOLEAN, paused : BOOLEAN, elapsed : 0..Target + 1]
    <3>1. timer \in [running : BOOLEAN, paused : BOOLEAN, elapsed : 0..Target + 1]
      BY DEF Table, TableTypes
    <3>2. Stopped \in [running : BOOLEAN, paused : BOOLEAN, elapsed : 0..Target + 1]
      BY <1>1 DEF Stopped
    <3>. QED
      BY <1>0, <3>1, <3>2
  <2>2. recap' \in [valid : BOOLEAN, id : 0..MaxHands, pass : BOOLEAN, elapsed : 0..Target + 1]
    BY <1>0 DEF Table, TableTypes
  <2>. QED
    BY <1>0, <1>1, <2>1, <2>2 DEF Table, TableTypes, launch, Screens
<1>3. Within'
  <2>1. Outstanding' = Outstanding /\ Faded' = 0
    BY DEF Outstanding, Faded, launch
  <2>. DEFINE o == Outstanding
              f == Faded
  <2>2. o \in Nat /\ f \in Nat
    BY DEF Outstanding, Faded
  <2>3. hand + o + f <= MaxHands
    BY DEF Table, Within
  <2>4. Within' <=> hand + o + 0 <= MaxHands
    BY <1>0, <2>1 DEF Within
  <2>. HIDE DEF o, f
  <2>. QED
    BY <1>1, <2>2, <2>3, <2>4
<1>4. recap'.valid => recap.valid /\ recap' = recap
  BY <1>0 DEF Table, TableTypes
<1>5. Dealing' /\ Playing'
  BY <1>0, <1>4 DEF Table, Dealing, Playing, Around, launch
<1>6. Paying'
  BY <1>0, <1>4 DEF Table, Paying
<1>. QED
  BY <1>2, <1>3, <1>5, <1>6 DEF Table

\* A fade away from the table begins, or is cut short, or is refused.
LEMMA BeginLeaveTable ==
  ASSUME Table, Around, NEW swap \in Leaving, BeginFade(swap), UNCHANGED <<launch, awards>>
  PROVE  Table'
<1>1. CASE UNCHANGED <<table, transition>>
  BY <1>1, QuietTable
<1>2. CASE transition = Idle /\ OnSwap(swap) /\ UNCHANGED transition
  <2>1. transition' \in Transitions /\ transition' \notin LaunchFades /\ ~Sliding'
    BY <1>2 DEF Idle, Transitions, LaunchFades, Sliding, Slides
  <2>. QED
    BY <1>2, <2>1, LeaveTable
<1>3. CASE /\ transition = Idle /\ UNCHANGED table
           /\ transition' = [kind |-> "Fade", swap |-> swap, swapped |-> FALSE]
  <2>1. swap \in Swaps /\ swap \notin [to : {"Launch"}, mode : Modes]
    BY DEF Leaving, Swaps
  <2>2. transition' \in Transitions /\ transition' \notin LaunchFades /\ ~Sliding'
        /\ transition.kind = "None" /\ transition \notin LaunchFades
    BY <1>3, <2>1 DEF Transitions, LaunchFades, Sliding, Slides, Idle
  <2>3. TableTypes'
    BY <1>3, <2>2 DEF Table, TableTypes, table, launch
  <2>4. Within'
    BY <1>3, <2>2 DEF Table, Within, Outstanding, Faded, table, launch
  <2>5. Dealing' /\ Playing'
    BY <1>3, <2>2 DEF Table, Dealing, Playing, Around, table, launch
  <2>6. Paying'
    BY <1>3 DEF Table, Paying, table
  <2>. QED
    BY <2>3, <2>4, <2>5, <2>6 DEF Table
<1>. QED
  BY <1>1, <1>2, <1>3 DEF BeginFade

\* A fade has a kind of its own.
LEMMA Kinds ==
  /\ \A t \in LaunchFades : t.kind = "Fade" /\ ~t.swapped /\ t # Idle
  /\ \A kind \in Slides : [kind |-> kind] \in Transitions /\ [kind |-> kind] \notin LaunchFades
<1>1. \A t \in LaunchFades : t.kind = "Fade" /\ ~t.swapped
  BY DEF LaunchFades
<1>2. Idle.kind = "None" /\ \A kind \in Slides : [kind |-> kind].kind \in {"ToPostRound", "ToGame"}
  BY DEF Idle, Slides
<1>3. \A kind \in Slides : [kind |-> kind] \in [kind : Slides]
  OBVIOUS
<1>. QED
  BY <1>1, <1>2, <1>3 DEF Transitions

\* The slide that may begin.
LEMMA SlideTypes ==
  ASSUME Table, NEW kind \in Slides
  PROVE  /\ SlideBegun(kind) \in Transitions
         /\ SlideBegun(kind) \in LaunchFades => transition \in LaunchFades
         /\ SlideBegun(kind).kind \in {kind, transition.kind}
<1>1. CASE SlideBegun(kind) = [kind |-> kind]
  BY <1>1, Kinds
<1>2. CASE SlideBegun(kind) = transition
  BY <1>2 DEF Table, TableTypes
<1>. QED
  BY <1>1, <1>2 DEF SlideBegun

\* Room for one hand more, and what is on its way already.
Room == hand + Outstanding' + Faded < MaxHands
NoLess == hand + Outstanding' + Faded <= MaxHands

\* A launch whose assets are loaded.
LEMMA DoLaunchTable ==
  ASSUME Table, Around, assets = "Ready", NEW mode \in Modes, DoLaunch(mode), awards' = awards,
         pending' \in Modes \cup {NoMode},
         Room \/ (transition # Idle /\ screen = "ModeSelection" /\ NoLess)
  PROVE  Table'
<1>. DEFINE o == Outstanding'
            f == Faded
            g == Faded'
<1>0. /\ hand \in Nat /\ MaxHands \in Nat /\ o \in Nat /\ f \in Nat /\ g \in Nat
      /\ lastConfig' = mode /\ mode # NoMode
  BY SessionAssumption DEF Table, TableTypes, Outstanding, Faded, DoLaunch
<1>a. /\ Room <=> hand + o + f < MaxHands
      /\ NoLess <=> hand + o + f <= MaxHands
      /\ hand' = hand => (Within' <=> hand + o + g <= MaxHands)
      /\ hand' = hand + 1 => (Within' <=> hand + 1 + o + g <= MaxHands)
  BY DEF Room, NoLess, Within
<1>b. transition \notin LaunchFades => f = 0
  BY DEF Faded
<1>c. transition' = transition => g = f
  BY DEF Faded
<1>d. g \in {0, 1} /\ f \in {0, 1}
  BY DEF Faded
<1>e. transition' \notin LaunchFades => g = 0
  BY DEF Faded
<1>. HIDE DEF o, f, g
<1>1. CASE screen = "ModeSelection"
  <2>. DEFINE swap == [to |-> "Launch", mode |-> mode]
  <2>1. BeginFade(swap)
    BY <1>1 DEF DoLaunch
  <2>2. CASE transition # Idle /\ UNCHANGED <<table, transition>>
    <3>1. Within'
      <4>. QED
        BY <1>0, <1>a, <1>c, <2>2 DEF table
    <3>2. TableTypes'
      BY <1>0, <2>2 DEF Table, TableTypes, table
    <3>3. Dealing' /\ Playing'
      BY <1>0, <2>2 DEF Table, Dealing, Playing, Around, table, Sliding
    <3>4. Paying'
      BY <2>2 DEF Table, Paying, table
    <3>. QED
      BY <3>1, <3>2, <3>3, <3>4 DEF Table
  <2>3. CASE transition = Idle /\ OnSwap(swap) /\ UNCHANGED transition
    <3>1. Perform(mode) /\ UNCHANGED recap
      BY <2>3 DEF OnSwap
    <3>2. transition' \in Transitions /\ hand' = hand + 1
      BY <2>3, <3>1 DEF Table, TableTypes, Perform
    <3>3. Within'
      BY <1>0, <1>a, <1>c, <2>3, <3>2
    <3>. QED
      BY <1>0, <3>1, <3>2, <3>3, PerformTable
  <2>4. CASE /\ transition = Idle /\ UNCHANGED table
             /\ transition' = [kind |-> "Fade", swap |-> swap, swapped |-> FALSE]
    <3>1. swap \in Swaps /\ swap \in [to : {"Launch"}, mode : Modes]
      BY DEF Swaps
    <3>2. transition' \in Transitions /\ transition' \in LaunchFades /\ transition'.kind = "Fade"
          /\ transition.kind = "None" /\ transition \notin LaunchFades
      BY <2>4, <3>1 DEF Transitions, LaunchFades, Idle
    <3>3. Within'
      BY <1>0, <1>a, <1>b, <1>d, <2>4, <3>2 DEF table
    <3>4. TableTypes'
      BY <1>0, <2>4, <3>2 DEF Table, TableTypes, table
    <3>5. Dealing' /\ Playing'
      BY <1>0, <1>1, <2>4, <3>2 DEF Table, Dealing, Playing, Around, table, Sliding, Slides
    <3>6. Paying'
      BY <2>4 DEF Table, Paying, table
    <3>. QED
      BY <3>3, <3>4, <3>5, <3>6 DEF Table
  <2>. QED
    BY <2>1, <2>2, <2>3, <2>4 DEF BeginFade
<1>2. CASE screen # "ModeSelection"
  <2>1. /\ Perform(mode) /\ UNCHANGED recap
        /\ transition' = IF screen = "PostRound" THEN SlideBegun("ToGame") ELSE transition
    BY <1>2 DEF DoLaunch
  <2>2. transition' \in Transitions /\ (transition' \in LaunchFades => transition' = transition)
    <3>1. SlideBegun("ToGame") = transition \/ SlideBegun("ToGame") = [kind |-> "ToGame"]
      BY DEF SlideBegun
    <3>. QED
      BY <2>1, <3>1, Kinds DEF Table, TableTypes, Slides
  <2>4. Within'
    BY <1>0, <1>2, <1>a, <1>c, <1>d, <1>e, <2>1, <2>2 DEF Perform
  <2>. QED
    BY <1>0, <2>1, <2>2, <2>4, PerformTable
<1>. QED
  BY <1>1, <1>2

\* A launch whose assets failed.
LEMMA FailTable ==
  ASSUME Table, Around, assets = "Failed", LaunchFails, awards' = awards
  PROVE  Table'
<1>1. /\ hand = 0 /\ transition \notin LaunchFades /\ MaxHands \in Nat
  BY SessionAssumption DEF Table, Dealing
<1>2. screen' = "Error" /\ shown' = 0 /\ pending' = NoMode
      /\ UNCHANGED <<hand, dealt, timer, sheet, recap, transition, lastConfig>>
  BY DEF LaunchFails, SetScreen
<1>3. Within'
  BY <1>1, <1>2 DEF Within, Outstanding, Faded
<1>4. TableTypes'
  BY <1>2, SessionAssumption DEF Table, TableTypes, Screens
<1>5. Dealing' /\ Playing'
  BY <1>2 DEF Table, Dealing, Playing, Around, Sliding
<1>6. Paying'
  BY <1>2 DEF Table, Paying
<1>. QED
  BY <1>3, <1>4, <1>5, <1>6 DEF Table

\* A launch that is asked for.
LEMMA RequestTable ==
  ASSUME Table, Around, UNCHANGED <<assets, awards>>, NEW mode \in Modes, RequestGameLaunch(mode),
         HandLeft, transition \in LaunchFades => screen = "ModeSelection",
         assets \in {"Pending", "Ready", "Failed"}
  PROVE  Table'
<1>0. hand \in Nat /\ MaxHands \in Nat
  BY SessionAssumption DEF Table, TableTypes
<1>1. CASE assets = "Failed" /\ LaunchFails
  BY <1>1, FailTable
<1>2. CASE assets = "Pending" /\ pending' = mode /\ UNCHANGED <<table, transition, lastConfig>>
  <2>1. /\ hand = 0 /\ transition \notin LaunchFades
    BY <1>2 DEF Table, Dealing
  <2>2. 0 < MaxHands
    BY <1>0, <2>1 DEF HandLeft, Outstanding
  <2>3. Within'
    BY <1>0, <1>2, <2>1, <2>2 DEF Within, Outstanding, Faded, table
  <2>4. TableTypes'
    BY <1>2 DEF Table, TableTypes, table
  <2>5. Dealing' /\ Playing'
    BY <1>2 DEF Table, Dealing, Playing, Around, table, Sliding
  <2>6. Paying'
    BY <1>2 DEF Table, Paying, table
  <2>. QED
    BY <2>3, <2>4, <2>5, <2>6 DEF Table
<1>3. CASE assets = "Ready" /\ DoLaunch(mode) /\ UNCHANGED pending
  <2>1. pending' \in Modes \cup {NoMode}
    BY <1>3 DEF Table, TableTypes
  <2>. DEFINE o == Outstanding
              f == Faded
  <2>2. o \in Nat /\ f \in {0, 1} /\ hand + o < MaxHands /\ hand + o + f <= MaxHands
    BY <1>0 DEF HandLeft, Outstanding, Faded, Table, Within
  <2>3. /\ Room <=> hand + o + f < MaxHands
        /\ NoLess <=> hand + o + f <= MaxHands
    BY <1>3 DEF Room, NoLess, Outstanding
  <2>4. f = 1 => transition # Idle /\ screen = "ModeSelection"
    BY Kinds DEF Faded
  <2>. HIDE DEF o, f
  <2>5. Room \/ (transition # Idle /\ screen = "ModeSelection" /\ NoLess)
    BY <1>0, <2>2, <2>3, <2>4
  <2>. QED
    BY <1>3, <2>1, <2>5, DoLaunchTable
<1>. QED
  BY <1>1, <1>2, <1>3 DEF RequestGameLaunch

----------------------------------------------------------------------------
(* The steps of the specification. *)

\* The steps that leave the table alone.
Quiet ==
  \/ StartMorph \/ BeginModeToRootMorph \/ OpenCustomPopup \/ CloseCustomPopup \/ MouseDown
  \/ OpenPanel \/ OpenLeaveDrillConfirm \/ CloseModal \/ ToggleTransitions
  \/ Tier1Resolves \/ AssetsResolve \/ DrawScreen \/ DrawOverlay

LEMMA QuietIs ==
  ASSUME Quiet
  PROVE  UNCHANGED <<table, launch, transition, awards>> /\ Around
<1>1. CASE Tier1Resolves \/ AssetsResolve
  BY <1>1 DEF Tier1Resolves, AssetsResolve, Around
<1>2. CASE StartMorph \/ BeginModeToRootMorph \/ OpenCustomPopup \/ CloseCustomPopup \/ MouseDown
           \/ OpenPanel \/ OpenLeaveDrillConfirm
  BY <1>2 DEF Around, boot, StartMorph, BeginModeToRootMorph, OpenCustomPopup, CloseCustomPopup,
              MouseDown, OpenPanel, OpenLeaveDrillConfirm
<1>3. CASE CloseModal \/ ToggleTransitions \/ DrawScreen \/ DrawOverlay
  BY <1>3 DEF Around, boot, CloseModal, ToggleTransitions, DrawScreen, DrawOverlay
<1>. QED
  BY <1>1, <1>2, <1>3 DEF Quiet

\* What an input leaves of the rest: one that is possible while the app loads
\* shows no hand.
LEMMA InputUi ==
  ASSUME Base, stage = "Events", inputs < MaxInputs, inputs' = inputs + 1,
         UNCHANGED <<stage, boot, observed>>,
         animate' \in BOOLEAN /\ popup' \in BOOLEAN /\ click' \in BOOLEAN /\ armed' \in BOOLEAN,
         morph' \in {"None", "ToMode", "ToRoot"} /\ modal' \in {"None", "Panel", "Leave"},
         \/ phase = "Running"
         \/ UNCHANGED <<screen, hand, transition, pending>> /\ modal' # "Leave"
  PROVE  UiTypes' /\ Booting'
<1>1. inputs' \in 0..MaxInputs
  BY SessionAssumption DEF Base, UiTypes
<1>2. UiTypes'
  BY <1>1 DEF Base, UiTypes, boot
<1>3. Booting'
  BY DEF Base, Booting, boot
<1>. QED
  BY <1>2, <1>3

\* The loading screen is gone whenever another screen is shown.
LEMMA Loaded ==
  ASSUME Base, screen # "Root" \/ hand # 0 \/ transition # Idle \/ pending # NoMode
               \/ modal = "Leave" \/ stage \in {"Screen", "Overlay"}
  PROVE  phase = "Running"
  BY DEF Base, Booting, UiTypes

LEMMA QuietStep ==
  ASSUME Base, Quiet
  PROVE  Base'
<1>1. Table'
  BY QuietIs, QuietTable DEF Base
<1>2. UiTypes' /\ Booting'
  <2>1. CASE Tier1Resolves \/ AssetsResolve
    BY <2>1, ZenonT(40) DEF Tier1Resolves, AssetsResolve, Base, UiTypes, Booting, table, launch, ui
  <2>2. CASE StartMorph \/ BeginModeToRootMorph \/ OpenCustomPopup \/ CloseCustomPopup \/ MouseDown
             \/ OpenPanel \/ OpenLeaveDrillConfirm \/ CloseModal \/ ToggleTransitions
    <3>1. /\ stage = "Events" /\ inputs < MaxInputs /\ inputs' = inputs + 1
          /\ UNCHANGED <<stage, boot, observed, screen, hand, transition, pending>>
      BY <2>2 DEF StartMorph, BeginModeToRootMorph, OpenCustomPopup, CloseCustomPopup, MouseDown,
                  OpenPanel, OpenLeaveDrillConfirm, CloseModal, ToggleTransitions, Interactive,
                  ModeSelectionInput, Receive, table, launch
    <3>2. /\ animate' \in BOOLEAN /\ popup' \in BOOLEAN /\ click' \in BOOLEAN /\ armed' \in BOOLEAN
          /\ morph' \in {"None", "ToMode", "ToRoot"} /\ modal' \in {"None", "Panel", "Leave"}
      BY <2>2 DEF StartMorph, BeginModeToRootMorph, OpenCustomPopup, CloseCustomPopup, MouseDown,
                  OpenPanel, OpenLeaveDrillConfirm, CloseModal, ToggleTransitions, Base, UiTypes
    <3>3. modal' = "Leave" => screen = "Game" \/ modal = "Leave"
      BY <2>2 DEF StartMorph, BeginModeToRootMorph, OpenCustomPopup, CloseCustomPopup, MouseDown,
                  OpenPanel, OpenLeaveDrillConfirm, CloseModal, ToggleTransitions, Interactive
    <3>4. phase = "Running" \/ modal' # "Leave"
      BY <3>3, Loaded
    <3>. QED
      BY <3>1, <3>2, <3>4, InputUi
  <2>6. CASE DrawScreen \/ DrawOverlay
    BY <2>6 DEF Base, UiTypes, Booting, table, launch, boot, ui, DrawScreen, DrawOverlay
  <2>. QED
    BY <2>1, <2>2, <2>6 DEF Quiet
<1>. QED
  BY <1>1, <1>2 DEF Base

LEMMA LaunchPresetStep ==
  ASSUME Base, LaunchPreset
  PROVE  Base'
<1>1. /\ stage = "Events" /\ transition = Idle /\ inputs < MaxInputs /\ inputs' = inputs + 1
      /\ screen = "ModeSelection" /\ HandLeft
      /\ UNCHANGED <<stage, boot, ui, awards>>
  BY DEF LaunchPreset, ModeSelectionInput, Interactive, Receive
<1>2. PICK mode \in Modes : RequestGameLaunch(mode)
  BY DEF LaunchPreset
<1>3. Table'
  BY <1>1, <1>2, RequestTable, Kinds DEF Base, UiTypes, Around, boot
<1>4. UiTypes' /\ Booting'
  BY <1>1, Loaded, InputUi DEF Base, UiTypes, ui
<1>. QED
  BY <1>3, <1>4 DEF Base

\* The custom popup closes, and may launch.
LEMMA DismissTable ==
  ASSUME Base, NEW launches \in BOOLEAN, DismissPopup(launches), screen = "ModeSelection",
         UNCHANGED <<boot, awards>>
  PROVE  Table'
<1>0. Around /\ assets' = assets
  BY DEF Around, boot
<1>1. CASE UNCHANGED <<table, launch, transition>>
  BY <1>0, <1>1, QuietTable DEF Base
<1>2. CASE HandLeft /\ \E mode \in Modes : RequestGameLaunch(mode)
  BY <1>0, <1>2, RequestTable DEF Base, UiTypes
<1>. QED
  BY <1>1, <1>2 DEF DismissPopup

LEMMA PopupKeyStep ==
  ASSUME Base, PopupKey
  PROVE  Base'
<1>1. /\ stage = "Events" /\ inputs < MaxInputs /\ inputs' = inputs + 1
      /\ screen = "ModeSelection"
      /\ UNCHANGED <<stage, boot, animate, observed, morph, modal, click, armed, awards>>
  BY DEF PopupKey, Interactive, Receive
<1>2. PICK launches \in BOOLEAN : DismissPopup(launches)
  BY DEF PopupKey
<1>3. Table'
  BY <1>1, <1>2, DismissTable
<1>4. UiTypes' /\ Booting'
  BY <1>1, <1>2, Loaded, InputUi DEF Base, UiTypes, DismissPopup
<1>. QED
  BY <1>3, <1>4 DEF Base

LEMMA LeaveDrillStep ==
  ASSUME Base, LeaveDrill
  PROVE  Base'
<1>1. /\ stage = "Events" /\ inputs < MaxInputs /\ inputs' = inputs + 1
      /\ modal = "Leave" /\ modal' = "None" /\ BeginFade([to |-> "Leave"])
      /\ UNCHANGED <<stage, boot, animate, observed, morph, popup, click, armed, launch, awards>>
  BY DEF LeaveDrill, Receive
<1>2. [to |-> "Leave"] \in Leaving
  BY DEF Leaving
<1>3. Table'
  BY <1>1, <1>2, BeginLeaveTable DEF Base, Around, boot
<1>4. UiTypes' /\ Booting'
  BY <1>1, Loaded, InputUi DEF Base, UiTypes
<1>. QED
  BY <1>3, <1>4 DEF Base

\* The hand on the table is graded, for the first time.
LEMMA SubmitTable ==
  ASSUME Table, Around, Submit, screen = "Game", transition = Idle, sheet.id # 0,
         UNCHANGED <<hand, dealt, launch>>
  PROVE  Table'
<1>1. PICK math \in BOOLEAN : GradingComplete(math /\ TimeWithinTarget)
  BY DEF Submit
<1>. DEFINE pass == math /\ TimeWithinTarget
<1>2. /\ pass \in BOOLEAN
      /\ recap' = [valid |-> TRUE, id |-> hand, pass |-> pass, elapsed |-> timer.elapsed]
      /\ transition' = SlideBegun("ToPostRound")
      /\ awards' = [awards EXCEPT ![sheet.id] = @ + (IF pass THEN 1 ELSE 0)]
      /\ timer' = [timer EXCEPT !.running = FALSE]
      /\ sheet' = [sheet EXCEPT !.graded = TRUE]
  BY <1>1 DEF GradingComplete, CaptureAndEnter, Award, Submit, AnswersSubmitted, TimeWithinTarget
<1>3. \/ animate /\ transition' = [kind |-> "ToPostRound"] /\ UNCHANGED <<screen, shown>>
      \/ transition' = Idle /\ screen' = "PostRound" /\ shown' = hand
  BY <1>1, <1>2 DEF GradingComplete, CaptureAndEnter, SlideBegun, SetScreen
<1>. HIDE DEF pass
<1>4. /\ sheet.id = hand /\ hand # 0 /\ hand \in 0..MaxHands /\ ~sheet.graded
      /\ hand \in Hands /\ awards[hand] = 0 /\ MaxHands \in Nat /\ awards \in [Hands -> Nat]
  BY SessionAssumption DEF Table, TableTypes, Dealing, Playing, Paying, Idle, Hands
<1>5. /\ transition' \in Transitions /\ transition' \notin LaunchFades /\ transition \notin LaunchFades
      /\ screen' = "Game" => transition'.kind = "ToPostRound"
  BY <1>3, Kinds DEF Transitions, Slides
<1>6. TableTypes'
  <2>1. timer' \in [running : BOOLEAN, paused : BOOLEAN, elapsed : 0..Target + 1]
    BY <1>2 DEF Table, TableTypes
  <2>2. sheet' \in [id : 0..MaxHands, left : 0..1, graded : BOOLEAN]
    BY <1>2 DEF Table, TableTypes
  <2>3. recap' \in [valid : BOOLEAN, id : 0..MaxHands, pass : BOOLEAN, elapsed : 0..Target + 1]
    BY <1>2, <1>4 DEF Table, TableTypes
  <2>4. awards' \in [Hands -> Nat]
    BY <1>2, <1>4
  <2>. QED
    BY <1>3, <1>4, <1>5, <2>1, <2>2, <2>3, <2>4 DEF Table, TableTypes, Screens, launch
<1>7. Within'
  BY <1>5 DEF Table, Within, Outstanding, Faded, launch
<1>8. sheet'.id = hand /\ sheet'.graded
  BY <1>2, <1>4 DEF Table, TableTypes
<1>9. Dealing' /\ Playing'
  BY <1>3, <1>4, <1>5, <1>8 DEF Table, Dealing, Playing, Around, launch
<1>10. Paying'
  <2>1. awards'[hand] = IF pass THEN 1 ELSE 0
    BY <1>2, <1>4
  <2>2. \A h \in Hands : h # hand => awards'[h] = awards[h]
    BY <1>2, <1>4
  <2>3. recap'.id = hand /\ recap'.pass = pass
    BY <1>2
  <2>. QED
    BY <1>4, <1>8, <2>1, <2>2, <2>3 DEF Table, Paying, Hands
<1>. QED
  BY <1>6, <1>7, <1>9, <1>10 DEF Table

LEMMA EnterKeyStep ==
  ASSUME Base, EnterKey
  PROVE  Base'
<1>1. /\ stage = "Events" /\ inputs < MaxInputs /\ inputs' = inputs + 1
      /\ transition = Idle /\ screen = "Game" /\ sheet.id # 0
      /\ UNCHANGED <<stage, boot, animate, observed, morph, modal, popup, click, hand, dealt, launch>>
      /\ Around
  BY DEF EnterKey, Interactive, Receive, Around, boot
<1>2. CASE /\ sheet.left > 0
           /\ sheet' = [sheet EXCEPT !.left = @ - 1]
           /\ UNCHANGED <<screen, shown, timer, recap, armed, transition, awards>>
  <2>1. /\ sheet' \in [id : 0..MaxHands, left : 0..1, graded : BOOLEAN]
        /\ sheet'.id = sheet.id /\ sheet'.graded = sheet.graded
    BY <1>2 DEF Base, Table, TableTypes
  <2>2. TableTypes'
    BY <1>1, <1>2, <2>1 DEF Base, Table, TableTypes, launch
  <2>3. Within'
    BY <1>1, <1>2, SameBudget DEF Base, Table, launch
  <2>4. Dealing' /\ Playing'
    BY <1>1, <1>2, <2>1 DEF Base, Table, Dealing, Playing, Around, launch, Sliding
  <2>5. Paying'
    BY <1>1, <1>2, <2>1 DEF Base, Table, Paying
  <2>6. UiTypes' /\ Booting'
    BY <1>1, <1>2, Loaded, InputUi DEF Base, UiTypes
  <2>. QED
    BY <2>2, <2>3, <2>4, <2>5, <2>6 DEF Base, Table
<1>3. CASE sheet.left = 0 /\ Submit
  <2>1. Table'
    BY <1>1, <1>3, SubmitTable DEF Base
  <2>2. armed' = FALSE
    BY <1>3 DEF Submit, GradingComplete, CaptureAndEnter
  <2>3. UiTypes' /\ Booting'
    BY <1>1, <2>2, Loaded, InputUi DEF Base, UiTypes
  <2>. QED
    BY <2>1, <2>3 DEF Base
<1>. QED
  BY <1>2, <1>3 DEF EnterKey

\* The first or the second press of Again.
LEMMA PressAgainTable ==
  ASSUME Base, PressAgain, UNCHANGED <<boot, awards>>,
         screen = "PostRound" \/ (Sliding /\ recap.valid)
  PROVE  Table'
<1>0. Around /\ assets' = assets
  BY DEF Around, boot
<1>1. CASE UNCHANGED <<table, launch, transition>>
  BY <1>0, <1>1, QuietTable DEF Base
<1>2. CASE HandLeft /\ RequestGameLaunch(lastConfig)
  <2>1. hand # 0 /\ lastConfig \in Modes
    BY DEF Base, Table, TableTypes, Dealing
  <2>2. transition \notin LaunchFades
    BY Kinds DEF Base, Table, Dealing, Sliding, Slides
  <2>. QED
    BY <1>0, <1>2, <2>1, <2>2, RequestTable DEF Base, UiTypes
<1>. QED
  BY <1>1, <1>2 DEF PressAgain

LEMMA AgainKeyStep ==
  ASSUME Base, AgainKey
  PROVE  Base'
<1>1. /\ stage = "Events" /\ inputs < MaxInputs /\ inputs' = inputs + 1
      /\ screen = "PostRound" /\ PressAgain
      /\ UNCHANGED <<stage, boot, animate, observed, morph, modal, popup, click, awards>>
  BY DEF AgainKey, Interactive, Receive
<1>2. Table'
  BY <1>1, PressAgainTable
<1>3. armed' \in BOOLEAN
  BY <1>1 DEF PressAgain
<1>4. UiTypes' /\ Booting'
  BY <1>1, <1>3, Loaded, InputUi DEF Base, UiTypes
<1>. QED
  BY <1>2, <1>4 DEF Base

LEMMA LeavePostRoundStep ==
  ASSUME Base, LeavePostRound
  PROVE  Base'
<1>1. /\ stage = "Events" /\ inputs < MaxInputs /\ inputs' = inputs + 1
      /\ screen = "PostRound"
      /\ UNCHANGED <<stage, boot, ui, launch, awards>> /\ Around
  BY DEF LeavePostRound, Interactive, Receive, boot, Around
<1>2. Table'
  <2>1. CASE \E to \in {"Exit", "Home"} : BeginFade([to |-> to])
    <3>1. PICK to \in {"Exit", "Home"} : BeginFade([to |-> to])
      BY <2>1
    <3>2. [to |-> to] \in Leaving
      BY DEF Leaving
    <3>. QED
      BY <1>1, <3>1, <3>2, BeginLeaveTable DEF Base
  <2>2. CASE SetScreen("Root", 0) /\ UNCHANGED <<hand, dealt, timer, sheet, recap, transition>>
    BY <1>1, <2>2, ScreenTable DEF Base
  <2>. QED
    BY <2>1, <2>2 DEF LeavePostRound
<1>3. UiTypes' /\ Booting'
  BY <1>1, Loaded, InputUi DEF Base, UiTypes, ui
<1>. QED
  BY <1>2, <1>3 DEF Base

LEMMA TickStep ==
  ASSUME Base, Tick
  PROVE  Base'
<1>1. /\ stage = "Events" /\ stage' = "Poll" /\ observed' = screen /\ inputs' = 0
      /\ morph' \in {"None", morph}
      /\ UNCHANGED <<phase, route, tier1, assets, animate, modal, popup, click, armed>>
      /\ UNCHANGED <<screen, shown, hand, dealt, sheet, recap, launch, transition, awards>>
  BY DEF Tick
<1>2. timer' \in [running : BOOLEAN, paused : BOOLEAN, elapsed : 0..Target + 1]
  <2>1. PICK delta \in 0..1 : timer' = Advance(timer, delta, modal # "None" \/ transition # Idle)
    BY DEF Tick, TimerUpdate
  <2>2. timer \in [running : BOOLEAN, paused : BOOLEAN, elapsed : 0..Target + 1] /\ Target \in Nat
    BY SessionAssumption DEF Base, Table, TableTypes
  <2>. DEFINE frozen == modal # "None" \/ transition # Idle
              total == IF timer.running /\ ~timer.paused THEN timer.elapsed + delta ELSE timer.elapsed
              capped == IF total > Target THEN Target + 1 ELSE total
  <2>3. frozen \in BOOLEAN /\ (timer.running /\ frozen) \in BOOLEAN
    BY <2>2
  <2>4. capped \in 0..Target + 1
    BY <2>2
  <2>5. timer' = [running |-> timer.running, paused |-> timer.running /\ frozen, elapsed |-> capped]
    BY <2>1 DEF Advance
  <2>. HIDE DEF capped, frozen
  <2>. QED
    BY <2>2, <2>3, <2>4, <2>5
<1>3. Table'
  BY <1>1, <1>2, TimerTable DEF Base, Around
<1>4. kicked' \in SUBSET (1..3)
  BY DEF Tick, OrchestratorTick, Base, UiTypes
<1>5. UiTypes'
  BY <1>1, <1>4, SessionAssumption DEF Base, UiTypes, Table, TableTypes
<1>6. Booting'
  BY <1>1 DEF Base, Booting, launch
<1>. QED
  BY <1>3, <1>5, <1>6 DEF Base

LEMMA PollStep ==
  ASSUME Base, PollPendingLaunch
  PROVE  Base'
<1>1. /\ stage = "Poll" /\ stage' = "Boot" /\ UNCHANGED <<inputs, boot, ui, awards>>
      /\ Around
  BY DEF PollPendingLaunch, Around, boot
<1>2. CASE UNCHANGED <<table, launch, transition>>
  <2>1. Table'
    BY <1>1, <1>2, QuietTable DEF Base
  <2>2. UiTypes' /\ Booting'
    BY <1>1, <1>2 DEF Base, UiTypes, Booting, boot, ui, table, launch
  <2>. QED
    BY <2>1, <2>2 DEF Base
<1>3. CASE /\ pending # NoMode
           /\ \/ assets = "Failed" /\ LaunchFails
              \/ assets = "Ready" /\ pending' = NoMode /\ DoLaunch(pending)
  <2>3. Table'
    <3>1. CASE assets = "Failed" /\ LaunchFails
      BY <1>1, <3>1, FailTable DEF Base
    <3>2. CASE assets = "Ready" /\ pending' = NoMode /\ DoLaunch(pending)
      <4>1. pending \in Modes /\ hand \in Nat /\ MaxHands \in Nat
        BY <1>3, SessionAssumption DEF Base, Table, TableTypes
      <4>. DEFINE f == Faded
      <4>2. f \in Nat /\ hand + 1 + f <= MaxHands
        BY <1>3, <4>1 DEF Base, Table, Within, Outstanding, Faded
      <4>3. Room <=> hand + 0 + f < MaxHands
        BY <3>2 DEF Room, Outstanding
      <4>. HIDE DEF f
      <4>4. Room
        BY <4>1, <4>2, <4>3
      <4>. QED
        BY <1>1, <3>2, <4>1, <4>4, DoLaunchTable DEF Base
    <3>. QED
      BY <1>3, <3>1, <3>2
  <2>4. UiTypes' /\ Booting'
    BY <1>1, <1>3, Loaded DEF Base, UiTypes, Booting, boot, ui
  <2>. QED
    BY <2>3, <2>4 DEF Base
<1>. QED
  BY <1>2, <1>3 DEF PollPendingLaunch

LEMMA BootStepStep ==
  ASSUME Base, BootStep
  PROVE  Base'
<1>1. /\ stage = "Boot" /\ UNCHANGED <<inputs, route, kicked, tier1, assets, ui>>
      /\ UNCHANGED <<hand, dealt, timer, sheet, recap, launch, transition, awards>>
      /\ Around
  BY DEF BootStep, Around
<1>2. CASE UNCHANGED <<phase, screen, shown>> /\ (stage' = "Events" \/ (phase = "Running" /\ stage' = "Screen"))
  <2>1. Table'
    BY <1>1, <1>2, QuietTable DEF Base, table
  <2>2. UiTypes' /\ Booting'
    BY <1>1, <1>2 DEF Base, UiTypes, Booting, ui, launch
  <2>. QED
    BY <2>1, <2>2 DEF Base
<1>3. CASE /\ phase = "Loading" /\ stage' = "Screen" /\ phase' = "Running"
           /\ \/ SetScreen("Error", 0) \/ SetScreen("Root", 0)
              \/ route = "Shared" /\ SetScreen("Game", MaxHands + 1)
  <2>3. Table'
    <3>1. CASE SetScreen("Error", 0) \/ SetScreen("Root", 0)
      BY <1>1, <3>1, ScreenTable DEF Base
    <3>2. CASE route = "Shared" /\ SetScreen("Game", MaxHands + 1)
      <4>0. hand = 0 /\ transition = Idle
        BY <1>3 DEF Base, Booting
      <4>1. screen' = "Game" /\ shown' = MaxHands + 1
        BY <3>2 DEF SetScreen
      <4>2. TableTypes'
        BY <1>1, <4>1, SessionAssumption DEF Base, Table, TableTypes, Screens, launch
      <4>3. Within'
        BY <1>1, SameBudget DEF Base, Table, launch
      <4>4. Dealing' /\ Playing'
        BY <1>1, <3>2, <4>0, <4>1 DEF Base, Table, Dealing, Playing, Around, Sliding, launch
      <4>5. Paying'
        BY <1>1 DEF Base, Table, Paying
      <4>. QED
        BY <4>2, <4>3, <4>4, <4>5 DEF Table
    <3>. QED
      BY <1>3, <3>1, <3>2
  <2>4. UiTypes' /\ Booting'
    BY <1>1, <1>3 DEF Base, UiTypes, Booting, ui
  <2>. QED
    BY <2>3, <2>4 DEF Base
<1>. QED
  BY <1>2, <1>3 DEF BootStep

LEMMA SlideEndsStep ==
  ASSUME Base, SlideEnds
  PROVE  Base'
<1>1. /\ stage = "Screen" /\ transition' = Idle
      /\ UNCHANGED <<stage, inputs, boot, ui, hand, dealt, timer, sheet, recap, launch, awards>>
      /\ \/ screen' = "PostRound" /\ shown' = recap.id
         \/ transition.kind # "ToPostRound" /\ UNCHANGED <<screen, shown>>
      /\ Around
  BY DEF SlideEnds, SetScreen, Around, boot
<1>2. transition \notin LaunchFades /\ Idle \notin LaunchFades /\ Idle \in Transitions
      /\ Idle.kind = "None"
  BY Kinds DEF SlideEnds, Sliding, Slides, Transitions, Idle
<1>3. TableTypes'
  BY <1>1, <1>2, SessionAssumption DEF Base, Table, TableTypes, launch, Screens
<1>4. Within'
  BY <1>1, <1>2 DEF Base, Table, Within, Outstanding, Faded, launch
<1>5. ~Sliding'
  BY <1>1, <1>2 DEF Sliding, Slides
<1>6. Dealing' /\ Playing'
  BY <1>1, <1>2, <1>5 DEF Base, Table, Dealing, Playing, Around, launch, SlideEnds
<1>7. Paying'
  BY <1>1 DEF Base, Table, Paying
<1>8. UiTypes' /\ Booting'
  BY <1>1, Loaded DEF Base, UiTypes, Booting, boot, ui, launch
<1>. QED
  BY <1>3, <1>4, <1>6, <1>7, <1>8 DEF Base, Table

LEMMA MorphEndsStep ==
  ASSUME Base, MorphEnds
  PROVE  Base'
<1>1. /\ stage = "Screen" /\ stage' = "Overlay" /\ morph' = "None" /\ click' = FALSE
      /\ UNCHANGED <<inputs, boot, animate, observed, modal, popup, armed>>
      /\ UNCHANGED <<hand, dealt, timer, sheet, recap, launch, transition, awards>>
      /\ SetScreen("ModeSelection", 0) \/ SetScreen("Root", 0)
      /\ Around
  BY DEF MorphEnds, Around, boot
<1>2. Table'
  BY <1>1, ScreenTable DEF Base
<1>3. UiTypes' /\ Booting'
  BY <1>1, Loaded DEF Base, UiTypes, Booting, boot, launch
<1>. QED
  BY <1>2, <1>3 DEF Base

LEMMA DrawClickedStep ==
  ASSUME Base, DrawClicked
  PROVE  Base'
<1>1. /\ stage = "Screen" /\ stage' = "Overlay" /\ click' = FALSE
      /\ UNCHANGED <<inputs, boot, animate, observed, awards>>
      /\ Around
  BY DEF DrawClicked, Around, boot
<1>2. Table'
  <2>1. CASE ClickOnPopup
    BY <1>1, <2>1, DismissTable DEF ClickOnPopup, PopupDrawn
  <2>2. CASE ClickOnGame
    BY <1>1, <2>2, QuietTable DEF ClickOnGame, Base
  <2>3. CASE ClickOnPostRound
    <3>1. (screen = "PostRound" \/ Sliding) /\ recap.valid
      BY <2>3 DEF ClickOnPostRound
    <3>2. CASE PressAgain
      BY <1>1, <3>1, <3>2, PressAgainTable
    <3>3. CASE UNCHANGED <<table, launch, transition>>
      BY <1>1, <3>3, QuietTable DEF Base
    <3>4. CASE (BeginFade([to |-> "Exit"]) \/ BeginFade([to |-> "Home"])) /\ UNCHANGED launch
      <4>1. [to |-> "Exit"] \in Leaving /\ [to |-> "Home"] \in Leaving
        BY DEF Leaving
      <4>. QED
        BY <1>1, <3>4, <4>1, BeginLeaveTable DEF Base
    <3>. QED
      BY <2>3, <3>2, <3>3, <3>4 DEF ClickOnPostRound
  <2>. QED
    BY <2>1, <2>2, <2>3 DEF DrawClicked
<1>3. /\ morph' \in {morph, "ToRoot"} /\ modal' \in {modal, "None", "Panel", "Leave"}
      /\ popup' \in BOOLEAN /\ armed' \in BOOLEAN
  <2>1. CASE ClickOnPopup
    BY <2>1 DEF ClickOnPopup, DismissPopup, Base, UiTypes
  <2>2. CASE ClickOnGame
    BY <2>2 DEF ClickOnGame, Base, UiTypes
  <2>3. CASE ClickOnPostRound
    BY <2>3 DEF ClickOnPostRound, PressAgain, Base, UiTypes
  <2>. QED
    BY <2>1, <2>2, <2>3 DEF DrawClicked
<1>4. phase = "Running"
  BY <1>1, Loaded
<1>5. UiTypes' /\ Booting'
  BY <1>1, <1>3, <1>4, ZenonT(40) DEF Base, UiTypes, Booting, boot
<1>. QED
  BY <1>2, <1>5 DEF Base

LEMMA FadeSwapsStep ==
  ASSUME Base, FadeSwaps
  PROVE  Base'
<1>1. /\ stage = "Overlay" /\ stage' = "Events"
      /\ transition.kind = "Fade" /\ ~transition.swapped /\ OnSwap(transition.swap)
      /\ UNCHANGED <<inputs, boot, ui, launch, awards>> /\ Around
  BY DEF FadeSwaps, Around, boot
<1>2. /\ transition \in [kind : {"Fade"}, swap : Swaps, swapped : BOOLEAN]
      /\ transition.swap \in Swaps /\ transition.swapped = FALSE
  BY <1>1 DEF Base, Table, TableTypes, Transitions, Idle, Slides
<1>3. transition' \in Transitions /\ transition' \notin LaunchFades /\ ~Sliding'
  <2>1. CASE transition' = Idle
    BY <2>1, Kinds DEF Transitions, Sliding, Slides, Idle
  <2>2. CASE transition' = [transition EXCEPT !.swapped = TRUE]
    <3>1. transition' \in [kind : {"Fade"}, swap : Swaps, swapped : BOOLEAN]
          /\ transition'.swapped /\ transition'.kind = "Fade"
      BY <1>2, <2>2
    <3>. QED
      BY <3>1, Kinds DEF Transitions, Sliding, Slides
  <2>. QED
    BY <2>1, <2>2 DEF FadeSwaps
<1>4. Table'
  <2>1. CASE transition.swap \in Leaving
    BY <1>1, <1>3, <2>1, LeaveTable DEF Base
  <2>2. CASE transition.swap \in [to : {"Launch"}, mode : Modes]
    <3>1. Perform(transition.swap.mode) /\ UNCHANGED recap /\ transition.swap.mode \in Modes
      BY <1>1, <2>2 DEF OnSwap
    <3>2. transition \in LaunchFades
      BY <1>2, <2>2 DEF LaunchFades
    <3>3. assets = "Ready" /\ lastConfig \in Modes /\ pending \in Modes \cup {NoMode}
      BY <3>2 DEF Base, Table, TableTypes, Dealing
    <3>4. Within'
      <4>1. hand' = hand + 1 /\ Outstanding' = Outstanding /\ Faded = 1 /\ Faded' = 0
        BY <1>1, <1>3, <3>1, <3>2 DEF Perform, Outstanding, Faded, launch
      <4>. DEFINE o == Outstanding
      <4>2. /\ hand \in Nat /\ MaxHands \in Nat /\ o \in Nat /\ hand + o + 1 <= MaxHands
            /\ Within' <=> hand + 1 + o + 0 <= MaxHands
        BY <4>1, SessionAssumption DEF Base, Table, TableTypes, Within, Outstanding
      <4>. HIDE DEF o
      <4>. QED
        BY <4>2
    <3>. QED
      BY <1>1, <1>3, <3>1, <3>3, <3>4, PerformTable DEF Base, launch
  <2>. QED
    BY <1>2, <2>1, <2>2 DEF Swaps, Leaving
<1>5. UiTypes' /\ Booting'
  BY <1>1, Loaded DEF Base, UiTypes, Booting, boot, ui
<1>. QED
  BY <1>4, <1>5 DEF Base

LEMMA FadeEndsStep ==
  ASSUME Base, FadeEnds
  PROVE  Base'
<1>1. /\ stage = "Overlay" /\ stage' = "Events" /\ transition' = Idle
      /\ transition.kind = "Fade" /\ transition.swapped
      /\ UNCHANGED <<inputs, boot, ui, table, launch, awards>> /\ Around
  BY DEF FadeEnds, Around, boot
<1>2. transition \notin LaunchFades /\ Idle \notin LaunchFades /\ Idle \in Transitions
      /\ Idle.kind = "None" /\ ~Sliding' /\ ~Sliding
  BY <1>1, Kinds DEF Sliding, Slides, Transitions, Idle
<1>3. TableTypes'
  BY <1>1, <1>2 DEF Base, Table, TableTypes, table, launch
<1>4. Within'
  BY <1>1, <1>2 DEF Base, Table, Within, Outstanding, Faded, table, launch
<1>5. Dealing' /\ Playing'
  BY <1>1, <1>2 DEF Base, Table, Dealing, Playing, Around, table, launch
<1>6. Paying'
  BY <1>1 DEF Base, Table, Paying, table
<1>7. UiTypes' /\ Booting'
  BY <1>1, Loaded DEF Base, UiTypes, Booting, boot, ui
<1>. QED
  BY <1>3, <1>4, <1>5, <1>6, <1>7 DEF Base, Table

\* The invariant of every run, from the first state on.
LEMMA BaseInit ==
  ASSUME Init
  PROVE  Base
<1>1. UiTypes
  <2>1. route \in {"Normal", "Shared"}
    <3>1. PICK query \in Queries : route = RouteOf(query)
      BY DEF Init
    <3>. QED
      BY <3>1 DEF RouteOf
  <2>. QED
    <3>1. kicked \in SUBSET (1..3)
      BY DEF Init, StartTieredLoading
    <3>2. inputs \in 0..MaxInputs
      BY SessionAssumption DEF Init
    <3>. QED
      BY <2>1, <3>1, <3>2 DEF Init, UiTypes, Screens
<1>2. Idle \in Transitions /\ Idle \notin LaunchFades /\ Idle.kind = "None"
  BY Kinds DEF Transitions, Idle
<1>3. TableTypes
  BY <1>2, SessionAssumption DEF Init, TableTypes, Screens, Stopped, NoRecap
<1>4. Within
  BY <1>2, SessionAssumption DEF Init, Within, Outstanding, Faded
<1>5. Dealing /\ Playing /\ Paying
  BY <1>2 DEF Init, Dealing, Playing, Paying, NoRecap, Sliding, Slides, Hands
<1>6. Booting
  BY DEF Init, Booting
<1>. QED
  BY <1>1, <1>3, <1>4, <1>5, <1>6 DEF Base, Table

LEMMA BaseNext ==
  ASSUME Base, [Next]_vars
  PROVE  Base'
<1>1. CASE UNCHANGED vars
  <2>1. Table'
    BY <1>1, QuietTable DEF Base, vars, boot, Around
  <2>2. UiTypes' /\ Booting'
    BY <1>1 DEF Base, UiTypes, Booting, vars, boot, ui, table, launch
  <2>. QED
    BY <2>1, <2>2 DEF Base
<1>2. CASE Quiet
  BY <1>2, QuietStep
<1>3. CASE LaunchPreset \/ PopupKey \/ LeaveDrill \/ EnterKey \/ AgainKey \/ LeavePostRound
  BY <1>3, LaunchPresetStep, PopupKeyStep, LeaveDrillStep, EnterKeyStep, AgainKeyStep,
     LeavePostRoundStep
<1>4. CASE Tick \/ PollPendingLaunch \/ BootStep \/ SlideEnds \/ MorphEnds \/ DrawClicked
           \/ FadeSwaps \/ FadeEnds
  BY <1>4, TickStep, PollStep, BootStepStep, SlideEndsStep, MorphEndsStep, DrawClickedStep,
     FadeSwapsStep, FadeEndsStep
<1>. QED
  BY <1>1, <1>2, <1>3, <1>4 DEF Next, Input, Frame, Quiet

----------------------------------------------------------------------------
(* The recap and the hand just played. *)

\* Post-Round, and the slide that leads there, keep what the hand was graded with.
Recapped ==
  /\ screen = "PostRound" \/ transition.kind = "ToPostRound" =>
       /\ recap.valid /\ recap.id = hand /\ sheet.graded
       /\ ~timer.running /\ timer.elapsed = recap.elapsed
       /\ recap.pass => recap.elapsed <= Target
  /\ screen = "PostRound" => shown = hand

\* A slide into Post-Round that takes no second press of Again.
Arming == transition.kind = "ToPostRound" /\ armed => ~click

\* A launch deferred on its assets is carried out by a later frame, on whatever
\* screen the user has reached by then.  If that is Game, on its way to the recap,
\* the next hand is dealt under a slide that still shows the last one's grades.
DealtUnderTheRecap ==
  PollPendingLaunch /\ transition.kind = "ToPostRound" /\ hand' # hand

\* What a step does to the recap, one way or the other.
LEMMA RecapKept ==
  ASSUME Recapped, UNCHANGED <<hand, shown, recap, sheet, timer>>,
         screen' = "PostRound" => screen = "PostRound",
         transition'.kind = "ToPostRound" => transition.kind = "ToPostRound"
  PROVE  Recapped'
  BY DEF Recapped

LEMMA RecapLeft ==
  ASSUME screen' # "PostRound", transition'.kind # "ToPostRound"
  PROVE  Recapped'
  BY DEF Recapped

LEMMA LaunchRecap ==
  ASSUME Recapped, NEW mode \in Modes, DoLaunch(mode), transition.kind # "ToPostRound"
  PROVE  Recapped' /\ transition'.kind # "ToPostRound"
<1>1. CASE screen = "ModeSelection" /\ BeginFade([to |-> "Launch", mode |-> mode])
  <2>1. CASE UNCHANGED <<table, transition>>
    BY <2>1, RecapKept DEF table
  <2>2. CASE OnSwap([to |-> "Launch", mode |-> mode]) /\ UNCHANGED transition
    <3>1. screen' = "Game"
      BY <2>2 DEF OnSwap, Perform, SetScreen
    <3>. QED
      BY <2>2, <3>1, RecapLeft
  <2>3. CASE /\ UNCHANGED table
             /\ transition' = [kind |-> "Fade", swap |-> [to |-> "Launch", mode |-> mode], swapped |-> FALSE]
    <3>1. transition'.kind = "Fade"
      BY <2>3
    <3>. QED
      BY <2>3, <3>1, RecapKept DEF table
  <2>. QED
    BY <1>1, <2>1, <2>2, <2>3 DEF BeginFade
<1>2. CASE Perform(mode) /\ transition' \in {transition, SlideBegun("ToGame")}
  <2>1. screen' = "Game"
    BY <1>2 DEF Perform, SetScreen
  <2>2. transition'.kind # "ToPostRound"
    BY <1>2 DEF SlideBegun
  <2>. QED
    BY <2>1, <2>2, RecapLeft
<1>. QED
  BY <1>1, <1>2 DEF DoLaunch

LEMMA RequestRecap ==
  ASSUME Recapped, NEW mode \in Modes, RequestGameLaunch(mode), transition.kind # "ToPostRound"
  PROVE  Recapped' /\ transition'.kind # "ToPostRound"
<1>1. CASE LaunchFails
  BY <1>1, RecapLeft DEF LaunchFails, SetScreen
<1>2. CASE UNCHANGED <<table, transition>>
  BY <1>2, RecapKept DEF table
<1>3. CASE DoLaunch(mode)
  BY <1>3, LaunchRecap
<1>. QED
  BY <1>1, <1>2, <1>3 DEF RequestGameLaunch

LEMMA LeaveRecap ==
  ASSUME Recapped, NEW swap \in Leaving, BeginFade(swap)
  PROVE  /\ Recapped'
         /\ transition'.kind = "ToPostRound" => transition.kind = "ToPostRound"
<1>1. CASE UNCHANGED <<table, transition>>
  BY <1>1, RecapKept DEF table
<1>2. CASE transition = Idle /\ OnSwap(swap) /\ UNCHANGED transition
  <2>1. screen' # "PostRound"
    BY <1>2 DEF OnSwap, Leaving, SetScreen
  <2>. QED
    BY <1>2, <2>1, RecapLeft DEF Idle
<1>3. CASE UNCHANGED table /\ transition' = [kind |-> "Fade", swap |-> swap, swapped |-> FALSE]
  <2>1. transition'.kind = "Fade"
    BY <1>3
  <2>. QED
    BY <1>3, <2>1, RecapKept DEF table
<1>. QED
  BY <1>1, <1>2, <1>3 DEF BeginFade

\* Every other step keeps the recap in step.
LEMMA RecappedNext ==
  ASSUME Base, Recapped, Arming, [Next]_vars, [~DealtUnderTheRecap]_vars
  PROVE  Recapped'
<1>1. CASE Quiet \/ UNCHANGED vars
  BY <1>1, QuietIs, RecapKept DEF vars, table, launch
<1>2. CASE LaunchPreset
  <2>1. PICK mode \in Modes : RequestGameLaunch(mode)
    BY <1>2 DEF LaunchPreset
  <2>2. transition.kind # "ToPostRound"
    BY <1>2 DEF LaunchPreset, ModeSelectionInput, Interactive, Receive, Idle
  <2>. QED
    BY <2>1, <2>2, RequestRecap
<1>3. CASE PopupKey
  <2>1. transition.kind # "ToPostRound"
    BY <1>3 DEF PopupKey, Interactive, Receive, Idle
  <2>2. CASE UNCHANGED <<table, launch, transition>>
    BY <2>2, RecapKept DEF table
  <2>3. CASE \E mode \in Modes : RequestGameLaunch(mode)
    BY <2>1, <2>3, RequestRecap
  <2>. QED
    BY <1>3, <2>2, <2>3 DEF PopupKey, DismissPopup
<1>4. CASE LeaveDrill
  <2>1. [to |-> "Leave"] \in Leaving
    BY DEF Leaving
  <2>. QED
    BY <1>4, <2>1, LeaveRecap DEF LeaveDrill
<1>5. CASE EnterKey
  <2>1. transition = Idle /\ screen = "Game" /\ sheet.id # 0 /\ UNCHANGED <<hand, dealt>>
    BY <1>5 DEF EnterKey, Interactive, Receive
  <2>2. CASE UNCHANGED <<screen, transition>>
    BY <2>1, <2>2, RecapLeft DEF Idle
  <2>3. CASE Submit
    <3>1. PICK math \in BOOLEAN : GradingComplete(math /\ TimeWithinTarget)
      BY <2>3 DEF Submit
    <3>2. /\ recap' = [valid |-> TRUE, id |-> hand, pass |-> math /\ TimeWithinTarget, elapsed |-> timer.elapsed]
          /\ timer' = [timer EXCEPT !.running = FALSE]
          /\ sheet' = [sheet EXCEPT !.graded = TRUE]
          /\ screen' = "PostRound" => shown' = hand
      BY <2>1, <2>3, <3>1 DEF Submit, AnswersSubmitted, GradingComplete, CaptureAndEnter, SetScreen
    <3>3. ~timer'.running /\ timer'.elapsed = timer.elapsed /\ sheet'.graded
      BY <3>2 DEF Base, Table, TableTypes
    <3>4. recap'.pass => timer.elapsed <= Target
      BY <3>2 DEF TimeWithinTarget
    <3>. QED
      BY <2>1, <3>2, <3>3, <3>4 DEF Recapped
  <2>. QED
    BY <1>5, <2>2, <2>3 DEF EnterKey
<1>6. CASE AgainKey
  <2>1. transition.kind # "ToPostRound" /\ screen = "PostRound" /\ PressAgain
    BY <1>6 DEF AgainKey, Interactive, Receive, Idle
  <2>2. CASE UNCHANGED <<table, launch, transition>>
    BY <2>2, RecapKept DEF table
  <2>3. CASE RequestGameLaunch(lastConfig)
    <3>1. lastConfig \in Modes
      BY <2>1 DEF Base, Table, TableTypes, Dealing
    <3>. QED
      BY <2>1, <2>3, <3>1, RequestRecap
  <2>. QED
    BY <2>1, <2>2, <2>3 DEF PressAgain
<1>7. CASE LeavePostRound
  <2>1. transition.kind # "ToPostRound"
    BY <1>7 DEF LeavePostRound, Interactive, Receive, Idle
  <2>2. CASE \E to \in {"Exit", "Home"} : BeginFade([to |-> to])
    <3>1. PICK to \in {"Exit", "Home"} : BeginFade([to |-> to])
      BY <2>2
    <3>2. [to |-> to] \in Leaving
      BY DEF Leaving
    <3>. QED
      BY <3>1, <3>2, LeaveRecap
  <2>3. CASE SetScreen("Root", 0) /\ UNCHANGED transition
    BY <2>1, <2>3, RecapLeft DEF SetScreen
  <2>. QED
    BY <1>7, <2>2, <2>3 DEF LeavePostRound
<1>8. CASE Tick
  <2>1. UNCHANGED <<screen, shown, hand, sheet, recap, transition>>
    BY <1>8 DEF Tick
  <2>2. ~timer.running => ~timer'.running /\ timer'.elapsed = timer.elapsed
    <3>1. PICK delta \in 0..1 : timer' = Advance(timer, delta, modal # "None" \/ transition # Idle)
      BY <1>8 DEF Tick, TimerUpdate
    <3>2. timer.elapsed \in 0..Target + 1 /\ Target \in Nat
      BY SessionAssumption DEF Base, Table, TableTypes
    <3>3. /\ timer'.running = timer.running
          /\ ~timer.running =>
               timer'.elapsed = IF timer.elapsed > Target THEN Target + 1 ELSE timer.elapsed
      BY <3>1 DEF Advance
    <3>. QED
      BY <3>2, <3>3
  <2>. QED
    BY <2>1, <2>2 DEF Recapped
<1>9. CASE PollPendingLaunch
  <2>1. CASE UNCHANGED <<table, launch, transition>>
    BY <2>1, RecapKept DEF table
  <2>2. CASE pending # NoMode /\ (LaunchFails \/ (assets = "Ready" /\ DoLaunch(pending)))
    <3>1. pending \in Modes
      BY <2>2 DEF Base, Table, TableTypes
    <3>2. CASE transition.kind # "ToPostRound"
      <4>1. CASE LaunchFails
        BY <3>2, <4>1, RecapLeft DEF LaunchFails, SetScreen
      <4>. QED
        BY <2>2, <3>1, <3>2, <4>1, LaunchRecap
    <3>3. CASE transition.kind = "ToPostRound"
      <4>1. hand # 0 /\ assets = "Ready" /\ transition # Idle
        BY <3>3 DEF Base, Table, Dealing, Sliding, Slides, Idle
      <4>2. DoLaunch(pending)
        BY <1>9, <2>2, <4>1 DEF PollPendingLaunch
      <4>3. stage = "Poll" /\ stage' = "Boot"
        BY <1>9 DEF PollPendingLaunch
      <4>4. hand' = hand
        BY <1>9, <3>3, <4>3 DEF DealtUnderTheRecap, vars
      <4>5. ~Perform(pending)
        BY <4>4 DEF Perform, Base, Table, TableTypes
      <4>6. UNCHANGED <<table, transition>>
        BY <4>1, <4>2, <4>5 DEF DoLaunch, BeginFade
      <4>. QED
        BY <4>6, RecapKept DEF table
    <3>. QED
      BY <3>2, <3>3
  <2>. QED
    BY <1>9, <2>1, <2>2 DEF PollPendingLaunch
<1>10. CASE BootStep
  <2>1. CASE UNCHANGED <<screen, shown>>
    BY <1>10, <2>1, RecapKept DEF BootStep
  <2>2. CASE phase = "Loading" /\ screen' # "PostRound"
    <3>1. transition' = Idle
      BY <1>10, <2>2 DEF BootStep, Base, Booting
    <3>. QED
      BY <2>2, <3>1, RecapLeft DEF Idle
  <2>. QED
    BY <1>10, <2>1, <2>2 DEF BootStep, SetScreen
<1>11. CASE SlideEnds
  <2>1. UNCHANGED <<hand, recap, sheet, timer>> /\ transition'.kind # "ToPostRound"
    BY <1>11 DEF SlideEnds, Idle
  <2>2. CASE transition.kind = "ToPostRound" /\ SetScreen("PostRound", recap.id)
    BY <2>1, <2>2 DEF Recapped, SetScreen
  <2>3. CASE UNCHANGED <<screen, shown>>
    BY <2>1, <2>3, RecapKept
  <2>. QED
    BY <1>11, <2>2, <2>3 DEF SlideEnds
<1>12. CASE MorphEnds
  <2>1. screen' # "PostRound" /\ transition'.kind # "ToPostRound"
    BY <1>12 DEF MorphEnds, SetScreen, Sliding, Slides
  <2>. QED
    BY <2>1, RecapLeft
<1>13. CASE DrawClicked
  <2>1. CASE UNCHANGED <<table, transition>>
    BY <2>1, RecapKept DEF table
  <2>2. CASE ClickOnPopup
    <3>1. screen = "ModeSelection"
      BY <2>2 DEF ClickOnPopup, PopupDrawn
    <3>2. CASE \E mode \in Modes : RequestGameLaunch(mode)
      <4>1. CASE transition.kind # "ToPostRound"
        BY <3>2, <4>1, RequestRecap
      <4>2. CASE transition.kind = "ToPostRound"
        <5>1. hand # 0 /\ assets = "Ready" /\ transition # Idle
          BY <4>2 DEF Base, Table, Dealing, Sliding, Slides, Idle
        <5>2. UNCHANGED <<table, transition>>
          BY <3>1, <3>2, <5>1 DEF RequestGameLaunch, DoLaunch, BeginFade
        <5>. QED
          BY <5>2, RecapKept DEF table
      <4>. QED
        BY <4>1, <4>2
    <3>. QED
      BY <2>1, <2>2, <3>2 DEF ClickOnPopup, DismissPopup
  <2>3. CASE ClickOnPostRound /\ PressAgain
    <3>1. CASE armed /\ RequestGameLaunch(lastConfig)
      <4>1. click
        BY <1>13 DEF DrawClicked
      <4>2. transition.kind # "ToPostRound"
        BY <3>1, <4>1 DEF Arming
      <4>3. lastConfig \in Modes
        BY <2>3 DEF ClickOnPostRound, Base, Table, TableTypes, Dealing
      <4>. QED
        BY <3>1, <4>2, <4>3, RequestRecap
    <3>. QED
      BY <2>1, <2>3, <3>1 DEF PressAgain
  <2>4. CASE BeginFade([to |-> "Exit"]) \/ BeginFade([to |-> "Home"])
    <3>1. [to |-> "Exit"] \in Leaving /\ [to |-> "Home"] \in Leaving
      BY DEF Leaving
    <3>. QED
      BY <2>4, <3>1, LeaveRecap
  <2>. QED
    BY <1>13, <2>1, <2>2, <2>3, <2>4 DEF DrawClicked, ClickOnGame, ClickOnPostRound
<1>14. CASE FadeSwaps
  <2>1. transition'.kind # "ToPostRound"
    <3>1. CASE transition' = Idle
      BY <3>1 DEF Idle
    <3>2. CASE transition' = [transition EXCEPT !.swapped = TRUE]
      <4>1. transition.kind = "Fade" /\ transition \in Transitions
        BY <1>14 DEF FadeSwaps, Base, Table, TableTypes
      <4>2. transition \in [kind : {"Fade"}, swap : Swaps, swapped : BOOLEAN]
        BY <4>1 DEF Transitions, Idle, Slides
      <4>. QED
        BY <3>2, <4>2
    <3>. QED
      BY <1>14, <3>1, <3>2 DEF FadeSwaps
  <2>2. screen' # "PostRound"
    BY <1>14 DEF FadeSwaps, OnSwap, Perform, SetScreen
  <2>. QED
    BY <2>1, <2>2, RecapLeft
<1>15. CASE FadeEnds
  BY <1>15, RecapKept DEF FadeEnds, table, Idle
<1>. QED
  BY <1>1, <1>2, <1>3, <1>4, <1>5, <1>6, <1>7, <1>8, <1>9, <1>10, <1>11, <1>12, <1>13, <1>14, <1>15
     DEF Next, Input, Frame, Quiet

\* Only grading starts the slide into Post-Round.
LEMMA OnlyGrading ==
  ASSUME Base, [Next]_vars, transition'.kind = "ToPostRound", ~EnterKey
  PROVE  transition' = transition
<1>0. ASSUME NEW kind \in Slides, transition' = SlideBegun(kind), kind # "ToPostRound"
      PROVE  transition' = transition
  BY <1>0 DEF SlideBegun
<1>1. ASSUME NEW swap \in Swaps, BeginFade(swap)
      PROVE  transition' = transition
  BY <1>1 DEF BeginFade
<1>2. ASSUME NEW mode \in Modes \cup {NoMode}, RequestGameLaunch(mode) \/ DoLaunch(mode)
      PROVE  transition' = transition
  <2>1. CASE transition' = [kind |-> "Fade", swap |-> [to |-> "Launch", mode |-> mode], swapped |-> FALSE]
    BY <2>1
  <2>2. CASE transition' = SlideBegun("ToGame")
    BY <2>2, <1>0 DEF Slides
  <2>. QED
    BY <1>2, <2>1, <2>2 DEF RequestGameLaunch, DoLaunch, BeginFade, LaunchFails
<1>3. [to |-> "Leave"] \in Swaps /\ [to |-> "Exit"] \in Swaps /\ [to |-> "Home"] \in Swaps
  BY DEF Swaps
<1>4. lastConfig \in Modes \cup {NoMode} /\ pending \in Modes \cup {NoMode}
  BY DEF Base, Table, TableTypes
<1>5. CASE Quiet \/ UNCHANGED vars \/ Tick \/ BootStep \/ MorphEnds
  BY <1>5, QuietIs DEF vars, Tick, BootStep, MorphEnds
<1>6. CASE LaunchPreset \/ PopupKey
  BY <1>6, <1>2 DEF LaunchPreset, PopupKey, DismissPopup
<1>7. CASE LeaveDrill \/ LeavePostRound
  BY <1>7, <1>1, <1>3 DEF LeaveDrill, LeavePostRound
<1>8. CASE AgainKey
  BY <1>8, <1>2, <1>4 DEF AgainKey, PressAgain
<1>9. CASE PollPendingLaunch
  BY <1>9, <1>2, <1>4 DEF PollPendingLaunch, LaunchFails
<1>10. CASE DrawClicked
  BY <1>10, <1>1, <1>2, <1>3, <1>4
     DEF DrawClicked, ClickOnPopup, ClickOnGame, ClickOnPostRound, DismissPopup, PressAgain
<1>11. CASE SlideEnds \/ FadeEnds
  BY <1>11 DEF SlideEnds, FadeEnds, Idle
<1>12. CASE FadeSwaps
  <2>1. CASE transition' = [transition EXCEPT !.swapped = TRUE]
    <3>1. transition.kind = "Fade" /\ transition \in Transitions
      BY <1>12 DEF FadeSwaps, Base, Table, TableTypes
    <3>2. transition \in [kind : {"Fade"}, swap : Swaps, swapped : BOOLEAN]
      BY <3>1 DEF Transitions, Idle, Slides
    <3>. QED
      BY <2>1, <3>2
  <2>. QED
    BY <1>12, <2>1 DEF FadeSwaps, Idle
<1>. QED
  BY <1>5, <1>6, <1>7, <1>8, <1>9, <1>10, <1>11, <1>12 DEF Next, Input, Frame, Quiet

\* Grading disarms Again, and a slide refuses new clicks.
LEMMA ArmingNext ==
  ASSUME Base, Arming, [Next]_vars
  PROVE  Arming'
<1>1. SUFFICES ASSUME transition'.kind = "ToPostRound", armed'
               PROVE  ~click'
  BY DEF Arming
<1>2. CASE EnterKey
  <2>1. CASE UNCHANGED transition
    BY <1>1, <1>2, <2>1 DEF EnterKey, Interactive, Receive, Idle
  <2>2. CASE Submit
    BY <1>1, <2>2 DEF Submit, GradingComplete, CaptureAndEnter
  <2>. QED
    BY <1>2, <2>1, <2>2 DEF EnterKey
<1>3. CASE ~EnterKey
  <2>1. transition' = transition /\ transition # Idle
    BY <1>1, <1>3, OnlyGrading DEF Idle
  <2>2. CASE Tier1Resolves \/ AssetsResolve \/ Tick \/ PollPendingLaunch \/ BootStep \/ SlideEnds
             \/ FadeSwaps \/ FadeEnds \/ DrawOverlay \/ UNCHANGED vars
    <3>1. UNCHANGED <<click, armed>>
      BY <2>2 DEF Tier1Resolves, AssetsResolve, Tick, PollPendingLaunch, BootStep, SlideEnds,
                  FadeSwaps, FadeEnds, DrawOverlay, vars, ui
    <3>. QED
      BY <1>1, <2>1, <3>1 DEF Arming
  <2>3. CASE MorphEnds \/ DrawClicked \/ DrawScreen
    BY <2>3 DEF MorphEnds, DrawClicked, DrawScreen
  <2>4. ~Receive
    BY <2>1 DEF Receive
  <2>. QED
    BY <1>3, <2>2, <2>3, <2>4
       DEF Next, Input, Frame, StartMorph, BeginModeToRootMorph, LaunchPreset, OpenCustomPopup,
           CloseCustomPopup, PopupKey, MouseDown, OpenPanel, OpenLeaveDrillConfirm, CloseModal,
           LeaveDrill, ToggleTransitions, AgainKey, LeavePostRound, ModeSelectionInput, Interactive
<1>. QED
  BY <1>2, <1>3

\* Every variable of the session has its type, in every run: only Game and
\* Post-Round carry an active scenario (screen_state.hpp).
THEOREM SessionTyped == Spec => []SessionTypeOK
<1>1. Init => Base
  BY BaseInit
<1>2. Base /\ [Next]_vars => Base'
  BY BaseNext
<1>3. Base => SessionTypeOK
  BY DEF Base, Table, UiTypes, TableTypes, SessionTypeOK
<1>. QED
  BY <1>1, <1>2, <1>3, PTL DEF Spec

\* Whatever the inputs, launches and clicks, a hand is paid for at most once, and
\* exactly when its recap says it passed (capture_and_enter and the award hook).
THEOREM Payment == Spec => []PaidOnce
<1>1. Init => Base
  BY BaseInit
<1>2. Base /\ [Next]_vars => Base'
  BY BaseNext
<1>3. Base => PaidOnce
  BY DEF Base, Table, Paying, PaidOnce
<1>. QED
  BY <1>1, <1>2, <1>3, PTL DEF Spec

\* The screen state, the hand on the table, the answer sheet and the recap never
\* drift apart, however many inputs come between two frames, in any run in which no
\* deferred launch deals a hand under the slide into the last one's recap
\* (poll_pending_launch looks at the screen only to choose how to animate).
THEOREM StayInStep == Spec /\ [][~DealtUnderTheRecap]_vars => []HandsInStep
<1>. DEFINE IInv == Base /\ Recapped /\ Arming
<1>1. Init => IInv
  <2>1. Init => screen = "Root" /\ transition = Idle /\ ~armed
    BY DEF Init
  <2>. QED
    BY <2>1, BaseInit DEF Recapped, Arming, Idle
<1>2. IInv /\ [Next]_vars /\ [~DealtUnderTheRecap]_vars => IInv'
  BY BaseNext, RecappedNext, ArmingNext
<1>3. IInv => HandsInStep
  <2>1. Base => SessionTypeOK
    BY DEF Base, Table, UiTypes, TableTypes, SessionTypeOK
  <2>. QED
    BY <2>1 DEF Base, Table, Dealing, Playing, Recapped, HandsInStep
<1>. QED
  BY <1>1, <1>2, <1>3, PTL DEF Spec
=============================================================================
