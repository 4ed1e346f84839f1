-------------------------------- MODULE Hand --------------------------------
(***************************************************************************)
(* The drill of one hand, from the deal to the recap (math/*.cpp,          *)
(* bridge/game_launch.cpp, render/stat_modal.cpp): the answer sheet, its   *)
(* keyboard, the walk through the bet tiers, grading and the recap's tabs. *)
(*                                                                         *)
(* Two owners of the keyboard are kept apart, as in the code: the focus    *)
(* context, which draws the ring and which Tab, the digits and clicks      *)
(* move, and the caret of the text library, which decides whether a digit  *)
(* is typed or reaches the key handlers.  A frame reconciles them; keys    *)
(* arrive between frames.  A stop of the focus list is <<input, tier>>,    *)
(* with tier 0 for an input that no bet tier owns.                         *)
(***************************************************************************)
EXTENDS Scenario, FocusStack

CONSTANTS
  Seeds,    \* the seeds the launch may draw
  Played,   \* bound: the seeds worked on outside a lesson; the others are only dealt
  Lessons,  \* the teaching seeds: one Caller, one Pure Bluff
  Options,  \* the values of the settings a hand depends on
  Modes,    \* the game modes launched
  AggressorWeight,  \* the Custom mode's share of Aggressor hands, in percent
  Slips     \* bound: the boxes a wrong number is typed into; a right one is typed into any

ASSUME HandAssumption ==
  /\ Played \cup Lessons \subseteq Seeds
  /\ \A s, t \in Seeds : s.id = t.id => s = t
  /\ \A s \in Seeds : s.type \in ScenarioTypes /\ s.tier \in BetTiers
  /\ \A s \in Lessons : s.type \in {"Caller", "PureBluff"}
  /\ Options \subseteq [multi_tier : BOOLEAN, weight : [Range(Streets) -> Nat],
                       shop : BOOLEAN, summaryFirst : BOOLEAN]
  /\ AggressorWeight \in 0..100

ASSUME SeedAssumption ==
  \A s \in Seeds : s.u \in 0..99 /\ s.shuffles \in Seq(Seq(FullDeck)) \ {<<>>} /\ s.jitter \in Int

VARIABLES
  options,   \* the live settings
  screen,    \* "Lobby" stands for the screens before the first launch
  scenario,  \* InterrogatorState.scenario
  boxes,     \* the stops of all numeric boxes, in spawn order
  text,      \* what each box holds
  pick,      \* the bet group's selection, 0 for none
  tier,      \* current_tier
  focus,     \* the active focus context
  registry,  \* the registered stops: text fields and the others
  synced,    \* last_synced_focus
  caret,     \* the box that takes the typed characters
  grab,      \* the box whose SetKeyboardFocusHere takes effect in the next frame
  inert,     \* tutorial_text_focus_suppressed
  lesson,    \* position in the tutorial's walk through the sheet, 0 outside it
  result,    \* the grades of the last submission
  tab,       \* the active tab of the recap
  raced,     \* a click hit one box while the caret was on its way to another, and the
             \* ring has not moved since
  calm       \* frames since a key or click that may move ring or caret, up to two

sheet == <<boxes, text, pick, tier>>
keyboard == <<focus, registry, synced, caret, grab, inert, raced>>
vars == <<options, screen, scenario, sheet, keyboard, lesson, result, tab, calm>>

NoStop == <<"None", 0>>
BetGroup == <<"BetSize", 0>>
\* A text that is not a number is graded like a blank.
Texts == {"Blank", "Right", "Wrong"}
Cluster(o) == IF o.shop THEN <<<<"Shop", 0>>, <<"X", 0>>>> ELSE <<<<"X", 0>>>>
ClusterTail == Cluster([shop |-> TRUE])

Parsed(value) == IF value \in {"Right", "Wrong"} THEN value ELSE "None"

BoxFilled(box) == Parsed(text[box]) # "None"

(* -------------------------------- the sheet ----------------------------- *)

BetGroupPresent(s) == IsAggressor(s.type)

PerTier(input, asked, tiers) == IF asked THEN [n \in DOMAIN tiers |-> <<input, tiers[n]>>] ELSE <<>>

\* Mutant: a single-tier hand asks the breakeven of the first tier.
BuildBoxesBug(s) ==
  LET tiers == IF s.multi_tier THEN [t \in BetTiers |-> t] ELSE <<s.presented>>
      asked == IF s.multi_tier THEN tiers ELSE <<1>>
  IN IF s.type = "Caller" THEN <<<<"PotOdds", 0>>, <<"Outs", 0>>, <<"Equity", 0>>, <<"Ev", 0>>>>
     ELSE PerTier("Breakeven", AsksBreakeven(s.type), asked)
            \o (IF AsksEquityIfCalled(s.type) THEN <<<<"Equity", 0>>>> ELSE <<>>)
            \o PerTier("Ev", TRUE, tiers)

\* build_boxes: every breakeven before the equity, every EV after it.
BuildBoxes(s) ==
  LET tiers == IF s.multi_tier THEN [t \in BetTiers |-> t] ELSE <<s.presented>>
  IN IF s.type = "Caller" THEN <<<<"PotOdds", 0>>, <<"Outs", 0>>, <<"Equity", 0>>, <<"Ev", 0>>>>
     ELSE PerTier("Breakeven", AsksBreakeven(s.type), tiers)
            \o (IF AsksEquityIfCalled(s.type) THEN <<<<"Equity", 0>>>> ELSE <<>>)
            \o PerTier("Ev", TRUE, tiers)

IsSequential(s) == IsAggressor(s.type) /\ s.multi_tier /\ AggressorHasPerTierInputs(s.type)

\* current_view_boxes: a sequential hand shows one tier at a time, and on each of
\* them the boxes no tier owns.
View(s, all, at) ==
  IF IsSequential(s)
  THEN FlattenSeq([n \in DOMAIN all |-> IF all[n][2] \in {0, at} THEN <<all[n]>> ELSE <<>>])
  ELSE all

FocusSegment(s, all, at) == View(s, all, at) \o (IF BetGroupPresent(s) THEN <<BetGroup>> ELSE <<>>)

Segment == FocusSegment(scenario, boxes, tier)

FocusTarget(digit) == IF digit \in DOMAIN Segment THEN Segment[digit] ELSE NoStop

\* register_game_focus_list: the sheet, then the icons of the cluster.
GameFocusList(s, all, at, o) == FocusSegment(s, all, at) \o Cluster(o)

\* populate_focus_registry.
RegistryOf(s, all, at) ==
  [fields |-> Range(View(s, all, at)),
   others |-> (IF BetGroupPresent(s) THEN {BetGroup} ELSE {}) \cup Range(ClusterTail)]

\* The ringed stop, none until the context is armed.
Focused == IF focus.armed /\ focus.list # <<>> THEN focus.list[focus.pointer] ELSE NoStop

FocusInMathZone == Focused = NoStop \/ Focused \in Range(Segment)

IsLastTier == tier >= kBetTierCount

ShownBoxes == Range(View(scenario, boxes, tier))

\* Mutant: one filled box opens the gate.
CurrentTierFilledBug == \E box \in ShownBoxes : BoxFilled(box)

\* enter_action of the tutorial: the bet size never gates.
CurrentTierFilled == \A box \in ShownBoxes : BoxFilled(box)

AllVisibleInputsFilled ==
  /\ \A n \in DOMAIN boxes : BoxFilled(boxes[n])
  /\ BetGroupPresent(scenario) => pick # 0

(* -------------------------------- the recap ----------------------------- *)

HasTierTabs(s) == IsSequential(s)
SummaryTab == kBetTierCount + 1

\* The stops of the recap; "Again" stands for every button after the strip.
TierStrip == <<"TierStrip", 0>>
FocusHead(s) == (IF HasTierTabs(s) THEN <<TierStrip>> ELSE <<>>) \o <<<<"Again", 0>>>>

\* push_first: the first grade of one of these boxes, as a row or none.
PushFirst(grades, ids) ==
  LET found == {n \in DOMAIN grades : grades[n].id \in ids}
  IN IF found = {} THEN <<>> ELSE <<grades[CHOOSE n \in found : \A m \in found : n <= m]>>

\* Mutant: the breakeven of a tab is looked up without its tier.
BuildTierRowsBug(grades, t) ==
  LET Row(input, n) == PushFirst(grades, {<<input, n>>})
  IN PushFirst(grades, {"Breakeven"} \X BetTiers) \o Row("Equity", 0) \o Row("Ev", t) \o Row("BetSize", 0)

\* build_tier_rows: a tab repeats the answers that belong to the whole hand.
BuildTierRows(grades, t) ==
  LET Row(input, n) == PushFirst(grades, {<<input, n>>})
  IN Row("Breakeven", t) \o Row("Equity", 0) \o Row("Ev", t) \o Row("BetSize", 0)

BuildFlatRows(grades) == grades

BuildSummary(grades) ==
  [total |-> Len(grades), totalCorrect |-> Cardinality({n \in DOMAIN grades : grades[n].correct})]

(* ------------------------------ the tutorial ---------------------------- *)

Walked(stops) == FlattenSeq([n \in DOMAIN stops |->
  <<[kind |-> "Stage1", stop |-> stops[n]], [kind |-> "Stage2", stop |-> stops[n]]>>])

\* The walk's steps: each input is named, then taught; the Caller's last one is
\* taught and submitted in one step.
Walk ==
  IF scenario.type = "Caller"
  THEN Walked(<<<<"PotOdds", 0>>, <<"Outs", 0>>, <<"Equity", 0>>>>)
         \o <<[kind |-> "Stage1", stop |-> <<"Ev", 0>>], [kind |-> "Submit", stop |-> <<"Ev", 0>>]>>
  ELSE Walked(<<<<"Breakeven", 1>>, <<"Ev", 1>>, BetGroup>>) \o <<[kind |-> "Tiers", stop |-> NoStop]>>

InLesson == lesson # 0
At(kinds) == InLesson /\ Walk[lesson].kind \in kinds

\* tutorial_suppresses_text_focus, tutorial_live_math_box.
SuppressesTextFocus == At({"Stage1"})
LiveBox == IF At({"Stage1", "Stage2"}) THEN Walk[lesson].stop ELSE NoStop

\* box_disabled, negated.
Enabled(stop) == InLesson => ~SuppressesTextFocus /\ LiveBox \in {NoStop, stop}

\* advance_cursor: a step that teaches an input focuses it.
AdvanceCursor ==
  /\ lesson' = lesson + 1
  /\ focus' = IF Walk[lesson + 1].kind = "Tiers" THEN focus ELSE Snapped(focus, Walk[lesson + 1].stop)

(* ------------------------- dealing and configuring ---------------------- *)

NoHand == [type |-> "None", multi_tier |-> FALSE]

Init ==
  /\ options \in Options
  /\ screen = "Lobby" /\ scenario = NoHand
  /\ boxes = <<>> /\ text = <<>> /\ pick = 0 /\ tier = 1
  /\ focus = Registered(<<>>) /\ registry = [fields |-> {}, others |-> {}]
  /\ synced = NoStop /\ caret = NoStop /\ grab = NoStop /\ inert = FALSE /\ raced = FALSE
  /\ lesson = 0 /\ result = <<>> /\ tab = 1 /\ calm = 0

\* The hands a launch can generate.
LessonOptions(o) == [o EXCEPT !.multi_tier = TRUE]
Hands ==
  [seed \in Seeds |-> [o \in Options \cup {LessonOptions(o) : o \in Options} |-> GenerateScenario(seed, o)]]

\* apply_scenario: a fresh sheet, its focus list and its registry.
\* configure_for_scenario: an empty sheet of the hand's boxes, at its first tier, and the
\* caret is fetched anew.
Configured(s) ==
  /\ scenario' = s
  /\ boxes' = BuildBoxes(s)
  /\ text' = [box \in Range(BuildBoxes(s)) |-> "Blank"]
  /\ pick' = 0
  /\ tier' = 1
  /\ synced' = NoStop

ApplyScenario(s, o) ==
  /\ Configured(s)
  /\ focus' = Registered(GameFocusList(s, BuildBoxes(s), 1, o))
  /\ registry' = RegistryOf(s, BuildBoxes(s), 1)

\* do_launch: from the menus, or Again from the recap.
Deal(seed, o) ==
  /\ ApplyScenario(Hands[seed][o], o)
  /\ screen' = "Game"
  /\ result' = <<>>
  /\ UNCHANGED <<caret, grab, inert, raced, tab>>

\* select_scenario_id over the modes and, for the Custom one, the side drawn.
Offered == UNION {Selectable(Seeds, mode, side) : mode \in Modes, side \in Sides(AggressorWeight)}

Launch ==
  /\ screen \in {"Lobby", "PostRound"}
  /\ \E seed \in Offered :
       /\ screen = "PostRound" => seed \in Played
       /\ Deal(seed, options)
  /\ lesson' = 0
  /\ calm' = 0
  /\ UNCHANGED options

\* The tutorial launches a teaching seed under the forced settings, all tiers on.
LaunchLesson ==
  /\ screen = "Lobby"
  /\ \E seed \in Lessons : Deal(seed, LessonOptions(options))
  /\ lesson' = 1
  /\ calm' = 0
  /\ UNCHANGED options

\* The first step of the walk focuses the first input.
EnterWalk ==
  /\ screen = "Game" /\ lesson = 1 /\ Focused = NoStop
  /\ focus' = Snapped(focus, Walk[1].stop)
  /\ calm' = 0
  /\ UNCHANGED <<options, screen, scenario, sheet, registry, synced, caret, grab, inert, raced, lesson, result, tab>>

\* A setting is changed in the panel over the table: the hand on the table keeps its own.
ChangeOptions ==
  /\ ~InLesson
  /\ \E o \in Options : options' = o
  /\ UNCHANGED <<screen, scenario, sheet, keyboard, lesson, result, tab, calm>>

(* --------------------------------- a frame ------------------------------ *)

\* Mutant: an unchanged focus is left alone before the stop's kind is looked at.
ReconcileBug(previous, current) ==
  IF current = previous THEN [action |-> "None", target |-> NoStop]
  ELSE IF current \in registry.others THEN [action |-> "Yield", target |-> NoStop]
  ELSE IF current \in registry.fields THEN [action |-> "Focus", target |-> current]
  ELSE [action |-> "None", target |-> NoStop]

\* decide_focus_reconcile: a stop that is not a field gives the keyboard back every
\* frame, a field takes it once.
Reconcile(previous, current) ==
  IF current \in registry.others THEN [action |-> "Yield", target |-> NoStop]
  ELSE IF current # previous /\ current \in registry.fields THEN [action |-> "Focus", target |-> current]
  ELSE [action |-> "None", target |-> NoStop]

Worked == InLesson \/ \E seed \in Played : scenario.id = seed.id
Working == screen = "Game" /\ Worked

\* render_math_inputs with a click, NoStop for none: the click moves ring and caret at
\* once; a grab asked for in this frame takes effect in the next one, even if the
\* focus has moved on, and against a click the box drawn later wins.
RenderMathInputs(click) ==
  LET view == View(scenario, boxes, tier)
      Drawn(box) == box # NoStop /\ Enabled(box) /\ box \in Range(view)
      lifted == inert /\ ~SuppressesTextFocus
      decision == IF SuppressesTextFocus THEN [action |-> "None", target |-> NoStop]
                  ELSE Reconcile(IF lifted THEN NoStop ELSE synced, Focused)
      kept == IF decision.action = "Yield" \/ SuppressesTextFocus THEN NoStop ELSE caret
      taken == IF Drawn(grab) THEN grab ELSE kept
      clicked == IF grab # NoStop /\ taken = grab /\ IndexIn(view, click) < IndexIn(view, grab)
                 THEN grab ELSE click
  IN /\ Working
     /\ click # NoStop => Drawn(click)
     /\ inert' = SuppressesTextFocus
     /\ grab' = IF decision.action = "Focus" /\ Drawn(decision.target) THEN decision.target ELSE NoStop
     /\ caret' = IF click # NoStop THEN clicked ELSE IF Drawn(taken) THEN taken ELSE NoStop
     /\ focus' = IF click # NoStop THEN Snapped(focus, click) ELSE focus
     /\ synced' = IF focus'.armed THEN focus'.list[focus'.pointer] ELSE NoStop
     /\ raced' = IF click # NoStop THEN ~({clicked, grab'} \subseteq {click, NoStop})
                ELSE raced /\ decision.action = "None"
     /\ calm' = IF click # NoStop THEN 0 ELSE AtMost(2, calm + 1)
     /\ UNCHANGED <<options, screen, scenario, sheet, registry, lesson, result, tab>>

Frame == RenderMathInputs(NoStop)

ClickBox == \E box \in ShownBoxes : RenderMathInputs(box)

\* A bet button: the pick and the ring; the button takes the text focus away.
ClickBet ==
  /\ Working /\ BetGroupPresent(scenario) /\ Enabled(BetGroup)
  /\ pick' \in BetTiers
  /\ focus' = Snapped(focus, BetGroup)
  /\ synced' = BetGroup
  /\ caret' = NoStop
  /\ calm' = 0
  /\ UNCHANGED <<options, screen, scenario, boxes, text, tier, registry, grab, inert, raced, lesson, result, tab>>

(* ---------------------------------- keys -------------------------------- *)

\* The characters go to the caret; Right and Wrong are numbers within and outside the
\* margin of the truth.
TypeText ==
  /\ Working /\ caret # NoStop
  /\ \E value \in Texts :
       /\ value = "Wrong" => caret \in Slips
       /\ text' = [text EXCEPT ![caret] = value]
  /\ UNCHANGED <<options, screen, scenario, boxes, pick, tier, keyboard, lesson, result, tab, calm>>

\* on_number_key, and before it the overlay: with no caret a digit picks a tier on the
\* bet group and jumps to a stop elsewhere.
NumberKey ==
  /\ Working /\ caret = NoStop
  /\ \E digit \in 1..6 :
       \/ /\ At({"Stage1"})
          /\ FocusTarget(digit) = Walk[lesson].stop
          /\ AdvanceCursor
          /\ UNCHANGED pick
       \/ /\ ~At({"Stage1", "Submit"})
          /\ IF Focused = BetGroup
             THEN /\ pick' = IF digit \in BetTiers THEN digit ELSE pick
                  /\ UNCHANGED focus
             ELSE /\ FocusTarget(digit) # NoStop
                  /\ focus' = Snapped(focus, FocusTarget(digit))
                  /\ UNCHANGED pick
          /\ UNCHANGED lesson
  /\ calm' = 0
  /\ UNCHANGED <<options, screen, scenario, boxes, text, tier, registry, synced, caret, grab, inert, raced, result, tab>>

ArrowPick(step) == IF pick = 0 THEN 1 ELSE Clamped(pick + step, 1, kBetTierCount)

\* on_arrow_key: the first arrow lands on the first tier, the others stop at the ends.
ArrowKey ==
  /\ Working /\ Focused = BetGroup /\ ~At({"Stage1", "Submit"})
  /\ \E step \in {-1, 1} : pick' = ArrowPick(step)
  /\ UNCHANGED <<options, screen, scenario, boxes, text, tier, keyboard, lesson, result, tab, calm>>

\* Tab moves the ring; in a taught step it goes on to the next input instead.
TabKey ==
  /\ Working
  /\ \/ /\ At({"Stage2"})
        /\ AdvanceCursor
     \/ /\ ~At({"Stage1", "Stage2", "Submit"})
        /\ \E reverse \in BOOLEAN : focus' = AdvanceFocus(focus, reverse)
        /\ UNCHANGED lesson
  /\ calm' = 0
  /\ UNCHANGED <<options, screen, scenario, sheet, registry, synced, caret, grab, inert, raced, result, tab>>

\* advance_tier: the next tier's screen, on its first stop; pick and answers stay.
AdvanceTier ==
  LET list == GameFocusList(scenario, boxes, tier + 1, options)
  IN /\ tier' = tier + 1
     /\ focus' = Snapped(Registered(list), list[1])
     /\ registry' = RegistryOf(scenario, boxes, tier + 1)
     /\ synced' = NoStop
     /\ UNCHANGED <<screen, grab, raced, result, tab>>

\* gather_answers: the fields of UserAnswers, one Equity box serving both roles.
GatherAnswers ==
  LET Answer(input, t) == IF <<input, t>> \in DOMAIN text THEN Parsed(text[<<input, t>>]) ELSE "None"
      caller == scenario.type = "Caller"
  IN [potOdds |-> Answer("PotOdds", 0), outs |-> Answer("Outs", 0),
      callerEquity |-> IF caller THEN Answer("Equity", 0) ELSE "None",
      equityIfCalled |-> IF caller THEN "None" ELSE Answer("Equity", 0),
      callerEv |-> Answer("Ev", 0),
      tierEv |-> [t \in BetTiers |-> Answer("Ev", t)],
      tierBreakeven |-> [t \in BetTiers |-> Answer("Breakeven", t)],
      pick |-> pick]

\* on_submit, and the entry of the recap that follows it: with the boxes off the screen
\* the text library drops a grab on its way, and last_synced_focus is dead until the
\* next deal clears it.
Submit ==
  /\ result' = Evaluate(scenario, GatherAnswers)
  /\ screen' = "PostRound"
  /\ tab' = IF HasTierTabs(scenario) /\ options.summaryFirst THEN SummaryTab ELSE 1
  /\ focus' = Registered(FocusHead(scenario))
  /\ synced' = NoStop /\ grab' = NoStop /\ raced' = FALSE
  /\ UNCHANGED <<tier, registry>>

\* Enter with nothing to do: mid-walk, or in a lesson whose screen is not filled.
Ignored ==
  \/ At({"Stage2"})
  \/ InLesson /\ ~(IF IsSequential(scenario) THEN CurrentTierFilled ELSE AllVisibleInputsFilled)

\* on_enter_key, from the sheet only: on an icon Enter belongs to the icon.  Whatever
\* comes of it, the text library lets go of the caret.
EnterKey ==
  /\ Working /\ FocusInMathZone /\ ~At({"Stage1"})
  /\ \/ Ignored /\ UNCHANGED <<screen, tier, focus, registry, synced, grab, raced, result, tab>>
     \/ ~Ignored /\ IsSequential(scenario) /\ ~IsLastTier /\ AdvanceTier
     \/ ~Ignored /\ (IsSequential(scenario) => IsLastTier) /\ Submit
  /\ caret' = NoStop
  /\ calm' = 0
  /\ UNCHANGED <<options, scenario, boxes, text, pick, inert, lesson>>

(* -------------------------------- the recap ----------------------------- *)

\* on_tab_nav_key: on the strip, where arrows stop at the ends; and a click on it.
ChangeTab ==
  /\ screen = "PostRound" /\ HasTierTabs(scenario)
  /\ \/ /\ Focused = TierStrip
        /\ \/ \E step \in {-1, 1} : tab' = Clamped(tab + step, 1, SummaryTab)
           \/ tab' \in 1..SummaryTab
        /\ UNCHANGED focus
     \/ /\ tab' \in 1..SummaryTab
        /\ focus' = Snapped(focus, TierStrip)
  /\ UNCHANGED <<options, screen, scenario, sheet, registry, synced, caret, grab, inert, raced, lesson, result, calm>>

RecapTabKey ==
  /\ screen = "PostRound"
  /\ \E reverse \in BOOLEAN : focus' = AdvanceFocus(focus, reverse)
  /\ UNCHANGED <<options, screen, scenario, sheet, registry, synced, caret, grab, inert, raced, lesson, result, tab, calm>>

Next ==
  \/ Launch \/ LaunchLesson \/ EnterWalk \/ ChangeOptions
  \/ Frame \/ ClickBox \/ ClickBet
  \/ TypeText \/ NumberKey \/ ArrowKey \/ TabKey \/ EnterKey
  \/ ChangeTab \/ RecapTabKey

Spec == Init /\ [][Next]_vars

(* -------------------------------- properties ---------------------------- *)

Stops == {"PotOdds", "Outs", "Equity", "Ev", "Breakeven", "BetSize", "Shop", "X", "TierStrip", "Again", "None"} \X (0..kBetTierCount)

\* The type invariant of the hand.
HandTypeOK ==
  /\ options \in Options
  /\ screen \in {"Lobby", "Game", "PostRound"}
  /\ Range(boxes) \subseteq Stops /\ DOMAIN text = Range(boxes) /\ Range(text) \subseteq Texts
  /\ pick \in 0..kBetTierCount /\ tier \in BetTiers
  /\ {synced, caret, grab} \subseteq Stops
  /\ lesson \in 0..8 /\ tab \in 1..SummaryTab /\ calm \in 0..2

\* What the next hand must be (generator.cpp, deck.cpp): a street the weights and the
\* type allow, a drawing hand that is a clean draw whenever one of the shuffles was, and
\* a fold chance that never falls as the bet grows.
SoundDeal(s, o) ==
  LET allowed == AllowedStreets(s.type)
      Clean(cards) == ~IsMade(cards) /\ CountDrawOuts(cards) > 0
      seed == CHOOSE x \in Seeds : x.id = s.id
      shuffled == {Dealt(seed.shuffles[n], s.street) : n \in DOMAIN seed.shuffles}
  IN /\ s.street \in Range(allowed)
     /\ o.weight[s.street] > 0 \/ \A n \in DOMAIN allowed : o.weight[allowed[n]] = 0
     /\ NeedsDraw(s.type) /\ (\E cards \in shuffled : Clean(cards)) => s.outs > 0 /\ ~IsMade(s.hand)
     /\ IsAggressor(s.type) =>
          \A t, u \in BetTiers : BetFractions[t] <= BetFractions[u] => s.tiers[t].fold <= s.tiers[u].fold

\* Every deal is sound under the settings it is dealt with.
DealIsSound == [][scenario' # scenario => SoundDeal(scenario', options)]_vars

\* The submission grades every box that the hand asks and the bet size, each once and by
\* its own answer, whatever was changed in the settings or left on an earlier tier's
\* screen in between (submission.cpp, evaluator.cpp).  (The types are part of it.)
GradedAsShown ==
  /\ HandTypeOK
  /\ screen = "PostRound" =>
       LET asked == Range(boxes) \cup (IF BetGroupPresent(scenario) THEN {BetGroup} ELSE {})
       IN /\ {result[n].id : n \in DOMAIN result} = asked
          /\ Len(result) = Cardinality(asked)
          /\ \A n \in DOMAIN result :
               result[n].id # BetGroup => (result[n].correct <=> text[result[n].id] = "Right")

\* The recap hides no grade and invents none: a tabbed recap shows on each tier's tab
\* what that tier's screen asked, in the same order, and its summary counts every grade
\* once; a recap without tabs shows all of them (stat_modal.cpp).
RecapShowsEveryGrade ==
  screen = "PostRound" =>
    IF HasTierTabs(scenario)
    THEN /\ \A t \in BetTiers :
              LET rows == BuildTierRows(result, t)
              IN [n \in DOMAIN rows |-> rows[n].id] = FocusSegment(scenario, boxes, t)
         /\ UNION {Range(BuildTierRows(result, t)) : t \in BetTiers} = Range(result)
         /\ LET summary == BuildSummary(result)
            IN summary.totalCorrect = summary.total <=> \A t \in BetTiers : IsPass(BuildTierRows(result, t))
    ELSE BuildFlatRows(result) = result

\* Two frames after the last key or click the characters go to the ringed box or to no
\* box at all: ring and caret settle apart only after a click that raced a grab, and in a
\* taught step, where a digit before the caret arrives rings a disabled box
\* (focus_reconcile.cpp, input_boxes.cpp, overlay.cpp).
CaretFollowsTheRing == Working /\ calm = 2 /\ ~raced /\ ~At({"Stage2"}) => caret \in {NoStop, Focused}

\* A lesson is never submitted with a blank: the gate looks at one screen at a time, and
\* a screen that was left cannot be visited again (keybinds.cpp, tier_flow.cpp).
LessonSheetIsComplete == InLesson /\ screen = "PostRound" => \A n \in DOMAIN boxes : BoxFilled(boxes[n])
=============================================================================
