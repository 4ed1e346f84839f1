------------------------------ MODULE Scenario ------------------------------
(***************************************************************************)
(* The scenario engine (engine/*.cpp): a hand is generated from a seed and *)
(* the gameplay settings, and an answer set is graded against it.          *)
(*                                                                         *)
(* A seed is an id with the stream of draws it stands for: the type, the   *)
(* street draw, the shuffles tried, the pot, the bet sizes tried and the   *)
(* jitter.  Numbers are integers: probabilities in per mille, equity and   *)
(* pot odds in percent, bets in sixths of a dollar, and every EV in        *)
(* 1/600000 dollar.  Divisions round down where the code keeps a fraction. *)
(***************************************************************************)
EXTENDS Integers, Sequences, FiniteSets, SequencesExt

CONSTANT BetFractions  \* the bet tiers, in sixths of the pot: 2, 3, 6, 9 in the code

ASSUME ScenarioAssumption == BetFractions \in Seq(Nat) /\ BetFractions # <<>>

kBetTierCount == Len(BetFractions)
BetTiers == 1..kBetTierCount

AtLeast(x, y) == IF x > y THEN x ELSE y
AtMost(x, y) == IF x < y THEN x ELSE y
Clamped(x, low, high) == AtLeast(low, AtMost(x, high))
Magnitude(x) == AtLeast(x, -x)

(* ------------------------- types, streets and cards --------------------- *)

ScenarioTypes == {"Caller", "PureBluff", "ValueBet", "SemiBluff"}
Streets == <<"Preflop", "Flop", "Turn", "River">>

IsAggressor(type) == type # "Caller"
NeedsDraw(type) == type \in {"Caller", "SemiBluff"}
AsksBreakeven(type) == type \in {"PureBluff", "SemiBluff"}
AsksEquityIfCalled(type) == type \in {"ValueBet", "SemiBluff"}
\* Every sub-type asks an EV for each bet size.
AggressorHasPerTierInputs(type) == IsAggressor(type)

BoardCountFor(street) ==
  CASE street = "Preflop" -> 0 [] street = "Flop" -> 3 [] street = "Turn" -> 4 [] street = "River" -> 5

\* draw_street: the weighted streets the type allows; u is a percentage below 100.
AllowedStreets(type) == IF NeedsDraw(type) THEN <<"Flop", "Turn">> ELSE Streets

\* The sums of the first n numbers, from n = 0.
PrefixSums(numbers) ==
  LET sum[n \in 0..Len(numbers)] == IF n = 0 THEN 0 ELSE sum[n - 1] + numbers[n]
  IN sum

DrawStreet(type, u, weight) ==
  LET allowed == AllowedStreets(type)
      weightUpTo == PrefixSums([n \in 1..Len(allowed) |-> weight[allowed[n]]])
      total == weightUpTo[Len(allowed)]
      Reached(n) == u * total < 100 * weightUpTo[n]
  IN IF total = 0
     THEN allowed[(u * Len(allowed)) \div 100 + 1]
     ELSE allowed[CHOOSE n \in 1..Len(allowed) : Reached(n) /\ \A m \in 1..n - 1 : ~Reached(m)]

\* A card is [rank |-> 2..14, suit |-> 1..4]; the ace is 14 and also plays low.
FullDeck == [rank : 2..14, suit : 1..4]

RanksOf(cards) ==
  LET ranks == {c.rank : c \in cards} IN IF 14 \in ranks THEN ranks \cup {1} ELSE ranks

HasStraight(cards) == \E low \in 1..10 : low..low + 4 \subseteq RanksOf(cards)

SuitCount(cards, s) == Cardinality({c \in cards : c.suit = s})

HasFlush(cards) == \E s \in 1..4 : SuitCount(cards, s) >= 5

IsMade(cards) == HasStraight(cards) \/ HasFlush(cards)

\* count_draw_outs: unseen cards that complete a straight or a flush not yet made.
CountDrawOuts(cards) ==
  Cardinality({c \in FullDeck \ cards :
    \/ ~HasFlush(cards) /\ HasFlush(cards \cup {c})
    \/ ~HasStraight(cards) /\ HasStraight(cards \cup {c})})

\* The Rule of 2 and 4.
EquityFromOuts(outs, street) ==
  AtMost(100, outs * (CASE street = "Flop" -> 4 [] street = "Turn" -> 2 [] OTHER -> 0))

\* The player's two cards and the board, out of a shuffled deck.
Dealt(deck, street) == Range(SubSeq(deck, 1, 2 + BoardCountFor(street)))
BoardOf(deck, street) == Range(SubSeq(deck, 3, 2 + BoardCountFor(street)))

\* draw_cards: a drawing type reshuffles until the hand is a clean draw, and settles
\* for the most outs seen; the other types take the first shuffle.
DrawCards(type, street, shuffles) ==
  LET Outs(n) == CountDrawOuts(Dealt(shuffles[n], street))
      clean == {n \in DOMAIN shuffles : ~IsMade(Dealt(shuffles[n], street)) /\ Outs(n) > 0}
      mostOuts == {n \in DOMAIN shuffles : \A m \in DOMAIN shuffles : Outs(m) <= Outs(n)}
      First(tried) == CHOOSE n \in tried : \A m \in tried : n <= m
  IN shuffles[IF ~NeedsDraw(type) THEN 1 ELSE First(IF clean # {} THEN clean ELSE mostOuts)]

(* ----------------------- how often the opponent folds -------------------- *)

kFoldProbabilityMin == 50
kFoldProbabilityMax == 950

StreetFoldAdj(street) ==
  CASE street = "Preflop" -> -60 [] street = "Flop" -> -30 [] street = "Turn" -> 30 [] street = "River" -> 80

GapConnectScore(gap) ==
  CASE gap = 1 -> 1000 [] gap = 2 -> 600 [] gap = 3 -> 300 [] gap = 4 -> 150 [] OTHER -> 0

FoldTextureWetness(board) ==
  LET ranks == {r \in 2..14 : \E c \in board : c.rank = r}
      joined == {r \in ranks : \E q \in ranks : q > r}
      Next(r) == CHOOSE q \in ranks : q > r /\ \A p \in ranks : p > r => q <= p
      scores == [r \in 1..14 |-> IF r \in joined THEN GapConnectScore(Next(r) - r) ELSE 0]
      straight == IF joined = {} THEN 0 ELSE PrefixSums(scores)[14] \div Cardinality(joined)
      flush == IF \E s \in 1..4 : SuitCount(board, s) >= 3 THEN 1000
               ELSE IF \E s \in 1..4 : SuitCount(board, s) = 2 THEN 500 ELSE 0
      paired == IF Cardinality(ranks) < Cardinality(board) THEN 150 ELSE 0
  IN IF Cardinality(board) < 3 THEN 500
     ELSE Clamped((550 * flush + 550 * straight) \div 1000 - paired, 0, 1000)

FoldBoardDanger(board) ==
  LET Tops(r) == r \in {c.rank : c \in board}
  IN IF Tops(14) THEN 1000 ELSE IF Tops(13) THEN 550 ELSE IF Tops(12) THEN 250 ELSE 0

FoldCenter(street, board) ==
  Clamped(450 + StreetFoldAdj(street) + (260 * (500 - FoldTextureWetness(board))) \div 1000
            + (60 * FoldBoardDanger(board)) \div 1000,
          kFoldProbabilityMin, kFoldProbabilityMax)

\* sample_situational_f: jitter is between -50 and 50.
SituationalF(street, board, jitter) ==
  Clamped(FoldCenter(street, board) + jitter, kFoldProbabilityMin, kFoldProbabilityMax)

\* Mutant: the bet-size term has the wrong sign.
FoldProbabilityBug(f, sixths) ==
  Clamped(f - (250 * (sixths - 3)) \div 6, kFoldProbabilityMin, kFoldProbabilityMax)

\* fold_probability: half pot is the neutral size.
FoldProbability(f, sixths) ==
  Clamped(f + (250 * (sixths - 3)) \div 6, kFoldProbabilityMin, kFoldProbabilityMax)

(* ------------------------- the truth behind the answers ------------------ *)

\* The locked EV formulas; pot and bet in the same unit, fold in per mille.
PureBluffEv(fold, pot, bet) == 100 * (fold * pot - (1000 - fold) * bet)
ValueBetEv(fold, bet) == 100 * (1000 - fold) * bet
SemiBluffEv(fold, equity, pot, bet) ==
  100 * fold * pot + (1000 - fold) * (equity * (pot + 2 * bet) - 100 * bet)

NetCallEv(equity, pot, bet) == 6000 * (equity * (pot + bet) - (100 - equity) * bet)

\* resolve_caller_bet: the first bet whose pot odds are in the band and far enough from
\* the equity, else the best one seen.
CallerBet(equity, pot, fractions) ==
  LET bet == [n \in DOMAIN fractions |-> AtLeast(1, (fractions[n] * pot + 50) \div 100)]
      InBand(n) == 20 * (pot + bet[n]) <= 100 * bet[n] /\ 100 * bet[n] <= 44 * (pot + bet[n])
      gap == [n \in DOMAIN fractions |->
                (1000 * Magnitude(equity * (pot + bet[n]) - 100 * bet[n])) \div (pot + bet[n])]
      Clear(n) == InBand(n) /\ gap[n] >= 8000
      score == [n \in DOMAIN fractions |-> IF InBand(n) THEN gap[n] ELSE gap[n] - 1000000]
      Best(n) == \A m \in DOMAIN fractions : score[m] <= score[n]
      First(P(_)) == CHOOSE n \in DOMAIN fractions : P(n) /\ \A m \in 1..n - 1 : ~P(m)
  IN bet[IF \E n \in DOMAIN fractions : Clear(n) THEN First(Clear) ELSE First(Best)]

TierEv(type, fold, equity, pot, bet) ==
  CASE type = "PureBluff" -> PureBluffEv(fold, pot, bet)
    [] type = "ValueBet" -> ValueBetEv(fold, bet)
    [] type = "SemiBluff" -> SemiBluffEv(fold, equity, pot, bet)
    [] OTHER -> 0

\* build_tiers: the truth of every bet size.
BuildTiers(type, f, equity, pot) ==
  [t \in BetTiers |->
     LET bet == BetFractions[t] * pot
         fold == FoldProbability(f, BetFractions[t])
     IN [bet |-> bet, fold |-> fold, ev |-> TierEv(type, fold, equity, 6 * pot, bet)]]

\* The highest EV; of equals, the smallest size.
MaxEvTier(tiers) ==
  CHOOSE t \in BetTiers :
    /\ \A u \in BetTiers : tiers[u].ev <= tiers[t].ev
    /\ \A u \in 1..t - 1 : tiers[u].ev < tiers[t].ev

\* generate_scenario, from a seed and the gameplay settings g.
GenerateScenario(seed, g) ==
  LET street == DrawStreet(seed.type, seed.u, g.weight)
      deck == DrawCards(seed.type, street, seed.shuffles)
      outs == CountDrawOuts(Dealt(deck, street))
      equity == EquityFromOuts(outs, street)
      bet == IF seed.type = "Caller" THEN CallerBet(equity, seed.pot, seed.fractions) ELSE 0
      f == IF IsAggressor(seed.type) THEN SituationalF(street, BoardOf(deck, street), seed.jitter) ELSE 0
      \* Only the Semi-Bluff's EV uses the equity.
      tiers == BuildTiers(seed.type, f, IF seed.type = "SemiBluff" THEN equity ELSE 0, seed.pot)
      best == MaxEvTier(tiers)
  IN [id |-> seed.id, type |-> seed.type, street |-> street, hand |-> Dealt(deck, street), outs |-> outs,
      equity |-> equity, pot |-> seed.pot, bet |-> bet, ev |-> NetCallEv(equity, seed.pot, bet),
      tiers |-> tiers, best |-> best, multi_tier |-> g.multi_tier,
      presented |-> IF g.multi_tier THEN best ELSE seed.tier]

(* --------------------------------- grading ------------------------------- *)

\* The absolute floor is half a dollar, the relative margin 5 %.
EvMargin(ev) == AtLeast(300000, Magnitude(ev) \div 20)

\* A numeric answer is "Right" when it is within the margin of the truth, "Wrong" when
\* it is not, and "None" when the box holds no number.
GradeNumber(id, answer) == [id |-> id, correct |-> answer = "Right"]

\* grade_bet_size: any size whose EV is within the tolerance of the best.
GradeBetSize(s, pick) ==
  [id |-> <<"BetSize", 0>>,
   correct |-> pick # 0 /\ s.tiers[pick].ev >= s.tiers[s.best].ev - EvMargin(s.tiers[s.best].ev)]

\* evaluate: the grades in the order of the recap.  The answers are those of
\* UserAnswers: one field for each tier-less input, one per tier for the others.
Evaluate(s, answers) ==
  LET Breakeven(t) ==
        IF AsksBreakeven(s.type) THEN <<GradeNumber(<<"Breakeven", t>>, answers.tierBreakeven[t])>> ELSE <<>>
      Ev(t) == <<GradeNumber(<<"Ev", t>>, answers.tierEv[t])>>
      equity == IF AsksEquityIfCalled(s.type)
                THEN <<GradeNumber(<<"Equity", 0>>, answers.equityIfCalled)>> ELSE <<>>
  IN IF s.type = "Caller"
     THEN <<GradeNumber(<<"PotOdds", 0>>, answers.potOdds), GradeNumber(<<"Outs", 0>>, answers.outs),
            GradeNumber(<<"Equity", 0>>, answers.callerEquity), GradeNumber(<<"Ev", 0>>, answers.callerEv)>>
     ELSE (IF s.multi_tier
           THEN FlattenSeq([t \in BetTiers |-> Breakeven(t) \o Ev(t)]) \o equity
           ELSE Breakeven(s.presented) \o equity \o Ev(s.presented))
          \o <<GradeBetSize(s, answers.pick)>>

IsPass(grades) == \A n \in DOMAIN grades : grades[n].correct

(* ------------------------------- a fresh hand ---------------------------- *)

\* accepts: does the type of a seed satisfy the mode; side is drawn once per launch.
Accepts(mode, wantAggressor, type) ==
  CASE mode = "Standard" -> TRUE
    [] mode = "Aggressor" -> IsAggressor(type)
    [] mode = "Caller" -> type = "Caller"
    [] mode = "Custom" -> IsAggressor(type) = wantAggressor

\* draw_aggressor_side: a draw below 100 against the weight.
Sides(weight) == {draw < weight : draw \in 0..99}

\* select_scenario_id: a seed the mode accepts, or the last one tried.
Selectable(seeds, mode, wantAggressor) ==
  LET accepted == {seed \in seeds : Accepts(mode, wantAggressor, seed.type)}
  IN IF accepted = {} THEN seeds ELSE accepted
=============================================================================
