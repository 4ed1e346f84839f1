------------------------------- MODULE MCHand -------------------------------
(***************************************************************************)
(* Instances of Hand: named decks and seeds, and two of the bet tiers.     *)
(***************************************************************************)
EXTENDS Hand

C(rank, suit) == [rank |-> rank, suit |-> suit]

\* The player's two cards, then the flop, the turn and the river.
Decks ==
  [FlushDraw |-> <<C(14, 1), C(9, 1), C(6, 1), C(3, 1), C(12, 2), C(2, 3), C(7, 4)>>,
   OpenEnder |-> <<C(8, 1), C(9, 2), C(10, 3), C(7, 4), C(2, 1), C(2, 3), C(14, 2)>>,
   Gutshot |-> <<C(8, 1), C(9, 2), C(12, 3), C(11, 4), C(2, 1), C(2, 3), C(4, 2)>>,
   ComboDraw |-> <<C(8, 1), C(9, 1), C(10, 1), C(7, 1), C(2, 2), C(2, 3), C(13, 4)>>,
   WheelDraw |-> <<C(14, 1), C(2, 2), C(3, 3), C(4, 4), C(9, 1), C(10, 3), C(13, 2)>>,
   MadeHand |-> <<C(8, 1), C(9, 2), C(10, 3), C(7, 4), C(6, 1), C(2, 3), C(14, 2)>>,
   Air |-> <<C(2, 1), C(7, 2), C(9, 3), C(13, 4), C(4, 1), C(11, 3), C(5, 2)>>,
   WetBoard |-> <<C(14, 1), C(14, 2), C(9, 3), C(8, 3), C(7, 3), C(7, 4), C(3, 2)>>]

MCBetFractions == <<2, 9>>

\* The Caller's bets tried, in percent of the pot.
Small == <<28, 50, 75>>
Large == <<75, 50, 28>>

\* A seed that tries the named decks in turn.
Dealing(type, u, names, fractions, jitter) ==
  [id |-> <<type, u, names>>, type |-> type, u |-> u, shuffles |-> [n \in DOMAIN names |-> Decks[names[n]]],
   pot |-> 20, fractions |-> fractions, jitter |-> jitter, tier |-> 2]

CallerSeed == Dealing("Caller", 10, <<"MadeHand", "FlushDraw">>, Small, 0)
BluffSeed == Dealing("PureBluff", 60, <<"Air">>, Small, -20)
ValueSeed == Dealing("ValueBet", 99, <<"WetBoard">>, Small, 0)
SemiSeed == Dealing("SemiBluff", 40, <<"Air", "OpenEnder">>, Small, 30)

DealtOnly ==
  LET Dealings(types, seconds) ==
        {Dealing(type, u, <<d, e>>, Large, 50) :
           type \in types, u \in {0, 24, 49, 74, 99},
           d \in {"MadeHand", "Air", "WheelDraw", "WetBoard"}, e \in seconds}
  IN Dealings({"Caller", "SemiBluff"}, {"ComboDraw", "Gutshot", "OpenEnder"})
       \cup Dealings({"PureBluff", "ValueBet"}, {"ComboDraw"})

MCPlayed == {CallerSeed, ValueSeed, SemiSeed}
MCSeeds == MCPlayed \cup {BluffSeed} \cup DealtOnly
MCLessons == {CallerSeed, BluffSeed}

Evenly == [s \in Range(Streets) |-> 25]
NoFlop == [s \in Range(Streets) |-> CASE s = "Flop" -> 0 [] s = "Turn" -> 40 [] OTHER -> 30]

Setting(multi, weight, shop, last) == [multi_tier |-> multi, weight |-> weight, shop |-> shop, summaryFirst |-> last]

MCOptions == {Setting(TRUE, Evenly, FALSE, FALSE), Setting(FALSE, NoFlop, FALSE, TRUE)}
MCSlips == {<<"Outs", 0>>, <<"Ev", 1>>}
MCModes == {"Standard", "Aggressor", "Caller", "Custom"}
=============================================================================
