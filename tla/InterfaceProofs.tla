-------------------------- MODULE InterfaceProofs --------------------------
(***************************************************************************)
(* Proofs about Interface, for any number of inputs between two frames and *)
(* a script of any length.                                                 *)
(*                                                                         *)
(* The module goes up the call graph: the script, the panels' operators,   *)
(* what a step does to the core (everything but the frame's own            *)
(* bookkeeping), the router of keys, the controls, the inputs, the frame.  *)
(***************************************************************************)
EXTENDS Interface, SequenceTheorems, WellFoundedInduction, TLAPS

----------------------------------------------------------------------------
(* The script. *)

\* The kinds of advance the script uses.
Kinds ==
  ModalExplores \cup MathKinds \cup
    {"Next", "LeaderboardExplore", "PlayMorph", "CustomExplore", "LaunchCaller",
     "LaunchAggressor", "FinishTutorial"}

\* One substep of the script, as the operators that build it make it.
Substep == [step : 1 .. 7, at : Screens, advance : Kinds]

\* The screen an advance of this kind is waiting for.
Destination ==
  [kind \in {"PlayMorph", "LaunchCaller", "LaunchAggressor", "MathSubmit", "MathTiers234"} |->
     IF kind = "PlayMorph" THEN "ModeSelection"
     ELSE IF kind \in {"LaunchCaller", "LaunchAggressor"} THEN "Game"
     ELSE "PostRound"]

\* q comes after p: on the screen that p led to.
Follows(p, q) == q.at = IF p.advance \in DOMAIN Destination THEN Destination[p.advance] ELSE p.at

\* The two launches are asked for where their screens offer them.
AtHome(p) ==
  /\ p.advance = "LaunchCaller" => p.at = "ModeSelection"
  /\ p.advance = "LaunchAggressor" => p.at = "PostRound"

\* A piece of the script from the substep x to the substep y.
Linked(s, x, y) ==
  /\ s \in Seq(Substep) /\ s # <<>>
  /\ s[1] = x /\ s[Len(s)] = y
  /\ \A i \in 1 .. Len(s) : AtHome(s[i])
  /\ \A i \in 1 .. Len(s) - 1 : Follows(s[i], s[i + 1])

\* Two pieces make one when the second follows the first.
LEMMA LinkedJoin ==
  ASSUME NEW s, NEW t, NEW x, NEW y, NEW z, NEW w,
         Linked(s, x, y), Linked(t, z, w), Follows(y, z)
  PROVE  Linked(s \o t, x, w)
<1>. DEFINE r == s \o t
<1>1. /\ s \in Seq(Substep) /\ s # <<>> /\ Len(s) \in Nat \ {0}
      /\ t \in Seq(Substep) /\ t # <<>> /\ Len(t) \in Nat \ {0}
  BY EmptySeq DEF Linked
<1>2. /\ r \in Seq(Substep) /\ Len(r) = Len(s) + Len(t)
      /\ \A i \in 1 .. Len(r) : r[i] = IF i <= Len(s) THEN s[i] ELSE t[i - Len(s)]
  BY <1>1, ConcatProperties
<1>. HIDE DEF r
<1>3. r # <<>> /\ r[1] = x /\ r[Len(r)] = w
  BY <1>1, <1>2 DEF Linked
<1>4. ASSUME NEW i \in 1 .. Len(r) PROVE AtHome(r[i])
  <2>1. CASE i <= Len(s)
    BY <1>1, <1>2, <2>1 DEF Linked
  <2>2. CASE i > Len(s)
    <3>1. i - Len(s) \in 1 .. Len(t) /\ r[i] = t[i - Len(s)]
      BY <1>1, <1>2, <2>2
    <3>. QED
      BY <3>1 DEF Linked
  <2>. QED
    BY <1>1, <1>2, <2>1, <2>2
<1>5. ASSUME NEW i \in 1 .. Len(r) - 1 PROVE Follows(r[i], r[i + 1])
  <2>1. CASE i < Len(s)
    <3>1. i \in 1 .. Len(s) - 1 /\ r[i] = s[i] /\ r[i + 1] = s[i + 1]
      BY <1>1, <1>2, <2>1
    <3>. QED
      BY <3>1 DEF Linked
  <2>2. CASE i = Len(s)
    <3>1. i \in 1 .. Len(r) /\ i + 1 \in 1 .. Len(r) /\ (i + 1) - Len(s) = 1
      BY <1>1, <1>2, <2>2
    <3>2. r[i] = s[i] /\ r[i + 1] = t[(i + 1) - Len(s)]
      BY <1>1, <1>2, <2>2, <3>1
    <3>3. r[i + 1] = t[1]
      BY <3>1, <3>2
    <3>. QED
      BY <2>2, <3>2, <3>3 DEF Linked
  <2>3. CASE i > Len(s)
    <3>1. /\ i - Len(s) \in 1 .. Len(t) - 1 /\ r[i] = t[i - Len(s)]
          /\ r[i + 1] = t[(i - Len(s)) + 1]
      BY <1>1, <1>2, <2>3
    <3>. QED
      BY <3>1 DEF Linked
  <2>. QED
    BY <1>1, <1>2, <2>1, <2>2, <2>3
<1>. QED
  BY <1>2, <1>3, <1>4, <1>5 DEF Linked, r

\* A tour is on one screen.
LEMMA LinkedTour ==
  ASSUME NEW n \in 1 .. 7, NEW s \in Screens, NEW k \in Nat \ {0}
  PROVE  Linked(Tour(n, s, k), [step |-> n, at |-> s, advance |-> "Next"],
                               [step |-> n, at |-> s, advance |-> "Next"])
<1>. DEFINE box == [step |-> n, at |-> s, advance |-> "Next"]
            m == Least(k, MaxRun)
            r == Tour(n, s, k)
<1>1. m \in Nat \ {0}
  BY TutorialAssumption DEF Least
<1>2. box \in Substep /\ AtHome(box) /\ Follows(box, box)
  BY DEF Substep, Kinds, AtHome, Follows, Destination
<1>3. r = [i \in 1 .. m |-> box]
  BY DEF Tour
<1>. HIDE DEF box, m, r
<1>4. /\ r \in Seq(Substep) /\ Len(r) = m
      /\ \A i \in 1 .. Len(r) : r[i] = box
  BY <1>1, <1>2, <1>3
<1>5. r # <<>>
  BY <1>1, <1>4
<1>6. Linked(r, box, box)
  BY <1>1, <1>2, <1>4, <1>5 DEF Linked
<1>. QED
  BY <1>6 DEF r, box

\* The boxes of a hand are walked through on Game, stage by stage.
LEMMA LinkedWalk ==
  ASSUME NEW n \in 1 .. 7, NEW k \in Nat \ {0}
  PROVE  Linked(Walk(n, k), [step |-> n, at |-> "Game", advance |-> "MathStage1"],
                            [step |-> n, at |-> "Game", advance |-> "MathStage2"])
<1>. DEFINE one == [step |-> n, at |-> "Game", advance |-> "MathStage1"]
            two == [step |-> n, at |-> "Game", advance |-> "MathStage2"]
            m == Least(k, MaxRun)
            r == Walk(n, k)
<1>1. m \in Nat \ {0}
  BY TutorialAssumption DEF Least
<1>2. /\ one \in Substep /\ two \in Substep /\ AtHome(one) /\ AtHome(two)
      /\ Follows(one, two) /\ Follows(two, one)
  BY DEF Substep, Kinds, MathKinds, Screens, AtHome, Follows, Destination
<1>3. r = [i \in 1 .. 2 * m |-> IF i % 2 = 1 THEN one ELSE two]
  BY DEF Walk
<1>. HIDE DEF one, two, m, r
<1>4. /\ r \in Seq(Substep) /\ Len(r) = 2 * m
      /\ \A i \in 1 .. Len(r) : r[i] = IF i % 2 = 1 THEN one ELSE two
  BY <1>1, <1>2, <1>3
<1>5. r # <<>>
  BY <1>1, <1>4
<1>6. r[1] = one /\ r[Len(r)] = two
  BY <1>1, <1>4
<1>7. \A i \in 1 .. Len(r) - 1 : (i % 2 = 1) <=> ~((i + 1) % 2 = 1)
  OBVIOUS
<1>8. Linked(r, one, two)
  BY <1>1, <1>2, <1>4, <1>5, <1>6, <1>7 DEF Linked
<1>. QED
  BY <1>8 DEF r, one, two

\* A single action that stays on its screen is a linked script of its own.
LEMMA LinkedAction ==
  ASSUME NEW p \in Substep, AtHome(p)
  PROVE  Linked(<<p>>, p, p)
  BY DEF Linked

----------------------------------------------------------------------------

\* The whole script: it starts on Root, and each substep is on the screen that the
\* one before led to.
LEMMA ScriptLinked ==
  Linked(Script, [step |-> 1, at |-> "Root", advance |-> "Next"],
                 [step |-> 7, at |-> "PostRound", advance |-> "FinishTutorial"])
<1>. DEFINE Box(n, s, kind) == [step |-> n, at |-> s, advance |-> kind]
            s1 == Tour(1, "Root", 2)
            s2 == s1 \o Action(1, "Root", "ExploreSettings")
            s3 == s2 \o Action(1, "Root", "ExploreShop")
            s4 == s3 \o Action(1, "Root", "LeaderboardExplore")
            s5 == s4 \o Action(1, "Root", "ExploreHelp")
            s6 == s5 \o Tour(1, "Root", 1)
            s7 == s6 \o Action(1, "Root", "PlayMorph")
            s8 == s7 \o Tour(2, "ModeSelection", 3)
            s9 == s8 \o Action(2, "ModeSelection", "CustomExplore")
            s10 == s9 \o Action(2, "ModeSelection", "LaunchCaller")
            s11 == s10 \o Tour(3, "Game", 7)
            s12 == s11 \o Walk(4, 3)
            s13 == s12 \o Action(4, "Game", "MathStage1")
            s14 == s13 \o Action(4, "Game", "MathSubmit")
            s15 == s14 \o Tour(5, "PostRound", 5)
            s16 == s15 \o Action(5, "PostRound", "LaunchAggressor")
            s17 == s16 \o Tour(6, "Game", 2)
            s18 == s17 \o Walk(6, 3)
            s19 == s18 \o Action(6, "Game", "MathTiers234")
            s20 == s19 \o Tour(7, "PostRound", 2)
            s21 == s20 \o Action(7, "PostRound", "FinishTutorial")
<1>1. Linked(s1, Box(1, "Root", "Next"), Box(1, "Root", "Next"))
  BY LinkedTour DEF Screens
<1>2. Linked(s2, Box(1, "Root", "Next"), Box(1, "Root", "ExploreSettings"))
  <2>1. Box(1, "Root", "ExploreSettings") \in Substep /\ AtHome(Box(1, "Root", "ExploreSettings"))
    BY DEF Substep, Kinds, ModalExplores, MathKinds, Screens, AtHome
  <2>2. Linked(Action(1, "Root", "ExploreSettings"), Box(1, "Root", "ExploreSettings"), Box(1, "Root", "ExploreSettings"))
    BY <2>1, LinkedAction DEF Action
  <2>3. Follows(Box(1, "Root", "Next"), Box(1, "Root", "ExploreSettings"))
    BY DEF Follows, Destination
  <2>. QED
    BY <1>1, <2>2, <2>3, LinkedJoin
<1>3. Linked(s3, Box(1, "Root", "Next"), Box(1, "Root", "ExploreShop"))
  <2>1. Box(1, "Root", "ExploreShop") \in Substep /\ AtHome(Box(1, "Root", "ExploreShop"))
    BY DEF Substep, Kinds, ModalExplores, MathKinds, Screens, AtHome
  <2>2. Linked(Action(1, "Root", "ExploreShop"), Box(1, "Root", "ExploreShop"), Box(1, "Root", "ExploreShop"))
    BY <2>1, LinkedAction DEF Action
  <2>3. Follows(Box(1, "Root", "ExploreSettings"), Box(1, "Root", "ExploreShop"))
    BY DEF Follows, Destination
  <2>. QED
    BY <1>2, <2>2, <2>3, LinkedJoin
<1>4. Linked(s4, Box(1, "Root", "Next"), Box(1, "Root", "LeaderboardExplore"))
  <2>1. Box(1, "Root", "LeaderboardExplore") \in Substep /\ AtHome(Box(1, "Root", "LeaderboardExplore"))
    BY DEF Substep, Kinds, ModalExplores, MathKinds, Screens, AtHome
  <2>2. Linked(Action(1, "Root", "LeaderboardExplore"), Box(1, "Root", "LeaderboardExplore"), Box(1, "Root", "LeaderboardExplore"))
    BY <2>1, LinkedAction DEF Action
  <2>3. Follows(Box(1, "Root", "ExploreShop"), Box(1, "Root", "LeaderboardExplore"))
    BY DEF Follows, Destination
  <2>. QED
    BY <1>3, <2>2, <2>3, LinkedJoin
<1>5. Linked(s5, Box(1, "Root", "Next"), Box(1, "Root", "ExploreHelp"))
  <2>1. Box(1, "Root", "ExploreHelp") \in Substep /\ AtHome(Box(1, "Root", "ExploreHelp"))
    BY DEF Substep, Kinds, ModalExplores, MathKinds, Screens, AtHome
  <2>2. Linked(Action(1, "Root", "ExploreHelp"), Box(1, "Root", "ExploreHelp"), Box(1, "Root", "ExploreHelp"))
    BY <2>1, LinkedAction DEF Action
  <2>3. Follows(Box(1, "Root", "LeaderboardExplore"), Box(1, "Root", "ExploreHelp"))
    BY DEF Follows, Destination
  <2>. QED
    BY <1>4, <2>2, <2>3, LinkedJoin
<1>6. Linked(s6, Box(1, "Root", "Next"), Box(1, "Root", "Next"))
  <2>2. Linked(Tour(1, "Root", 1), Box(1, "Root", "Next"), Box(1, "Root", "Next"))
    BY LinkedTour DEF Screens
  <2>3. Follows(Box(1, "Root", "ExploreHelp"), Box(1, "Root", "Next"))
    BY DEF Follows, Destination
  <2>. QED
    BY <1>5, <2>2, <2>3, LinkedJoin
<1>7. Linked(s7, Box(1, "Root", "Next"), Box(1, "Root", "PlayMorph"))
  <2>1. Box(1, "Root", "PlayMorph") \in Substep /\ AtHome(Box(1, "Root", "PlayMorph"))
    BY DEF Substep, Kinds, ModalExplores, MathKinds, Screens, AtHome
  <2>2. Linked(Action(1, "Root", "PlayMorph"), Box(1, "Root", "PlayMorph"), Box(1, "Root", "PlayMorph"))
    BY <2>1, LinkedAction DEF Action
  <2>3. Follows(Box(1, "Root", "Next"), Box(1, "Root", "PlayMorph"))
    BY DEF Follows, Destination
  <2>. QED
    BY <1>6, <2>2, <2>3, LinkedJoin
<1>8. Linked(s8, Box(1, "Root", "Next"), Box(2, "ModeSelection", "Next"))
  <2>2. Linked(Tour(2, "ModeSelection", 3), Box(2, "ModeSelection", "Next"), Box(2, "ModeSelection", "Next"))
    BY LinkedTour DEF Screens
  <2>3. Follows(Box(1, "Root", "PlayMorph"), Box(2, "ModeSelection", "Next"))
    BY DEF Follows, Destination
  <2>. QED
    BY <1>7, <2>2, <2>3, LinkedJoin
<1>9. Linked(s9, Box(1, "Root", "Next"), Box(2, "ModeSelection", "CustomExplore"))
  <2>1. Box(2, "ModeSelection", "CustomExplore") \in Substep /\ AtHome(Box(2, "ModeSelection", "CustomExplore"))
    BY DEF Substep, Kinds, ModalExplores, MathKinds, Screens, AtHome
  <2>2. Linked(Action(2, "ModeSelection", "CustomExplore"), Box(2, "ModeSelection", "CustomExplore"), Box(2, "ModeSelection", "CustomExplore"))
    BY <2>1, LinkedAction DEF Action
  <2>3. Follows(Box(2, "ModeSelection", "Next"), Box(2, "ModeSelection", "CustomExplore"))
    BY DEF Follows, Destination
  <2>. QED
    BY <1>8, <2>2, <2>3, LinkedJoin
<1>10. Linked(s10, Box(1, "Root", "Next"), Box(2, "ModeSelection", "LaunchCaller"))
  <2>1. Box(2, "ModeSelection", "LaunchCaller") \in Substep /\ AtHome(Box(2, "ModeSelection", "LaunchCaller"))
    BY DEF Substep, Kinds, ModalExplores, MathKinds, Screens, AtHome
  <2>2. Linked(Action(2, "ModeSelection", "LaunchCaller"), Box(2, "ModeSelection", "LaunchCaller"), Box(2, "ModeSelection", "LaunchCaller"))
    BY <2>1, LinkedAction DEF Action
  <2>3. Follows(Box(2, "ModeSelection", "CustomExplore"), Box(2, "ModeSelection", "LaunchCaller"))
    BY DEF Follows, Destination
  <2>. QED
    BY <1>9, <2>2, <2>3, LinkedJoin
<1>11. Linked(s11, Box(1, "Root", "Next"), Box(3, "Game", "Next"))
  <2>2. Linked(Tour(3, "Game", 7), Box(3, "Game", "Next"), Box(3, "Game", "Next"))
    BY LinkedTour DEF Screens
  <2>3. Follows(Box(2, "ModeSelection", "LaunchCaller"), Box(3, "Game", "Next"))
    BY DEF Follows, Destination
  <2>. QED
    BY <1>10, <2>2, <2>3, LinkedJoin
<1>12. Linked(s12, Box(1, "Root", "Next"), Box(4, "Game", "MathStage2"))
  <2>2. Linked(Walk(4, 3), Box(4, "Game", "MathStage1"), Box(4, "Game", "MathStage2"))
    BY LinkedWalk DEF Screens
  <2>3. Follows(Box(3, "Game", "Next"), Box(4, "Game", "MathStage1"))
    BY DEF Follows, Destination
  <2>. QED
    BY <1>11, <2>2, <2>3, LinkedJoin
<1>13. Linked(s13, Box(1, "Root", "Next"), Box(4, "Game", "MathStage1"))
  <2>1. Box(4, "Game", "MathStage1") \in Substep /\ AtHome(Box(4, "Game", "MathStage1"))
    BY DEF Substep, Kinds, ModalExplores, MathKinds, Screens, AtHome
  <2>2. Linked(Action(4, "Game", "MathStage1"), Box(4, "Game", "MathStage1"), Box(4, "Game", "MathStage1"))
    BY <2>1, LinkedAction DEF Action
  <2>3. Follows(Box(4, "Game", "MathStage2"), Box(4, "Game", "MathStage1"))
    BY DEF Follows, Destination
  <2>. QED
    BY <1>12, <2>2, <2>3, LinkedJoin
<1>14. Linked(s14, Box(1, "Root", "Next"), Box(4, "Game", "MathSubmit"))
  <2>1. Box(4, "Game", "MathSubmit") \in Substep /\ AtHome(Box(4, "Game", "MathSubmit"))
    BY DEF Substep, Kinds, ModalExplores, MathKinds, Screens, AtHome
  <2>2. Linked(Action(4, "Game", "MathSubmit"), Box(4, "Game", "MathSubmit"), Box(4, "Game", "MathSubmit"))
    BY <2>1, LinkedAction DEF Action
  <2>3. Follows(Box(4, "Game", "MathStage1"), Box(4, "Game", "MathSubmit"))
    BY DEF Follows, Destination
  <2>. QED
    BY <1>13, <2>2, <2>3, LinkedJoin
<1>15. Linked(s15, Box(1, "Root", "Next"), Box(5, "PostRound", "Next"))
  <2>2. Linked(Tour(5, "PostRound", 5), Box(5, "PostRound", "Next"), Box(5, "PostRound", "Next"))
    BY LinkedTour DEF Screens
  <2>3. Follows(Box(4, "Game", "MathSubmit"), Box(5, "PostRound", "Next"))
    BY DEF Follows, Destination
  <2>. QED
    BY <1>14, <2>2, <2>3, LinkedJoin
<1>16. Linked(s16, Box(1, "Root", "Next"), Box(5, "PostRound", "LaunchAggressor"))
  <2>1. Box(5, "PostRound", "LaunchAggressor") \in Substep /\ AtHome(Box(5, "PostRound", "LaunchAggressor"))
    BY DEF Substep, Kinds, ModalExplores, MathKinds, Screens, AtHome
  <2>2. Linked(Action(5, "PostRound", "LaunchAggressor"), Box(5, "PostRound", "LaunchAggressor"), Box(5, "PostRound", "LaunchAggressor"))
    BY <2>1, LinkedAction DEF Action
  <2>3. Follows(Box(5, "PostRound", "Next"), Box(5, "PostRound", "LaunchAggressor"))
    BY DEF Follows, Destination
  <2>. QED
    BY <1>15, <2>2, <2>3, LinkedJoin
<1>17. Linked(s17, Box(1, "Root", "Next"), Box(6, "Game", "Next"))
  <2>2. Linked(Tour(6, "Game", 2), Box(6, "Game", "Next"), Box(6, "Game", "Next"))
    BY LinkedTour DEF Screens
  <2>3. Follows(Box(5, "PostRound", "LaunchAggressor"), Box(6, "Game", "Next"))
    BY DEF Follows, Destination
  <2>. QED
    BY <1>16, <2>2, <2>3, LinkedJoin
<1>18. Linked(s18, Box(1, "Root", "Next"), Box(6, "Game", "MathStage2"))
  <2>2. Linked(Walk(6, 3), Box(6, "Game", "MathStage1"), Box(6, "Game", "MathStage2"))
    BY LinkedWalk DEF Screens
  <2>3. Follows(Box(6, "Game", "Next"), Box(6, "Game", "MathStage1"))
    BY DEF Follows, Destination
  <2>. QED
    BY <1>17, <2>2, <2>3, LinkedJoin
<1>19. Linked(s19, Box(1, "Root", "Next"), Box(6, "Game", "MathTiers234"))
  <2>1. Box(6, "Game", "MathTiers234") \in Substep /\ AtHome(Box(6, "Game", "MathTiers234"))
    BY DEF Substep, Kinds, ModalExplores, MathKinds, Screens, AtHome
  <2>2. Linked(Action(6, "Game", "MathTiers234"), Box(6, "Game", "MathTiers234"), Box(6, "Game", "MathTiers234"))
    BY <2>1, LinkedAction DEF Action
  <2>3. Follows(Box(6, "Game", "MathStage2"), Box(6, "Game", "MathTiers234"))
    BY DEF Follows, Destination
  <2>. QED
    BY <1>18, <2>2, <2>3, LinkedJoin
<1>20. Linked(s20, Box(1, "Root", "Next"), Box(7, "PostRound", "Next"))
  <2>2. Linked(Tour(7, "PostRound", 2), Box(7, "PostRound", "Next"), Box(7, "PostRound", "Next"))
    BY LinkedTour DEF Screens
  <2>3. Follows(Box(6, "Game", "MathTiers234"), Box(7, "PostRound", "Next"))
    BY DEF Follows, Destination
  <2>. QED
    BY <1>19, <2>2, <2>3, LinkedJoin
<1>21. Linked(s21, Box(1, "Root", "Next"), Box(7, "PostRound", "FinishTutorial"))
  <2>1. Box(7, "PostRound", "FinishTutorial") \in Substep /\ AtHome(Box(7, "PostRound", "FinishTutorial"))
    BY DEF Substep, Kinds, ModalExplores, MathKinds, Screens, AtHome
  <2>2. Linked(Action(7, "PostRound", "FinishTutorial"), Box(7, "PostRound", "FinishTutorial"), Box(7, "PostRound", "FinishTutorial"))
    BY <2>1, LinkedAction DEF Action
  <2>3. Follows(Box(7, "PostRound", "Next"), Box(7, "PostRound", "FinishTutorial"))
    BY DEF Follows, Destination
  <2>. QED
    BY <1>20, <2>2, <2>3, LinkedJoin
<1>. QED
  BY <1>21 DEF Script

\* What the other proofs need of the script.
LEMMA ScriptFacts ==
  /\ Script \in Seq(Substep) /\ Len(Script) \in Nat \ {0} /\ DOMAIN Script = 1 .. Len(Script)
  /\ Script[1].at = "Root"
  /\ \A i \in 1 .. Len(Script) : Script[i] \in Substep /\ AtHome(Script[i])
  /\ \A i \in 1 .. Len(Script) : i + 1 \in 1 .. Len(Script) => Follows(Script[i], Script[i + 1])
<1>1. /\ Script \in Seq(Substep) /\ Script # <<>> /\ Script[1].at = "Root"
      /\ \A i \in 1 .. Len(Script) : AtHome(Script[i])
      /\ \A i \in 1 .. Len(Script) - 1 : Follows(Script[i], Script[i + 1])
  BY ScriptLinked DEF Linked
<1>2. Len(Script) \in Nat \ {0} /\ DOMAIN Script = 1 .. Len(Script)
  BY <1>1
<1>3. \A i \in 1 .. Len(Script) : Script[i] \in Substep
  BY <1>1
<1>4. \A i \in 1 .. Len(Script) : i + 1 \in 1 .. Len(Script) => i \in 1 .. Len(Script) - 1
  BY <1>2
<1>. QED
  BY <1>1, <1>2, <1>3, <1>4

\* What the tutorial keeps about itself, and the settings it forces.
Lesson ==
  [phase : TutorialPhases, cursor : 1 .. Len(Script) + 1, seen : BOOLEAN, shown : BOOLEAN,
   hasSeen : BOOLEAN]

ForcedSettings ==
  [live : {"own", "forced"}, stored : {"own", "forced"}, saved : {"own", "forced"}, on : BOOLEAN]

\* The kind of the substep a running lesson is at, and the screen it is on.
LEMMA RunningStep ==
  ASSUME NEW l \in Lesson, Running(l)
  PROVE  /\ l.phase = "Active" /\ l.cursor \in 1 .. Len(Script)
         /\ Script[l.cursor] \in Substep /\ AtHome(Script[l.cursor])
         /\ Advance(l) = Script[l.cursor].advance /\ Advance(l) \in Kinds
<1>1. l.phase = "Active" /\ l.cursor \in 1 .. Len(Script)
  BY ScriptFacts DEF Running, IsActive
<1>. QED
  BY <1>1, ScriptFacts DEF Advance, Substep

\* The cursor moves on by one substep.
LEMMA AdvanceCursorMoves ==
  ASSUME NEW l \in Lesson, Running(l)
  PROVE  LET m == AdvanceCursor(l) IN
           /\ m \in Lesson /\ m.phase = l.phase /\ m.shown = l.shown /\ m.hasSeen = l.hasSeen
           /\ m.cursor = l.cursor + 1
           /\ Running(m) => Follows(Script[l.cursor], Script[m.cursor])
<1>. DEFINE m == AdvanceCursor(l)
<1>1. /\ l.cursor \in 1 .. Len(Script) /\ l.cursor \in DOMAIN Script /\ Len(Script) \in Nat
      /\ l.cursor + 1 \in 1 .. Len(Script) + 1
  BY RunningStep, ScriptFacts
<1>2. m = [l EXCEPT !.cursor = l.cursor + 1, !.seen = FALSE]
  BY <1>1 DEF AdvanceCursor
<1>. HIDE DEF m
<1>3. /\ m \in Lesson /\ m.phase = l.phase /\ m.shown = l.shown /\ m.hasSeen = l.hasSeen
      /\ m.cursor = l.cursor + 1
  BY <1>1, <1>2 DEF Lesson
<1>4. Running(m) => m.cursor \in 1 .. Len(Script)
  BY <1>3, RunningStep
<1>. QED
  BY <1>1, <1>3, <1>4, ScriptFacts DEF m

\* Previous goes back to a substep on the same screen.
LEMMA StepBackMoves ==
  ASSUME NEW l \in Lesson, Running(l), PreviousAvailable(l)
  PROVE  LET m == StepBack(l) IN
           /\ m \in Lesson /\ m.phase = l.phase /\ m.shown = l.shown
           /\ Running(m) => Advance(m) = "Next" /\ Script[m.cursor].at = Script[l.cursor].at
<1>. DEFINE m == StepBack(l)
<1>1. l.cursor \in 1 .. Len(Script) /\ l.cursor > 1 /\ Len(Script) \in Nat
      /\ l.cursor - 1 \in 1 .. Len(Script) + 1
  BY RunningStep, ScriptFacts DEF PreviousAvailable
<1>2. m = [l EXCEPT !.cursor = l.cursor - 1, !.seen = FALSE]
  BY DEF StepBack
<1>. HIDE DEF m
<1>3. m \in Lesson /\ m.phase = l.phase /\ m.shown = l.shown /\ m.cursor = l.cursor - 1
  BY <1>1, <1>2 DEF Lesson
<1>. QED
  BY <1>3 DEF m, PreviousAvailable, Advance

\* The other changes of a lesson.
LEMMA LessonMoves ==
  ASSUME NEW l \in Lesson
  PROVE  /\ Started(l) \in Lesson /\ Started(l).phase = "Active" /\ Started(l).cursor = 1
         /\ Started(l).shown = TRUE
         /\ Ended(l) \in Lesson /\ Ended(l).phase = "Inactive" /\ Ended(l).shown = l.shown
         /\ ReachedTheEnd(l) \in Lesson /\ ReachedTheEnd(l).phase = "Complete"
         /\ ReachedTheEnd(l).shown = l.shown
         /\ DismissPrompt(l) \in Lesson /\ DismissPrompt(l).phase = "Inactive"
         /\ DismissPrompt(l).shown = l.shown
<1>1. 1 \in 1 .. Len(Script) + 1 /\ Len(Script) + 1 \in 1 .. Len(Script) + 1
  BY ScriptFacts
<1>. QED
  BY <1>1 DEF Lesson, Started, Ended, ReachedTheEnd, DismissPrompt, TutorialPhases

\* Only a running lesson is polled into another substep.
LEMMA PollMoves ==
  ASSUME NEW l \in Lesson, NEW at \in Screens, NEW top, NEW open \in BOOLEAN
  PROVE  LET m == PollAdvance(l, at, top, open) IN
           /\ m \in Lesson /\ m.phase = l.phase /\ m.shown = l.shown
           /\ ~Running(l) => m = l
           /\ m.cursor # l.cursor => m = AdvanceCursor(l)
           /\ Running(l) /\ m.cursor = l.cursor /\ Advance(l) \in DOMAIN Destination =>
                at # Destination[Advance(l)]
           /\ Running(l) /\ m.cursor # l.cursor =>
                /\ Advance(l) \notin {"Next", "MathStage1", "MathStage2", "FinishTutorial"}
                /\ Advance(l) \in DOMAIN Destination => at = Destination[Advance(l)]
                /\ Advance(l) = "CustomExplore" => ~open
<1>. DEFINE m == PollAdvance(l, at, top, open)
<1>1. CASE ~Running(l)
  BY <1>1 DEF PollAdvance
<1>2. CASE Running(l)
  <2>1. /\ AdvanceCursor(l) \in Lesson /\ AdvanceCursor(l).phase = l.phase
        /\ AdvanceCursor(l).shown = l.shown /\ AdvanceCursor(l).cursor = l.cursor + 1
        /\ l.cursor \in Nat /\ Advance(l) \in Kinds
    BY <1>2, AdvanceCursorMoves, RunningStep
  <2>2. [l EXCEPT !.seen = TRUE] \in Lesson /\ [l EXCEPT !.seen = TRUE].phase = l.phase
        /\ [l EXCEPT !.seen = TRUE].cursor = l.cursor /\ [l EXCEPT !.seen = TRUE].shown = l.shown
    BY DEF Lesson
  <2>. DEFINE a == Advance(l)
              next == AdvanceCursor(l)
              opened == [l EXCEPT !.seen = TRUE]
  <2>3. CASE a \in ModalExplores \cup {"LeaderboardExplore", "CustomExplore"}
    <3>1. m \in {l, opened, next}
      BY <1>2, <2>3 DEF PollAdvance, Explored, ModalExplores
    <3>2. a = "CustomExplore" /\ open => m = opened
      BY <1>2 DEF PollAdvance, Explored, ModalExplores
    <3>3. a \notin DOMAIN Destination /\ a \notin {"Next", "MathStage1", "MathStage2", "FinishTutorial"}
      BY <2>3 DEF ModalExplores, Destination
    <3>. HIDE DEF a, next, opened, m
    <3>. QED
      BY <1>2, <2>1, <2>2, <3>1, <3>2, <3>3 DEF a, next, opened, m
  <2>4. CASE a \in DOMAIN Destination
    <3>1. m = IF at = Destination[a] THEN next ELSE l
      BY <1>2, <2>4 DEF PollAdvance, AdvanceOn, ModalExplores, Destination
    <3>2. a \notin {"Next", "MathStage1", "MathStage2", "FinishTutorial", "CustomExplore"}
      BY <2>4 DEF Destination
    <3>. HIDE DEF a, next, opened, m
    <3>. QED
      BY <1>2, <2>1, <3>1, <3>2 DEF a, next, m
  <2>5. CASE a \in {"Next", "MathStage1", "MathStage2", "FinishTutorial"}
    <3>1. m = l
      BY <1>2, <2>5 DEF PollAdvance, AdvanceOn, ModalExplores
    <3>2. a \notin DOMAIN Destination
      BY <2>5 DEF Destination
    <3>. QED
      BY <3>1, <3>2
  <2>. QED
    BY <2>1, <2>3, <2>4, <2>5 DEF Kinds, MathKinds, ModalExplores, Destination
<1>. QED
  BY <1>1, <1>2

\* The prompt comes up once, on Root, and changes nothing else.
LEMMA PromptComesUp ==
  ASSUME NEW l \in Lesson, NEW at
  PROVE  LET m == MaybeTriggerPrompt(l, at) IN
           /\ m \in Lesson
           /\ m # l => /\ l.phase = "Inactive" /\ ~l.shown /\ at = "Root"
                       /\ m.phase = "Prompt" /\ ~Running(m)
  BY DEF MaybeTriggerPrompt, Lesson, TutorialPhases, Running, IsActive

----------------------------------------------------------------------------
(* The two stacks. *)

\* The lists a context may be on.
ListNames ==
  Screens \cup PanelIds \cup
    {"None", "Popup", "CompleteGuest", "CompleteMember", "SettingsMember", "SettingsGuest",
     "DocAbout", "DocLegal", "SignIn", "SignUp", "Forgot", "Report"}

Panelled ==
  [contexts : Seq(ListNames), modals : Seq(PanelIds), fresh : BOOLEAN, confirm : Confirms \cup {"None"},
   report : BOOLEAN, closing : BOOLEAN, submitting : BOOLEAN, mode : {"SignIn", "SignUp"},
   forgot : BOOLEAN, doc : Docs, switch : BOOLEAN,
   registry : {"Empty", "Settings", "Section", "Doc"}]

\* The base context is never popped.
PanelState(u) == u \in Panelled /\ u.contexts # <<>>

\* What a panel has besides its place on the stacks.
Flags(u) ==
  <<u.fresh, u.confirm, u.report, u.closing, u.submitting, u.mode, u.forgot, u.doc, u.switch,
    u.registry>>

\* t is s with its last element replaced or dropped, or with more behind it.
Agree(s, t, n) == \A i \in 1 .. n : t[i] = s[i]

\* The two stacks of a panel state are sequences of names, and the top modal is the last.
LEMMA StackFacts ==
  ASSUME NEW u, PanelState(u)
  PROVE  /\ u.contexts \in Seq(ListNames) /\ Len(u.contexts) \in Nat \ {0}
         /\ u.modals \in Seq(PanelIds) /\ Len(u.modals) \in Nat
         /\ u.modals = <<>> <=> Len(u.modals) = 0
         /\ \A i \in 1 .. Len(u.modals) : u.modals[i] \in PanelIds
         /\ TopModal(u) = IF Len(u.modals) = 0 THEN "None" ELSE u.modals[Len(u.modals)]
         /\ TopModal(u) \in PanelIds \cup {"None"}
         /\ TopModal(u) = "None" <=> u.modals = <<>>
<1>1. /\ u.contexts \in Seq(ListNames) /\ Len(u.contexts) \in Nat \ {0}
      /\ u.modals \in Seq(PanelIds) /\ Len(u.modals) \in Nat
      /\ u.modals = <<>> <=> Len(u.modals) = 0
  BY EmptySeq DEF PanelState, Panelled
<1>2. \A i \in 1 .. Len(u.modals) : u.modals[i] \in PanelIds
  BY <1>1, ElementOfSeq
<1>3. TopModal(u) = IF Len(u.modals) = 0 THEN "None" ELSE u.modals[Len(u.modals)]
  BY <1>1 DEF TopModal
<1>4. "None" \notin PanelIds
  BY DEF PanelIds
<1>. QED
  BY <1>1, <1>2, <1>3, <1>4

\* The front of a sequence.
LEMMA FrontOf ==
  ASSUME NEW S, NEW s \in Seq(S), s # <<>>
  PROVE  LET t == SubSeq(s, 1, Len(s) - 1) IN
           t \in Seq(S) /\ Len(t) = Len(s) - 1 /\ Agree(s, t, Len(s) - 1)
<1>. DEFINE n == Len(s) - 1
            t == SubSeq(s, 1, n)
<1>1. Len(s) \in Nat \ {0} /\ n \in Nat /\ n \in Int /\ 1 \in Int
  BY EmptySeq
<1>2. \A i \in 1 .. n : s[i] \in S
  BY <1>1, ElementOfSeq
<1>. HIDE DEF n
<1>3. /\ t \in Seq(S) /\ Len(t) = IF 1 <= n THEN n - 1 + 1 ELSE 0
      /\ \A i \in 1 .. n - 1 + 1 : t[i] = s[1 + i - 1]
  BY <1>1, <1>2, SubSeqProperties
<1>. HIDE DEF t
<1>4. t \in Seq(S) /\ Len(t) = n /\ \A i \in 1 .. n : t[i] = s[i]
  BY <1>1, <1>3
<1>. QED
  BY <1>4 DEF Agree, t, n

\* Append adds the element at the end and leaves the rest alone.
LEMMA AppendTo ==
  ASSUME NEW S, NEW s \in Seq(S), NEW x \in S
  PROVE  /\ Append(s, x) \in Seq(S) /\ Len(Append(s, x)) = Len(s) + 1
         /\ Append(s, x)[Len(s) + 1] = x /\ Agree(s, Append(s, x), Len(s))
         /\ Append(s, x) # <<>>
<1>1. Append(s, x) \in Seq(S) /\ Len(Append(s, x)) = Len(s) + 1 /\ Len(s) \in Nat
  OBVIOUS
<1>2. Append(s, x)[Len(s) + 1] = x /\ \A i \in 1 .. Len(s) : Append(s, x)[i] = s[i]
  OBVIOUS
<1>3. Append(s, x) # <<>>
  BY <1>1
<1>. QED
  BY <1>1, <1>2, <1>3 DEF Agree

\* pop_focus_context takes off the top context, but never the base.
LEMMA PopContextDoes ==
  ASSUME NEW u, PanelState(u)
  PROVE  LET v == PopContext(u) IN
           /\ PanelState(v) /\ Flags(v) = Flags(u) /\ v.modals = u.modals
           /\ Len(v.contexts) = IF Len(u.contexts) = 1 THEN 1 ELSE Len(u.contexts) - 1
           /\ Agree(u.contexts, v.contexts, Len(v.contexts))
<1>. DEFINE v == PopContext(u)
<1>1. u.contexts \in Seq(ListNames) /\ Len(u.contexts) \in Nat \ {0} /\ u.contexts # <<>>
  BY StackFacts DEF PanelState
<1>2. CASE Len(u.contexts) = 1
  BY <1>1, <1>2 DEF PopContext, Agree
<1>3. CASE Len(u.contexts) # 1
  <2>. DEFINE c == SubSeq(u.contexts, 1, Len(u.contexts) - 1)
  <2>1. c \in Seq(ListNames) /\ Len(c) = Len(u.contexts) - 1 /\ Agree(u.contexts, c, Len(c))
    BY <1>1, FrontOf
  <2>2. v = [u EXCEPT !.contexts = c]
    BY <1>3 DEF PopContext
  <2>. HIDE DEF c, v
  <2>3. c # <<>>
    <3>1. Len(c) # 0
      BY <1>1, <1>3, <2>1
    <3>. QED
      BY <3>1, EmptySeq
  <2>4. v \in Panelled /\ v.contexts = c /\ v.modals = u.modals /\ Flags(v) = Flags(u)
    BY <2>1, <2>2 DEF Panelled, PanelState, Flags
  <2>. QED
    BY <1>1, <1>3, <2>1, <2>3, <2>4 DEF PanelState, v
<1>. QED
  BY <1>2, <1>3

\* push_focus_context puts the list on top.
LEMMA PushContextDoes ==
  ASSUME NEW u, PanelState(u), NEW list \in ListNames
  PROVE  LET v == PushContext(u, list) IN
           /\ PanelState(v) /\ Flags(v) = Flags(u) /\ v.modals = u.modals
           /\ Len(v.contexts) = Len(u.contexts) + 1
           /\ Agree(u.contexts, v.contexts, Len(u.contexts))
           /\ v.contexts[Len(v.contexts)] = list
<1>. DEFINE v == PushContext(u, list)
            c == Append(u.contexts, list)
<1>1. u.contexts \in Seq(ListNames)
  BY StackFacts
<1>2. /\ c \in Seq(ListNames) /\ Len(c) = Len(u.contexts) + 1 /\ c # <<>>
      /\ c[Len(u.contexts) + 1] = list /\ Agree(u.contexts, c, Len(u.contexts))
  BY <1>1, AppendTo
<1>3. v = [u EXCEPT !.contexts = c]
  BY DEF PushContext
<1>. HIDE DEF c, v
<1>4. v \in Panelled /\ v.contexts = c /\ v.modals = u.modals /\ Flags(v) = Flags(u)
  BY <1>2, <1>3 DEF Panelled, PanelState, Flags
<1>. QED
  BY <1>2, <1>4 DEF PanelState, v

\* register_focus_list replaces the list of the top context.
LEMMA RegisterListDoes ==
  ASSUME NEW u, PanelState(u), NEW list \in ListNames
  PROVE  LET v == RegisterList(u, list) IN
           /\ PanelState(v) /\ Flags(v) = Flags(u) /\ v.modals = u.modals
           /\ Len(v.contexts) = Len(u.contexts)
           /\ Agree(u.contexts, v.contexts, Len(u.contexts) - 1)
           /\ v.contexts[Len(u.contexts)] = list
<1>. DEFINE v == RegisterList(u, list)
            n == Len(u.contexts)
            c == [u.contexts EXCEPT ![n] = list]
<1>1. u.contexts \in Seq(ListNames) /\ n \in 1 .. Len(u.contexts) /\ n \in Nat \ {0}
  BY StackFacts
<1>2. /\ c \in Seq(ListNames) /\ Len(c) = n
      /\ \A j \in 1 .. n : c[j] = IF j = n THEN list ELSE u.contexts[j]
  BY <1>1, ExceptSeq
<1>3. v = [u EXCEPT !.contexts = c]
  BY DEF RegisterList
<1>4. c # <<>>
  <2>. HIDE DEF c
  <2>. QED
    BY <1>1, <1>2
<1>. HIDE DEF c, v
<1>5. v \in Panelled /\ v.contexts = c /\ v.modals = u.modals /\ Flags(v) = Flags(u)
  BY <1>2, <1>3 DEF Panelled, PanelState, Flags
<1>6. Agree(u.contexts, c, n - 1) /\ c[n] = list
  BY <1>1, <1>2 DEF Agree
<1>. QED
  BY <1>2, <1>4, <1>5, <1>6 DEF PanelState, v

\* A panel goes on top, unless the stack is full.
LEMMA NotifyOpenedDoes ==
  ASSUME NEW u, PanelState(u), NEW id \in PanelIds
  PROVE  LET v == NotifyOpened(u, id) IN
           /\ PanelState(v) /\ Flags(v) = Flags(u) /\ v.contexts = u.contexts
           /\ Len(u.modals) < kMaxModalDepth =>
                /\ Len(v.modals) = Len(u.modals) + 1
                /\ Agree(u.modals, v.modals, Len(u.modals))
                /\ v.modals[Len(v.modals)] = id
<1>. DEFINE v == NotifyOpened(u, id)
            m == Append(u.modals, id)
<1>1. u.modals \in Seq(PanelIds) /\ Len(u.modals) \in Nat
  BY StackFacts
<1>2. CASE Len(u.modals) = kMaxModalDepth
  BY <1>1, <1>2 DEF NotifyOpened, kMaxModalDepth
<1>3. CASE Len(u.modals) # kMaxModalDepth
  <2>1. /\ m \in Seq(PanelIds) /\ Len(m) = Len(u.modals) + 1
        /\ m[Len(u.modals) + 1] = id /\ Agree(u.modals, m, Len(u.modals))
    BY <1>1, AppendTo
  <2>2. v = [u EXCEPT !.modals = m]
    BY <1>3 DEF NotifyOpened
  <2>. HIDE DEF m, v
  <2>3. v \in Panelled /\ v.modals = m /\ v.contexts = u.contexts /\ Flags(v) = Flags(u)
    BY <2>1, <2>2 DEF Panelled, PanelState, Flags
  <2>. QED
    BY <2>1, <2>3 DEF PanelState, v
<1>. QED
  BY <1>2, <1>3

\* notify_modal_closed takes off the top modal, if there is one.
LEMMA NotifyClosedDoes ==
  ASSUME NEW u, PanelState(u)
  PROVE  LET v == NotifyClosed(u) IN
           /\ PanelState(v) /\ Flags(v) = Flags(u) /\ v.contexts = u.contexts
           /\ Len(v.modals) = IF u.modals = <<>> THEN 0 ELSE Len(u.modals) - 1
           /\ Agree(u.modals, v.modals, Len(v.modals))
<1>. DEFINE v == NotifyClosed(u)
            m == SubSeq(u.modals, 1, Len(u.modals) - 1)
<1>1. u.modals \in Seq(PanelIds) /\ Len(u.modals) \in Nat
  BY StackFacts
<1>2. CASE u.modals = <<>>
  BY <1>1, <1>2 DEF NotifyClosed, Agree
<1>3. CASE u.modals # <<>>
  <2>1. m \in Seq(PanelIds) /\ Len(m) = Len(u.modals) - 1 /\ Agree(u.modals, m, Len(m))
    BY <1>1, <1>3, FrontOf
  <2>2. v = [u EXCEPT !.modals = m]
    BY <1>3 DEF NotifyClosed
  <2>. HIDE DEF m, v
  <2>3. v \in Panelled /\ v.modals = m /\ v.contexts = u.contexts /\ Flags(v) = Flags(u)
    BY <2>1, <2>2 DEF Panelled, PanelState, Flags
  <2>. QED
    BY <1>3, <2>1, <2>3 DEF PanelState, v
<1>. QED
  BY <1>2, <1>3

----------------------------------------------------------------------------
(* Opening, closing and re-laying a panel. *)

\* The list a panel registers when it opens is one of its own.
LEMMA ListsAreNames ==
  /\ \A id \in PanelIds : id \in ListNames /\ PanelLists(id) \subseteq ListNames
  /\ \A u, id : PanelState(u) /\ id \in PanelIds => ListFor(u, id) \in PanelLists(id)
  /\ SettingsList \in PanelLists("Settings")
<1>1. ASSUME NEW id \in PanelIds
      PROVE  id \in ListNames /\ PanelLists(id) \subseteq ListNames
  <2>1. id \in ListNames
    BY DEF ListNames
  <2>2. CASE id = "Settings"
    BY <2>1, <2>2 DEF PanelLists, ListNames
  <2>3. CASE id = "Doc"
    BY <2>1, <2>3 DEF PanelLists, ListNames
  <2>4. CASE id = "Auth"
    BY <2>1, <2>4 DEF PanelLists, AuthForms, ListNames
  <2>5. CASE id = "Leaderboard"
    BY <2>1, <2>5 DEF PanelLists, ListNames
  <2>6. CASE id \notin {"Settings", "Doc", "Auth", "Leaderboard"}
    <3>1. PanelLists(id) = {id}
      BY <2>6 DEF PanelLists
    <3>. QED
      BY <2>1, <3>1
  <2>. QED
    BY <2>1, <2>2, <2>3, <2>4, <2>5, <2>6
<1>2. SettingsList \in PanelLists("Settings")
  BY DEF SettingsList, PanelLists
<1>3. ASSUME NEW u, NEW id \in PanelIds, PanelState(u)
      PROVE  ListFor(u, id) \in PanelLists(id)
  <2>1. u.mode \in {"SignIn", "SignUp"} /\ u.forgot \in BOOLEAN
    BY <1>3 DEF PanelState, Panelled
  <2>2. FormOf(u) \in AuthForms
    BY <2>1 DEF FormOf, AuthForms
  <2>. QED
    BY <1>2, <2>2 DEF ListFor, PanelLists
<1>. QED
  BY <1>1, <1>2, <1>3

\* Opening hooks leave the stacks alone; only the three Settings modals write the registry.
LEMMA OnOpenDoes ==
  ASSUME NEW u, PanelState(u), NEW id \in PanelIds
  PROVE  LET v == OnOpen(u, id) IN
           /\ PanelState(v) /\ v.contexts = u.contexts /\ v.modals = u.modals
           /\ v.confirm = u.confirm
           /\ v.registry = IF id \in {"Settings", "Section", "Doc"} THEN id ELSE u.registry
<1>1. CASE id = "Settings"
  BY <1>1 DEF OnOpen, PanelState, Panelled
<1>2. CASE id \in {"Section", "Doc"}
  BY <1>2 DEF OnOpen, PanelState, Panelled
<1>3. CASE id = "Auth"
  BY <1>3 DEF OnOpen, PanelState, Panelled
<1>4. CASE id \notin {"Settings", "Section", "Doc", "Auth"}
  BY <1>4 DEF OnOpen, PanelState, Panelled
<1>. QED
  BY <1>1, <1>2, <1>3, <1>4

\* Closing hooks leave the stacks alone; a section or a document restores the registry of
\* Settings, and Settings empties it.
LEMMA OnCloseDoes ==
  ASSUME NEW u, PanelState(u), NEW id \in PanelIds
  PROVE  LET v == OnClose(u, id) IN
           /\ PanelState(v) /\ v.contexts = u.contexts /\ v.modals = u.modals
           /\ v.registry = IF id = "Settings" THEN "Empty"
                           ELSE IF id \in {"Section", "Doc"} THEN "Settings"
                           ELSE u.registry
<1>1. CASE id = "Settings"
  BY <1>1 DEF OnClose, PanelState, Panelled
<1>2. CASE id = "Section"
  BY <1>2 DEF OnClose, PanelState, Panelled
<1>3. CASE id = "Doc"
  BY <1>3 DEF OnClose, PanelState, Panelled, Docs
<1>4. CASE id = "Auth"
  BY <1>4 DEF OnClose, PanelState, Panelled
<1>5. CASE id \notin {"Settings", "Section", "Doc", "Auth"}
  BY <1>5 DEF OnClose, PanelState, Panelled
<1>. QED
  BY <1>1, <1>2, <1>3, <1>4, <1>5

\* Opening a panel pushes one of its lists, and its id while the stack is not at its cap.
LEMMA OpenModalDoes ==
  ASSUME NEW u, PanelState(u), NEW id \in PanelIds
  PROVE  LET v == OpenModal(u, id) IN
           /\ PanelState(v) /\ v.confirm = u.confirm
           /\ Len(v.contexts) = Len(u.contexts) + 1
           /\ Agree(u.contexts, v.contexts, Len(u.contexts))
           /\ v.contexts[Len(v.contexts)] \in PanelLists(id)
           /\ Len(u.modals) < kMaxModalDepth =>
                /\ Len(v.modals) = Len(u.modals) + 1
                /\ Agree(u.modals, v.modals, Len(u.modals))
                /\ v.modals[Len(v.modals)] = id
           /\ v.registry = IF id \in {"Settings", "Section", "Doc"} THEN id ELSE u.registry
<1>. DEFINE list == ListFor(u, id)
            a == PushContext(u, list)
            b == NotifyOpened(a, id)
            c == [b EXCEPT !.fresh = TRUE]
            v == OpenModal(u, id)
<1>1. list \in PanelLists(id) /\ list \in ListNames
  BY ListsAreNames
<1>2. v = OnOpen(c, id)
  BY DEF OpenModal, Opened
<1>. HIDE DEF list
<1>3. /\ PanelState(a) /\ Flags(a) = Flags(u) /\ a.modals = u.modals
      /\ Len(a.contexts) = Len(u.contexts) + 1
      /\ Agree(u.contexts, a.contexts, Len(u.contexts)) /\ a.contexts[Len(a.contexts)] = list
  BY <1>1, PushContextDoes
<1>. HIDE DEF a
<1>4. /\ PanelState(b) /\ Flags(b) = Flags(a) /\ b.contexts = a.contexts
      /\ Len(a.modals) < kMaxModalDepth =>
           /\ Len(b.modals) = Len(a.modals) + 1 /\ Agree(a.modals, b.modals, Len(a.modals))
           /\ b.modals[Len(b.modals)] = id
  BY <1>3, NotifyOpenedDoes
<1>. HIDE DEF b
<1>5. /\ PanelState(c) /\ c.contexts = b.contexts /\ c.modals = b.modals
      /\ c.confirm = b.confirm /\ c.registry = b.registry
  BY <1>4 DEF PanelState, Panelled
<1>6. b.confirm = u.confirm /\ b.registry = u.registry
  BY <1>3, <1>4 DEF Flags
<1>. HIDE DEF c
<1>7. /\ PanelState(v) /\ v.contexts = c.contexts /\ v.modals = c.modals /\ v.confirm = c.confirm
      /\ v.registry = IF id \in {"Settings", "Section", "Doc"} THEN id ELSE c.registry
  BY <1>2, <1>5, OnOpenDoes
<1>. HIDE DEF v
<1>8. /\ Len(v.contexts) = Len(u.contexts) + 1 /\ Agree(u.contexts, v.contexts, Len(u.contexts))
      /\ v.contexts[Len(v.contexts)] \in PanelLists(id)
  BY <1>1, <1>3, <1>4, <1>5, <1>7
<1>. QED
  BY <1>3, <1>4, <1>5, <1>6, <1>7, <1>8 DEF v

\* Closing takes the top of both stacks off; without a panel it does nothing.
LEMMA CloseModalDoes ==
  ASSUME NEW u, PanelState(u)
  PROVE  LET v == CloseModal(u) IN
           /\ PanelState(v)
           /\ u.modals = <<>> => v = u
           /\ u.modals # <<>> =>
                /\ v.confirm = "None"
                /\ Len(v.contexts) = IF Len(u.contexts) = 1 THEN 1 ELSE Len(u.contexts) - 1
                /\ Agree(u.contexts, v.contexts, Len(v.contexts))
                /\ Len(v.modals) = Len(u.modals) - 1
                /\ Agree(u.modals, v.modals, Len(v.modals))
                /\ v.registry = IF TopModal(u) = "Settings" THEN "Empty"
                                ELSE IF TopModal(u) \in {"Section", "Doc"} THEN "Settings"
                                ELSE u.registry
<1>1. CASE u.modals = <<>>
  BY <1>1 DEF CloseModal, IsAnyModalOpen
<1>2. CASE u.modals # <<>>
  <2>. DEFINE id == TopModal(u)
              a == OnClose(u, id)
              b == PopContext(a)
              c == NotifyClosed(b)
              v == CloseModal(u)
  <2>1. id \in PanelIds
    BY <1>2, StackFacts
  <2>2. v = [c EXCEPT !.fresh = FALSE, !.confirm = "None"]
    BY <1>2 DEF CloseModal, IsAnyModalOpen, Closed
  <2>3. /\ PanelState(a) /\ a.contexts = u.contexts /\ a.modals = u.modals
        /\ a.registry = IF id = "Settings" THEN "Empty"
                        ELSE IF id \in {"Section", "Doc"} THEN "Settings"
                        ELSE u.registry
    BY <2>1, OnCloseDoes
  <2>. HIDE DEF a
  <2>4. /\ PanelState(b) /\ Flags(b) = Flags(a) /\ b.modals = a.modals
        /\ Len(b.contexts) = IF Len(a.contexts) = 1 THEN 1 ELSE Len(a.contexts) - 1
        /\ Agree(a.contexts, b.contexts, Len(b.contexts))
    BY <2>3, PopContextDoes
  <2>. HIDE DEF b
  <2>5. /\ PanelState(c) /\ Flags(c) = Flags(b) /\ c.contexts = b.contexts
        /\ Len(c.modals) = IF b.modals = <<>> THEN 0 ELSE Len(b.modals) - 1
        /\ Agree(b.modals, c.modals, Len(c.modals))
    BY <2>4, NotifyClosedDoes
  <2>6. c.registry = a.registry
    BY <2>4, <2>5 DEF Flags
  <2>. HIDE DEF c, v
  <2>7. /\ PanelState(v) /\ v.contexts = c.contexts /\ v.modals = c.modals /\ v.confirm = "None"
        /\ v.registry = c.registry
    BY <2>2, <2>5 DEF PanelState, Panelled
  <2>. QED
    BY <1>2, <2>3, <2>4, <2>5, <2>6, <2>7 DEF v
<1>. QED
  BY <1>1, <1>2

\* Re-laying a panel puts a list in the place of the top one.
LEMMA RelaidDoes ==
  ASSUME NEW u, PanelState(u), NEW list \in ListNames
  PROVE  LET v == Relaid(u, list) IN
           /\ PanelState(v) /\ Flags(v) = Flags(u) /\ v.modals = u.modals
           /\ Len(u.contexts) > 1 =>
                /\ Len(v.contexts) = Len(u.contexts)
                /\ Agree(u.contexts, v.contexts, Len(u.contexts) - 1)
                /\ v.contexts[Len(u.contexts)] = list
<1>. DEFINE a == PopContext(u)
            v == PushContext(a, list)
<1>1. Len(u.contexts) \in Nat \ {0}
  BY StackFacts
<1>2. /\ PanelState(a) /\ Flags(a) = Flags(u) /\ a.modals = u.modals
      /\ Len(a.contexts) = IF Len(u.contexts) = 1 THEN 1 ELSE Len(u.contexts) - 1
      /\ Agree(u.contexts, a.contexts, Len(a.contexts))
  BY PopContextDoes
<1>. HIDE DEF a
<1>3. /\ PanelState(v) /\ Flags(v) = Flags(a) /\ v.modals = a.modals
      /\ Len(v.contexts) = Len(a.contexts) + 1
      /\ Agree(a.contexts, v.contexts, Len(a.contexts))
      /\ v.contexts[Len(v.contexts)] = list
  BY <1>2, PushContextDoes
<1>4. v = Relaid(u, list)
  BY DEF Relaid, a
<1>. HIDE DEF v
<1>5. ASSUME Len(u.contexts) > 1
      PROVE  /\ Len(v.contexts) = Len(u.contexts)
             /\ Agree(u.contexts, v.contexts, Len(u.contexts) - 1)
             /\ v.contexts[Len(u.contexts)] = list
  <2>1. Len(a.contexts) = Len(u.contexts) - 1
    <3>1. \A n \in Nat : n > 1 => n # 1
      OBVIOUS
    <3>. QED
      BY <1>1, <1>2, <1>5, <3>1
  <2>2. Len(v.contexts) = Len(u.contexts)
    BY <1>1, <1>3, <2>1
  <2>. QED
    BY <1>2, <1>3, <2>1, <2>2 DEF Agree
<1>. QED
  BY <1>2, <1>3, <1>4, <1>5

----------------------------------------------------------------------------
(* What lies under what. *)

\* A panel may be opened over another one.
MayCover(lower, upper) ==
  \/ lower = "Settings" /\ upper \in {"Confirm", "Section", "Doc", "Auth"}
  \/ lower = "Auth" /\ upper = "Doc"

\* The panels that may be opened over a screen.
Bottoms == PanelIds \ {"Section", "Doc"}

\* Each modal of the stack m may lie on the one below it.
Nested(m) ==
  /\ m # <<>> => m[1] \in Bottoms
  /\ \A i \in 2 .. Len(m) : MayCover(m[i - 1], m[i])

\* The registry is filled for the one of the three Settings modals that is on top, and
\* for Settings when a panel of another kind covers it.
RegistryRight(u) ==
  /\ u.modals # <<>> /\ u.modals[1] = "Settings" =>
       u.registry = IF TopModal(u) \in {"Section", "Doc"} THEN TopModal(u) ELSE "Settings"
  /\ TopModal(u) = "Doc" => u.registry = "Doc"

\* The contexts that belong to no panel: the screen's, and the popup's.
Base(p) == IF p = "Closed" THEN 1 ELSE 2

\* Every panel has its context, in the same order, over those of the screen and of the
\* popup p.
Layered(u, p) ==
  /\ Nested(u.modals)
  /\ Len(u.contexts) = Base(p) + Len(u.modals)
  /\ p # "Closed" => u.contexts[2] = "Popup"
  /\ \A i \in 1 .. Len(u.modals) : u.contexts[Base(p) + i] \in PanelLists(u.modals[i])
  /\ RegistryRight(u)
  /\ u.confirm # "None" => TopModal(u) = "Confirm"

\* At most three panels are open, and what is under a panel is one it may cover.
LEMMA NestedFacts ==
  ASSUME NEW u, PanelState(u), Nested(u.modals)
  PROVE  LET n == Len(u.modals) IN
           /\ n <= 3 /\ n < kMaxModalDepth
           /\ n > 1 => MayCover(u.modals[n - 1], TopModal(u))
           /\ n > 0 /\ TopModal(u) \notin {"Confirm", "Section", "Doc", "Auth"} => n = 1
           /\ TopModal(u) \in {"Section", "Doc"} => n > 1
           /\ n > 1 /\ TopModal(u) \in {"Confirm", "Section"} => n = 2 /\ u.modals[1] = "Settings"
           /\ TopModal(u) = "Section" => n = 2 /\ u.modals[1] = "Settings"
<1>. DEFINE n == Len(u.modals)
            m == u.modals
<1>1. /\ n \in Nat /\ (m = <<>> <=> n = 0)
      /\ TopModal(u) = IF n = 0 THEN "None" ELSE m[n]
  BY StackFacts
<1>2. \A i \in 2 .. n : MayCover(m[i - 1], m[i])
  BY DEF Nested
<1>3. n > 0 => m[1] \notin {"Section", "Doc"}
  BY <1>1 DEF Nested, Bottoms
<1>. HIDE DEF n, m
<1>4. n > 1 => MayCover(m[n - 1], TopModal(u))
  BY <1>1, <1>2
<1>5. n > 2 => MayCover(m[n - 2], m[n - 1])
  <2>. SUFFICES ASSUME n > 2 PROVE MayCover(m[n - 2], m[n - 1])
    OBVIOUS
  <2>1. n - 1 \in 2 .. n /\ (n - 1) - 1 = n - 2
    BY <1>1
  <2>. QED
    BY <1>2, <2>1
<1>6. n <= 3
  <2>. SUFFICES ASSUME n > 3 PROVE FALSE
    BY <1>1
  <2>1. MayCover(m[2 - 1], m[2]) /\ MayCover(m[3 - 1], m[3]) /\ MayCover(m[4 - 1], m[4])
    BY <1>1, <1>2
  <2>2. MayCover(m[1], m[2]) /\ MayCover(m[2], m[3]) /\ MayCover(m[3], m[4])
    BY <2>1
  <2>. QED
    BY <2>2 DEF MayCover
<1>7. n > 2 => m[n - 1] = "Auth" /\ TopModal(u) = "Doc"
  BY <1>1, <1>4, <1>5 DEF MayCover
<1>8. TopModal(u) \in {"Section", "Doc"} => n > 1
  BY <1>1, <1>3
<1>9. n > 0 /\ TopModal(u) \notin {"Confirm", "Section", "Doc", "Auth"} => n = 1
  BY <1>1, <1>4 DEF MayCover
<1>10. n > 1 /\ TopModal(u) \in {"Confirm", "Section"} => n = 2 /\ m[1] = "Settings"
  <2>. SUFFICES ASSUME n > 1, TopModal(u) \in {"Confirm", "Section"} PROVE n = 2 /\ m[1] = "Settings"
    OBVIOUS
  <2>1. n = 2
    BY <1>1, <1>7
  <2>. QED
    BY <1>4, <2>1 DEF MayCover
<1>. QED
  BY <1>1, <1>4, <1>6, <1>8, <1>9, <1>10 DEF n, m, kMaxModalDepth

\* Closing the top panel.
LEMMA LayeredClose ==
  ASSUME NEW u, PanelState(u), NEW p, Layered(u, p), u.modals # <<>>
  PROVE  LET v == CloseModal(u) IN
           /\ Layered(v, p) /\ v.confirm = "None" /\ v.contexts[1] = u.contexts[1]
           /\ Len(v.modals) = Len(u.modals) - 1
           /\ \A i \in 1 .. Len(v.modals) : v.modals[i] = u.modals[i]
<1>. DEFINE v == CloseModal(u)
            n == Len(u.modals)
            b == Base(p)
<1>1. /\ n \in Nat \ {0} /\ b \in {1, 2} /\ Len(u.contexts) = b + n /\ Nested(u.modals)
      /\ TopModal(u) = u.modals[n]
  BY StackFacts DEF Layered, Base
<1>2. /\ PanelState(v) /\ v.confirm = "None" /\ Len(v.contexts) = b + n - 1 /\ Len(v.modals) = n - 1
      /\ Agree(u.contexts, v.contexts, Len(v.contexts)) /\ Agree(u.modals, v.modals, n - 1)
      /\ v.registry = IF TopModal(u) = "Settings" THEN "Empty"
                      ELSE IF TopModal(u) \in {"Section", "Doc"} THEN "Settings"
                      ELSE u.registry
  <2>1. b + n # 1 /\ u.modals # <<>>
    BY <1>1
  <2>. HIDE DEF n, b
  <2>2. /\ PanelState(v) /\ v.confirm = "None"
        /\ Len(v.contexts) = IF Len(u.contexts) = 1 THEN 1 ELSE Len(u.contexts) - 1
        /\ Agree(u.contexts, v.contexts, Len(v.contexts))
        /\ Len(v.modals) = n - 1 /\ Agree(u.modals, v.modals, Len(v.modals))
        /\ v.registry = IF TopModal(u) = "Settings" THEN "Empty"
                        ELSE IF TopModal(u) \in {"Section", "Doc"} THEN "Settings"
                        ELSE u.registry
    BY <2>1, CloseModalDoes DEF n
  <2>. HIDE DEF v
  <2>. QED
    BY <1>1, <2>1, <2>2
<1>3. /\ n > 1 => MayCover(u.modals[n - 1], TopModal(u))
  BY <1>1, NestedFacts
<1>. HIDE DEF v, n, b
<1>4. /\ v.modals = <<>> <=> n = 1
      /\ TopModal(v) = IF n = 1 THEN "None" ELSE v.modals[n - 1]
      /\ n > 1 => v.modals[1] = u.modals[1] /\ TopModal(v) = u.modals[n - 1]
  <2>1. /\ v.modals = <<>> <=> Len(v.modals) = 0
        /\ TopModal(v) = IF Len(v.modals) = 0 THEN "None" ELSE v.modals[Len(v.modals)]
    BY <1>2, StackFacts
  <2>. QED
    BY <1>1, <1>2, <2>1 DEF Agree
<1>5. \A i \in 1 .. b + n - 1 : v.contexts[i] = u.contexts[i]
  BY <1>1, <1>2 DEF Agree
<1>6. Nested(v.modals)
  <2>1. \A i \in 1 .. n : MayCover(u.modals[i], u.modals[i + 1]) \/ i = n
    BY SMTT(40), <1>1 DEF Nested, n
  <2>2. ASSUME NEW i \in 2 .. n - 1 PROVE MayCover(v.modals[i - 1], v.modals[i])
    <3>1. v.modals[i - 1] = u.modals[i - 1] /\ v.modals[i] = u.modals[i] /\ i \in 2 .. n
      BY <1>1, <1>2 DEF Agree
    <3>. QED
      BY <1>1, <3>1 DEF Nested, n
  <2>3. n > 1 => v.modals[1] \in Bottoms
    BY <1>1, <1>4 DEF Nested, n
  <2>. QED
    BY <1>1, <1>2, <1>4, <2>2, <2>3 DEF Nested
<1>7. \A i \in 1 .. n - 1 : v.contexts[b + i] \in PanelLists(v.modals[i])
  <2>. TAKE i \in 1 .. n - 1
  <2>1. b + i \in 1 .. b + n - 1 /\ i \in 1 .. n /\ i \in 1 .. n - 1
    BY <1>1
  <2>2. v.contexts[b + i] = u.contexts[b + i] /\ v.modals[i] = u.modals[i]
    BY <1>2, <1>5, <2>1 DEF Agree
  <2>. QED
    BY <2>1, <2>2 DEF Layered, n, b
<1>8. p # "Closed" => v.contexts[2] = "Popup"
  <2>. HAVE p # "Closed"
  <2>1. b = 2 /\ 2 \in 1 .. b + n - 1
    BY <1>1 DEF b, Base
  <2>. QED
    BY <1>5, <2>1 DEF Layered
<1>9. RegistryRight(v)
  <2>1. CASE n = 1
    BY <1>4, <2>1 DEF RegistryRight
  <2>2. CASE n > 1
    <3>1. TopModal(v) \in {"Settings", "Auth"} /\ TopModal(u) \in {"Confirm", "Section", "Doc", "Auth"}
      BY <1>3, <1>4, <2>2 DEF MayCover
    <3>2. u.modals[1] = "Settings" => v.registry = "Settings"
      BY <1>2, <3>1 DEF Layered, RegistryRight
    <3>. QED
      BY <1>4, <2>2, <3>1, <3>2 DEF RegistryRight
  <2>. QED
    BY <1>1, <2>1, <2>2
<1>10. v.contexts[1] = u.contexts[1]
  BY <1>1, <1>5
<1>. QED
  BY <1>1, <1>2, <1>6, <1>7, <1>8, <1>9, <1>10 DEF Layered, Agree, v, n, b

\* Opening a panel over the screen, or over a panel it may cover.
LEMMA LayeredOpen ==
  ASSUME NEW u, PanelState(u), NEW p, Layered(u, p), NEW id \in PanelIds,
         IF u.modals = <<>> THEN id \in Bottoms ELSE MayCover(TopModal(u), id)
  PROVE  LET v == OpenModal(u, id) IN
           /\ Layered(v, p) /\ v.confirm = "None" /\ TopModal(v) = id
           /\ v.contexts[1] = u.contexts[1]
           /\ Len(v.modals) = Len(u.modals) + 1
           /\ \A i \in 1 .. Len(u.modals) : v.modals[i] = u.modals[i]
<1>. DEFINE v == OpenModal(u, id)
            n == Len(u.modals)
            b == Base(p)
<1>1. /\ n \in Nat /\ b \in {1, 2} /\ Len(u.contexts) = b + n /\ Nested(u.modals)
      /\ (u.modals = <<>> <=> n = 0)
      /\ TopModal(u) = IF n = 0 THEN "None" ELSE u.modals[n]
  BY StackFacts DEF Layered, Base
<1>2. n < kMaxModalDepth
  BY <1>1, NestedFacts
<1>3. /\ PanelState(v) /\ v.confirm = u.confirm /\ Len(v.contexts) = b + n + 1 /\ Len(v.modals) = n + 1
      /\ Agree(u.contexts, v.contexts, b + n) /\ v.contexts[b + n + 1] \in PanelLists(id)
      /\ Agree(u.modals, v.modals, n) /\ v.modals[n + 1] = id
      /\ v.registry = IF id \in {"Settings", "Section", "Doc"} THEN id ELSE u.registry
  BY <1>1, <1>2, OpenModalDoes
<1>. HIDE DEF v, n, b
<1>4. TopModal(v) = id /\ v.modals # <<>> /\ v.modals[1] = IF n = 0 THEN id ELSE u.modals[1]
  <2>1. /\ v.modals = <<>> <=> Len(v.modals) = 0
        /\ TopModal(v) = IF Len(v.modals) = 0 THEN "None" ELSE v.modals[Len(v.modals)]
    BY <1>3, StackFacts
  <2>2. n + 1 # 0 /\ (n # 0 => 1 \in 1 .. n) /\ (n = 0 => n + 1 = 1)
    BY <1>1
  <2>3. v.modals[1] = IF n = 0 THEN id ELSE u.modals[1]
    BY <1>1, <1>3, <2>2 DEF Agree
  <2>. QED
    BY <1>3, <2>1, <2>2, <2>3
<1>5. Nested(v.modals)
  <2>1. v.modals[1] \in Bottoms
    BY <1>1, <1>4 DEF Nested
  <2>2. ASSUME NEW i \in 2 .. n + 1 PROVE MayCover(v.modals[i - 1], v.modals[i])
    <3>1. CASE i = n + 1
      <4>1. n # 0 /\ (n + 1) - 1 = n /\ n \in 1 .. n
        BY <1>1, <3>1
      <4>. QED
        BY <1>1, <1>3, <3>1, <4>1 DEF Agree
    <3>2. CASE i # n + 1
      <4>1. i \in 1 .. n /\ i \in 2 .. n /\ i - 1 \in 1 .. n
        BY <1>1, <3>2
      <4>2. v.modals[i - 1] = u.modals[i - 1] /\ v.modals[i] = u.modals[i]
        BY <1>3, <4>1 DEF Agree
      <4>. QED
        BY <1>1, <4>1, <4>2 DEF Nested, n
    <3>. QED
      BY <3>1, <3>2
  <2>. QED
    BY <1>3, <2>1, <2>2 DEF Nested
<1>6. \A i \in 1 .. n + 1 : v.contexts[b + i] \in PanelLists(v.modals[i])
  <2>. TAKE i \in 1 .. n + 1
  <2>1. CASE i = n + 1
    <3>1. b + (n + 1) = b + n + 1
      BY <1>1
    <3>. QED
      BY <1>3, <2>1, <3>1
  <2>2. CASE i # n + 1
    <3>1. i \in 1 .. n /\ b + i \in 1 .. b + n
      BY <1>1, <2>2
    <3>2. v.contexts[b + i] = u.contexts[b + i] /\ v.modals[i] = u.modals[i]
      BY <1>3, <3>1 DEF Agree
    <3>. QED
      BY <3>1, <3>2 DEF Layered, n, b
  <2>. QED
    BY <2>1, <2>2
<1>7. p # "Closed" => v.contexts[2] = "Popup"
  <2>. HAVE p # "Closed"
  <2>1. b = 2 /\ 2 \in 1 .. b + n
    BY <1>1 DEF b, Base
  <2>. QED
    BY <1>3, <2>1 DEF Layered, Agree
<1>8. RegistryRight(v)
  <2>1. CASE id \in {"Settings", "Section", "Doc"}
    <3>1. id = "Settings" \/ id \in {"Section", "Doc"}
      BY <2>1
    <3>. QED
      BY <1>3, <1>4, <2>1, <3>1 DEF RegistryRight
  <2>2. CASE id \notin {"Settings", "Section", "Doc"}
    <3>1. v.modals[1] = "Settings" => u.registry = "Settings"
      <4>. HAVE v.modals[1] = "Settings"
      <4>1. n # 0 /\ u.modals[1] = "Settings" /\ u.modals # <<>>
        BY <1>1, <1>4, <2>2
      <4>2. TopModal(u) \notin {"Section", "Doc"}
        BY <4>1 DEF MayCover
      <4>. QED
        BY <4>1, <4>2 DEF Layered, RegistryRight
    <3>. QED
      BY <1>3, <1>4, <2>2, <3>1 DEF RegistryRight
  <2>. QED
    BY <2>1, <2>2
<1>9. u.confirm = "None"
  <2>1. TopModal(u) # "Confirm"
    BY <1>1 DEF MayCover
  <2>. QED
    BY <2>1 DEF Layered
<1>10. v.contexts[1] = u.contexts[1]
  BY <1>1, <1>3 DEF Agree
<1>. QED
  BY <1>1, <1>3, <1>4, <1>5, <1>6, <1>7, <1>8, <1>9, <1>10 DEF Layered, Agree, v, n, b

\* What is on no stack may change, but for the registry and the confirmation.
LEMMA LayeredSame ==
  ASSUME NEW u, NEW v, NEW p, Layered(u, p), v.contexts = u.contexts, v.modals = u.modals,
         v.registry = u.registry, v.confirm = u.confirm
  PROVE  Layered(v, p) /\ TopModal(v) = TopModal(u)
<1>1. TopModal(v) = TopModal(u)
  BY DEF TopModal
<1>. QED
  BY <1>1 DEF Layered, RegistryRight

\* The list of the top panel is exchanged for another one of the same panel.
LEMMA LayeredRelaid ==
  ASSUME NEW u, PanelState(u), NEW p, Layered(u, p), u.modals # <<>>,
         NEW list \in PanelLists(TopModal(u))
  PROVE  LET v == Relaid(u, list) IN
           /\ PanelState(v) /\ Layered(v, p) /\ v.modals = u.modals /\ v.confirm = u.confirm
           /\ v.contexts[1] = u.contexts[1]
<1>. DEFINE v == Relaid(u, list)
            n == Len(u.modals)
            b == Base(p)
<1>1. /\ n \in Nat \ {0} /\ b \in {1, 2} /\ Len(u.contexts) = b + n /\ Nested(u.modals)
      /\ TopModal(u) = u.modals[n] /\ TopModal(u) \in PanelIds
  BY StackFacts DEF Layered, Base
<1>2. list \in ListNames
  BY <1>1, ListsAreNames
<1>3. /\ PanelState(v) /\ Flags(v) = Flags(u) /\ v.modals = u.modals
      /\ Len(v.contexts) = b + n /\ Agree(u.contexts, v.contexts, b + n - 1)
      /\ v.contexts[b + n] = list
  BY <1>1, <1>2, RelaidDoes
<1>4. v.registry = u.registry /\ v.confirm = u.confirm
  BY <1>3 DEF Flags
<1>. HIDE DEF v, n, b
<1>5. \A i \in 1 .. n : v.contexts[b + i] \in PanelLists(v.modals[i])
  <2>. TAKE i \in 1 .. n
  <2>1. CASE i = n
    BY <1>1, <1>3, <2>1
  <2>2. CASE i # n
    <3>1. b + i \in 1 .. b + n - 1
      BY <1>1, <2>2
    <3>2. v.contexts[b + i] = u.contexts[b + i]
      BY <1>3, <3>1 DEF Agree
    <3>. QED
      BY <1>3, <3>2 DEF Layered, n, b
  <2>. QED
    BY <2>1, <2>2
<1>6. p # "Closed" => v.contexts[2] = "Popup"
  <2>. HAVE p # "Closed"
  <2>1. b = 2 /\ 2 \in 1 .. b + n - 1
    BY <1>1 DEF b, Base
  <2>. QED
    BY <1>3, <2>1 DEF Layered, Agree
<1>7. TopModal(v) = TopModal(u) /\ RegistryRight(v)
  BY <1>3, <1>4 DEF TopModal, Layered, RegistryRight
<1>8. v.contexts[1] = u.contexts[1]
  BY <1>1, <1>3 DEF Agree
<1>. QED
  BY <1>1, <1>3, <1>4, <1>5, <1>6, <1>7, <1>8 DEF Layered, v, n, b

\* The popup comes up over the screen, and goes when its context is on top.
LEMMA LayeredPopupOpens ==
  ASSUME NEW u, PanelState(u), Layered(u, "Closed"), u.modals = <<>>, NEW p, p # "Closed"
  PROVE  LET v == PushContext(u, "Popup") IN
           /\ PanelState(v) /\ Layered(v, p) /\ v.modals = <<>> /\ v.confirm = "None"
           /\ v.contexts[1] = u.contexts[1]
<1>. USE StackFacts
<1>. DEFINE v == PushContext(u, "Popup")
<1>1. Len(u.contexts) = 1 /\ TopModal(u) = "None" /\ Len(u.modals) = 0 /\ u.confirm = "None"
  BY DEF Layered, Base
<1>2. /\ PanelState(v) /\ Flags(v) = Flags(u) /\ v.modals = <<>>
      /\ Len(v.contexts) = 2 /\ Agree(u.contexts, v.contexts, 1) /\ v.contexts[2] = "Popup"
  <2>1. "Popup" \in ListNames
    BY DEF ListNames
  <2>2. /\ PanelState(v) /\ Flags(v) = Flags(u) /\ v.modals = u.modals
        /\ Len(v.contexts) = Len(u.contexts) + 1
        /\ Agree(u.contexts, v.contexts, Len(u.contexts))
        /\ v.contexts[Len(v.contexts)] = "Popup"
    BY <2>1, PushContextDoes
  <2>. HIDE DEF v
  <2>. QED
    BY <1>1, <2>2
<1>3. v.confirm = "None" /\ TopModal(v) = "None" /\ Len(v.modals) = 0 /\ v.contexts[1] = u.contexts[1]
  BY <1>1, <1>2 DEF Flags, Agree
<1>. HIDE DEF v
<1>4. Layered(v, p)
  BY <1>2, <1>3 DEF Layered, Nested, RegistryRight, Base
<1>. QED
  BY <1>2, <1>3, <1>4 DEF v

\* Closing the popup while its context is on top leaves no panel and only the screen.
LEMMA LayeredPopupCloses ==
  ASSUME NEW u, PanelState(u), NEW p, Layered(u, p), p # "Closed", Active(u) = "Popup"
  PROVE  LET v == PopContext(u) IN
           /\ PanelState(v) /\ Layered(v, "Closed") /\ v.modals = <<>> /\ v.confirm = "None"
           /\ v.contexts[1] = u.contexts[1]
<1>. USE StackFacts
<1>. DEFINE v == PopContext(u)
            n == Len(u.modals)
<1>1. n \in Nat /\ Len(u.contexts) = 2 + n
  BY DEF Layered, Base
<1>2. n = 0
  <2>. SUFFICES ASSUME n # 0 PROVE FALSE
    OBVIOUS
  <2>1. u.contexts[2 + n] \in PanelLists(u.modals[n]) /\ u.modals[n] \in PanelIds
    BY <1>1 DEF Layered, Base
  <2>2. "Popup" \in PanelLists(u.modals[n])
    BY <1>1, <2>1 DEF Active
  <2>. HIDE DEF n
  <2>. QED
    BY <2>1, <2>2 DEF PanelLists, PanelIds, AuthForms
<1>3. u.modals = <<>> /\ TopModal(u) = "None" /\ u.confirm = "None" /\ Len(u.contexts) = 2
  <2>. HIDE DEF n
  <2>1. Len(u.contexts) = 2
    BY <1>1, <1>2
  <2>2. u.modals = <<>> /\ TopModal(u) = "None"
    BY <1>2 DEF n
  <2>. QED
    BY <2>1, <2>2 DEF Layered
<1>4. /\ PanelState(v) /\ Flags(v) = Flags(u) /\ v.modals = <<>>
      /\ Len(v.contexts) = 1 /\ Agree(u.contexts, v.contexts, 1)
  BY SMTT(40), <1>3, PopContextDoes
<1>5. v.confirm = "None" /\ TopModal(v) = "None" /\ Len(v.modals) = 0 /\ v.contexts[1] = u.contexts[1]
  BY <1>3, <1>4 DEF Flags, Agree
<1>. HIDE DEF v, n
<1>6. Layered(v, "Closed")
  BY <1>4, <1>5 DEF Layered, Nested, RegistryRight, Base
<1>. QED
  BY <1>4, <1>5, <1>6 DEF v

\* A screen's list goes into the one context there is.
LEMMA LayeredRegister ==
  ASSUME NEW u, PanelState(u), NEW p, Layered(u, p), ~(Len(u.contexts) > 1), NEW list \in ListNames
  PROVE  LET v == RegisterList(u, list) IN
           /\ p = "Closed" /\ u.modals = <<>> /\ u.confirm = "None"
           /\ Layered(v, p) /\ v.modals = <<>> /\ v.confirm = "None"
           /\ v.contexts[1] = list
<1>. DEFINE v == RegisterList(u, list)
<1>1. /\ Len(u.modals) \in Nat /\ Len(u.contexts) \in Nat \ {0}
      /\ Len(u.contexts) = Base(p) + Len(u.modals)
  BY StackFacts DEF Layered
<1>2. p = "Closed" /\ Len(u.modals) = 0 /\ Len(u.contexts) = 1
  <2>. DEFINE m == Len(u.modals)
              n == Len(u.contexts)
              b == Base(p)
  <2>1. /\ b \in {1, 2} /\ (b = 1 => p = "Closed") /\ m \in Nat /\ n \in Nat \ {0}
        /\ n = b + m /\ ~(n > 1)
    <3>1. b \in {1, 2} /\ (p = "Closed" \/ b = 2)
      BY DEF Base
    <3>. QED
      BY <1>1, <3>1
  <2>. HIDE DEF m, n, b
  <2>2. n = 1 /\ m = 0 /\ b = 1
    BY <2>1
  <2>. QED
    BY <2>1, <2>2 DEF m, n
<1>3. u.modals = <<>> /\ TopModal(u) = "None" /\ u.confirm = "None"
  BY <1>2, StackFacts DEF Layered
<1>4. /\ PanelState(v) /\ Flags(v) = Flags(u) /\ v.modals = <<>>
      /\ Len(v.contexts) = 1 /\ v.contexts[1] = list
  BY <1>2, <1>3, RegisterListDoes
<1>5. v.confirm = "None" /\ TopModal(v) = "None" /\ Len(v.modals) = 0
  BY <1>3, <1>4, StackFacts DEF Flags
<1>. HIDE DEF v
<1>6. Layered(v, p)
  BY <1>2, <1>4, <1>5 DEF Layered, Nested, RegistryRight, Base
<1>. QED
  BY <1>2, <1>3, <1>4, <1>5, <1>6 DEF v

----------------------------------------------------------------------------
(* What a control of a panel leaves. *)

\* What may be open under the popup p, on the screen at, in this phase of the tutorial
\* and with the list that its last screen registered.
Allowed(u, p, at, phase, done) ==
  /\ p # "Closed" /\ u.modals # <<>> => Len(u.modals) = 1 /\ u.confirm = "Skip"
  /\ phase = "Complete" => \A i \in 1 .. Len(u.modals) : u.modals[i] \in {"Auth", "Doc"}
  /\ done # "Never" /\ phase = "Inactive" => u.modals = <<>>
  /\ u.confirm = "Leave" => at = "Game"

\* A state of the panels that the interface could be in next, were nothing else to change.
Fits(v) ==
  /\ PanelState(v)
  /\ ~astray => /\ Layered(v, popup) /\ v.contexts[1] = ui.contexts[1]
                /\ Allowed(v, popup, screen, lesson.phase, complete)

\* A panel may be opened over what is open.
Opens(u, id) ==
  /\ popup = "Closed"
  /\ complete # "Never" => lesson.phase # "Inactive"
  /\ lesson.phase = "Complete" => id \in {"Auth", "Doc"}
  /\ IF u.modals = <<>> THEN id \in Bottoms ELSE MayCover(TopModal(u), id)

\* Fits only depends on the stacks, the registry and the question asked.
LEMMA FitsSame ==
  ASSUME NEW u, Fits(u), NEW v, PanelState(v), v.contexts = u.contexts, v.modals = u.modals,
         v.registry = u.registry, v.confirm = u.confirm
  PROVE  Fits(v) /\ TopModal(v) = TopModal(u)
<1>1. TopModal(v) = TopModal(u)
  BY DEF TopModal
<1>2. ASSUME ~astray PROVE Layered(v, popup)
  BY <1>2, LayeredSame DEF Fits
<1>3. ASSUME ~astray PROVE Allowed(v, popup, screen, lesson.phase, complete)
  BY <1>3 DEF Fits, Allowed
<1>. QED
  BY <1>1, <1>2, <1>3 DEF Fits

\* Closing the top panel leaves a state that fits; what is left under it is as it was.
LEMMA FitsClose ==
  ASSUME NEW u, Fits(u)
  PROVE  LET v == CloseModal(u) IN
           /\ Fits(v)
           /\ ~astray => /\ v.confirm = "None"
                         /\ Len(u.modals) = 1 => v.modals = <<>>
                         /\ TopModal(u) = "Section" => TopModal(v) = "Settings"
                         /\ popup # "Closed" => v.modals = <<>>
<1>. DEFINE v == CloseModal(u)
<1>1. PanelState(u) /\ PanelState(v)
  BY CloseModalDoes DEF Fits
<1>2. CASE astray
  BY <1>1, <1>2 DEF Fits
<1>3. CASE ~astray /\ u.modals = <<>>
  <2>1. v = u
    BY <1>1, <1>3, CloseModalDoes
  <2>2. TopModal(u) = "None"
    BY <1>3 DEF TopModal
  <2>3. u.confirm = "None"
    BY <1>3, <2>2 DEF Fits, Layered
  <2>. QED
    BY <1>3, <2>1, <2>2, <2>3
<1>4. CASE ~astray /\ u.modals # <<>>
  <2>1. Layered(u, popup) /\ u.contexts[1] = ui.contexts[1]
        /\ Allowed(u, popup, screen, lesson.phase, complete)
    BY <1>4 DEF Fits
  <2>2. /\ Layered(v, popup) /\ v.confirm = "None" /\ v.contexts[1] = u.contexts[1]
        /\ Len(v.modals) = Len(u.modals) - 1
        /\ \A i \in 1 .. Len(v.modals) : v.modals[i] = u.modals[i]
    BY <1>1, <1>4, <2>1, LayeredClose
  <2>3. /\ Len(u.modals) \in Nat \ {0} /\ Len(v.modals) \in Nat
        /\ v.modals = <<>> <=> Len(v.modals) = 0
        /\ TopModal(v) = IF Len(v.modals) = 0 THEN "None" ELSE v.modals[Len(v.modals)]
        /\ u.modals = <<>> <=> Len(u.modals) = 0
    BY <1>1, <1>4, StackFacts
  <2>. HIDE DEF v
  <2>4. Len(u.modals) = 1 => v.modals = <<>>
    BY <2>2, <2>3
  <2>5. popup # "Closed" => v.modals = <<>>
    BY <1>4, <2>1, <2>4 DEF Allowed
  <2>6. TopModal(u) = "Section" => TopModal(v) = "Settings"
    <3>1. TopModal(u) = "Section" => Len(u.modals) = 2 /\ u.modals[1] = "Settings"
      BY <1>1, <2>1, NestedFacts DEF Layered
    <3>2. Len(u.modals) = 2 => Len(v.modals) = 1 /\ v.modals[1] = u.modals[1]
      BY <2>2, <2>3
    <3>3. Len(v.modals) = 1 => TopModal(v) = v.modals[1]
      BY <2>3
    <3>. QED
      BY <3>1, <3>2, <3>3
  <2>7. Allowed(v, popup, screen, lesson.phase, complete)
    <3>1. lesson.phase = "Complete" => \A i \in 1 .. Len(v.modals) : v.modals[i] \in {"Auth", "Doc"}
      <4>. HAVE lesson.phase = "Complete"
      <4>1. \A i \in 1 .. Len(u.modals) : u.modals[i] \in {"Auth", "Doc"}
        BY <2>1 DEF Allowed
      <4>. TAKE i \in 1 .. Len(v.modals)
      <4>2. i \in 1 .. Len(u.modals)
        BY <2>2, <2>3
      <4>. QED
        BY <2>2, <4>1, <4>2
    <3>. QED
      BY <1>4, <2>1, <2>2, <2>5, <3>1 DEF Allowed
  <2>. QED
    BY <1>1, <2>1, <2>2, <2>4, <2>5, <2>6, <2>7 DEF Fits, v
<1>. QED
  BY <1>2, <1>3, <1>4

\* Opening a panel that may open here leaves a state that fits.
LEMMA FitsOpen ==
  ASSUME NEW u, Fits(u), NEW id \in PanelIds, ~astray => Opens(u, id)
  PROVE  Fits(OpenModal(u, id))
<1>. DEFINE v == OpenModal(u, id)
<1>1. PanelState(u) /\ PanelState(v)
  BY OpenModalDoes DEF Fits
<1>2. ASSUME ~astray
      PROVE  /\ Layered(v, popup) /\ v.contexts[1] = ui.contexts[1]
             /\ Allowed(v, popup, screen, lesson.phase, complete)
  <2>1. /\ Layered(u, popup) /\ u.contexts[1] = ui.contexts[1]
        /\ Allowed(u, popup, screen, lesson.phase, complete)
        /\ Opens(u, id)
    BY <1>2 DEF Fits
  <2>2. /\ Layered(v, popup) /\ v.confirm = "None" /\ TopModal(v) = id
        /\ v.contexts[1] = u.contexts[1]
        /\ Len(v.modals) = Len(u.modals) + 1
        /\ \A i \in 1 .. Len(u.modals) : v.modals[i] = u.modals[i]
    BY <1>1, <2>1, LayeredOpen DEF Opens
  <2>3. /\ Len(u.modals) \in Nat
        /\ TopModal(v) = IF Len(v.modals) = 0 THEN "None" ELSE v.modals[Len(v.modals)]
    BY <1>1, StackFacts
  <2>. HIDE DEF v
  <2>4. lesson.phase = "Complete" => \A i \in 1 .. Len(v.modals) : v.modals[i] \in {"Auth", "Doc"}
    <3>. HAVE lesson.phase = "Complete"
    <3>. TAKE i \in 1 .. Len(v.modals)
    <3>1. i = Len(v.modals) \/ i \in 1 .. Len(u.modals)
      BY <2>2, <2>3
    <3>2. Len(v.modals) # 0
      BY <2>2, <2>3
    <3>3. v.modals[Len(v.modals)] = id /\ id \in {"Auth", "Doc"}
      BY <2>1, <2>2, <2>3, <3>2 DEF Opens
    <3>. QED
      BY <2>1, <2>2, <3>1, <3>3 DEF Allowed
  <2>. QED
    BY <2>1, <2>2, <2>4 DEF Allowed, Opens
<1>. QED
  BY <1>1, <1>2 DEF Fits

\* A confirmation: over a screen, over Settings, and the one that skips the tutorial over
\* the popup too.
LEMMA FitsConfirm ==
  ASSUME NEW u, Fits(u), NEW what \in Confirms,
         ~astray => /\ u.modals = <<>> \/ TopModal(u) = "Settings"
                    /\ lesson.phase # "Complete"
                    /\ complete # "Never" => lesson.phase # "Inactive"
                    /\ popup # "Closed" => u.modals = <<>> /\ what = "Skip"
                    /\ what = "Leave" => screen = "Game"
  PROVE  Fits(OpenConfirm(u, what))
<1>. DEFINE w == OpenModal(u, "Confirm")
            v == OpenConfirm(u, what)
<1>0. "Confirm" \in PanelIds /\ "Confirm" \in Bottoms
  BY DEF PanelIds, Bottoms
<1>1. PanelState(u) /\ PanelState(w)
  BY <1>0, OpenModalDoes DEF Fits
<1>2. v = [w EXCEPT !.confirm = what]
  BY DEF OpenConfirm
<1>. HIDE DEF w, v
<1>3. /\ PanelState(v) /\ v.contexts = w.contexts /\ v.modals = w.modals /\ v.registry = w.registry
      /\ v.confirm = what
  BY <1>1, <1>2 DEF PanelState, Panelled
<1>4. TopModal(v) = TopModal(w)
  BY <1>3 DEF TopModal
<1>5. ASSUME ~astray
      PROVE  /\ Layered(v, popup) /\ v.contexts[1] = ui.contexts[1]
             /\ Allowed(v, popup, screen, lesson.phase, complete)
  <2>1. /\ Layered(u, popup) /\ u.contexts[1] = ui.contexts[1]
        /\ Allowed(u, popup, screen, lesson.phase, complete)
    BY <1>5 DEF Fits
  <2>2. IF u.modals = <<>> THEN "Confirm" \in Bottoms ELSE MayCover(TopModal(u), "Confirm")
    BY <1>0, <1>5 DEF MayCover
  <2>3. /\ Layered(w, popup) /\ TopModal(w) = "Confirm"
        /\ w.contexts[1] = u.contexts[1] /\ Len(w.modals) = Len(u.modals) + 1
    BY <1>0, <1>1, <2>1, <2>2, LayeredOpen DEF w
  <2>4. Layered(v, popup)
    BY <1>3, <1>4, <2>3 DEF Layered, RegistryRight
  <2>5. u.modals = <<>> => Len(v.modals) = 1
    <3>1. u.modals = <<>> => Len(u.modals) = 0
      BY <1>1, StackFacts
    <3>. QED
      BY <1>3, <2>3, <3>1
  <2>6. Allowed(v, popup, screen, lesson.phase, complete)
    BY <1>3, <1>5, <2>5 DEF Allowed
  <2>. QED
    BY <1>3, <2>1, <2>3, <2>4, <2>6
<1>. QED
  BY <1>3, <1>5 DEF Fits, v

\* Re-laying the top panel with a list of its own leaves a state that fits.
LEMMA FitsRelaid ==
  ASSUME NEW u, Fits(u), u.modals # <<>>, NEW list \in PanelLists(TopModal(u))
  PROVE  Fits(Relaid(u, list))
<1>. DEFINE v == Relaid(u, list)
<1>1. PanelState(u) /\ TopModal(u) \in PanelIds
  BY StackFacts DEF Fits
<1>2. list \in ListNames
  BY <1>1, ListsAreNames
<1>3. PanelState(v)
  BY <1>1, <1>2, RelaidDoes
<1>4. ASSUME ~astray
      PROVE  /\ Layered(v, popup) /\ v.contexts[1] = ui.contexts[1]
             /\ Allowed(v, popup, screen, lesson.phase, complete)
  <2>1. /\ Layered(u, popup) /\ u.contexts[1] = ui.contexts[1]
        /\ Allowed(u, popup, screen, lesson.phase, complete)
    BY <1>4 DEF Fits
  <2>2. /\ Layered(v, popup) /\ v.modals = u.modals /\ v.confirm = u.confirm
        /\ v.contexts[1] = u.contexts[1]
    BY <1>1, <2>1, LayeredRelaid
  <2>. HIDE DEF v
  <2>. QED
    BY <2>1, <2>2 DEF Allowed
<1>. QED
  BY <1>3, <1>4 DEF Fits

\* While a panel other than a confirmation is open.
LEMMA UnderPanel ==
  ASSUME NEW u, Fits(u), TopModal(u) \notin {"None", "Confirm"}, ~astray
  PROVE  /\ u.modals # <<>> /\ popup = "Closed"
         /\ complete # "Never" => lesson.phase # "Inactive"
         /\ lesson.phase = "Complete" => TopModal(u) \in {"Auth", "Doc"}
<1>1. /\ Layered(u, popup) /\ Allowed(u, popup, screen, lesson.phase, complete) /\ PanelState(u)
  BY DEF Fits
<1>2. /\ u.modals # <<>> /\ Len(u.modals) \in Nat \ {0} /\ TopModal(u) = u.modals[Len(u.modals)]
  BY <1>1, StackFacts
<1>3. u.confirm = "None"
  BY <1>1 DEF Layered
<1>. QED
  BY <1>1, <1>2, <1>3 DEF Allowed

----------------------------------------------------------------------------
(* The controls of each panel. *)

\* A panel that may lie on the top one can be opened there.
LEMMA FitsCover ==
  ASSUME NEW u, Fits(u), NEW id \in PanelIds, MayCover(TopModal(u), id)
  PROVE  Fits(OpenModal(u, id))
<1>1. TopModal(u) \notin {"None", "Confirm"}
  BY DEF MayCover
<1>2. ~astray => Opens(u, id)
  BY <1>1, UnderPanel DEF Opens, MayCover
<1>. QED
  BY <1>2, FitsOpen

\* A document, from Settings or from the form of the auth modal.
LEMMA FitsDoc ==
  ASSUME NEW u, Fits(u), TopModal(u) \in {"Settings", "Auth"}, NEW doc \in Docs
  PROVE  Fits(OpenDoc(u, doc))
<1>. DEFINE v == [u EXCEPT !.doc = doc]
<1>1. /\ PanelState(v) /\ v.contexts = u.contexts /\ v.modals = u.modals
      /\ v.registry = u.registry /\ v.confirm = u.confirm
  BY DEF Fits, PanelState, Panelled
<1>. HIDE DEF v
<1>2. Fits(v) /\ MayCover(TopModal(v), "Doc") /\ "Doc" \in PanelIds
  BY <1>1, FitsSame DEF MayCover, PanelIds
<1>. QED
  BY <1>2, FitsCover DEF OpenDoc, v

\* The auth modal, from Settings or over a screen.
LEMMA FitsAuth ==
  ASSUME NEW u, Fits(u), NEW mode \in {"SignIn", "SignUp"},
         ~astray => \/ TopModal(u) = "Settings"
                    \/ /\ u.modals = <<>> /\ popup = "Closed"
                       /\ complete # "Never" => lesson.phase # "Inactive"
  PROVE  Fits(OpenAuth(u, mode))
<1>. DEFINE v == [u EXCEPT !.mode = mode]
<1>1. /\ PanelState(v) /\ v.contexts = u.contexts /\ v.modals = u.modals
      /\ v.registry = u.registry /\ v.confirm = u.confirm
  BY DEF Fits, PanelState, Panelled
<1>. HIDE DEF v
<1>2. Fits(v) /\ TopModal(v) = TopModal(u) /\ "Auth" \in PanelIds /\ "Auth" \in Bottoms
  BY <1>1, FitsSame DEF PanelIds, Bottoms
<1>3. ~astray => Opens(v, "Auth")
  <2>. HAVE ~astray
  <2>1. CASE TopModal(u) = "Settings"
    <3>1. /\ v.modals # <<>> /\ popup = "Closed" /\ (complete # "Never" => lesson.phase # "Inactive")
      BY <1>2, <2>1, UnderPanel
    <3>. QED
      BY <1>2, <2>1, <3>1 DEF Opens, MayCover
  <2>2. CASE TopModal(u) # "Settings"
    BY <1>1, <1>2, <2>2 DEF Opens
  <2>. QED
    BY <2>1, <2>2
<1>. QED
  BY <1>2, <1>3, FitsOpen DEF OpenAuth, v

\* Whatever a row of Settings opens, fits.
LEMMA FitsSettings ==
  ASSUME NEW u, Fits(u), TopModal(u) = "Settings", NEW rows,
         NEW w \in SettingsOpens(u) \cup AccountRows(u, rows)
  PROVE  Fits(w)
<1>1. \/ \E what \in {"ResetAll", "Harmless", "Delete"} : w = OpenConfirm(u, what)
      \/ w = OpenModal(u, "Section")
      \/ \E doc \in {"About", "Terms"} : w = OpenDoc(u, doc)
      \/ \E mode \in {"SignIn", "SignUp"} : w = OpenAuth(u, mode)
  BY DEF SettingsOpens, AccountRows
<1>2. ASSUME NEW what \in {"ResetAll", "Harmless", "Delete"}
      PROVE  Fits(OpenConfirm(u, what))
  <2>1. what \in Confirms /\ what # "Leave"
    BY DEF Confirms
  <2>2. ~astray => /\ lesson.phase # "Complete" /\ (complete # "Never" => lesson.phase # "Inactive")
                   /\ popup = "Closed"
    BY UnderPanel
  <2>. QED
    BY <2>1, <2>2, FitsConfirm
<1>3. Fits(OpenModal(u, "Section"))
  BY FitsCover DEF MayCover, PanelIds
<1>4. \A doc \in {"About", "Terms"} : Fits(OpenDoc(u, doc))
  BY FitsDoc DEF Docs
<1>5. \A mode \in {"SignIn", "SignUp"} : Fits(OpenAuth(u, mode))
  BY FitsAuth
<1>. QED
  BY <1>1, <1>2, <1>3, <1>4, <1>5

\* Reset closes the section and asks over what is left, and fits.
LEMMA FitsSection ==
  ASSUME NEW u, Fits(u), TopModal(u) = "Section"
  PROVE  Fits(SectionReset(u))
<1>. DEFINE v == CloseModal(u)
<1>1. Fits(v) /\ (~astray => TopModal(v) = "Settings")
  BY FitsClose
<1>. HIDE DEF v
<1>2. ~astray => /\ lesson.phase # "Complete" /\ (complete # "Never" => lesson.phase # "Inactive")
                 /\ popup = "Closed"
  BY UnderPanel
<1>3. "ResetSection" \in Confirms
  BY DEF Confirms
<1>4. Fits(OpenConfirm(v, "ResetSection"))
  BY <1>1, <1>2, <1>3, FitsConfirm
<1>. QED
  BY <1>4 DEF SectionReset, v

\* The links of the auth form show another form or a document, and fit.
LEMMA FitsForm ==
  ASSUME NEW u, Fits(u), TopModal(u) = "Auth", NEW stops, NEW w \in FormLinks(u, stops)
  PROVE  Fits(w)
<1>1. \/ \E form \in AuthForms : w = ShowForm(u, form)
      \/ w = OpenDoc(u, "Terms")
  <2>1. \/ w = ShowForm(u, IF u.mode = "SignIn" THEN "SignUp" ELSE "SignIn")
        \/ w = ShowForm(u, "Forgot") \/ w = ShowForm(u, "SignIn") \/ w = OpenDoc(u, "Terms")
    BY DEF FormLinks
  <2>2. /\ (IF u.mode = "SignIn" THEN "SignUp" ELSE "SignIn") \in AuthForms
        /\ "Forgot" \in AuthForms /\ "SignIn" \in AuthForms
    BY DEF AuthForms
  <2>. QED
    BY <2>1, <2>2, Zenon
<1>2. ASSUME NEW form \in AuthForms PROVE Fits(ShowForm(u, form))
  <2>. DEFINE v == IF form = "Forgot" THEN [u EXCEPT !.forgot = TRUE]
                                      ELSE [u EXCEPT !.mode = form, !.forgot = FALSE]
  <2>1. /\ PanelState(v) /\ v.contexts = u.contexts /\ v.modals = u.modals
        /\ v.registry = u.registry /\ v.confirm = u.confirm
    <3>1. CASE form = "Forgot"
      BY <3>1 DEF Fits, PanelState, Panelled
    <3>2. CASE form \in {"SignIn", "SignUp"}
      BY <3>2 DEF Fits, PanelState, Panelled
    <3>. QED
      BY <3>1, <3>2 DEF AuthForms
  <2>. HIDE DEF v
  <2>2. Fits(v) /\ TopModal(v) = "Auth"
    BY <2>1, FitsSame
  <2>3. FormOf(v) \in PanelLists(TopModal(v))
    <3>1. v.mode \in {"SignIn", "SignUp"} /\ v.forgot \in BOOLEAN
      BY <2>1 DEF PanelState, Panelled
    <3>2. PanelLists("Auth") = AuthForms
      BY DEF PanelLists
    <3>. QED
      BY <2>2, <3>1, <3>2 DEF FormOf, AuthForms
  <2>4. v.modals # <<>>
    BY <2>2 DEF TopModal
  <2>5. Fits(Relaid(v, FormOf(v)))
    BY <2>2, <2>3, <2>4, FitsRelaid
  <2>. QED
    BY <2>5 DEF ShowForm, v
<1>3. Fits(OpenDoc(u, "Terms"))
  BY FitsDoc DEF Docs
<1>. QED
  BY <1>1, <1>2, <1>3

\* Shop and the leaderboard give way to each other.
LEMMA FitsSwap ==
  ASSUME NEW u, Fits(u), TopModal(u) \in {"Shop", "Leaderboard"}, NEW id \in {"Shop", "Leaderboard"}
  PROVE  Fits(SwapTo(u, id))
<1>. DEFINE v == CloseModal(u)
            w == [v EXCEPT !.report = FALSE, !.closing = FALSE, !.submitting = FALSE]
<1>1. ~astray => /\ popup = "Closed" /\ (complete # "Never" => lesson.phase # "Inactive")
                 /\ lesson.phase # "Complete" /\ Len(u.modals) = 1
  <2>. HAVE ~astray
  <2>1. /\ popup = "Closed" /\ (complete # "Never" => lesson.phase # "Inactive")
        /\ lesson.phase # "Complete" /\ u.modals # <<>>
    BY UnderPanel
  <2>2. PanelState(u) /\ Nested(u.modals)
    BY DEF Fits, Layered
  <2>3. Len(u.modals) > 0
    BY <2>1, <2>2, StackFacts
  <2>. QED
    BY <2>1, <2>2, <2>3, NestedFacts
<1>2. Fits(v) /\ (~astray => v.modals = <<>>)
  BY <1>1, FitsClose
<1>. HIDE DEF v
<1>3. /\ PanelState(w) /\ w.contexts = v.contexts /\ w.modals = v.modals
      /\ w.registry = v.registry /\ w.confirm = v.confirm
  BY <1>2 DEF Fits, PanelState, Panelled
<1>. HIDE DEF w
<1>4. Fits(w) /\ (~astray => w.modals = <<>>)
  BY <1>2, <1>3, FitsSame
<1>5. id \in PanelIds /\ id \in Bottoms /\ id \notin {"Auth", "Doc"}
  BY DEF PanelIds, Bottoms
<1>6. Fits(OpenModal(v, id)) /\ Fits(OpenModal(w, id))
  BY <1>1, <1>2, <1>4, <1>5, FitsOpen DEF Opens
<1>. QED
  BY <1>6 DEF SwapTo, OpenLeaderboard, v, w

\* The board's own row: the board is closed first.
LEMMA FitsYourRow ==
  ASSUME NEW u, Fits(u), TopModal(u) = "Leaderboard", NEW w \in YourRowSignsIn(u)
  PROVE  Fits(w)
<1>. DEFINE v == CloseModal(u)
<1>1. ~astray => /\ popup = "Closed" /\ (complete # "Never" => lesson.phase # "Inactive")
                 /\ Len(u.modals) = 1
  <2>. HAVE ~astray
  <2>1. /\ popup = "Closed" /\ (complete # "Never" => lesson.phase # "Inactive") /\ u.modals # <<>>
    BY UnderPanel
  <2>2. PanelState(u) /\ Nested(u.modals)
    BY DEF Fits, Layered
  <2>3. Len(u.modals) > 0
    BY <2>1, <2>2, StackFacts
  <2>. QED
    BY <2>1, <2>2, <2>3, NestedFacts
<1>2. Fits(v) /\ (~astray => v.modals = <<>>)
  BY <1>1, FitsClose
<1>3. PICK mode \in {"SignIn", "SignUp"} : w = OpenAuth(v, mode)
  BY DEF YourRowSignsIn
<1>. HIDE DEF v
<1>. QED
  BY <1>1, <1>2, <1>3, FitsAuth

\* The report panel in the board's place, and back.
LEMMA FitsReport ==
  ASSUME NEW u, Fits(u), TopModal(u) = "Leaderboard"
  PROVE  /\ Fits(OpenReport(u)) /\ Fits(CloseReport(u))
         /\ TopModal(OpenReport(u)) = "Leaderboard" /\ TopModal(CloseReport(u)) = "Leaderboard"
<1>. DEFINE v(up) == [u EXCEPT !.report = up, !.closing = FALSE, !.submitting = FALSE]
<1>1. ASSUME NEW up \in BOOLEAN, NEW list \in {"Report", "Leaderboard"}
      PROVE  Fits(Relaid(v(up), list)) /\ TopModal(Relaid(v(up), list)) = "Leaderboard"
  <2>. DEFINE a == v(up)
  <2>1. /\ PanelState(a) /\ a.contexts = u.contexts /\ a.modals = u.modals
        /\ a.registry = u.registry /\ a.confirm = u.confirm
    BY DEF Fits, PanelState, Panelled
  <2>. HIDE DEF v, a
  <2>2. Fits(a) /\ TopModal(a) = "Leaderboard"
    BY <2>1, FitsSame
  <2>3. a.modals # <<>>
    BY <2>2 DEF TopModal
  <2>4. list \in PanelLists(TopModal(a))
    BY <2>2 DEF PanelLists
  <2>5. Fits(Relaid(a, list))
    BY <2>2, <2>3, <2>4, FitsRelaid
  <2>6. list \in ListNames
    BY DEF ListNames, PanelIds
  <2>7. Relaid(a, list).modals = a.modals
    BY <2>1, <2>6, RelaidDoes
  <2>8. TopModal(Relaid(a, list)) = "Leaderboard"
    BY <2>2, <2>7 DEF TopModal
  <2>. QED
    BY <2>5, <2>8 DEF a
<1>2. OpenReport(u) = Relaid(v(TRUE), "Report") /\ CloseReport(u) = Relaid(v(FALSE), "Leaderboard")
  BY DEF OpenReport, CloseReport
<1>. HIDE DEF v
<1>. QED
  BY <1>1, <1>2

\* The answer to a report closes its popup or leaves it, on the board.
LEMMA FitsServed ==
  ASSUME NEW u, Fits(u), TopModal(u) = "Leaderboard", NEW w \in ServeReport(u)
  PROVE  Fits(w) /\ TopModal(w) = "Leaderboard"
<1>. DEFINE a == [u EXCEPT !.submitting = FALSE]
<1>1. w = CloseReport(u) \/ w = a \/ w = u
  BY DEF ServeReport
<1>2. /\ PanelState(a) /\ a.contexts = u.contexts /\ a.modals = u.modals
      /\ a.registry = u.registry /\ a.confirm = u.confirm
  BY DEF Fits, PanelState, Panelled
<1>. HIDE DEF a
<1>3. Fits(a) /\ TopModal(a) = "Leaderboard"
  BY <1>2, FitsSame
<1>. QED
  BY <1>1, <1>3, FitsReport

\* What is served before the body of a panel is drawn.
LEMMA FitsServiced ==
  ASSUME NEW u, Fits(u), TopModal(u) # "None"
  PROVE  Fits(Serviced(u)) /\ TopModal(Serviced(u)) = TopModal(u)
<1>1. CASE TopModal(u) = "Settings" /\ Active(u) # SettingsList
  <2>. DEFINE v == Relaid(u, SettingsList)
  <2>1. Serviced(u) = v
    BY <1>1 DEF Serviced, RefreshAccountSection
  <2>2. u.modals # <<>> /\ PanelState(u)
    BY <1>1 DEF TopModal, Fits
  <2>3. SettingsList \in PanelLists(TopModal(u)) /\ SettingsList \in ListNames
    BY <1>1, ListsAreNames DEF PanelIds
  <2>4. Fits(v) /\ v.modals = u.modals
    BY <2>2, <2>3, FitsRelaid, RelaidDoes
  <2>5. TopModal(v) = TopModal(u)
    BY <2>4 DEF TopModal
  <2>. QED
    BY <2>1, <2>4, <2>5
<1>2. CASE TopModal(u) = "Doc" /\ u.switch
  <2>. DEFINE v == ServeDocSwitch(u)
  <2>1. Serviced(u) = v
    BY <1>2 DEF Serviced
  <2>2. /\ PanelState(v) /\ v.contexts = u.contexts /\ v.modals = u.modals
        /\ v.registry = u.registry /\ v.confirm = u.confirm
    <3>1. PanelState(u)
      BY DEF Fits
    <3>. QED
      BY <1>2, <3>1 DEF PanelState, Panelled, ServeDocSwitch, Docs
  <2>. HIDE DEF v
  <2>. QED
    BY <2>1, <2>2, FitsSame
<1>3. CASE ~(TopModal(u) = "Settings" /\ Active(u) # SettingsList) /\ ~(TopModal(u) = "Doc" /\ u.switch)
  <2>1. Serviced(u) = u
    BY <1>3 DEF Serviced, RefreshAccountSection, ServeDocSwitch
  <2>. QED
    BY <2>1
<1>. QED
  BY <1>1, <1>2, <1>3

\* The flags of a panel that no stack depends on.
LEMMA FitsFlags ==
  ASSUME NEW u, Fits(u)
  PROVE  /\ Fits([u EXCEPT !.closing = TRUE]) /\ TopModal([u EXCEPT !.closing = TRUE]) = TopModal(u)
         /\ \A b \in BOOLEAN : /\ Fits([u EXCEPT !.submitting = b])
                               /\ TopModal([u EXCEPT !.submitting = b]) = TopModal(u)
         /\ \A b \in BOOLEAN : Fits([u EXCEPT !.fresh = b])
         /\ Fits(RequestDocSwitch(u))
<1>1. Fits([u EXCEPT !.closing = TRUE]) /\ TopModal([u EXCEPT !.closing = TRUE]) = TopModal(u)
  <2>. DEFINE v == [u EXCEPT !.closing = TRUE]
  <2>1. /\ PanelState(v) /\ v.contexts = u.contexts /\ v.modals = u.modals
        /\ v.registry = u.registry /\ v.confirm = u.confirm
    BY DEF Fits, PanelState, Panelled
  <2>. HIDE DEF v
  <2>. QED
    BY <2>1, FitsSame DEF v
<1>2. ASSUME NEW b \in BOOLEAN
      PROVE  Fits([u EXCEPT !.submitting = b]) /\ TopModal([u EXCEPT !.submitting = b]) = TopModal(u)
  <2>. DEFINE v == [u EXCEPT !.submitting = b]
  <2>1. /\ PanelState(v) /\ v.contexts = u.contexts /\ v.modals = u.modals
        /\ v.registry = u.registry /\ v.confirm = u.confirm
    BY DEF Fits, PanelState, Panelled
  <2>. HIDE DEF v
  <2>. QED
    BY <2>1, FitsSame DEF v
<1>3. ASSUME NEW b \in BOOLEAN PROVE Fits([u EXCEPT !.fresh = b])
  <2>. DEFINE v == [u EXCEPT !.fresh = b]
  <2>1. /\ PanelState(v) /\ v.contexts = u.contexts /\ v.modals = u.modals
        /\ v.registry = u.registry /\ v.confirm = u.confirm
    BY DEF Fits, PanelState, Panelled
  <2>. HIDE DEF v
  <2>. QED
    BY <2>1, FitsSame DEF v
<1>4. Fits(RequestDocSwitch(u))
  <2>. DEFINE v == RequestDocSwitch(u)
  <2>1. /\ PanelState(v) /\ v.contexts = u.contexts /\ v.modals = u.modals
        /\ v.registry = u.registry /\ v.confirm = u.confirm
    BY DEF Fits, PanelState, Panelled, RequestDocSwitch
  <2>. HIDE DEF v
  <2>. QED
    BY <2>1, FitsSame DEF v
<1>. QED
  BY <1>1, <1>2, <1>3, <1>4

----------------------------------------------------------------------------
(* The invariant: what holds wherever a frame has got to. *)

\* The types of everything but the bookkeeping of the frame.
Typed ==
  /\ lesson \in Lesson /\ settings \in ForcedSettings
  /\ PanelState(ui) /\ member \in BOOLEAN
  /\ screen \in Screens /\ observed \in Screens
  /\ entered \in {"Root", "ModeSelection", "Error"}
  /\ morph \in {"None", "ToMode", "ToRoot"}
  /\ recapFresh \in BOOLEAN /\ complete \in {"Never", "CompleteGuest", "CompleteMember"}
  /\ assets \in {"Pending", "Ready"} /\ pending \in BOOLEAN
  /\ popup \in {"Closed", "Opening", "Open"} /\ fallback \in BOOLEAN /\ astray \in BOOLEAN

\* The context of the screen is on its list, unless the screen is about to register it.
Based ==
  /\ screen = "Game" => ui.contexts[1] = "Game"
  /\ screen = "PostRound" /\ ~recapFresh => ui.contexts[1] = "PostRound"
  /\ screen = "TutorialComplete" /\ complete # "Never" => ui.contexts[1] = complete
  /\ entered # "Error" => entered = observed /\ (screen = observed => ui.contexts[1] = screen)

\* The popup belongs to Mode Selection, and to one substep of the tutorial.
PopupOnMode ==
  popup # "Closed" =>
    screen = "ModeSelection" /\ (Running(lesson) => Advance(lesson) = "CustomExplore")

\* The tutorial's last screen, and what is left of it once it was chosen where to go.
Completed ==
  /\ screen = "TutorialComplete" <=> lesson.phase = "Complete"
  /\ lesson.phase \in {"Active", "Complete"} => lesson.shown
  /\ complete # "Never" => lesson.phase \in {"Complete", "Inactive"} /\ lesson.shown
  /\ complete # "Never" /\ lesson.phase = "Inactive" => screen \in {"Root", "ModeSelection"}
  /\ lesson.phase = "Complete" \/ complete # "Never" => popup = "Closed" /\ ~pending

\* The screen is the one of the substep, or already the one it leads to.
OnScript ==
  Running(lesson) =>
    \/ screen = Script[lesson.cursor].at
    \/ Advance(lesson) \in DOMAIN Destination /\ screen = Destination[Advance(lesson)]

\* A launch in waiting.
Waiting ==
  /\ screen = "Game" => assets = "Ready"
  /\ pending => screen \in {"ModeSelection", "Game", "PostRound"}
  /\ pending /\ Running(lesson) => Advance(lesson) \in {"LaunchCaller", "LaunchAggressor"}

\* A morph on its way.
Morphing ==
  /\ morph = "ToMode" => screen = "Root" /\ (Running(lesson) => Advance(lesson) = "PlayMorph")
  /\ morph = "ToRoot" /\ Running(lesson) => screen # "ModeSelection"
  /\ lesson.phase = "Prompt" => screen = "Root" /\ morph # "ToMode"

\* What stays in step while no caller has gone astray.
InStep ==
  /\ Layered(ui, popup)
  /\ Allowed(ui, popup, screen, lesson.phase, complete)
  /\ Based /\ PopupOnMode /\ Completed /\ OnScript /\ Waiting /\ Morphing

\* The core of the invariant; it holds between any two controls.
Core == Typed /\ ForcingEndsWithTheLesson /\ (~astray => InStep)

\* Under the core the panels fit, and a question is asked only by the confirm dialog.
LEMMA CoreFits ==
  ASSUME Core
  PROVE  /\ Fits(ui)
         /\ Running(lesson) => lesson.phase = "Active"
         /\ ~astray => /\ ui.modals = <<>> => ui.confirm = "None"
                       /\ ui.confirm # "None" => TopModal(ui) = "Confirm"
  BY DEF Core, Typed, InStep, Fits, Layered, TopModal, Running, IsActive

----------------------------------------------------------------------------
(* What a step does to the core. *)

\* Around a control: what no control touches.
Around == UNCHANGED <<watch, popup, fallback>>

\* Only the panels, the account and the settings.
LEMMA PanelStep ==
  ASSUME Core, UNCHANGED <<lesson, play, watch, popup>>, fallback' \in BOOLEAN, member' \in BOOLEAN,
         settings' \in ForcedSettings, settings'.on = settings.on,
         settings' = settings \/ (settings'.stored = "own" => settings'.live = "own"),
         astray' \in BOOLEAN, astray => astray',
         PanelState(ui'), ~astray' => Fits(ui')
  PROVE  Core'
<1>1. Typed'
  BY DEF Core, Typed, play, watch
<1>2. ForcingEndsWithTheLesson'
  BY DEF Core, ForcingEndsWithTheLesson
<1>3. ASSUME ~astray' PROVE InStep'
  <2>1. /\ InStep /\ Layered(ui', popup) /\ ui'.contexts[1] = ui.contexts[1]
        /\ Allowed(ui', popup, screen, lesson.phase, complete)
    BY <1>3 DEF Core, Fits
  <2>2. Layered(ui', popup') /\ Allowed(ui', popup', screen', lesson'.phase, complete')
    BY <2>1 DEF play, watch
  <2>3. Based'
    BY <2>1 DEF InStep, Based, play, watch
  <2>4. PopupOnMode' /\ Completed' /\ OnScript' /\ Waiting' /\ Morphing'
    BY <2>1 DEF InStep, PopupOnMode, Completed, OnScript, Waiting, Morphing, play, watch
  <2>. QED
    BY <2>2, <2>3, <2>4 DEF InStep
<1>. QED
  BY <1>1, <1>2, <1>3 DEF Core

\* A control that only moves the panels keeps the core.
LEMMA OnlyStep ==
  ASSUME Core, UNCHANGED <<watch, popup>>, fallback' \in BOOLEAN, NEW u, Fits(u), Only(u)
  PROVE  Core'
<1>1. /\ ui' = u /\ UNCHANGED <<member, lesson, settings, play, astray>>
  BY DEF Only, tour
<1>2. /\ UNCHANGED <<lesson, play, watch, popup>> /\ member' \in BOOLEAN /\ settings' \in ForcedSettings
      /\ settings'.on = settings.on /\ settings' = settings
      /\ astray' \in BOOLEAN /\ (astray => astray') /\ PanelState(ui') /\ (~astray' => Fits(ui'))
  BY <1>1 DEF Core, Typed, Fits
<1>. QED
  BY <1>2, PanelStep

\* A control that also changes a setting keeps the core.
LEMMA ChangeStep ==
  ASSUME Core, Around, NEW u, Fits(u), Change(u)
  PROVE  Core'
<1>1. PICK value \in {settings.live, "own"} : settings' = SettingChanged(settings, value)
  BY DEF Change
<1>2. /\ settings' \in ForcedSettings /\ settings'.on = settings.on
      /\ settings'.stored = "own" => settings'.live = "own"
  BY <1>1 DEF SettingChanged, Core, Typed, ForcedSettings
<1>3. /\ ui' = u /\ UNCHANGED <<member, lesson, play, astray, watch, popup, fallback>>
  BY DEF Change, Around
<1>4. /\ UNCHANGED <<lesson, play, watch, popup>> /\ member' \in BOOLEAN /\ fallback' \in BOOLEAN
      /\ astray' \in BOOLEAN /\ (astray => astray') /\ PanelState(ui') /\ (~astray' => Fits(ui'))
  BY <1>3 DEF Core, Typed, Fits
<1>. QED
  BY <1>2, <1>4, PanelStep

\* So does one that signs the account out.
LEMMA AccountStep ==
  ASSUME Core, Around, NEW u, Fits(u), LeaveAccount(u)
  PROVE  Core'
<1>1. /\ ui' = u /\ member' = FALSE /\ UNCHANGED <<lesson, settings, play, astray, watch, popup, fallback>>
  BY DEF LeaveAccount, Around, tour
<1>2. /\ UNCHANGED <<lesson, play, watch, popup>> /\ member' \in BOOLEAN /\ settings' \in ForcedSettings
      /\ settings'.on = settings.on /\ settings' = settings /\ fallback' \in BOOLEAN
      /\ astray' \in BOOLEAN /\ (astray => astray') /\ PanelState(ui') /\ (~astray' => Fits(ui'))
  BY <1>1 DEF Core, Typed, Fits
<1>. QED
  BY <1>2, PanelStep

\* set_screen away from a hand or its recap.
LEMMA CutStep ==
  ASSUME Core, Around, NEW v, Fits(v), NEW s \in {"Root", "ModeSelection"}, Cut(v, s),
         ~astray => /\ screen \in {"Game", "PostRound"} /\ v.confirm = "None"
                    /\ Running(lesson) => s = "ModeSelection"
  PROVE  Core'
<1>1. /\ ui' = v /\ screen' = s /\ UNCHANGED <<member, lesson, settings, assets, pending>>
      /\ UNCHANGED <<observed, entered, morph, recapFresh, complete, popup, fallback>>
      /\ astray' = (astray \/ Missed(s) \/ OffScript(s) \/ (pending /\ s # screen))
  BY DEF Cut, EnterScreen, Around, watch, tour
<1>2. Typed'
  BY <1>1 DEF Core, Typed, Fits, Screens
<1>3. ForcingEndsWithTheLesson'
  BY <1>1 DEF Core, ForcingEndsWithTheLesson
<1>4. ASSUME ~astray' PROVE InStep'
  <2>1. /\ InStep /\ Layered(v, popup) /\ v.contexts[1] = ui.contexts[1]
        /\ Allowed(v, popup, screen, lesson.phase, complete)
        /\ screen \in {"Game", "PostRound"} /\ v.confirm = "None"
        /\ ~Running(lesson) /\ ~pending /\ s # observed
    BY <1>1, <1>4 DEF Core, Fits, Missed, OffScript
  <2>2. Layered(ui', popup') /\ Allowed(ui', popup', screen', lesson'.phase, complete')
    BY <1>1, <2>1 DEF Allowed
  <2>3. Based'
    BY <1>1, <2>1 DEF InStep, Based
  <2>4. ~Running(lesson')
    BY <1>1, <2>1
  <2>5. PopupOnMode' /\ OnScript' /\ Waiting'
    BY <1>1, <2>1, <2>4 DEF InStep, PopupOnMode, OnScript, Waiting
  <2>6. Completed' /\ Morphing'
    BY <1>1, <2>1, <2>4 DEF InStep, Completed, Morphing
  <2>. QED
    BY <2>2, <2>3, <2>5, <2>6 DEF InStep
<1>. QED
  BY <1>2, <1>3, <1>4 DEF Core

\* The launch is performed now, or waits.
LEMMA LaunchStep ==
  ASSUME Core, NEW v, PanelState(v), NEW stray \in BOOLEAN, RequestLaunch(v, stray),
         UNCHANGED <<watch, fallback>>, popup' \in {popup, "Closed"},
         ~astray' =>
           /\ Layered(v, popup') /\ Allowed(v, popup', screen, lesson.phase, complete)
           /\ v.contexts[1] = ui.contexts[1]
           /\ screen \in {"ModeSelection", "Game", "PostRound"} /\ complete = "Never"
           /\ Running(lesson) => Advance(lesson) \in {"LaunchCaller", "LaunchAggressor"}
  PROVE  Core'
<1>1. /\ UNCHANGED <<member, lesson, settings, assets>>
      /\ UNCHANGED <<observed, entered, morph, recapFresh, complete, fallback>>
  BY DEF RequestLaunch, watch, tour
<1>2. ForcingEndsWithTheLesson'
  BY <1>1 DEF Core, ForcingEndsWithTheLesson
<1>3. CASE assets = "Ready"
  <2>1. /\ screen' = "Game" /\ ui' = RegisterList(v, "Game") /\ pending' = pending
        /\ astray' = (astray \/ stray \/ Len(v.contexts) > 1)
    BY <1>3 DEF RequestLaunch, Perform
  <2>2. "Game" \in ListNames /\ "Game" \in Screens
    BY DEF ListNames, Screens
  <2>3. PanelState(ui')
    BY <2>1, <2>2, RegisterListDoes
  <2>4. Typed'
    BY <1>1, <2>1, <2>2, <2>3 DEF Core, Typed
  <2>5. ASSUME ~astray' PROVE InStep'
    <3>1. /\ InStep /\ Layered(v, popup') /\ ~(Len(v.contexts) > 1)
          /\ screen \in {"ModeSelection", "Game", "PostRound"} /\ complete = "Never"
          /\ Running(lesson) => Advance(lesson) \in {"LaunchCaller", "LaunchAggressor"}
      BY <2>1, <2>5 DEF Core
    <3>2. /\ popup' = "Closed" /\ Layered(ui', popup') /\ ui'.modals = <<>> /\ ui'.confirm = "None"
          /\ ui'.contexts[1] = "Game"
      BY <2>1, <2>2, <3>1, LayeredRegister
    <3>3. Allowed(ui', popup', screen', lesson'.phase, complete')
      BY <2>1, <3>2 DEF Allowed
    <3>4. Based'
      BY <1>1, <2>1, <3>1, <3>2 DEF Based, Core, Typed, InStep
    <3>5. PopupOnMode' /\ Waiting'
      BY <1>1, <1>3, <2>1, <3>1, <3>2 DEF InStep, PopupOnMode, Waiting
    <3>6. OnScript'
      BY <1>1, <2>1, <3>1 DEF OnScript, Destination
    <3>7. Completed' /\ Morphing'
      BY <1>1, <2>1, <3>1, <3>2 DEF InStep, Completed, Morphing
    <3>. QED
      BY <3>2, <3>3, <3>4, <3>5, <3>6, <3>7 DEF InStep
  <2>. QED
    BY <1>2, <2>4, <2>5 DEF Core
<1>4. CASE assets = "Pending"
  <2>1. /\ screen' = screen /\ ui' = v /\ pending' = TRUE /\ astray' = (astray \/ stray)
    BY <1>4 DEF RequestLaunch
  <2>2. Typed'
    BY <1>1, <2>1 DEF Core, Typed
  <2>3. ASSUME ~astray' PROVE InStep'
    <3>1. /\ InStep /\ Layered(v, popup') /\ Allowed(v, popup', screen, lesson.phase, complete)
          /\ v.contexts[1] = ui.contexts[1]
          /\ screen \in {"ModeSelection", "Game", "PostRound"} /\ complete = "Never"
          /\ Running(lesson) => Advance(lesson) \in {"LaunchCaller", "LaunchAggressor"}
      BY <2>1, <2>3 DEF Core
    <3>2. Layered(ui', popup') /\ Allowed(ui', popup', screen', lesson'.phase, complete')
      BY <1>1, <2>1, <3>1
    <3>3. Based'
      BY <1>1, <2>1, <3>1 DEF Based, InStep
    <3>4. PopupOnMode' /\ Waiting' /\ OnScript'
      BY <1>1, <2>1, <3>1 DEF InStep, PopupOnMode, Waiting, OnScript
    <3>5. Completed' /\ Morphing'
      BY <1>1, <2>1, <3>1 DEF InStep, Completed, Morphing
    <3>. QED
      BY <3>2, <3>3, <3>4, <3>5 DEF InStep
  <2>. QED
    BY <1>2, <2>2, <2>3 DEF Core
<1>. QED
  BY <1>3, <1>4 DEF RequestLaunch

\* tutorial_start, once the panel it was asked from is closed.
LEMMA StartStep ==
  ASSUME Core, Around, NEW u, Fits(u), StartTutorial(u),
         ~astray => popup = "Closed" /\ complete = "Never" /\ lesson.phase # "Complete"
  PROVE  Core'
<1>1. CASE Only(u)
  BY <1>1, OnlyStep DEF Around, Core, Typed
<1>2. CASE ~Only(u)
  <2>. DEFINE v == CloseModal(u)
  <2>1. /\ ~IsActive(lesson) /\ lesson' = Started(lesson) /\ settings' = Forced(settings)
        /\ ui' = v /\ screen' = "Root" /\ UNCHANGED <<member, assets, pending>>
        /\ UNCHANGED <<observed, entered, morph, recapFresh, complete, popup, fallback>>
        /\ astray' = (astray \/ Missed("Root") \/ morph = "ToMode" \/ (pending /\ screen # "Root"))
    BY <1>2 DEF StartTutorial, Around, watch
  <2>2. Fits(v) /\ (~astray => v.confirm = "None")
    BY FitsClose
  <2>. HIDE DEF v
  <2>3. /\ lesson' \in Lesson /\ lesson'.phase = "Active" /\ lesson'.cursor = 1 /\ lesson'.shown = TRUE
    BY <2>1, LessonMoves DEF Core, Typed
  <2>4. settings' \in ForcedSettings /\ settings'.on = TRUE
    BY <2>1 DEF Forced, ForcedSettings, Core, Typed
  <2>5. Typed'
    BY <2>1, <2>2, <2>3, <2>4 DEF Core, Typed, Fits, Screens
  <2>6. ForcingEndsWithTheLesson'
    BY <2>3, <2>4 DEF ForcingEndsWithTheLesson
  <2>7. ASSUME ~astray' PROVE InStep'
    <3>1. /\ InStep /\ Layered(v, popup) /\ v.contexts[1] = ui.contexts[1]
          /\ Allowed(v, popup, screen, lesson.phase, complete) /\ v.confirm = "None"
          /\ popup = "Closed" /\ complete = "Never" /\ lesson.phase # "Complete"
          /\ ~Missed("Root") /\ morph # "ToMode" /\ ~(pending /\ screen # "Root")
      BY <2>1, <2>2, <2>7 DEF Core, Fits
    <3>2. ~pending
      BY <3>1 DEF InStep, Waiting
    <3>3. screen = "Root" \/ observed # "Root"
      BY <3>1 DEF Missed
    <3>4. Layered(ui', popup') /\ Allowed(ui', popup', screen', lesson'.phase, complete')
      BY <2>1, <2>3, <3>1 DEF Allowed
    <3>5. Based'
      BY <2>1, <3>1, <3>3 DEF InStep, Based
    <3>6. PopupOnMode' /\ Completed' /\ Waiting' /\ Morphing'
      BY <2>1, <2>3, <3>1, <3>2 DEF PopupOnMode, Completed, Waiting, Morphing
    <3>7. OnScript'
      BY <2>1, <2>3, ScriptFacts DEF OnScript
    <3>. QED
      BY <3>4, <3>5, <3>6, <3>7 DEF InStep
  <2>. QED
    BY <2>5, <2>6, <2>7 DEF Core
<1>. QED
  BY <1>1, <1>2

\* The settings that a lesson leaves.
LEMMA RestoredFacts ==
  ASSUME settings \in ForcedSettings, ForcingEndsWithTheLesson
  PROVE  LET s == Restored(settings) IN
           /\ s \in ForcedSettings /\ s.on = FALSE
           /\ s.stored = "own" /\ s.saved = "own" => s.live = "own"
<1>1. CASE settings.on
  BY <1>1 DEF Restored, ForcedSettings
<1>2. CASE ~settings.on
  BY <1>2 DEF Restored, ForcedSettings, ForcingEndsWithTheLesson
<1>. QED
  BY <1>1, <1>2

\* tutorial_skip, once its confirmation is closed.
LEMMA SkipStep ==
  ASSUME Core, Around, NEW v, Fits(v), SkipTutorial(v),
         ~astray => v.confirm = "None" /\ complete = "Never" /\ lesson.phase # "Complete"
  PROVE  Core'
<1>1. /\ lesson' = Ended(lesson) /\ settings' = Restored(settings) /\ ui' = v /\ screen' = "Root"
      /\ astray' = (astray \/ popup # "Closed" \/ Missed("Root") \/ pending)
      /\ UNCHANGED <<member, assets, pending>>
      /\ UNCHANGED <<observed, entered, morph, recapFresh, complete, popup, fallback>>
  BY DEF SkipTutorial, Around, watch
<1>2. lesson' \in Lesson /\ lesson'.phase = "Inactive" /\ lesson'.shown = lesson.shown
  BY <1>1, LessonMoves DEF Core, Typed
<1>3. /\ settings' \in ForcedSettings /\ settings'.on = FALSE
      /\ settings'.stored = "own" /\ settings'.saved = "own" => settings'.live = "own"
  BY <1>1, RestoredFacts DEF Core, Typed
<1>4. Typed'
  BY <1>1, <1>2, <1>3 DEF Core, Typed, Fits, Screens
<1>5. ForcingEndsWithTheLesson'
  BY <1>2, <1>3 DEF ForcingEndsWithTheLesson
<1>6. ASSUME ~astray' PROVE InStep'
  <2>1. /\ InStep /\ Layered(v, popup) /\ v.contexts[1] = ui.contexts[1]
        /\ Allowed(v, popup, screen, lesson.phase, complete) /\ v.confirm = "None"
        /\ popup = "Closed" /\ complete = "Never" /\ lesson.phase # "Complete"
        /\ ~Missed("Root") /\ ~pending
    BY <1>1, <1>6 DEF Core, Fits
  <2>2. screen = "Root" \/ observed # "Root"
    BY <2>1 DEF Missed
  <2>3. ~Running(lesson')
    BY <1>2 DEF Running, IsActive
  <2>4. Layered(ui', popup') /\ Allowed(ui', popup', screen', lesson'.phase, complete')
    BY <1>1, <1>2, <2>1 DEF Allowed
  <2>5. Based'
    BY <1>1, <2>1, <2>2 DEF InStep, Based
  <2>6. PopupOnMode' /\ Completed' /\ Waiting' /\ Morphing' /\ OnScript'
    BY <1>1, <1>2, <2>1, <2>3 DEF InStep, PopupOnMode, Completed, Waiting, Morphing, OnScript
  <2>. QED
    BY <2>4, <2>5, <2>6 DEF InStep
<1>. QED
  BY <1>4, <1>5, <1>6 DEF Core

\* tutorial_finish_to, from the last screen of the tutorial.
LEMMA FinishStep ==
  ASSUME Core, Around, NEW s \in {"Root", "ModeSelection"}, FinishTo(s), ui.modals = <<>>,
         ~astray => screen = "TutorialComplete"
  PROVE  Core'
<1>1. /\ lesson' = Ended(lesson) /\ settings' = Restored(settings) /\ ui' = ui /\ screen' = s
      /\ astray' = (astray \/ Missed(s) \/ OffScript(s) \/ (pending /\ s # screen))
      /\ UNCHANGED <<member, assets, pending>>
      /\ UNCHANGED <<observed, entered, morph, recapFresh, complete, popup, fallback>>
  BY DEF FinishTo, EnterScreen, Around, watch, panels
<1>2. lesson' \in Lesson /\ lesson'.phase = "Inactive" /\ lesson'.shown = lesson.shown
  BY <1>1, LessonMoves DEF Core, Typed
<1>3. /\ settings' \in ForcedSettings /\ settings'.on = FALSE
      /\ settings'.stored = "own" /\ settings'.saved = "own" => settings'.live = "own"
  BY <1>1, RestoredFacts DEF Core, Typed
<1>4. Typed'
  BY <1>1, <1>2, <1>3 DEF Core, Typed, Screens
<1>5. ForcingEndsWithTheLesson'
  BY <1>2, <1>3 DEF ForcingEndsWithTheLesson
<1>6. ASSUME ~astray' PROVE InStep'
  <2>1. /\ InStep /\ screen = "TutorialComplete" /\ ~Missed(s) /\ ui.confirm = "None"
    BY <1>1, <1>6, CoreFits DEF Core
  <2>2. lesson.phase = "Complete" /\ lesson.shown /\ popup = "Closed" /\ ~pending
    BY <2>1 DEF InStep, Completed
  <2>3. observed # s
    BY <2>1 DEF Missed
  <2>4. ~Running(lesson')
    BY <1>2 DEF Running, IsActive
  <2>5. Layered(ui', popup') /\ Allowed(ui', popup', screen', lesson'.phase, complete')
    BY <1>1, <1>2, <2>1, <2>2 DEF InStep, Allowed
  <2>6. Based'
    BY <1>1, <2>1, <2>3 DEF InStep, Based
  <2>7. PopupOnMode' /\ Completed' /\ Waiting' /\ Morphing' /\ OnScript'
    BY <1>1, <1>2, <2>1, <2>2, <2>4 DEF InStep, PopupOnMode, Completed, Waiting, Morphing, OnScript
  <2>. QED
    BY <2>5, <2>6, <2>7 DEF InStep
<1>. QED
  BY <1>4, <1>5, <1>6 DEF Core

\* Again on the recap, and its redirections by the tutorial.
LEMMA AgainStep ==
  ASSUME Core, Around, CommitAgain, ui.modals = <<>>,
         ~astray => \/ screen = "PostRound"
                    \/ Running(lesson) /\ Advance(lesson) \in {"LaunchAggressor", "FinishTutorial"}
  PROVE  Core'
<1>1. CASE Running(lesson) /\ Advance(lesson) = "FinishTutorial"
  <2>1. /\ lesson' = ReachedTheEnd(lesson) /\ screen' = "TutorialComplete"
        /\ astray' = (astray \/ pending) /\ UNCHANGED <<ui, member, settings, assets, pending>>
        /\ UNCHANGED <<observed, entered, morph, recapFresh, complete, popup, fallback>>
    BY <1>1 DEF CommitAgain, Around, watch, panels
  <2>2. lesson' \in Lesson /\ lesson'.phase = "Complete" /\ lesson'.shown = lesson.shown
    BY <2>1, LessonMoves DEF Core, Typed
  <2>3. lesson.phase = "Active"
    BY <1>1 DEF Running, IsActive
  <2>4. Typed'
    BY <2>1, <2>2 DEF Core, Typed, Screens
  <2>5. ForcingEndsWithTheLesson'
    BY <2>1, <2>2, <2>3 DEF Core, ForcingEndsWithTheLesson
  <2>6. ASSUME ~astray' PROVE InStep'
    <3>1. InStep /\ ~pending /\ ui.confirm = "None"
      BY <2>1, <2>6, CoreFits DEF Core
    <3>2. popup = "Closed" /\ complete = "Never" /\ lesson.shown /\ morph # "ToMode"
      BY <1>1, <2>3, <3>1 DEF InStep, PopupOnMode, Completed, Morphing, Core, Typed
    <3>3. ~Running(lesson')
      BY <2>2 DEF Running, IsActive
    <3>4. Len(ui.modals) = 0
      OBVIOUS
    <3>5. Layered(ui', popup') /\ Allowed(ui', popup', screen', lesson'.phase, complete')
      BY <2>1, <2>2, <3>1, <3>2, <3>4 DEF InStep, Allowed
    <3>6. Based'
      BY <2>1, <3>1, <3>2 DEF InStep, Based, Core, Typed
    <3>7. PopupOnMode' /\ Completed' /\ Waiting' /\ Morphing' /\ OnScript'
      BY <2>1, <2>2, <3>1, <3>2, <3>3 DEF InStep, PopupOnMode, Completed, Waiting, Morphing, OnScript
    <3>. QED
      BY <3>5, <3>6, <3>7 DEF InStep
  <2>. QED
    BY <2>4, <2>5, <2>6 DEF Core
<1>2. CASE ~(Running(lesson) /\ Advance(lesson) = "FinishTutorial")
  <2>. DEFINE stray == Running(lesson) /\ Advance(lesson) # "LaunchAggressor"
  <2>1. RequestLaunch(ui, stray) /\ stray \in BOOLEAN
    BY <1>2 DEF CommitAgain
  <2>2. ASSUME ~astray'
        PROVE  /\ Layered(ui, popup) /\ Allowed(ui, popup, screen, lesson.phase, complete)
               /\ screen \in {"ModeSelection", "Game", "PostRound"} /\ complete = "Never"
               /\ Running(lesson) => Advance(lesson) \in {"LaunchCaller", "LaunchAggressor"}
    <3>1. ~astray /\ ~stray
      BY <2>1, <2>2 DEF RequestLaunch, Perform, Core, Typed
    <3>2. InStep
      BY <3>1 DEF Core
    <3>3. screen \in {"PostRound", "Game"}
      <4>1. CASE screen = "PostRound"
        BY <4>1
      <4>2. CASE Running(lesson) /\ Advance(lesson) = "LaunchAggressor"
        <5>1. Script[lesson.cursor].advance = "LaunchAggressor" /\ AtHome(Script[lesson.cursor])
          BY <4>2, RunningStep DEF Core, Typed
        <5>. QED
          BY <3>2, <4>2, <5>1 DEF InStep, OnScript, AtHome, Destination
      <4>. QED
        BY <1>2, <3>1, <4>1, <4>2
    <3>4. complete = "Never"
      BY <3>2, <3>3 DEF InStep, Completed
    <3>. QED
      BY <3>1, <3>2, <3>3, <3>4 DEF InStep
  <2>. HIDE DEF stray
  <2>3. UNCHANGED <<watch, fallback>> /\ popup' = popup /\ PanelState(ui)
    BY DEF Around, Core, Typed
  <2>. QED
    BY <2>1, <2>2, <2>3, LaunchStep
<1>. QED
  BY <1>1, <1>2

\* Next and Previous.
LEMMA CursorStep ==
  ASSUME Core, Around, UNCHANGED <<panels, settings, play, astray>>, lesson' \in Lesson,
         lesson'.phase = lesson.phase, lesson'.shown = lesson.shown, Running(lesson),
         Advance(lesson) \in {"Next", "MathStage1", "MathStage2"},
         Running(lesson') => Script[lesson'.cursor].at = Script[lesson.cursor].at
  PROVE  Core'
<1>1. /\ UNCHANGED <<ui, member, settings, screen, assets, pending, astray>>
      /\ UNCHANGED <<observed, entered, morph, recapFresh, complete, popup, fallback>>
  BY DEF Around, watch, panels, play
<1>2. lesson.phase = "Active"
  BY DEF Running, IsActive
<1>3. Typed'
  BY <1>1 DEF Core, Typed
<1>4. ForcingEndsWithTheLesson'
  BY <1>1 DEF Core, ForcingEndsWithTheLesson
<1>5. ASSUME ~astray' PROVE InStep'
  <2>1. InStep
    BY <1>1, <1>5 DEF Core
  <2>2. popup = "Closed" /\ ~pending /\ morph # "ToMode"
    BY <2>1 DEF InStep, PopupOnMode, Waiting, Morphing
  <2>3. screen = Script[lesson.cursor].at
    BY <2>1 DEF InStep, OnScript, Destination
  <2>4. Layered(ui', popup') /\ Allowed(ui', popup', screen', lesson'.phase, complete') /\ Based'
    BY <1>1, <2>1 DEF InStep, Based
  <2>5. PopupOnMode' /\ Completed' /\ Waiting' /\ Morphing'
    BY <1>1, <1>2, <2>1, <2>2 DEF InStep, PopupOnMode, Completed, Waiting, Morphing
  <2>6. OnScript'
    BY <1>1, <2>3 DEF OnScript
  <2>. QED
    BY <2>4, <2>5, <2>6 DEF InStep
<1>. QED
  BY <1>3, <1>4, <1>5 DEF Core

\* Declining the prompt keeps the core.
LEMMA DismissStep ==
  ASSUME Core, Around, UNCHANGED <<panels, settings, play, astray>>,
         lesson' = DismissPrompt(lesson), lesson.phase = "Prompt"
  PROVE  Core'
<1>1. /\ UNCHANGED <<ui, member, settings, screen, assets, pending, astray>>
      /\ UNCHANGED <<observed, entered, morph, recapFresh, complete, popup, fallback>>
  BY DEF Around, watch, panels, play
<1>2. /\ lesson' \in Lesson /\ lesson'.phase = "Inactive" /\ lesson'.shown = lesson.shown
      /\ ~Running(lesson')
  BY LessonMoves DEF Core, Typed, Running, IsActive
<1>3. Typed'
  BY <1>1, <1>2 DEF Core, Typed
<1>4. ForcingEndsWithTheLesson'
  BY <1>1, <1>2 DEF Core, ForcingEndsWithTheLesson
<1>5. ASSUME ~astray' PROVE InStep'
  <2>1. InStep
    BY <1>1, <1>5 DEF Core
  <2>2. Layered(ui', popup') /\ Allowed(ui', popup', screen', lesson'.phase, complete') /\ Based'
    BY <1>1, <1>2, <2>1 DEF InStep, Based, Allowed, Completed
  <2>3. PopupOnMode' /\ Completed' /\ Waiting' /\ Morphing' /\ OnScript'
    BY <1>1, <1>2, <2>1 DEF InStep, PopupOnMode, Completed, Waiting, Morphing, OnScript
  <2>. QED
    BY <2>2, <2>3 DEF InStep
<1>. QED
  BY <1>3, <1>4, <1>5 DEF Core

\* The prompt comes up, or the tutorial sees that its substep is done.
LEMMA TourStep ==
  ASSUME Core, Around, UNCHANGED <<panels, settings, play, astray>>,
         lesson' = PollAdvance(MaybeTriggerPrompt(lesson, screen), screen, TopModal(ui), popup # "Closed"),
         ~astray => (pending => assets = "Pending") /\ morph # "ToMode"
  PROVE  Core' /\ (~astray' /\ Running(lesson') => screen' = Script[lesson'.cursor].at)
<1>. DEFINE l == MaybeTriggerPrompt(lesson, screen)
<1>1. /\ UNCHANGED <<ui, member, settings, screen, assets, pending, astray>>
      /\ UNCHANGED <<observed, entered, morph, recapFresh, complete, popup, fallback>>
      /\ lesson \in Lesson /\ screen \in Screens
  BY DEF Around, watch, panels, play, Core, Typed
<1>2. /\ l \in Lesson
      /\ l # lesson => /\ lesson.phase = "Inactive" /\ ~lesson.shown /\ screen = "Root"
                       /\ l.phase = "Prompt" /\ ~Running(l)
  BY <1>1, PromptComesUp
<1>. HIDE DEF l
<1>3. /\ lesson' \in Lesson /\ lesson'.phase = l.phase /\ lesson'.shown = l.shown
      /\ ~Running(l) => lesson' = l
      /\ lesson'.cursor # l.cursor => lesson' = AdvanceCursor(l)
      /\ Running(l) /\ lesson'.cursor = l.cursor /\ Advance(l) \in DOMAIN Destination =>
           screen # Destination[Advance(l)]
      /\ Running(l) /\ lesson'.cursor # l.cursor =>
           /\ Advance(l) \notin {"Next", "MathStage1", "MathStage2", "FinishTutorial"}
           /\ Advance(l) \in DOMAIN Destination => screen = Destination[Advance(l)]
           /\ Advance(l) = "CustomExplore" => popup = "Closed"
  <2>1. (popup # "Closed") \in BOOLEAN /\ lesson' = PollAdvance(l, screen, TopModal(ui), popup # "Closed")
    BY DEF l
  <2>2. \A open \in BOOLEAN : LET m == PollAdvance(l, screen, TopModal(ui), open) IN
           /\ m \in Lesson /\ m.phase = l.phase /\ m.shown = l.shown
           /\ ~Running(l) => m = l
           /\ m.cursor # l.cursor => m = AdvanceCursor(l)
           /\ Running(l) /\ m.cursor = l.cursor /\ Advance(l) \in DOMAIN Destination =>
                screen # Destination[Advance(l)]
           /\ Running(l) /\ m.cursor # l.cursor =>
                /\ Advance(l) \notin {"Next", "MathStage1", "MathStage2", "FinishTutorial"}
                /\ Advance(l) \in DOMAIN Destination => screen = Destination[Advance(l)]
                /\ Advance(l) = "CustomExplore" => ~open
    BY <1>1, <1>2, PollMoves
  <2>. QED
    BY <2>1, <2>2
<1>4. Typed'
  BY <1>1, <1>3 DEF Core, Typed
<1>5. CASE l # lesson
  <2>1. lesson' = l /\ lesson'.phase = "Prompt" /\ ~Running(lesson')
    BY <1>2, <1>3, <1>5
  <2>2. ForcingEndsWithTheLesson'
    BY <1>1, <1>2, <1>5, <2>1 DEF Core, ForcingEndsWithTheLesson
  <2>3. ASSUME ~astray' PROVE InStep'
    <3>1. InStep /\ lesson.phase = "Inactive" /\ ~lesson.shown /\ screen = "Root" /\ morph # "ToMode"
      BY <1>1, <1>2, <1>5, <2>3 DEF Core
    <3>2. complete = "Never"
      BY <3>1 DEF InStep, Completed
    <3>3. Layered(ui', popup') /\ Allowed(ui', popup', screen', lesson'.phase, complete') /\ Based'
      BY <1>1, <2>1, <3>1, <3>2 DEF InStep, Based, Allowed
    <3>4. PopupOnMode' /\ Completed' /\ Waiting' /\ Morphing' /\ OnScript'
      BY <1>1, <2>1, <3>1, <3>2 DEF InStep, PopupOnMode, Completed, Waiting, Morphing, OnScript
    <3>. QED
      BY <3>3, <3>4 DEF InStep
  <2>. QED
    BY <1>4, <2>1, <2>2, <2>3 DEF Core
<1>6. CASE l = lesson
  <2>1. lesson'.phase = lesson.phase /\ lesson'.shown = lesson.shown
    BY <1>3, <1>6
  <2>2. ForcingEndsWithTheLesson'
    BY <1>1, <2>1 DEF Core, ForcingEndsWithTheLesson
  <2>3. ASSUME ~astray'
        PROVE  InStep' /\ (Running(lesson') => screen' = Script[lesson'.cursor].at)
    <3>1. /\ InStep /\ (pending => assets = "Pending") /\ morph # "ToMode"
      BY <1>1, <2>3 DEF Core
    <3>2. Layered(ui', popup') /\ Allowed(ui', popup', screen', lesson'.phase, complete') /\ Based'
      BY <1>1, <2>1, <3>1 DEF InStep, Based
    <3>3. Completed'
      BY <1>1, <2>1, <3>1 DEF InStep, Completed
    <3>4. CASE ~Running(lesson)
      <4>1. ~Running(lesson') /\ lesson' = lesson
        BY <1>3, <1>6, <3>4
      <4>2. PopupOnMode' /\ Waiting' /\ Morphing' /\ OnScript'
        BY <1>1, <3>1, <4>1 DEF InStep, PopupOnMode, Waiting, Morphing, OnScript
      <4>. QED
        BY <3>2, <3>3, <4>1, <4>2 DEF InStep
    <3>5. CASE Running(lesson) /\ lesson'.cursor = lesson.cursor
      <4>1. screen = Script[lesson.cursor].at
        BY <1>3, <1>6, <3>1, <3>5 DEF InStep, OnScript
      <4>2. Running(lesson') /\ Advance(lesson') = Advance(lesson)
        BY <2>1, <3>5 DEF Running, IsActive, Advance
      <4>3. PopupOnMode' /\ Waiting' /\ Morphing'
        BY <1>1, <2>1, <3>1, <3>5, <4>2 DEF InStep, PopupOnMode, Waiting, Morphing
      <4>4. OnScript'
        BY <1>1, <3>5, <4>1 DEF OnScript
      <4>. QED
        BY <1>1, <3>2, <3>3, <3>5, <4>1, <4>3, <4>4 DEF InStep
    <3>6. CASE Running(lesson) /\ lesson'.cursor # lesson.cursor
      <4>1. /\ Advance(lesson) \notin {"Next", "MathStage1", "MathStage2", "FinishTutorial"}
            /\ Advance(lesson) \in DOMAIN Destination => screen = Destination[Advance(lesson)]
            /\ Advance(lesson) = "CustomExplore" => popup = "Closed"
            /\ lesson' = AdvanceCursor(lesson)
        BY <1>3, <1>6, <3>6
      <4>2. Running(lesson') => Follows(Script[lesson.cursor], Script[lesson'.cursor])
        BY <1>1, <3>6, <4>1, AdvanceCursorMoves
      <4>3. popup = "Closed"
        BY <1>1, <3>1, <3>6, <4>1 DEF InStep, PopupOnMode, Core, Typed
      <4>4. Advance(lesson) = Script[lesson.cursor].advance
        BY DEF Advance
      <4>5. Running(lesson') => screen = Script[lesson'.cursor].at
        BY <3>1, <3>6, <4>1, <4>2, <4>4 DEF InStep, OnScript, Follows
      <4>6. ~pending
        <5>. SUFFICES ASSUME pending PROVE FALSE
          BY <1>1 DEF Core, Typed
        <5>1. Advance(lesson) \in {"LaunchCaller", "LaunchAggressor"} /\ screen # "Game"
          BY <3>1, <3>6 DEF InStep, Waiting
        <5>. QED
          BY <4>1, <5>1 DEF Destination
      <4>7. morph = "ToRoot" /\ Running(lesson') => screen # "ModeSelection"
        BY <3>1, <3>6 DEF InStep, Morphing
      <4>8. lesson.phase = "Active"
        BY <3>6 DEF Running, IsActive
      <4>9. PopupOnMode' /\ Waiting' /\ Morphing' /\ OnScript'
        BY <1>1, <2>1, <3>1, <4>3, <4>5, <4>6, <4>7, <4>8
           DEF InStep, PopupOnMode, Waiting, Morphing, OnScript
      <4>. QED
        BY <1>1, <3>2, <3>3, <4>5, <4>9 DEF InStep
    <3>. QED
      BY <3>4, <3>5, <3>6
  <2>. QED
    BY <1>4, <2>2, <2>3 DEF Core
<1>. QED
  BY <1>5, <1>6

\* A morph is begun from Root or from Mode Selection.
LEMMA MorphStep ==
  ASSUME Core, UNCHANGED <<observed, entered, recapFresh, complete, popup, fallback, play, panels, tour, astray>>,
         \/ /\ morph' = "ToMode" /\ screen = "Root" /\ lesson.phase # "Prompt"
            /\ Running(lesson) => Advance(lesson) = "PlayMorph"
         \/ morph' = "ToRoot" /\ ~Running(lesson)
  PROVE  Core'
<1>1. /\ UNCHANGED <<ui, member, lesson, settings, screen, assets, pending, astray>>
      /\ UNCHANGED <<observed, entered, recapFresh, complete, popup, fallback>>
  BY DEF panels, play, tour
<1>2. Typed'
  BY <1>1 DEF Core, Typed
<1>3. ForcingEndsWithTheLesson'
  BY <1>1 DEF Core, ForcingEndsWithTheLesson
<1>4. ASSUME ~astray' PROVE InStep'
  <2>1. InStep
    BY <1>1, <1>4 DEF Core
  <2>2. Layered(ui', popup') /\ Allowed(ui', popup', screen', lesson'.phase, complete') /\ Based'
    BY <1>1, <2>1 DEF InStep, Based
  <2>3. PopupOnMode' /\ Completed' /\ Waiting' /\ OnScript'
    BY <1>1, <2>1 DEF InStep, PopupOnMode, Completed, Waiting, OnScript
  <2>4. Morphing'
    BY <1>1, <2>1 DEF InStep, Morphing
  <2>. QED
    BY <2>2, <2>3, <2>4 DEF InStep
<1>. QED
  BY <1>2, <1>3, <1>4 DEF Core

\* The Custom popup comes up.
LEMMA PopupOpensStep ==
  ASSUME Core, UNCHANGED <<watch, fallback>>, popup' = "Opening", Only(PushContext(ui, "Popup")),
         ui.modals = <<>>, screen = "ModeSelection",
         Running(lesson) => Advance(lesson) = "CustomExplore",
         popup = "Closed", complete # "Never" => lesson.phase # "Inactive"
  PROVE  Core'
<1>1. /\ UNCHANGED <<member, lesson, settings, screen, assets, pending, astray>>
      /\ UNCHANGED <<observed, entered, morph, recapFresh, complete, fallback>>
      /\ ui' = PushContext(ui, "Popup") /\ "Popup" \in ListNames /\ PanelState(ui)
  BY DEF Only, watch, play, tour, ListNames, Core, Typed
<1>2. PanelState(ui')
  BY <1>1, PushContextDoes
<1>3. Typed'
  BY <1>1, <1>2 DEF Core, Typed
<1>4. ForcingEndsWithTheLesson'
  BY <1>1 DEF Core, ForcingEndsWithTheLesson
<1>5. ASSUME ~astray' PROVE InStep'
  <2>1. InStep
    BY <1>1, <1>5 DEF Core
  <2>2. Layered(ui, "Closed") /\ popup' # "Closed"
    BY <2>1 DEF InStep
  <2>3. /\ Layered(ui', popup') /\ ui'.modals = <<>> /\ ui'.confirm = "None"
        /\ ui'.contexts[1] = ui.contexts[1]
    BY <1>1, <2>2, LayeredPopupOpens
  <2>4. lesson.phase # "Complete" /\ complete = "Never"
    BY <1>1, <2>1 DEF InStep, Completed
  <2>5. Allowed(ui', popup', screen', lesson'.phase, complete')
    BY <1>1, <2>3, <2>4 DEF Allowed
  <2>6. Based'
    BY <1>1, <2>1, <2>3 DEF InStep, Based
  <2>7. PopupOnMode' /\ Completed' /\ Waiting' /\ OnScript' /\ Morphing'
    BY <1>1, <2>1, <2>4 DEF InStep, PopupOnMode, Completed, Waiting, OnScript, Morphing
  <2>. QED
    BY <2>3, <2>5, <2>6, <2>7 DEF InStep
<1>. QED
  BY <1>3, <1>4, <1>5 DEF Core

\* It goes: what is left of its context.
LEMMA PopupGone ==
  ASSUME Core, popup # "Closed"
  PROVE  /\ PanelState(PopContext(ui))
         /\ ~astray /\ Active(ui) = "Popup" =>
              /\ Layered(PopContext(ui), "Closed")
              /\ Allowed(PopContext(ui), "Closed", screen, lesson.phase, complete)
              /\ PopContext(ui).contexts[1] = ui.contexts[1]
<1>. DEFINE v == PopContext(ui)
<1>1. PanelState(ui)
  BY DEF Core, Typed
<1>2. PanelState(v)
  BY <1>1, PopContextDoes
<1>3. ASSUME ~astray, Active(ui) = "Popup"
      PROVE  /\ Layered(v, "Closed") /\ Allowed(v, "Closed", screen, lesson.phase, complete)
             /\ v.contexts[1] = ui.contexts[1]
  <2>1. Layered(ui, popup)
    BY <1>3 DEF Core, InStep
  <2>2. /\ Layered(v, "Closed") /\ v.modals = <<>> /\ v.confirm = "None"
        /\ v.contexts[1] = ui.contexts[1]
    BY <1>1, <1>3, <2>1, LayeredPopupCloses
  <2>. HIDE DEF v
  <2>3. Allowed(v, "Closed", screen, lesson.phase, complete)
    BY <2>2 DEF Allowed
  <2>. QED
    BY <2>2, <2>3
<1>. QED
  BY <1>2, <1>3

\* Closing the popup keeps the core, astray when its context was not on top.
LEMMA PopupClosesStep ==
  ASSUME Core, UNCHANGED <<watch, fallback, member, tour, play>>, popup # "Closed", popup' = "Closed",
         ui' = PopContext(ui), astray' = (astray \/ Active(ui) # "Popup")
  PROVE  Core'
<1>1. /\ UNCHANGED <<member, lesson, settings, screen, assets, pending>>
      /\ UNCHANGED <<observed, entered, morph, recapFresh, complete, fallback>>
  BY DEF watch, play, tour
<1>2. Typed'
  BY <1>1, PopupGone DEF Core, Typed
<1>3. ForcingEndsWithTheLesson'
  BY <1>1 DEF Core, ForcingEndsWithTheLesson
<1>4. ASSUME ~astray' PROVE InStep'
  <2>1. /\ InStep /\ Layered(ui', popup') /\ ui'.contexts[1] = ui.contexts[1]
        /\ Allowed(ui', popup', screen', lesson'.phase, complete')
    BY <1>1, <1>4, PopupGone DEF Core
  <2>2. Based'
    BY <1>1, <2>1 DEF InStep, Based
  <2>3. PopupOnMode' /\ Completed' /\ Waiting' /\ OnScript' /\ Morphing'
    BY <1>1, <2>1 DEF InStep, PopupOnMode, Completed, Waiting, OnScript, Morphing
  <2>. QED
    BY <2>1, <2>2, <2>3 DEF InStep
<1>. QED
  BY <1>2, <1>3, <1>4 DEF Core

\* Play or X of the popup.
LEMMA PopupControlStep ==
  ASSUME Core, UNCHANGED <<watch, fallback>>, popup # "Closed", PopupControl
  PROVE  Core'
<1>1. CASE ui' = PopContext(ui) /\ astray' = (astray \/ Active(ui) # "Popup")
           /\ UNCHANGED <<member, tour, play>>
  BY <1>1, PopupClosesStep DEF PopupControl
<1>2. CASE ~IsActive(lesson) /\ RequestLaunch(PopContext(ui), Active(ui) # "Popup")
  <2>. DEFINE v == PopContext(ui)
              stray == Active(ui) # "Popup"
  <2>1. PanelState(v) /\ stray \in BOOLEAN /\ popup' = "Closed"
    BY PopupGone DEF PopupControl
  <2>2. ASSUME ~astray'
        PROVE  /\ Layered(v, popup') /\ Allowed(v, popup', screen, lesson.phase, complete)
               /\ v.contexts[1] = ui.contexts[1]
               /\ screen \in {"ModeSelection", "Game", "PostRound"} /\ complete = "Never"
               /\ Running(lesson) => Advance(lesson) \in {"LaunchCaller", "LaunchAggressor"}
    <3>1. ~astray /\ Active(ui) = "Popup"
      BY <1>2, <2>2 DEF RequestLaunch, Perform, Core, Typed
    <3>2. InStep
      BY <3>1 DEF Core
    <3>3. screen = "ModeSelection" /\ complete = "Never" /\ ~Running(lesson)
      BY <1>2, <3>2 DEF InStep, PopupOnMode, Completed, Running
    <3>. QED
      BY <2>1, <3>1, <3>3, PopupGone
  <2>3. RequestLaunch(v, stray)
    BY <1>2
  <2>. HIDE DEF v, stray
  <2>. QED
    BY <2>1, <2>2, <2>3, LaunchStep
<1>. QED
  BY <1>1, <1>2 DEF PopupControl

\* Its opening button is up.
LEMMA PopupStaysStep ==
  ASSUME Core, UNCHANGED <<watch, fallback, acted>>, popup # "Closed", popup' \in {popup, "Open"}
  PROVE  Core'
<1>1. /\ UNCHANGED <<ui, member, lesson, settings, screen, assets, pending, astray>>
      /\ UNCHANGED <<observed, entered, morph, recapFresh, complete, fallback>>
      /\ popup' # "Closed"
  BY DEF watch, play, tour, acted, panels
<1>2. Typed'
  BY <1>1 DEF Core, Typed
<1>3. ForcingEndsWithTheLesson'
  BY <1>1 DEF Core, ForcingEndsWithTheLesson
<1>4. ASSUME ~astray' PROVE InStep'
  <2>1. InStep
    BY <1>1, <1>4 DEF Core
  <2>2. Layered(ui', popup')
    BY <1>1, <2>1 DEF InStep, Layered, Base
  <2>3. Allowed(ui', popup', screen', lesson'.phase, complete') /\ Based'
    BY <1>1, <2>1 DEF InStep, Based, Allowed
  <2>4. PopupOnMode' /\ Completed' /\ Waiting' /\ OnScript' /\ Morphing'
    BY <1>1, <2>1 DEF InStep, PopupOnMode, Completed, Waiting, OnScript, Morphing
  <2>. QED
    BY <2>2, <2>3, <2>4 DEF InStep
<1>. QED
  BY <1>2, <1>3, <1>4 DEF Core

----------------------------------------------------------------------------
(* The router of keys. *)

\* A non-empty set of natural numbers has a least member.
LEMMA LeastMember ==
  ASSUME NEW S \in SUBSET Nat, S # {}
  PROVE  \E n \in S : \A k \in S : n <= k
<1>. DEFINE Less == OpToRel(<, Nat)
<1>1. IsWellFoundedOn(Less, Nat)
  BY NatLessThanWellFounded
<1>2. ASSUME NEW j \in Nat, NEW k \in Nat, j < k PROVE <<j, k>> \in Less
  BY <1>2, Zenon DEF OpToRel
<1>. HIDE DEF Less
<1>3. PICK n \in S : \A k \in S : <<k, n>> \notin Less
  BY <1>1, WFMin, Zenon
<1>4. ASSUME NEW k \in S PROVE n <= k
  <2>1. k \in Nat /\ n \in Nat /\ ~(k < n)
    BY <1>2, <1>3
  <2>. QED
    BY <2>1
<1>. QED
  BY <1>4

\* Handlers whose tags are in T.
Handlers(T) == [tag : T, priority : Nat]

\* p tells which installation each place of the router came from: a layer below comes
\* later, and within a layer the handlers installed before come later.
Arranged(r, installs, p) ==
  /\ \A j \in 1 .. Len(r) : r[j] = installs[p[j]]
  /\ \A i, j \in 1 .. Len(r) : i < j =>
       \/ r[i].priority < r[j].priority
       \/ r[i].priority = r[j].priority /\ p[i] > p[j]

\* The router r after the first n installations: it has all of them.
Holding(r, installs, n, T) ==
  /\ r \in Seq(Handlers(T)) /\ Len(r) = n
  /\ \E p \in [1 .. n -> 1 .. n] :
       Arranged(r, installs, p) /\ \A i \in 1 .. n : \E j \in 1 .. n : p[j] = i

\* A handler goes in front of those of its layer.
LEMMA InsertKeepsOrder ==
  ASSUME NEW T, NEW installs, NEW n \in Nat, NEW r, Holding(r, installs, n, T),
         installs[n + 1] \in Handlers(T)
  PROVE  Holding(InsertSorted(r, installs[n + 1]), installs, n + 1, T)
<1>. DEFINE new == installs[n + 1]
            Slot(i) == /\ \A j \in 1 .. i - 1 : r[j].priority < new.priority
                       /\ i <= Len(r) => r[i].priority >= new.priority
            k == CHOOSE i \in 1 .. Len(r) + 1 : Slot(i)
            t == InsertSorted(r, new)
<1>1. r \in Seq(Handlers(T)) /\ Len(r) = n /\ new \in Handlers(T)
  BY DEF Holding
<1>2. new.priority \in Nat /\ \A i \in 1 .. n : r[i] \in Handlers(T) /\ r[i].priority \in Nat
  <2>1. \A i \in 1 .. n : r[i] \in Handlers(T)
    BY <1>1, ElementOfSeq
  <2>. QED
    BY <1>1, <2>1 DEF Handlers
<1>3. PICK p \in [1 .. n -> 1 .. n] :
        Arranged(r, installs, p) /\ \A i \in 1 .. n : \E j \in 1 .. n : p[j] = i
  BY DEF Holding
<1>4. \E i \in 1 .. Len(r) + 1 : Slot(i)
  <2>. DEFINE S == {i \in 1 .. n + 1 : i = n + 1 \/ r[i].priority >= new.priority}
  <2>1. S \in SUBSET Nat /\ n + 1 \in S
    OBVIOUS
  <2>. HIDE DEF S
  <2>2. PICK i \in S : \A j \in S : i <= j
    BY <2>1, LeastMember
  <2>3. i \in 1 .. n + 1 /\ (i = n + 1 \/ r[i].priority >= new.priority)
    BY DEF S
  <2>4. ASSUME NEW j \in 1 .. i - 1 PROVE r[j].priority < new.priority
    <3>1. j \in 1 .. n /\ j \in 1 .. n + 1 /\ ~(i <= j)
      BY <2>3
    <3>2. j \notin S
      BY <2>2, <3>1
    <3>. QED
      BY SMTT(40), <1>2, <3>1, <3>2 DEF S
  <2>. QED
    BY <1>1, <2>3, <2>4
<1>5. k \in 1 .. Len(r) + 1 /\ Slot(k)
  BY <1>4
<1>6. t = SubSeq(r, 1, k - 1) \o <<new>> \o SubSeq(r, k, Len(r))
  BY DEF InsertSorted, InsertAt
<1>. HIDE DEF k, t, Slot, new
<1>. DEFINE a == SubSeq(r, 1, k - 1)
            c == SubSeq(r, k, n)
<1>7. k \in 1 .. n + 1
  BY <1>1, <1>5
<1>8. /\ a \in Seq(Handlers(T)) /\ Len(a) = k - 1 /\ \A i \in 1 .. k - 1 : a[i] = r[i]
  <2>1. \A i \in 1 .. k - 1 : r[i] \in Handlers(T)
    BY SMTT(40), <1>2, <1>7
  <2>2. /\ a \in Seq(Handlers(T)) /\ Len(a) = IF 1 <= k - 1 THEN (k - 1) - 1 + 1 ELSE 0
        /\ \A i \in 1 .. (k - 1) - 1 + 1 : a[i] = r[1 + i - 1]
    BY <1>7, <2>1, SubSeqProperties
  <2>. HIDE DEF a
  <2>. QED
    BY <1>7, <2>2
<1>9. /\ c \in Seq(Handlers(T)) /\ Len(c) = n - k + 1 /\ \A i \in 1 .. n - k + 1 : c[i] = r[k + i - 1]
  <2>1. \A i \in k .. n : r[i] \in Handlers(T)
    BY <1>2, <1>7
  <2>2. /\ c \in Seq(Handlers(T)) /\ Len(c) = IF k <= n THEN n - k + 1 ELSE 0
        /\ \A i \in 1 .. n - k + 1 : c[i] = r[k + i - 1]
    BY <1>7, <2>1, SubSeqProperties
  <2>. HIDE DEF c
  <2>. QED
    BY <1>7, <2>2
<1>10. t = (a \o <<new>>) \o c
  BY <1>1, <1>6
<1>. HIDE DEF a, c
<1>11. /\ t \in Seq(Handlers(T)) /\ Len(t) = n + 1
       /\ \A i \in 1 .. n + 1 : t[i] = IF i < k THEN r[i] ELSE IF i = k THEN new ELSE r[i - 1]
  <2>. DEFINE b == a \o <<new>>
  <2>1. /\ <<new>> \in Seq(Handlers(T)) /\ Len(<<new>>) = 1 /\ <<new>>[1] = new
    BY <1>1
  <2>2. /\ b \in Seq(Handlers(T)) /\ Len(b) = k
        /\ \A i \in 1 .. k : b[i] = IF i < k THEN a[i] ELSE new
    <3>1. /\ b \in Seq(Handlers(T)) /\ Len(b) = Len(a) + 1
          /\ \A i \in 1 .. Len(a) + 1 : b[i] = IF i <= Len(a) THEN a[i] ELSE <<new>>[i - Len(a)]
      BY <1>8, <2>1, ConcatProperties
    <3>. HIDE DEF b
    <3>. QED
      BY <1>7, <1>8, <2>1, <3>1
  <2>. HIDE DEF b
  <2>3. /\ t \in Seq(Handlers(T)) /\ Len(t) = Len(b) + Len(c)
        /\ \A i \in 1 .. Len(b) + Len(c) : t[i] = IF i <= Len(b) THEN b[i] ELSE c[i - Len(b)]
    BY <1>9, <1>10, <2>2, ConcatProperties DEF b
  <2>4. Len(t) = n + 1
    BY <1>7, <1>9, <2>2, <2>3
  <2>5. ASSUME NEW i \in 1 .. n + 1
        PROVE  t[i] = IF i < k THEN r[i] ELSE IF i = k THEN new ELSE r[i - 1]
    <3>1. CASE i <= k
      <4>1. t[i] = b[i] /\ i \in 1 .. k
        BY <1>7, <1>9, <2>2, <2>3, <3>1
      <4>2. i < k => b[i] = r[i]
        <5>. HAVE i < k
        <5>1. i \in 1 .. k - 1
          BY <1>7, <4>1
        <5>. QED
          BY <1>8, <2>2, <4>1, <5>1
      <4>3. ~(i < k) => i = k /\ b[i] = new
        BY <1>7, <2>2, <3>1, <4>1
      <4>. QED
        BY <4>1, <4>2, <4>3
    <3>2. CASE i > k
      <4>0. /\ i - k \in 1 .. n - k + 1 /\ k + (i - k) - 1 = i - 1 /\ ~(i <= k)
            /\ k + (n - k + 1) = n + 1
        BY <1>7, <3>2
      <4>1. t[i] = c[i - k]
        BY <1>9, <2>2, <2>3, <4>0
      <4>2. c[i - k] = r[k + (i - k) - 1]
        BY <1>9, <4>0
      <4>3. ~(i < k) /\ i # k
        BY <1>7, <3>2
      <4>. QED
        BY <4>0, <4>1, <4>2, <4>3
    <3>. QED
      BY <1>7, <3>1, <3>2
  <2>. QED
    BY <2>3, <2>4, <2>5
<1>12. /\ \A j \in 1 .. n : j < k => r[j].priority < new.priority
       /\ \A j \in 1 .. n : j >= k => r[j].priority >= new.priority
  <2>1. ASSUME NEW j \in 1 .. n, j < k PROVE r[j].priority < new.priority
    <3>1. j \in 1 .. k - 1
      BY <1>7, <2>1
    <3>. QED
      BY <1>5, <3>1 DEF Slot
  <2>2. ASSUME NEW j \in 1 .. n, j >= k PROVE r[j].priority >= new.priority
    <3>0. k \in 1 .. n /\ k <= n /\ (j = k \/ k < j)
      BY <1>7, <2>2
    <3>1. r[k].priority >= new.priority
      BY <1>1, <1>5, <3>0 DEF Slot
    <3>2. j = k \/ (r[k].priority < r[j].priority \/ r[k].priority = r[j].priority)
      BY <1>1, <1>3, <3>0 DEF Arranged
    <3>3. r[k].priority \in Nat /\ r[j].priority \in Nat /\ new.priority \in Nat
      BY <1>2, <3>0
    <3>4. \A u, v, w \in Nat : u >= w /\ (u < v \/ u = v) => v >= w
      OBVIOUS
    <3>5. j = k => r[k].priority = r[j].priority
      OBVIOUS
    <3>. QED
      BY <3>1, <3>2, <3>3, <3>4, <3>5, Zenon
  <2>. QED
    BY <2>1, <2>2
<1>. DEFINE q == [i \in 1 .. n + 1 |-> IF i < k THEN p[i] ELSE IF i = k THEN n + 1 ELSE p[i - 1]]
<1>13. /\ q \in [1 .. n + 1 -> 1 .. n + 1]
       /\ \A i \in 1 .. n + 1 : q[i] = IF i < k THEN p[i] ELSE IF i = k THEN n + 1 ELSE p[i - 1]
  <2>1. ASSUME NEW i \in 1 .. n + 1
        PROVE  (IF i < k THEN p[i] ELSE IF i = k THEN n + 1 ELSE p[i - 1]) \in 1 .. n + 1
    <3>1. i < k => i \in 1 .. n
      BY <1>7
    <3>2. ~(i < k) /\ i # k => i - 1 \in 1 .. n
      BY <1>7
    <3>3. \A j \in 1 .. n : p[j] \in 1 .. n + 1
      OBVIOUS
    <3>. QED
      BY <3>1, <3>2, <3>3
  <2>. QED
    BY <2>1
<1>. HIDE DEF q
<1>14. ASSUME NEW i \in 1 .. n + 1 PROVE t[i] = installs[q[i]]
  <2>1. CASE i < k
    <3>1. i \in 1 .. n
      BY <1>7, <2>1
    <3>. QED
      BY <1>1, <1>3, <1>11, <1>13, <2>1, <3>1 DEF Arranged
  <2>2. CASE i = k
    <3>1. ~(i < k)
      BY <1>7, <2>2
    <3>. QED
      BY <1>11, <1>13, <2>2, <3>1 DEF new
  <2>3. CASE i > k
    <3>1. i - 1 \in 1 .. n /\ ~(i < k) /\ i # k
      BY <1>7, <2>3
    <3>2. t[i] = r[i - 1] /\ q[i] = p[i - 1]
      BY <1>11, <1>13, <3>1
    <3>3. r[i - 1] = installs[p[i - 1]]
      BY <1>1, <1>3, <3>1 DEF Arranged
    <3>. QED
      BY <3>2, <3>3
  <2>. QED
    BY <1>7, <2>1, <2>2, <2>3
<1>15. ASSUME NEW i \in 1 .. n + 1, NEW j \in 1 .. n + 1, i < j
       PROVE  \/ t[i].priority < t[j].priority
              \/ t[i].priority = t[j].priority /\ q[i] > q[j]
  <2>0. \A x, y \in 1 .. n : x < y => \/ r[x].priority < r[y].priority
                                      \/ r[x].priority = r[y].priority /\ p[x] > p[y]
    BY <1>1, <1>3 DEF Arranged
  <2>1. CASE j < k
    <3>1. i \in 1 .. n /\ j \in 1 .. n /\ i < k
      BY <1>7, <1>15, <2>1
    <3>2. t[i] = r[i] /\ t[j] = r[j] /\ q[i] = p[i] /\ q[j] = p[j]
      BY <1>11, <1>13, <2>1, <3>1
    <3>. QED
      BY <1>15, <2>0, <3>1, <3>2
  <2>2. CASE j = k
    <3>1. i \in 1 .. n /\ i < k /\ ~(j < k)
      BY <1>7, <1>15, <2>2
    <3>2. t[i] = r[i] /\ t[j] = new
      BY <1>11, <2>2, <3>1
    <3>. QED
      BY <1>12, <3>1, <3>2
  <2>3. CASE j > k /\ i < k
    <3>1. i \in 1 .. n /\ j - 1 \in 1 .. n /\ i < j - 1 /\ ~(j < k) /\ j # k
      BY <1>7, <1>15, <2>3
    <3>2. t[i] = r[i] /\ t[j] = r[j - 1] /\ q[i] = p[i] /\ q[j] = p[j - 1]
      BY <1>11, <1>13, <2>3, <3>1
    <3>. QED
      BY <2>0, <3>1, <3>2
  <2>4. CASE j > k /\ i = k
    <3>1. j - 1 \in 1 .. n /\ j - 1 >= k /\ ~(j < k) /\ j # k /\ ~(i < k)
      BY <1>7, <1>15, <2>4
    <3>2. t[i] = new /\ t[j] = r[j - 1] /\ q[i] = n + 1 /\ q[j] = p[j - 1]
      BY <1>11, <1>13, <2>4, <3>1
    <3>3. r[j - 1].priority >= new.priority /\ r[j - 1].priority \in Nat
      BY <1>2, <1>12, <3>1
    <3>4. p[j - 1] \in 1 .. n
      BY <3>1
    <3>5. n + 1 > p[j - 1]
      BY <3>4
    <3>6. \/ new.priority < r[j - 1].priority \/ new.priority = r[j - 1].priority
      BY <1>2, <3>3
    <3>. QED
      BY <3>2, <3>5, <3>6
  <2>5. CASE i > k
    <3>1. i - 1 \in 1 .. n /\ j - 1 \in 1 .. n /\ i - 1 < j - 1 /\ ~(i < k) /\ i # k /\ ~(j < k) /\ j # k
      BY <1>7, <1>15, <2>5
    <3>2. t[i] = r[i - 1] /\ t[j] = r[j - 1] /\ q[i] = p[i - 1] /\ q[j] = p[j - 1]
      BY <1>11, <1>13, <3>1
    <3>. QED
      BY <2>0, <3>1, <3>2
  <2>. QED
    BY <1>7, <2>1, <2>2, <2>3, <2>4, <2>5
<1>16. Arranged(t, installs, q)
  BY <1>11, <1>14, <1>15 DEF Arranged
<1>17. ASSUME NEW i \in 1 .. n + 1 PROVE \E j \in 1 .. n + 1 : q[j] = i
  <2>1. CASE i = n + 1
    <3>1. ~(k < k)
      BY <1>7
    <3>2. q[k] = n + 1
      BY <1>7, <1>13, <3>1
    <3>. QED
      BY <1>7, <2>1, <3>2
  <2>2. CASE i # n + 1
    <3>1. i \in 1 .. n
      BY <2>2
    <3>2. PICK j \in 1 .. n : p[j] = i
      BY <1>3, <3>1
    <3>3. CASE j < k
      <4>1. j \in 1 .. n + 1
        OBVIOUS
      <4>. QED
        BY <1>13, <3>2, <3>3, <4>1
    <3>4. CASE ~(j < k)
      <4>1. j + 1 \in 1 .. n + 1 /\ ~(j + 1 < k) /\ j + 1 # k /\ (j + 1) - 1 = j
        BY <1>7, <3>4
      <4>. QED
        BY <1>13, <3>2, <4>1
    <3>. QED
      BY <3>3, <3>4
  <2>. QED
    BY <2>1, <2>2
<1>. QED
  BY <1>11, <1>13, <1>16, <1>17 DEF Holding, t, new

\* f gives the router after each of the first n installations.
IsRouter(f, installs, n) ==
  f = [i \in 0 .. n |-> IF i = 0 THEN <<>> ELSE InsertSorted(f[i - 1], installs[i])]

\* There is such a function.
LEMMA RouterExists ==
  ASSUME NEW installs, NEW n \in Nat
  PROVE  \E f : IsRouter(f, installs, n)
<1>. DEFINE B == {i \in Nat : ~ \E f : IsRouter(f, installs, i)}
<1>1. SUFFICES ASSUME B # {} PROVE FALSE
  OBVIOUS
<1>2. PICK m \in B : \A k \in B : m <= k
  BY <1>1, LeastMember
<1>3. m # 0
  <2>. SUFFICES ASSUME m = 0 PROVE FALSE
    OBVIOUS
  <2>. DEFINE f == [i \in 0 .. 0 |-> <<>>]
  <2>1. \A i \in 0 .. 0 : i = 0
    OBVIOUS
  <2>2. f = [i \in 0 .. 0 |-> IF i = 0 THEN <<>> ELSE InsertSorted(f[i - 1], installs[i])]
    BY <2>1
  <2>. QED
    BY <2>2 DEF IsRouter
<1>4. m - 1 \in Nat /\ m \in Nat /\ ~(m <= m - 1)
  BY <1>3
<1>5. PICK g : IsRouter(g, installs, m - 1)
  BY <1>2, <1>4
<1>. DEFINE f == [i \in 0 .. m |-> IF i = m THEN InsertSorted(g[m - 1], installs[m]) ELSE g[i]]
<1>6. ASSUME NEW i \in 0 .. m
      PROVE  f[i] = IF i = 0 THEN <<>> ELSE InsertSorted(f[i - 1], installs[i])
  <2>1. CASE i = m
    <3>1. m - 1 \in 0 .. m /\ m - 1 # m /\ i # 0
      BY <1>3, <1>4, <2>1
    <3>. QED
      BY <2>1, <3>1
  <2>2. CASE i # m
    <3>1. i \in 0 .. m - 1 /\ (i # 0 => i - 1 \in 0 .. m /\ i - 1 # m)
      BY <1>4, <2>2
    <3>2. g[i] = IF i = 0 THEN <<>> ELSE InsertSorted(g[i - 1], installs[i])
      BY <1>5, <3>1 DEF IsRouter
    <3>. QED
      BY <2>2, <3>1, <3>2
  <2>. QED
    BY <2>1, <2>2
<1>7. f = [i \in 0 .. m |-> f[i]]
  OBVIOUS
<1>. HIDE DEF f
<1>8. IsRouter(f, installs, m)
  BY <1>6, <1>7 DEF IsRouter
<1>. QED
  BY <1>8

\* It holds what was installed, in order.
LEMMA RouterHolds ==
  ASSUME NEW T, NEW installs \in Seq(Handlers(T))
  PROVE  Holding(InstalledInOrder(installs), installs, Len(installs), T)
<1>. DEFINE n == Len(installs)
            f == CHOOSE g : IsRouter(g, installs, n)
            B == {i \in 0 .. n : ~Holding(f[i], installs, i, T)}
<1>1. n \in Nat /\ \A i \in 1 .. n : installs[i] \in Handlers(T)
  BY ElementOfSeq
<1>2. IsRouter(f, installs, n)
  BY <1>1, RouterExists
<1>3. InstalledInOrder(installs) = f[n]
  BY DEF InstalledInOrder, IsRouter
<1>. HIDE DEF f, n
<1>4. SUFFICES ASSUME B # {} PROVE FALSE
  <2>1. n \in 0 .. n
    BY <1>1
  <2>. QED
    BY <1>3, <2>1 DEF n
<1>5. PICK m \in B : \A k \in B : m <= k
  <2>1. B \in SUBSET Nat
    BY <1>1
  <2>. HIDE DEF B
  <2>. QED
    BY <1>4, <2>1, LeastMember
<1>6. f[0] = <<>>
  BY <1>1, <1>2 DEF IsRouter
<1>7. Holding(f[0], installs, 0, T)
  <2>. DEFINE p == [i \in 1 .. 0 |-> i]
  <2>1. p \in [1 .. 0 -> 1 .. 0] /\ 1 .. 0 = {}
    OBVIOUS
  <2>2. <<>> \in Seq(Handlers(T)) /\ Len(<<>>) = 0
    OBVIOUS
  <2>3. Arranged(f[0], installs, p)
    BY <1>6, <2>1, <2>2 DEF Arranged
  <2>. QED
    BY <1>6, <2>1, <2>2, <2>3 DEF Holding
<1>8. m \in 1 .. n /\ m - 1 \in 0 .. n /\ ~(m <= m - 1) /\ m - 1 \in Nat /\ (m - 1) + 1 = m
  BY <1>1, <1>5, <1>7
<1>9. Holding(f[m - 1], installs, m - 1, T)
  BY <1>5, <1>8
<1>10. f[m] = InsertSorted(f[m - 1], installs[m])
  BY <1>2, <1>8 DEF IsRouter
<1>11. Holding(InsertSorted(f[m - 1], installs[(m - 1) + 1]), installs, (m - 1) + 1, T)
  BY <1>1, <1>8, <1>9, InsertKeepsOrder
<1>. QED
  BY <1>5, <1>8, <1>10, <1>11

\* A key goes to a handler that claims it: of those in the uppermost layer, to the one
\* that was installed last.  It goes to none when nobody claims it.
THEOREM KeyGoesToTheNewestOnTop ==
  ASSUME NEW T, NEW installs \in Seq(Handlers(T)), NEW claims
  PROVE  LET taker == Dispatch(InstalledInOrder(installs), claims)
             claimers == {i \in DOMAIN installs : installs[i].tag \in claims}
         IN  IF claimers = {} THEN taker = "None"
             ELSE \E i \in claimers :
                    /\ taker = installs[i].tag
                    /\ \A j \in claimers \ {i} :
                         \/ installs[i].priority < installs[j].priority
                         \/ installs[i].priority = installs[j].priority /\ j < i
<1>. DEFINE r == InstalledInOrder(installs)
            n == Len(installs)
            takers == {i \in DOMAIN r : r[i].tag \in claims}
            claimers == {i \in DOMAIN installs : installs[i].tag \in claims}
            first == CHOOSE i \in takers : \A j \in takers : i <= j
<1>1. Holding(r, installs, n, T)
  BY RouterHolds
<1>2. Dispatch(r, claims) = IF takers = {} THEN "None" ELSE r[first].tag
  BY DEF Dispatch
<1>. HIDE DEF r
<1>3. n \in Nat /\ DOMAIN installs = 1 .. n /\ DOMAIN r = 1 .. n /\ Len(r) = n
  BY <1>1 DEF Holding
<1>. HIDE DEF n
<1>4. PICK p \in [1 .. n -> 1 .. n] :
        Arranged(r, installs, p) /\ \A i \in 1 .. n : \E j \in 1 .. n : p[j] = i
  BY <1>1 DEF Holding
<1>5. \A i \in 1 .. n : p[i] \in 1 .. n /\ r[i] = installs[p[i]]
  BY <1>3, <1>4 DEF Arranged
<1>6. \A i \in takers : i \in 1 .. n /\ p[i] \in claimers
  BY <1>3, <1>5
<1>7. \A i \in claimers : \E j \in takers : p[j] = i
  BY <1>3, <1>4, <1>5
<1>8. CASE claimers = {}
  <2>1. takers = {}
    BY <1>6, <1>8
  <2>. QED
    BY <1>2, <1>8, <2>1 DEF r
<1>9. CASE claimers # {}
  <2>1. takers # {} /\ takers \in SUBSET Nat
    BY SMTT(40), <1>3, <1>7, <1>9
  <2>. HIDE DEF takers
  <2>2. first \in takers /\ \A j \in takers : first <= j
    BY <2>1, LeastMember
  <2>3. Dispatch(r, claims) = installs[p[first]].tag
    BY <1>2, <1>5, <1>6, <2>1, <2>2
  <2>. HIDE DEF first
  <2>4. ASSUME NEW i \in claimers \ {p[first]}
        PROVE  \/ installs[p[first]].priority < installs[i].priority
               \/ installs[p[first]].priority = installs[i].priority /\ i < p[first]
    <3>1. PICK j \in takers : p[j] = i
      BY <1>7
    <3>2. first \in 1 .. n /\ j \in 1 .. n /\ j # first /\ first <= j
      BY <1>6, <2>2, <3>1
    <3>3. first < j
      BY <3>2
    <3>4. \/ r[first].priority < r[j].priority
          \/ r[first].priority = r[j].priority /\ p[first] > p[j]
      BY <1>3, <1>4, <3>2, <3>3 DEF Arranged
    <3>. QED
      BY <1>5, <3>1, <3>2, <3>4
  <2>. QED
    BY <1>6, <1>9, <2>2, <2>3, <2>4 DEF r
<1>. QED
  BY <1>8, <1>9

\* The handler that takes a command key is alive and claims it.
LEMMA KeyTaken ==
  /\ KeyGoesTo = "tutorial.key" => TutorialClaims
  /\ KeyGoesTo = "modal.keys" => ~NoModal
  /\ KeyGoesTo = "custom_popup" => PopupClaims
  /\ KeyGoesTo = "modal.game_escape" => GameClaims
  /\ KeyGoesTo = "post_round.escape" => RecapClaims
<1>. DEFINE T == {"focus_nav", "mode.escape", "root.escape", "custom_popup", "post_round.escape",
                  "modal.keys", "modal.game_escape", "tutorial.key"}
            installs ==
              <<Handler("focus_nav", "BackgroundCatchAll"),
                Handler("mode.escape", "ScreenContext"), Handler("root.escape", "ScreenContext"),
                Handler("custom_popup", "ModalLayer"), Handler("post_round.escape", "ScreenContext"),
                Handler("modal.keys", "ModalLayer"), Handler("modal.game_escape", "ScreenContext"),
                Handler("tutorial.key", "TutorialOverlay")>>
            Layers == {"TutorialOverlay", "ModalLayer", "ScreenContext", "BackgroundCatchAll"}
<1>1. \A tag \in T, layer \in Layers : Handler(tag, layer) \in Handlers(T)
  BY DEF Handler, HandlerPriority, Handlers
<1>2. installs \in Seq(Handlers(T))
  <2>1. /\ Handler("focus_nav", "BackgroundCatchAll") \in Handlers(T)
        /\ Handler("mode.escape", "ScreenContext") \in Handlers(T)
        /\ Handler("root.escape", "ScreenContext") \in Handlers(T)
        /\ Handler("custom_popup", "ModalLayer") \in Handlers(T)
        /\ Handler("post_round.escape", "ScreenContext") \in Handlers(T)
        /\ Handler("modal.keys", "ModalLayer") \in Handlers(T)
        /\ Handler("modal.game_escape", "ScreenContext") \in Handlers(T)
        /\ Handler("tutorial.key", "TutorialOverlay") \in Handlers(T)
    BY <1>1
  <2>. QED
    BY <2>1
<1>3. KeyGoesTo = Dispatch(InstalledInOrder(installs), Claims)
  BY DEF KeyGoesTo, KeyHandlers
<1>. HIDE DEF installs
<1>4. KeyGoesTo = "None" \/ KeyGoesTo \in Claims
  BY <1>2, <1>3, KeyGoesToTheNewestOnTop
<1>. QED
  BY <1>4 DEF Claims

----------------------------------------------------------------------------
(* The controls of the panels. *)

\* A control that leaves one of some states of the panels.
LEMMA OneOfStep ==
  ASSUME Core, Around, NEW us, \A u \in us : Fits(u), OneOf(us)
  PROVE  Core'
<1>1. PICK u \in us : Only(u)
  BY DEF OneOf
<1>2. UNCHANGED <<watch, popup>> /\ fallback' \in BOOLEAN
  BY DEF Around, Core, Typed
<1>. QED
  BY <1>1, <1>2, OnlyStep

\* A control that closes the panel.
LEMMA CloseStep ==
  ASSUME Core, Around, NEW u, Fits(u), Only(CloseModal(u))
  PROVE  Core'
<1>1. Fits(CloseModal(u))
  BY FitsClose
<1>2. UNCHANGED <<watch, popup>> /\ fallback' \in BOOLEAN
  BY DEF Around, Core, Typed
<1>. QED
  BY <1>1, <1>2, OnlyStep

\* Settings.
LEMMA SettingsStep ==
  ASSUME Core, Around, NEW u, Fits(u), TopModal(u) = "Settings", NEW rows,
         SettingsControls(u, rows)
  PROVE  Core'
<1>1. CASE OneOf(SettingsOpens(u) \cup AccountRows(u, rows))
  <2>1. \A w \in SettingsOpens(u) \cup AccountRows(u, rows) : Fits(w)
    BY FitsSettings
  <2>. QED
    BY <1>1, <2>1, OneOfStep
<1>2. CASE Change(u)
  BY <1>2, ChangeStep
<1>3. CASE LeaveAccount(u)
  BY <1>3, AccountStep
<1>. QED
  BY <1>1, <1>2, <1>3 DEF SettingsControls

\* The confirmation: what it was opened for is still possible when Yes is pressed.
LEMMA ConfirmStep ==
  ASSUME Core, Around, NEW u, Fits(u), TopModal(u) = "Confirm", ConfirmControls(u)
  PROVE  Core'
<1>. DEFINE v == CloseModal(u)
<1>1. Fits(v) /\ (~astray => v.confirm = "None")
  BY FitsClose
<1>2. CASE Only(v)
  BY <1>2, CloseStep
<1>3. ASSUME Confirmed(v, u.confirm) PROVE Core'
  <2>. HIDE DEF v
  <2>1. PanelState(u) /\ u.modals # <<>> /\ TopModal(u) = u.modals[Len(u.modals)]
        /\ Len(u.modals) \in 1 .. Len(u.modals)
    <3>1. PanelState(u)
      BY DEF Fits
    <3>2. TopModal(u) # "None"
      OBVIOUS
    <3>. QED
      BY <3>1, <3>2, StackFacts
  <2>2. ~astray => Allowed(u, popup, screen, lesson.phase, complete) /\ Completed
    BY DEF Fits, Core, InStep
  <2>3. CASE u.confirm = "Leave" /\ Cut(v, "ModeSelection")
    <3>1. ~astray => screen = "Game"
      BY <2>2, <2>3 DEF Allowed
    <3>. QED
      BY <1>1, <2>3, <3>1, CutStep
  <2>4. CASE SkipTutorial(v)
    <3>1. ~astray => lesson.phase # "Complete"
      <4>1. u.modals[Len(u.modals)] \notin {"Auth", "Doc"}
        BY <2>1
      <4>. QED
        BY <2>1, <2>2, <4>1 DEF Allowed
    <3>2. ~astray => complete = "Never"
      BY <2>1, <2>2, <3>1 DEF Allowed, Completed
    <3>. QED
      BY <1>1, <2>4, <3>1, <3>2, SkipStep
  <2>5. CASE LeaveAccount(v)
    BY <1>1, <2>5, AccountStep
  <2>6. CASE /\ u.confirm \in {"ResetAll", "ResetSection"}
             /\ \E value \in IF u.confirm = "ResetAll" THEN {"own"} ELSE {settings.live, "own"} :
                  settings' = SettingChanged(settings, value)
             /\ ui' = v
             /\ UNCHANGED <<member, lesson, play, astray>>
    <3>1. Change(v)
      BY <2>6 DEF Change
    <3>. QED
      BY <1>1, <3>1, ChangeStep
  <2>7. CASE Only(v)
    BY <2>7, CloseStep DEF v
  <2>. QED
    BY <1>3, <2>3, <2>4, <2>5, <2>6, <2>7 DEF Confirmed
<1>. QED
  BY <1>2, <1>3 DEF ConfirmControls

\* Help, which starts the tutorial.
LEMMA HelpStep ==
  ASSUME Core, Around, NEW u, Fits(u), TopModal(u) = "Help", NEW locked, HelpControls(u, locked)
  PROVE  Core'
<1>1. CASE Only(CloseModal(u))
  BY <1>1, CloseStep
<1>2. CASE StartTutorial(CloseModal(u))
  <2>1. Fits(CloseModal(u))
    BY FitsClose
  <2>2. ~astray => popup = "Closed" /\ complete = "Never" /\ lesson.phase # "Complete"
    <3>. HAVE ~astray
    <3>1. /\ popup = "Closed" /\ (complete # "Never" => lesson.phase # "Inactive")
          /\ lesson.phase # "Complete"
      BY UnderPanel
    <3>2. Completed
      BY DEF Core, InStep
    <3>. QED
      BY <3>1, <3>2 DEF Completed
  <2>. QED
    BY <1>2, <2>1, <2>2, StartStep
<1>. QED
  BY <1>1, <1>2 DEF HelpControls

\* The forms of the account.
LEMMA AuthStep ==
  ASSUME Core, Around, NEW u, Fits(u), TopModal(u) = "Auth", NEW stops, AuthControls(u, stops)
  PROVE  Core'
<1>1. CASE OneOf(FormLinks(u, stops))
  <2>1. \A w \in FormLinks(u, stops) : Fits(w)
    BY FitsForm
  <2>. QED
    BY <1>1, <2>1, OneOfStep
<1>2. CASE Only(u)
  BY <1>2, OnlyStep DEF Around, Core, Typed
<1>3. CASE SubmitForm(u) /\ ~Only(u)
  <2>1. /\ ui' = CloseModal(u) /\ member' = TRUE /\ UNCHANGED <<lesson, play, astray>>
        /\ \E row \in {"own", "forced"} :
             settings' = SettingsReloaded([settings EXCEPT !.stored = row])
    <3>1. settings.stored \in {"own", "forced"}
      BY DEF Core, Typed, ForcedSettings
    <3>. QED
      BY <1>3, <3>1 DEF SubmitForm
  <2>2. /\ settings' \in ForcedSettings /\ settings'.on = settings.on
        /\ settings'.stored = "own" => settings'.live = "own"
    BY <2>1 DEF SettingsReloaded, Core, Typed, ForcedSettings
  <2>3. Fits(CloseModal(u))
    BY FitsClose
  <2>4. /\ UNCHANGED <<lesson, play, watch, popup>> /\ member' \in BOOLEAN /\ fallback' \in BOOLEAN
        /\ astray' \in BOOLEAN /\ (astray => astray') /\ PanelState(ui') /\ (~astray' => Fits(ui'))
    BY <2>1, <2>3 DEF Around, Core, Typed, Fits
  <2>. QED
    BY <2>2, <2>4, PanelStep
<1>. QED
  BY <1>1, <1>2, <1>3 DEF AuthControls, SubmitForm

\* The board, without its report panel.
LEMMA BoardStep ==
  ASSUME Core, Around, NEW u, Fits(u), TopModal(u) = "Leaderboard", BoardControls(u)
  PROVE  Core'
<1>1. CASE OneOf({SwapTo(u, "Shop"), OpenReport(u)})
  <2>1. \A w \in {SwapTo(u, "Shop"), OpenReport(u)} : Fits(w)
    BY FitsSwap, FitsReport
  <2>. QED
    BY <1>1, <2>1, OneOfStep
<1>2. CASE OneOf(YourRowSignsIn(u))
  <2>1. \A w \in YourRowSignsIn(u) : Fits(w)
    BY FitsYourRow
  <2>. QED
    BY <1>2, <2>1, OneOfStep
<1>3. CASE Change(u)
  BY <1>3, ChangeStep
<1>. QED
  BY <1>1, <1>2, <1>3 DEF BoardControls

\* Serving the report panel's requests never breaks the panels' types.
LEMMA ServedState ==
  ASSUME NEW u, PanelState(u), NEW w \in ServeReport(u)
  PROVE  PanelState(w)
<1>. DEFINE x == [u EXCEPT !.report = FALSE, !.closing = FALSE, !.submitting = FALSE]
<1>0. "Leaderboard" \in ListNames
  BY DEF ListNames, PanelIds
<1>1. PanelState(x)
  BY DEF PanelState, Panelled
<1>2. CloseReport(u) = Relaid(x, "Leaderboard")
  BY DEF CloseReport
<1>. HIDE DEF x
<1>3. PanelState(CloseReport(u))
  BY <1>0, <1>1, <1>2, RelaidDoes
<1>4. PanelState([u EXCEPT !.submitting = FALSE])
  BY DEF PanelState, Panelled
<1>5. w \in {CloseReport(u), [u EXCEPT !.submitting = FALSE], u}
  BY DEF ServeReport
<1>. QED
  BY <1>3, <1>4, <1>5

\* The board in a frame.
LEMMA BoardDrawnStep ==
  ASSUME Core, Around, NEW u, Fits(u), TopModal(u) = "Leaderboard", BoardIsDrawn(u)
  PROVE  Core'
<1>0. member \in BOOLEAN
  BY DEF Core, Typed
<1>1. ASSUME NEW v \in BoardClicks(u), NEW w \in ServeReport(v), ui' = w,
             astray' = (astray \/ (TopModal(v) # "Leaderboard" /\ w # v)),
             UNCHANGED <<member, tour, play>>
      PROVE  Core'
  <2>1. CASE v \in YourRowSignsIn(u)
    <3>1. Fits(v)
      BY <2>1, FitsYourRow
    <3>2. PanelState(w)
      BY <3>1, ServedState DEF Fits
    <3>3. ~astray' => Fits(w)
      BY <1>1, <3>1, FitsServed
    <3>. QED
      <4>1. /\ UNCHANGED <<lesson, play, watch, popup>> /\ fallback' \in BOOLEAN /\ member' \in BOOLEAN
            /\ settings' \in ForcedSettings /\ settings'.on = settings.on /\ settings' = settings
            /\ astray' \in BOOLEAN /\ (astray => astray')
        BY <1>1 DEF Around, Core, Typed, tour
      <4>. QED
        BY <1>1, <3>2, <3>3, <4>1, PanelStep
  <2>2. CASE v \notin YourRowSignsIn(u)
    <3>1. v \in {[u EXCEPT !.closing = TRUE], [u EXCEPT !.submitting = member], OpenReport(u)}
      BY <2>2 DEF BoardClicks
    <3>2. Fits(v) /\ TopModal(v) = "Leaderboard"
      BY ZenonT(40), <1>0, <3>1, FitsFlags, FitsReport
    <3>3. Fits(w)
      BY <3>2, FitsServed
    <3>4. Only(w)
      BY <1>0, <1>1, <3>2 DEF Only, Core, Typed
    <3>. QED
      BY <3>3, <3>4, OnlyStep DEF Around, Core, Typed
  <2>. QED
    BY <2>1, <2>2
<1>2. ASSUME NEW w \in ServeReport(u), NEW us,
             us \subseteq {[w EXCEPT !.fresh = @ /\ click # "None"], SwapTo(w, "Shop"), CloseModal(w)},
             OneOf(us)
      PROVE  Core'
  <2>1. Fits(w) /\ TopModal(w) = "Leaderboard"
    BY FitsServed
  <2>2. w.fresh \in BOOLEAN
    BY <2>1 DEF Fits, PanelState, Panelled
  <2>3. Fits([w EXCEPT !.fresh = @ /\ click # "None"])
    <3>1. (w.fresh /\ click # "None") \in BOOLEAN
      OBVIOUS
    <3>. QED
      BY <2>1, <3>1, FitsFlags
  <2>4. Fits(SwapTo(w, "Shop")) /\ Fits(CloseModal(w))
    BY <2>1, FitsSwap, FitsClose
  <2>. QED
    BY <1>2, <2>3, <2>4, OneOfStep
<1>3. ASSUME NEW w \in ServeReport(u), Change(w) PROVE Core'
  BY <1>3, FitsServed, ChangeStep
<1>. QED
  <2>1. CASE \E v \in BoardClicks(u) : \E w \in ServeReport(v) :
               /\ ui' = w
               /\ astray' = (astray \/ (TopModal(v) # "Leaderboard" /\ w # v))
               /\ UNCHANGED <<member, tour, play>>
    BY <1>1, <2>1
  <2>2. CASE \E w \in ServeReport(u) :
               OneOf({[w EXCEPT !.fresh = @ /\ click # "None"]}
                       \cup (IF click = "Leaderboard" THEN {SwapTo(w, "Shop"), CloseModal(w)} ELSE {})
                       \cup (IF click = "Outside" /\ ~w.fresh THEN {CloseModal(w)} ELSE {}))
    BY <1>2, <2>2
  <2>3. CASE \E w \in ServeReport(u) : Change(w)
    BY <1>3, <2>3
  <2>. QED
    BY <2>1, <2>2, <2>3 DEF BoardIsDrawn

\* The other panels in a frame, once they are served.
LEMMA PanelDrawnStep ==
  ASSUME Core, Around, NEW u, Fits(u), TopModal(u) \in PanelIds \ {"Leaderboard", "Fallback"},
         PanelIsDrawn(u)
  PROVE  Core'
<1>1. CASE Only([u EXCEPT !.fresh = @ /\ click # "None"])
  <2>1. (u.fresh /\ click # "None") \in BOOLEAN
    OBVIOUS
  <2>2. Fits([u EXCEPT !.fresh = @ /\ click # "None"])
    BY <2>1, FitsFlags
  <2>. QED
    BY <1>1, <2>2, OnlyStep DEF Around, Core, Typed
<1>2. CASE Only(CloseModal(u))
  BY <1>2, CloseStep
<1>3. CASE PanelControls(u)
  <2>1. CASE TopModal(u) = "Settings"
    BY <1>2, <1>3, <2>1, SettingsStep DEF PanelControls
  <2>2. CASE TopModal(u) = "Section"
    <3>1. OneOf({CloseModal(u), SectionReset(u)})
      BY <1>3, <2>2 DEF PanelControls
    <3>2. \A w \in {CloseModal(u), SectionReset(u)} : Fits(w)
      BY <2>2, FitsClose, FitsSection
    <3>. QED
      BY <3>1, <3>2, OneOfStep
  <2>3. CASE TopModal(u) = "Doc"
    <3>. DEFINE us == {CloseModal(u)} \cup IF u.doc = "About" THEN {} ELSE {RequestDocSwitch(u)}
    <3>1. OneOf(us)
      BY <1>3, <2>3 DEF PanelControls
    <3>2. \A w \in us : Fits(w)
      BY FitsClose, FitsFlags
    <3>. QED
      BY <3>1, <3>2, OneOfStep
  <2>4. CASE TopModal(u) = "Auth"
    BY <1>2, <1>3, <2>4, AuthStep DEF PanelControls
  <2>5. CASE TopModal(u) = "Shop"
    <3>1. OneOf({CloseModal(u), SwapTo(u, "Leaderboard")})
      BY <1>3, <2>5 DEF PanelControls
    <3>2. \A w \in {CloseModal(u), SwapTo(u, "Leaderboard")} : Fits(w)
      BY <2>5, FitsClose, FitsSwap
    <3>. QED
      BY <3>1, <3>2, OneOfStep
  <2>6. CASE TopModal(u) = "Help"
    BY <1>3, <2>6, HelpStep DEF PanelControls
  <2>7. CASE TopModal(u) = "Confirm"
    BY <1>3, <2>7, ConfirmStep DEF PanelControls
  <2>. QED
    BY <2>1, <2>2, <2>3, <2>4, <2>5, <2>6, <2>7 DEF PanelIds
<1>. QED
  BY <1>1, <1>2, <1>3 DEF PanelIsDrawn

----------------------------------------------------------------------------
(* Input between frames. *)

\* What is known when an input is taken.
LEMMA Received ==
  ASSUME Core, Receive
  PROVE  /\ ~astray /\ InStep /\ Fits(ui) /\ PanelState(ui)
         /\ complete # "Never" => lesson.phase # "Inactive"
         /\ NoModal => ui.modals = <<>> /\ ui.confirm = "None"
         /\ Running(lesson) => lesson.phase = "Active" /\ complete = "Never"
         /\ screen # "ModeSelection" => popup = "Closed"
         /\ screen # "TutorialComplete" => lesson.phase # "Complete" /\ complete = "Never"
<1>1. ~astray /\ (complete # "Never" => lesson.phase # "Inactive")
  BY DEF Receive, Derailed
<1>2. InStep /\ PanelState(ui)
  BY <1>1 DEF Core, Typed
<1>3. NoModal => ui.modals = <<>>
  BY DEF NoModal, IsAnyModalOpen
<1>4. Running(lesson) => complete = "Never"
  BY <1>2, CoreFits DEF InStep, Completed
<1>5. screen # "ModeSelection" => popup = "Closed"
  BY <1>2 DEF InStep, PopupOnMode
<1>6. screen # "TutorialComplete" => lesson.phase # "Complete" /\ complete = "Never"
  BY <1>1, <1>2 DEF InStep, Completed
<1>. QED
  BY <1>1, <1>2, <1>3, <1>4, <1>5, <1>6, CoreFits

\* An input that reaches the screen finds no panel, no question and no prompt.
LEMMA ReachedFacts ==
  ASSUME Core, NEW s, NEW spots, Reaches(s, spots)
  PROVE  /\ Receive /\ ui.modals = <<>> /\ ui.confirm = "None" /\ screen = s
         /\ Running(lesson) => Advance(lesson) \in spots
         /\ lesson.phase # "Prompt"
<1>1. /\ Receive /\ NoModal /\ screen = s
      /\ lesson.phase \in {"Inactive", "Complete"} \/ (Running(lesson) /\ Advance(lesson) \in spots)
  BY DEF Reaches
<1>. QED
  BY <1>1, Received, CoreFits DEF Running, IsActive

\* A panel opened over the screen.
LEMMA OpensHere ==
  ASSUME Core, NEW id \in Bottoms, ui.modals = <<>>,
         ~astray => /\ popup = "Closed" /\ screen # "TutorialComplete"
                    /\ complete # "Never" => lesson.phase # "Inactive"
  PROVE  Fits(OpenModal(ui, id))
<1>1. ~astray => Opens(ui, id)
  BY DEF Opens, Core, InStep, Completed
<1>2. Fits(ui) /\ id \in PanelIds
  BY CoreFits DEF Bottoms
<1>. QED
  BY <1>1, <1>2, FitsOpen

\* Both answers to the prompt of the tutorial keep the core.
LEMMA AnswerPromptStep ==
  ASSUME Core, AnswerPrompt
  PROVE  Core'
<1>1. Receive /\ lesson.phase = "Prompt" /\ Around
  BY DEF AnswerPrompt, Handled, Around
<1>2. InStep /\ Fits(ui)
  BY <1>1, Received
<1>3. CASE StartTutorial(ui)
  <2>1. popup = "Closed" /\ complete = "Never" /\ lesson.phase # "Complete"
    BY <1>1, <1>2 DEF InStep, Morphing, PopupOnMode, Completed
  <2>. QED
    BY <1>1, <1>2, <1>3, <2>1, StartStep
<1>4. CASE lesson' = DismissPrompt(lesson) /\ UNCHANGED <<panels, settings, play, astray>>
  BY <1>1, <1>4, DismissStep
<1>. QED
  BY <1>3, <1>4 DEF AnswerPrompt

\* Asking to skip the tutorial opens its confirm dialog and keeps the core.
LEMMA AskToSkipStep ==
  ASSUME Core, AskToSkip
  PROVE  Core'
<1>1. /\ Receive /\ Running(lesson) /\ KeyGoesTo = "tutorial.key"
      /\ Only(OpenConfirm(ui, "Skip")) /\ UNCHANGED <<watch, popup, fallback>>
  BY DEF AskToSkip
<1>2. lesson.phase = "Active" /\ NoModal
  BY <1>1, Received, KeyTaken DEF TutorialClaims
<1>3. "Skip" \in Confirms
  BY DEF Confirms
<1>4. Fits(OpenConfirm(ui, "Skip"))
  BY <1>1, <1>2, <1>3, Received, FitsConfirm
<1>5. fallback' \in BOOLEAN
  BY <1>1 DEF Core, Typed
<1>. QED
  BY <1>1, <1>4, <1>5, OnlyStep

\* Next and Previous keep the core.
LEMMA CursorSteps ==
  ASSUME Core, NextStep \/ PreviousStep
  PROVE  Core'
<1>1. /\ Receive /\ Running(lesson) /\ Around
      /\ UNCHANGED <<panels, settings, play, astray>>
  BY DEF NextStep, PreviousStep, Handled, Around
<1>2. lesson \in Lesson
  BY DEF Core, Typed
<1>3. CASE NextStep
  <2>1. Advance(lesson) \in {"Next", "MathStage1", "MathStage2"} /\ lesson' = AdvanceCursor(lesson)
    BY <1>3 DEF NextStep
  <2>2. /\ lesson' \in Lesson /\ lesson'.phase = lesson.phase /\ lesson'.shown = lesson.shown
        /\ Running(lesson') => Follows(Script[lesson.cursor], Script[lesson'.cursor])
    BY <1>1, <1>2, <2>1, AdvanceCursorMoves
  <2>3. Script[lesson.cursor].advance \notin DOMAIN Destination
    BY <2>1 DEF Advance, Destination
  <2>4. Running(lesson') => Script[lesson'.cursor].at = Script[lesson.cursor].at
    BY <2>2, <2>3 DEF Follows
  <2>. QED
    BY <1>1, <2>1, <2>2, <2>4, CursorStep
<1>4. CASE PreviousStep
  <2>1. PreviousAvailable(lesson) /\ lesson' = StepBack(lesson)
    BY <1>4 DEF PreviousStep
  <2>2. Advance(lesson) = "Next"
    BY <2>1 DEF PreviousAvailable
  <2>3. /\ lesson' \in Lesson /\ lesson'.phase = lesson.phase /\ lesson'.shown = lesson.shown
        /\ Running(lesson') => Script[lesson'.cursor].at = Script[lesson.cursor].at
    BY <1>1, <1>2, <2>1, StepBackMoves
  <2>. QED
    BY <1>1, <2>2, <2>3, CursorStep
<1>. QED
  BY <1>3, <1>4

\* The scripted actions of the tutorial keep the core.
LEMMA ScriptedAdvanceStep ==
  ASSUME Core, ScriptedAdvance
  PROVE  Core'
<1>1. Receive /\ Running(lesson) /\ NoModal /\ Around
  BY DEF ScriptedAdvance, Handled, Around
<1>2. ui.modals = <<>> /\ InStep /\ Fits(ui) /\ complete = "Never" /\ lesson.phase = "Active"
  BY <1>1, Received
<1>3. lesson \in Lesson
  BY DEF Core, Typed
<1>4. CASE /\ Advance(lesson) \in ModalExplores \cup {"LeaderboardExplore"}
           /\ Only(OpenModal(ui, SpotPanel(Advance(lesson))))
  <2>. DEFINE id == SpotPanel(Advance(lesson))
  <2>1. id \in Bottoms
    BY <1>4 DEF SpotPanel, ModalExplores, Bottoms, PanelIds
  <2>2. Advance(lesson) # "CustomExplore"
    BY <1>4 DEF ModalExplores
  <2>3. popup = "Closed"
    BY <1>1, <1>2, <2>2 DEF InStep, PopupOnMode
  <2>4. screen # "TutorialComplete"
    BY <1>2 DEF InStep, Completed
  <2>. HIDE DEF id
  <2>5. Fits(OpenModal(ui, id))
    BY <1>2, <2>1, <2>3, <2>4, OpensHere
  <2>6. Only(OpenModal(ui, id)) /\ UNCHANGED <<watch, popup>> /\ fallback' \in BOOLEAN
    BY <1>1, <1>4 DEF id, Around, Core, Typed
  <2>. QED
    BY <2>5, <2>6, OnlyStep
<1>5. CASE Advance(lesson) = "LaunchCaller" /\ RequestLaunch(ui, FALSE)
  <2>1. AtHome(Script[lesson.cursor]) /\ Advance(lesson) = Script[lesson.cursor].advance
    BY <1>1, <1>3, RunningStep
  <2>2. screen \in {"ModeSelection", "Game", "PostRound"}
    BY <1>1, <1>2, <1>5, <2>1 DEF InStep, OnScript, AtHome, Destination
  <2>3. PanelState(ui) /\ UNCHANGED <<watch, fallback>> /\ popup' = popup
    BY <1>1 DEF Around, Core, Typed
  <2>4. Layered(ui, popup') /\ Allowed(ui, popup', screen, lesson.phase, complete)
    BY <1>2, <2>3 DEF InStep
  <2>. QED
    BY <1>2, <1>5, <2>2, <2>3, <2>4, LaunchStep
<1>6. CASE Advance(lesson) \in {"LaunchAggressor", "FinishTutorial"} /\ CommitAgain
  BY <1>1, <1>2, <1>6, AgainStep
<1>. QED
  BY <1>4, <1>5, <1>6 DEF ScriptedAdvance

\* Morphs, and the panels of Root.
LEMMA RootSteps ==
  ASSUME Core, StartMorph \/ OpenRootPanel \/ GoHomeFromMode
  PROVE  Core'
<1>1. CASE StartMorph
  <2>1. Reaches("Root", {"PlayMorph"})
    BY <1>1 DEF StartMorph
  <2>2. screen = "Root" /\ (Running(lesson) => Advance(lesson) = "PlayMorph")
    BY <2>1, ReachedFacts
  <2>3. lesson.phase # "Prompt"
    BY <2>1, ReachedFacts
  <2>. QED
    BY <1>1, <2>2, <2>3, MorphStep DEF StartMorph
<1>2. CASE OpenRootPanel
  <2>1. PICK id \in {"Settings", "Shop", "Help"} :
          /\ Reaches("Root", {kind \in ModalExplores \cup {"LeaderboardExplore"} : SpotPanel(kind) = id})
          /\ Only(OpenModal(ui, id))
    BY <1>2 DEF OpenRootPanel
  <2>2. Receive /\ ui.modals = <<>> /\ screen = "Root"
    BY <2>1, ReachedFacts
  <2>3. id \in Bottoms
    BY DEF Bottoms, PanelIds
  <2>4. popup = "Closed" /\ (complete # "Never" => lesson.phase # "Inactive")
    BY <2>2, Received
  <2>5. Fits(OpenModal(ui, id))
    BY <2>2, <2>3, <2>4, OpensHere
  <2>6. UNCHANGED <<watch, popup>> /\ fallback' \in BOOLEAN
    BY <1>2 DEF OpenRootPanel, Handled, Core, Typed
  <2>. QED
    BY <2>1, <2>5, <2>6, OnlyStep
<1>3. CASE GoHomeFromMode
  <2>1. Reaches("ModeSelection", {})
    BY <1>3 DEF GoHomeFromMode
  <2>2. ~Running(lesson)
    BY <2>1, ReachedFacts
  <2>. QED
    BY <1>3, <2>2, MorphStep DEF GoHomeFromMode
<1>. QED
  BY <1>1, <1>2, <1>3

\* Mode Selection and its popup.
LEMMA ModeSteps ==
  ASSUME Core, LaunchMode \/ OpenCustomPopup \/ EscapePopup \/ PressPopupControl
  PROVE  Core'
<1>1. CASE LaunchMode
  <2>1. Reaches("ModeSelection", {}) /\ popup = "Closed" /\ RequestLaunch(ui, FALSE) /\ Handled
    BY <1>1 DEF LaunchMode
  <2>2. Receive /\ screen = "ModeSelection" /\ ~Running(lesson)
    BY <2>1, ReachedFacts
  <2>3. InStep /\ complete = "Never"
    BY <2>2, Received
  <2>4. PanelState(ui) /\ UNCHANGED <<watch, fallback>> /\ popup' = popup
    BY <2>1 DEF Handled, Core, Typed
  <2>5. Layered(ui, popup') /\ Allowed(ui, popup', screen, lesson.phase, complete)
    BY <2>3, <2>4 DEF InStep
  <2>. QED
    BY <2>1, <2>2, <2>3, <2>4, <2>5, LaunchStep
<1>2. CASE OpenCustomPopup
  <2>1. /\ Reaches("ModeSelection", {"CustomExplore"}) /\ popup = "Closed"
        /\ popup' = "Opening" /\ Only(PushContext(ui, "Popup")) /\ UNCHANGED <<watch, fallback>>
    BY <1>2 DEF OpenCustomPopup
  <2>2. /\ Receive /\ ui.modals = <<>> /\ screen = "ModeSelection"
        /\ Running(lesson) => Advance(lesson) = "CustomExplore"
    BY <2>1, ReachedFacts
  <2>3. complete # "Never" => lesson.phase # "Inactive"
    BY <2>2, Received
  <2>. QED
    BY <2>1, <2>2, <2>3, PopupOpensStep
<1>3. CASE EscapePopup
  BY <1>3, KeyTaken, PopupClosesStep DEF EscapePopup, PopupClaims
<1>4. CASE PressPopupControl
  BY <1>4, KeyTaken, PopupControlStep DEF PressPopupControl, PopupClaims
<1>. QED
  BY <1>1, <1>2, <1>3, <1>4

\* The icons over Mode Selection, Game and Post-Round.
LEMMA ClusterStep ==
  ASSUME Core, Around, ui.modals = <<>>, screen \in {"ModeSelection", "Game", "PostRound"},
         OneOf(ClusterPanels),
         ~astray => popup = "Closed" /\ (complete # "Never" => lesson.phase # "Inactive")
  PROVE  Core'
<1>1. ASSUME NEW id \in {"Settings", "Shop", "Help"} PROVE Fits(OpenModal(ui, id))
  <2>1. id \in Bottoms
    BY DEF Bottoms, PanelIds
  <2>. QED
    BY <2>1, OpensHere
<1>2. ASSUME screen = "Game" PROVE Fits(OpenConfirm(ui, "Leave"))
  <2>1. "Leave" \in Confirms
    BY DEF Confirms
  <2>2. Fits(ui) /\ (~astray => lesson.phase # "Complete")
    BY <1>2, CoreFits DEF Core, InStep, Completed
  <2>. QED
    BY <1>2, <2>1, <2>2, FitsConfirm
<1>3. \A u \in ClusterPanels : Fits(u)
  BY <1>1, <1>2 DEF ClusterPanels
<1>. QED
  BY <1>3, OneOfStep

\* Answers are handed in.
LEMMA SubmitStep ==
  ASSUME Core, SubmitAnswers
  PROVE  Core'
<1>1. /\ Reaches("Game", {"MathSubmit", "MathTiers234"})
      /\ recapFresh' = TRUE /\ ui' = ui /\ screen' = "PostRound"
      /\ astray' = (astray \/ Missed("PostRound") \/ OffScript("PostRound") \/ (pending /\ "PostRound" # screen))
      /\ UNCHANGED <<member, lesson, settings, assets, pending>>
      /\ UNCHANGED <<observed, entered, morph, complete, popup, fallback>>
  BY DEF SubmitAnswers, Cut, EnterScreen, tour
<1>2. /\ Receive /\ ui.modals = <<>> /\ ui.confirm = "None" /\ screen = "Game"
      /\ Running(lesson) => Advance(lesson) \in {"MathSubmit", "MathTiers234"}
  BY <1>1, ReachedFacts
<1>3. InStep /\ popup = "Closed" /\ complete = "Never" /\ lesson.phase # "Complete"
  BY <1>2, Received
<1>4. Typed'
  BY <1>1 DEF Core, Typed, Screens
<1>5. ForcingEndsWithTheLesson'
  BY <1>1 DEF Core, ForcingEndsWithTheLesson
<1>6. ASSUME ~astray' PROVE InStep'
  <2>1. ~pending
    BY <1>1, <1>2, <1>6
  <2>2. Layered(ui', popup') /\ Allowed(ui', popup', screen', lesson'.phase, complete')
    BY <1>1, <1>2, <1>3 DEF InStep, Allowed
  <2>3. Based'
    BY <1>1, <1>2, <1>3 DEF InStep, Based, Core, Typed
  <2>4. OnScript'
    BY <1>1, <1>2 DEF OnScript, Destination
  <2>5. PopupOnMode' /\ Completed' /\ Waiting' /\ Morphing'
    BY <1>1, <1>2, <1>3, <2>1 DEF InStep, PopupOnMode, Completed, Waiting, Morphing
  <2>. QED
    BY <2>2, <2>3, <2>4, <2>5 DEF InStep
<1>. QED
  BY <1>4, <1>5, <1>6 DEF Core

\* The hand.
LEMMA GameSteps ==
  ASSUME Core, PressClusterIcon \/ AskToLeave
  PROVE  Core'
<1>1. CASE PressClusterIcon
  <2>1. PICK s \in {"ModeSelection", "Game", "PostRound"}, spots \in {{}, {"MathTiers234"}} :
          Reaches(s, spots) /\ (s = "ModeSelection" => popup = "Closed")
    BY <1>1 DEF PressClusterIcon
  <2>2. Receive /\ ui.modals = <<>> /\ screen = s
    BY <2>1, ReachedFacts
  <2>3. popup = "Closed" /\ (complete # "Never" => lesson.phase # "Inactive")
    BY <2>1, <2>2, Received
  <2>4. Around /\ OneOf(ClusterPanels)
    BY <1>1 DEF PressClusterIcon, Handled, Around
  <2>. QED
    BY <2>2, <2>3, <2>4, ClusterStep
<1>2. CASE AskToLeave
  <2>1. Receive /\ NoModal /\ screen = "Game" /\ Around /\ Only(OpenConfirm(ui, "Leave"))
    BY <1>2, KeyTaken DEF AskToLeave, GameClaims, Handled, Around
  <2>2. /\ Fits(ui) /\ lesson.phase # "Complete" /\ (complete # "Never" => lesson.phase # "Inactive")
        /\ ui.modals = <<>> /\ popup = "Closed"
    BY <2>1, Received
  <2>3. Fits(OpenConfirm(ui, "Leave"))
    <3>1. "Leave" \in Confirms
      BY DEF Confirms
    <3>. QED
      BY <2>1, <2>2, <3>1, FitsConfirm
  <2>. QED
    BY <2>1, <2>3, OnlyStep DEF Around, Core, Typed
<1>. QED
  BY <1>1, <1>2

\* The recap.
LEMMA RecapSteps ==
  ASSUME Core, PressAgain \/ LeavePostRound \/ OpenClipboardFallback
  PROVE  Core'
<1>1. CASE PressAgain
  <2>1. Reaches("PostRound", {}) /\ CommitAgain /\ Around
    BY <1>1 DEF PressAgain, Handled, Around
  <2>2. ui.modals = <<>> /\ screen = "PostRound"
    BY <2>1, ReachedFacts
  <2>. QED
    BY <2>1, <2>2, AgainStep
<1>2. CASE LeavePostRound
  <2>1. PICK s \in {"Root", "ModeSelection"} : Cut(ui, s)
    BY <1>2 DEF LeavePostRound
  <2>2. Reaches("PostRound", {}) /\ Around
    BY <1>2 DEF LeavePostRound, Handled, Around
  <2>3. Receive /\ ui.confirm = "None" /\ screen = "PostRound" /\ ~Running(lesson)
    BY <2>2, ReachedFacts
  <2>4. Fits(ui)
    BY <2>3, Received
  <2>. QED
    BY <2>1, <2>2, <2>3, <2>4, CutStep
<1>3. CASE OpenClipboardFallback
  <2>. DEFINE w == OpenModal(ui, "Fallback")
              v == OpenFallback(ui)
  <2>1. Receive /\ NoModal /\ screen = "PostRound" /\ fallback' = TRUE /\ Only(v)
        /\ UNCHANGED <<watch, popup>>
    BY <1>3 DEF OpenClipboardFallback
  <2>2. /\ ui.modals = <<>> /\ popup = "Closed" /\ PanelState(ui)
        /\ complete # "Never" => lesson.phase # "Inactive"
    BY <2>1, Received
  <2>3. "Fallback" \in Bottoms /\ "Fallback" \in PanelIds /\ "Fallback" \in ListNames
    BY DEF Bottoms, PanelIds, ListNames
  <2>4. Fits(w)
    BY <2>1, <2>2, <2>3, OpensHere
  <2>5. PanelState(v)
    BY <2>2, <2>3, PushContextDoes, NotifyOpenedDoes DEF OpenFallback, Opened
  <2>6. w = [v EXCEPT !.fresh = TRUE]
    BY DEF OpenModal, OnOpen, ListFor, OpenFallback
  <2>. HIDE DEF v, w
  <2>7. v.contexts = w.contexts /\ v.modals = w.modals /\ v.registry = w.registry /\ v.confirm = w.confirm
    BY <2>5, <2>6 DEF PanelState, Panelled
  <2>8. Fits(v)
    BY <2>4, <2>5, <2>7, FitsSame
  <2>. QED
    BY <2>1, <2>8, OnlyStep
<1>. QED
  BY <1>1, <1>2, <1>3

\* The tutorial's last screen.
LEMMA CompleteStep ==
  ASSUME Core, PressCompleteButton
  PROVE  Core'
<1>1. Reaches("TutorialComplete", {}) /\ Around
  BY DEF PressCompleteButton, Handled, Around
<1>2. Receive /\ ui.modals = <<>> /\ screen = "TutorialComplete"
  BY <1>1, ReachedFacts
<1>3. CASE Only(OpenAuth(ui, "SignUp"))
  <2>1. /\ Fits(ui) /\ popup = "Closed" /\ (complete # "Never" => lesson.phase # "Inactive")
    BY <1>2, Received
  <2>2. Fits(OpenAuth(ui, "SignUp"))
    BY <1>2, <2>1, FitsAuth
  <2>. QED
    BY <1>1, <1>3, <2>2, OnlyStep DEF Around, Core, Typed
<1>4. CASE \E s \in {"ModeSelection", "Root"} : FinishTo(s)
  BY <1>1, <1>2, <1>4, FinishStep
<1>. QED
  BY <1>3, <1>4 DEF PressCompleteButton

\* The keys of the top panel.
LEMMA PanelKeySteps ==
  ASSUME Core,
         \/ EscapePanel \/ PressSettingsStop \/ PressSubmodalStop \/ PressAuthStop
         \/ PressBoardStop \/ PressShopStop \/ PressHelpStop \/ PressConfirmStop \/ PressForeignStop
  PROVE  Core'
<1>1. Around
  BY DEF EscapePanel, PressSettingsStop, PressSubmodalStop, PressAuthStop, PressBoardStop,
         PressShopStop, PressHelpStop, PressConfirmStop, PressForeignStop, Handled, Around
<1>2. Fits(ui)
  BY CoreFits
<1>3. UNCHANGED <<watch, popup>> /\ fallback' \in BOOLEAN
  BY <1>1 DEF Around, Core, Typed
<1>4. CASE Only(CloseModal(ui))
  BY <1>1, <1>2, <1>4, CloseStep
<1>5. CASE Only([ui EXCEPT !.closing = TRUE])
  BY <1>2, <1>3, <1>5, FitsFlags, OnlyStep
<1>6. CASE EscapePanel
  BY <1>4, <1>5, <1>6 DEF EscapePanel
<1>7. CASE PressSettingsStop
  BY <1>1, <1>2, <1>4, <1>7, SettingsStep DEF PressSettingsStop, Focused
<1>8. CASE PressSubmodalStop
  <2>1. \/ Only(CloseModal(ui)) \/ (TopModal(ui) = "Section" /\ Only(SectionReset(ui)))
        \/ Only(RequestDocSwitch(ui))
    BY <1>8 DEF PressSubmodalStop, Focused
  <2>. QED
    BY <1>2, <1>3, <1>4, <2>1, FitsSection, FitsFlags, OnlyStep
<1>9. CASE PressAuthStop
  BY <1>1, <1>2, <1>4, <1>9, AuthStep DEF PressAuthStop, Focused
<1>10. CASE PressBoardStop
  <2>1. TopModal(ui) = "Leaderboard"
    BY <1>10 DEF PressBoardStop, Focused
  <2>2. \/ Only([ui EXCEPT !.closing = TRUE]) \/ Only([ui EXCEPT !.submitting = TRUE])
        \/ Only(CloseModal(ui)) \/ BoardControls(ui)
    BY <1>10 DEF PressBoardStop
  <2>3. Fits([ui EXCEPT !.submitting = TRUE])
    BY <1>2, FitsFlags
  <2>. QED
    BY <1>1, <1>2, <1>3, <1>4, <1>5, <2>1, <2>2, <2>3, BoardStep, OnlyStep
<1>11. CASE PressShopStop
  <2>1. OneOf({CloseModal(ui), SwapTo(ui, "Leaderboard")}) /\ TopModal(ui) = "Shop"
    BY <1>11 DEF PressShopStop, Focused
  <2>2. \A w \in {CloseModal(ui), SwapTo(ui, "Leaderboard")} : Fits(w)
    BY <1>2, <2>1, FitsClose, FitsSwap
  <2>. QED
    BY <1>1, <2>1, <2>2, OneOfStep
<1>12. CASE PressHelpStop
  BY <1>1, <1>2, <1>12, HelpStep DEF PressHelpStop, Focused
<1>13. CASE PressConfirmStop
  BY <1>1, <1>2, <1>13, ConfirmStep DEF PressConfirmStop, Focused
<1>14. CASE PressForeignStop
  BY <1>4, <1>14 DEF PressForeignStop
<1>. QED
  BY <1>6, <1>7, <1>8, <1>9, <1>10, <1>11, <1>12, <1>13, <1>14

\* Any input.
LEMMA InputStep ==
  ASSUME Core, Input
  PROVE  Core'
  BY AnswerPromptStep, AskToSkipStep, CursorSteps, ScriptedAdvanceStep, RootSteps, ModeSteps,
     SubmitStep, GameSteps, RecapSteps, CompleteStep, PanelKeySteps DEF Input

----------------------------------------------------------------------------
(* The frame. *)

\* The types of the bookkeeping of the frame.
FrameTyped ==
  /\ stage \in {"Events", "Screen", "Tour", "Panel"}
  /\ inputs \in 0..MaxInputs
  /\ click \in {"None", "Outside", "Popup"} \cup PanelIds
  /\ drawn \subseteq PanelIds \cup {"Popup"}

\* The lists that a screen registers.
ScreenLists(s) == IF s = "TutorialComplete" THEN {"CompleteGuest", "CompleteMember"} ELSE {s}

\* What a part of the frame leaves for the next one.
StageRight ==
  /\ stage = "Screen" => ui.contexts[1] \in ScreenLists(screen)
  /\ stage = "Panel" /\ Running(lesson) => screen = Script[lesson.cursor].at
  /\ stage # "Events" => (pending => assets = "Pending")
  /\ stage \in {"Tour", "Panel"} => morph # "ToMode"

\* The invariant of the interface.
IInv == Core /\ FrameTyped /\ (~astray => StageRight)

\* The invariant holds when the program starts.
LEMMA InitIInv ==
  ASSUME Init
  PROVE  IInv
<1>1. /\ ui = NoPanel /\ member \in BOOLEAN
      /\ lesson = [phase |-> "Inactive", cursor |-> 1, seen |-> FALSE, shown |-> FALSE, hasSeen |-> FALSE]
      /\ settings = [live |-> "own", stored |-> "own", saved |-> "own", on |-> FALSE]
  BY DEF Init, TutorialInit, PanelInit
<1>2. lesson \in Lesson /\ ~Running(lesson)
  BY <1>1, ScriptFacts DEF Lesson, TutorialPhases, Running, IsActive
<1>3. settings \in ForcedSettings
  BY <1>1 DEF ForcedSettings
<1>4. ui.contexts = <<"None">> /\ ui.modals = <<>> /\ ui.confirm = "None"
  BY <1>1 DEF NoPanel
<1>5. PanelState(ui)
  <2>1. "None" \in ListNames
    BY DEF ListNames
  <2>2. <<"None">> \in Seq(ListNames) /\ <<>> \in Seq(PanelIds)
    BY <2>1
  <2>3. "None" \in Docs /\ <<"None">> # <<>>
    BY DEF Docs
  <2>. QED
    BY <1>1, <2>2, <2>3 DEF PanelState, Panelled, NoPanel
<1>6. Typed
  BY <1>1, <1>2, <1>3, <1>5 DEF Init, Typed, Screens
<1>7. ForcingEndsWithTheLesson
  BY <1>1 DEF ForcingEndsWithTheLesson
<1>8. Layered(ui, popup)
  <2>1. Len(ui.contexts) = 1 /\ Len(ui.modals) = 0 /\ TopModal(ui) = "None" /\ popup = "Closed"
    BY <1>4 DEF TopModal, Init
  <2>. QED
    BY <1>4, <2>1 DEF Layered, Nested, RegistryRight, Base
<1>9. Allowed(ui, popup, screen, lesson.phase, complete)
  BY <1>1, <1>4 DEF Allowed
<1>10. Based /\ PopupOnMode /\ Completed /\ OnScript /\ Waiting /\ Morphing
  BY <1>1, <1>2 DEF Init, Based, PopupOnMode, Completed, OnScript, Waiting, Morphing
<1>11. FrameTyped /\ StageRight
  BY InterfaceAssumption DEF Init, FrameTyped, StageRight
<1>. QED
  BY <1>6, <1>7, <1>8, <1>9, <1>10, <1>11 DEF IInv, Core, InStep

\* An input leaves the frame where it is.
LEMMA InputFrame ==
  ASSUME FrameTyped, Input
  PROVE  FrameTyped' /\ stage = "Events" /\ stage' = "Events"
<1>1. /\ stage = "Events" /\ inputs < MaxInputs /\ inputs' = inputs + 1
      /\ stage' = stage /\ drawn' = drawn
      /\ click' = click \/ click' = "Outside"
  <2>1. CASE AnswerPrompt \/ AskToSkip \/ NextStep \/ PreviousStep \/ ScriptedAdvance
    BY <2>1 DEF AnswerPrompt, AskToSkip, NextStep, PreviousStep, ScriptedAdvance,
                Receive, Handled, Untouched
  <2>2. CASE StartMorph \/ OpenRootPanel \/ LaunchMode \/ OpenCustomPopup \/ GoHomeFromMode
    BY <2>2 DEF StartMorph, OpenRootPanel, LaunchMode, OpenCustomPopup, GoHomeFromMode,
                Reaches, Receive, Handled, Untouched
  <2>3. CASE PressClusterIcon \/ AskToLeave \/ SubmitAnswers \/ PressAgain \/ LeavePostRound
    BY <2>3 DEF PressClusterIcon, AskToLeave, SubmitAnswers, PressAgain, LeavePostRound,
                Reaches, Receive, Handled, Untouched
  <2>4. CASE OpenClipboardFallback \/ PressCompleteButton \/ EscapePopup \/ PressPopupControl
    BY <2>4 DEF OpenClipboardFallback, PressCompleteButton, EscapePopup, PressPopupControl,
                Reaches, Receive, Handled, Untouched
  <2>5. CASE \/ EscapePanel \/ PressSettingsStop \/ PressSubmodalStop \/ PressAuthStop
             \/ PressBoardStop \/ PressShopStop \/ PressHelpStop \/ PressConfirmStop \/ PressForeignStop
    BY <2>5 DEF EscapePanel, PressSettingsStop, PressSubmodalStop, PressAuthStop, PressBoardStop,
                PressShopStop, PressHelpStop, PressConfirmStop, PressForeignStop, Focused,
                PanelTakesKeys, Receive, Handled, Untouched
  <2>. QED
    BY <2>1, <2>2, <2>3, <2>4, <2>5 DEF Input
<1>2. inputs' \in 0..MaxInputs
  BY <1>1, InterfaceAssumption DEF FrameTyped
<1>. QED
  BY <1>1, <1>2 DEF FrameTyped

\* Assets that arrive keep the invariant.
LEMMA AssetsStep ==
  ASSUME IInv, AssetsArrive
  PROVE  IInv'
<1>1. /\ UNCHANGED <<stage, inputs, click, drawn, observed, entered, morph, recapFresh, complete>>
      /\ UNCHANGED <<screen, pending, ui, member, lesson, settings, popup, fallback, astray>>
      /\ assets' = "Ready" /\ stage = "Events"
  BY DEF AssetsArrive, frame, watch, panels, tour
<1>2. Typed' /\ FrameTyped'
  BY <1>1 DEF IInv, Core, Typed, FrameTyped
<1>3. ForcingEndsWithTheLesson'
  BY <1>1 DEF IInv, Core, ForcingEndsWithTheLesson
<1>4. ASSUME ~astray' PROVE InStep' /\ StageRight'
  <2>1. InStep
    BY <1>1, <1>4 DEF IInv, Core
  <2>2. Layered(ui', popup') /\ Allowed(ui', popup', screen', lesson'.phase, complete') /\ Based'
    BY <1>1, <2>1 DEF InStep, Based
  <2>3. PopupOnMode' /\ Completed' /\ OnScript' /\ Waiting' /\ Morphing'
    BY <1>1, <2>1 DEF InStep, PopupOnMode, Completed, OnScript, Waiting, Morphing
  <2>4. StageRight'
    BY <1>1 DEF StageRight
  <2>. QED
    BY <2>2, <2>3, <2>4 DEF InStep
<1>. QED
  BY <1>2, <1>3, <1>4 DEF IInv, Core

\* A deferred launch fires.
LEMMA FireStep ==
  ASSUME Core, FireLaunch, observed' = screen,
         morph' = IF screen # observed /\ screen \notin {"Root", "ModeSelection"} THEN "None" ELSE morph,
         UNCHANGED <<assets, member, tour, popup, fallback>>
  PROVE  Core' /\ (~astray' => ~pending' /\ ui'.contexts[1] = screen')
<1>1. /\ pending /\ assets = "Ready" /\ screen' = "Game" /\ ui' = RegisterList(ui, "Game")
      /\ astray' = (astray \/ screen = "Game" \/ Len(ui.contexts) > 1)
      /\ pending' = FALSE /\ entered' = Watched /\ UNCHANGED <<recapFresh, complete>>
      /\ UNCHANGED <<assets, member, lesson, settings, popup, fallback>>
  BY DEF FireLaunch, LaunchIsDue, Perform, tour
<1>2. "Game" \in ListNames /\ PanelState(ui) /\ "Game" \in Screens
  BY DEF ListNames, Screens, Core, Typed
<1>3. PanelState(ui')
  BY <1>1, <1>2, RegisterListDoes
<1>4. Typed'
  BY <1>1, <1>2, <1>3 DEF Core, Typed, Watched
<1>5. ForcingEndsWithTheLesson'
  BY <1>1 DEF Core, ForcingEndsWithTheLesson
<1>6. ASSUME ~astray' PROVE InStep' /\ ~pending' /\ ui'.contexts[1] = screen'
  <2>1. InStep /\ ~(Len(ui.contexts) > 1)
    BY <1>1, <1>6 DEF Core
  <2>2. /\ popup = "Closed" /\ Layered(ui', popup') /\ ui'.modals = <<>> /\ ui'.confirm = "None"
        /\ ui'.contexts[1] = "Game"
    BY <1>1, <1>2, <2>1, LayeredRegister DEF InStep
  <2>3. screen \in {"ModeSelection", "Game", "PostRound"} /\ complete = "Never" /\ lesson.phase # "Complete"
    BY <1>1, <2>1 DEF InStep, Waiting, Completed
  <2>4. Allowed(ui', popup', screen', lesson'.phase, complete')
    BY <1>1, <2>2 DEF Allowed
  <2>5. Based'
    BY <1>1, <2>1, <2>2, <2>3 DEF InStep, Based, Watched, Core, Typed
  <2>6. PopupOnMode' /\ Completed' /\ Waiting'
    BY <1>1, <2>1, <2>2, <2>3 DEF InStep, PopupOnMode, Completed, Waiting
  <2>7. OnScript'
    BY <1>1, <2>1 DEF InStep, Waiting, OnScript, Destination
  <2>8. Morphing'
    BY <1>1, <2>1, <2>3 DEF InStep, Morphing
  <2>. QED
    BY <1>1, <2>2, <2>4, <2>5, <2>6, <2>7, <2>8 DEF InStep
<1>. QED
  BY <1>4, <1>5, <1>6 DEF Core

\* A screen registers its list, or has registered it.
LEMMA EnsureStep ==
  ASSUME Core, EnsureFocus, observed' = screen,
         morph' = IF screen # observed /\ screen \notin {"Root", "ModeSelection"} THEN "None" ELSE morph,
         UNCHANGED <<assets, member, tour, popup, fallback>>
  PROVE  Core' /\ (~astray' => /\ pending' => assets' = "Pending"
                               /\ ui'.contexts[1] \in ScreenLists(screen'))
<1>0. /\ UNCHANGED <<screen, pending, assets, member, lesson, settings, popup, fallback>>
      /\ ~(pending /\ assets = "Ready")
  BY DEF EnsureFocus, LaunchIsDue, tour
<1>1. ForcingEndsWithTheLesson'
  BY <1>0 DEF Core, ForcingEndsWithTheLesson
<1>2. /\ entered \in {"Root", "ModeSelection", "Error"} /\ screen \in Screens /\ PanelState(ui)
      /\ complete \in {"Never", "CompleteGuest", "CompleteMember"} /\ recapFresh \in BOOLEAN
      /\ assets \in {"Pending", "Ready"}
  BY DEF Core, Typed
<1>3. pending' => assets' = "Pending"
  BY <1>0, <1>2
<1>4. ASSUME ~astray, InStep
      PROVE  PopupOnMode' /\ OnScript' /\ Waiting' /\ Morphing'
  BY <1>0, <1>4 DEF InStep, PopupOnMode, OnScript, Waiting, Morphing
<1>5. ASSUME NEW list \in ListNames, Register(list),
             \/ /\ screen \in {"Root", "ModeSelection"} /\ list = screen
                /\ entered' = screen /\ UNCHANGED <<recapFresh, complete>>
             \/ /\ screen = "PostRound" /\ list = screen
                /\ entered' = Watched /\ recapFresh' = FALSE /\ UNCHANGED complete
             \/ /\ screen = "TutorialComplete" /\ list \in {"CompleteGuest", "CompleteMember"}
                /\ complete' = list /\ entered' = Watched /\ UNCHANGED recapFresh
      PROVE  Core' /\ (~astray' => ui'.contexts[1] \in ScreenLists(screen'))
  <2>1. ui' = RegisterList(ui, list) /\ astray' = (astray \/ Len(ui.contexts) > 1)
    BY <1>5 DEF Register
  <2>2. PanelState(ui')
    BY <1>2, <2>1, RegisterListDoes
  <2>3. Typed'
    BY <1>0, <1>5, <2>1, <2>2 DEF Core, Typed, Watched
  <2>4. ASSUME ~astray' PROVE InStep' /\ ui'.contexts[1] \in ScreenLists(screen')
    <3>1. ~astray /\ InStep /\ ~(Len(ui.contexts) > 1)
      BY <2>1, <2>4 DEF Core
    <3>2. /\ popup = "Closed" /\ Layered(ui', popup') /\ ui'.modals = <<>> /\ ui'.confirm = "None"
          /\ ui'.contexts[1] = list
      BY <1>0, <1>2, <2>1, <3>1, LayeredRegister DEF InStep
    <3>3. Allowed(ui', popup', screen', lesson'.phase, complete')
      BY <1>0, <3>2 DEF Allowed
    <3>4. Based'
      BY <1>0, <1>2, <1>5, <3>1, <3>2 DEF InStep, Based, Watched
    <3>5. Completed'
      BY <1>0, <1>5, <3>1, <3>2 DEF InStep, Completed
    <3>6. ui'.contexts[1] \in ScreenLists(screen')
      BY <1>0, <1>5, <3>2 DEF ScreenLists
    <3>. QED
      BY <1>4, <3>1, <3>2, <3>3, <3>4, <3>5, <3>6 DEF InStep
  <2>. QED
    BY <1>1, <2>3, <2>4 DEF Core
<1>6. CASE screen \in {"Root", "ModeSelection"} /\ entered' = screen /\ Register(screen)
           /\ UNCHANGED <<recapFresh, complete>>
  <2>1. screen \in ListNames
    BY <1>2 DEF ListNames
  <2>. QED
    BY <1>3, <1>5, <1>6, <2>1
<1>7. CASE screen = "PostRound" /\ recapFresh' = FALSE /\ Register(screen)
           /\ entered' = Watched /\ UNCHANGED complete
  <2>1. screen \in ListNames
    BY <1>2 DEF ListNames
  <2>. QED
    BY <1>3, <1>5, <1>7, <2>1
<1>8. CASE screen = "TutorialComplete" /\ complete' = CompleteList /\ Register(CompleteList)
           /\ entered' = Watched /\ UNCHANGED recapFresh
  <2>1. CompleteList \in ListNames /\ CompleteList \in {"CompleteGuest", "CompleteMember"}
    BY DEF CompleteList, ListNames
  <2>. QED
    BY <1>3, <1>5, <1>8, <2>1
<1>9. CASE /\ CASE screen = "PostRound" -> ~recapFresh
                [] screen = "TutorialComplete" -> complete = CompleteList
                [] screen = "Game" -> TRUE
                [] OTHER -> Watched = screen
           /\ entered' = Watched /\ UNCHANGED <<ui, astray, recapFresh, complete>>
  <2>1. Typed'
    BY <1>0, <1>9 DEF Core, Typed, Watched
  <2>2. ASSUME ~astray' PROVE InStep' /\ ui'.contexts[1] \in ScreenLists(screen')
    <3>1. ~astray /\ InStep
      BY <1>9, <2>2 DEF Core
    <3>2. Layered(ui', popup') /\ Allowed(ui', popup', screen', lesson'.phase, complete')
      BY <1>0, <1>9, <3>1 DEF InStep
    <3>3. Completed'
      BY <1>0, <1>9, <3>1 DEF InStep, Completed
    <3>4. Based'
      BY <1>0, <1>2, <1>9, <3>1 DEF InStep, Based, Watched
    <3>5. ui'.contexts[1] \in ScreenLists(screen')
      <4>1. CASE screen = "PostRound"
        BY <1>0, <1>9, <3>1, <4>1 DEF InStep, Based, ScreenLists
      <4>2. CASE screen = "TutorialComplete"
        BY <1>0, <1>9, <3>1, <4>2 DEF InStep, Based, ScreenLists, CompleteList
      <4>3. CASE screen = "Game"
        BY <1>0, <1>9, <3>1, <4>3 DEF InStep, Based, ScreenLists
      <4>4. CASE screen \in {"Root", "ModeSelection"}
        <5>1. Watched = screen
          BY <1>9, <4>4
        <5>. QED
          BY <1>0, <1>9, <3>1, <4>4, <5>1 DEF InStep, Based, ScreenLists, Watched
      <4>. QED
        BY <1>2, <4>1, <4>2, <4>3, <4>4 DEF Screens
    <3>. QED
      BY <1>4, <3>1, <3>2, <3>3, <3>4, <3>5 DEF InStep
  <2>. QED
    BY <1>1, <1>3, <2>1, <2>2 DEF Core
<1>. QED
  BY <1>6, <1>7, <1>8, <1>9 DEF EnsureFocus

\* The watchers at the head of a frame keep the invariant: here the screen and the context
\* meet again.
LEMMA TickStep ==
  ASSUME IInv, Tick
  PROVE  IInv'
<1>1. /\ stage' = "Screen" /\ inputs' = 0 /\ click' \in Clicks /\ drawn' = {}
      /\ observed' = screen
      /\ morph' = IF screen # observed /\ screen \notin {"Root", "ModeSelection"} THEN "None" ELSE morph
      /\ UNCHANGED <<assets, member, tour, popup, fallback>>
      /\ FireLaunch \/ EnsureFocus
  BY DEF Tick, Watch
<1>2. FrameTyped'
  <2>1. click' \in {"None", "Outside", "Popup"} \cup PanelIds
    BY <1>1 DEF Clicks, IInv, FrameTyped
  <2>. QED
    BY <1>1, <2>1, InterfaceAssumption DEF FrameTyped
<1>3. Core' /\ (~astray' => /\ pending' => assets' = "Pending"
                            /\ ui'.contexts[1] \in ScreenLists(screen'))
  <2>1. Core
    BY DEF IInv
  <2>2. CASE FireLaunch
    <3>1. Core' /\ (~astray' => ~pending' /\ ui'.contexts[1] = screen') /\ screen' = "Game"
      BY <1>1, <2>1, <2>2, FireStep DEF FireLaunch, Perform
    <3>. QED
      BY <3>1 DEF ScreenLists
  <2>3. CASE EnsureFocus
    BY <1>1, <2>1, <2>3, EnsureStep
  <2>. QED
    BY <1>1, <2>2, <2>3
<1>. QED
  BY <1>1, <1>2, <1>3 DEF IInv, StageRight

\* A morph ends with the other screen.
LEMMA DrawMorphStep ==
  ASSUME Core, DrawMorph
  PROVE  Core' /\ morph' = "None" /\ UNCHANGED <<assets, pending>> /\ (astray => astray')
<1>1. /\ screen \in {"Root", "ModeSelection"}
      /\ morph = IF screen = "Root" THEN "ToMode" ELSE "ToRoot"
      /\ morph' = "None" /\ screen' = IF screen = "Root" THEN "ModeSelection" ELSE "Root"
      /\ astray' = (astray \/ Missed(screen') \/ pending \/ popup # "Closed")
      /\ UNCHANGED <<ui, member, lesson, settings, assets, pending>>
      /\ UNCHANGED <<observed, entered, recapFresh, complete, popup, fallback>>
  BY DEF DrawMorph, tour
<1>2. Typed'
  BY <1>1 DEF Core, Typed, Screens
<1>3. ForcingEndsWithTheLesson'
  BY <1>1 DEF Core, ForcingEndsWithTheLesson
<1>4. ASSUME ~astray' PROVE InStep'
  <2>1. InStep /\ ~pending /\ popup = "Closed" /\ screen' # observed
    BY <1>1, <1>4 DEF Core, Missed
  <2>2. Layered(ui', popup') /\ Allowed(ui', popup', screen', lesson'.phase, complete')
    BY <1>1, <2>1 DEF InStep, Allowed
  <2>3. Based'
    BY <1>1, <2>1 DEF InStep, Based
  <2>4. PopupOnMode' /\ Completed' /\ Waiting' /\ Morphing'
    BY <1>1, <2>1 DEF InStep, PopupOnMode, Completed, Waiting, Morphing
  <2>5. OnScript'
    <3>1. CASE screen = "Root"
      BY <1>1, <2>1, <3>1 DEF InStep, Morphing, OnScript, Destination
    <3>2. CASE screen = "ModeSelection"
      BY <1>1, <2>1, <3>2 DEF InStep, Morphing, OnScript
    <3>. QED
      BY <1>1, <3>1, <3>2
  <2>. QED
    BY <2>2, <2>3, <2>4, <2>5 DEF InStep
<1>. QED
  BY <1>1, <1>2, <1>3, <1>4 DEF Core

\* A launch that is asked for while the assets are there does not wait.
LEMMA RequestKeeps ==
  ASSUME NEW v, NEW stray \in BOOLEAN, RequestLaunch(v, stray), astray \in BOOLEAN
  PROVE  /\ assets' = assets /\ (astray => astray')
         /\ (pending => assets = "Pending") => (pending' => assets' = "Pending")
  BY DEF RequestLaunch, Perform

\* What is drawn of a screen does not touch the assets, nor a launch that waits for them.
LEMMA DrawPopupStep ==
  ASSUME Core, DrawPopup
  PROVE  /\ Core' /\ morph' = morph /\ (astray => astray')
         /\ (pending => assets = "Pending") => (pending' => assets' = "Pending")
<1>1. popup # "Closed" /\ UNCHANGED <<watch, fallback>> /\ morph' = morph /\ astray \in BOOLEAN
      /\ popup \in {"Closed", "Opening", "Open"}
  BY DEF DrawPopup, watch, Core, Typed
<1>2. CASE popup' = (IF click = "None" THEN "Open" ELSE popup) /\ UNCHANGED acted
  <2>1. Core'
    BY <1>1, <1>2, PopupStaysStep
  <2>. QED
    BY <1>1, <1>2, <2>1 DEF acted, play
<1>3. CASE PopupControl
  <2>. DEFINE stray == Active(ui) # "Popup"
  <2>1. Core'
    BY <1>1, <1>3, PopupControlStep
  <2>2. \/ UNCHANGED <<pending, assets>> /\ (astray => astray')
        \/ RequestLaunch(PopContext(ui), stray) /\ stray \in BOOLEAN
    BY <1>3 DEF PopupControl, play
  <2>. HIDE DEF stray
  <2>. QED
    BY <1>1, <2>1, <2>2, RequestKeeps
<1>4. CASE /\ popup' = "Closed" /\ ui' = PopContext(ui)
           /\ astray' = (astray \/ Active(ui) # "Popup")
           /\ UNCHANGED <<member, tour, play>>
  <2>1. Core'
    BY <1>1, <1>4, PopupClosesStep
  <2>. QED
    BY <1>1, <1>4, <2>1 DEF play
<1>. QED
  BY <1>2, <1>3, <1>4 DEF DrawPopup

\* A click drawn by the screen keeps the core.
LEMMA ScreenClickedStep ==
  ASSUME Core, ScreenIsClicked
  PROVE  /\ Core' /\ morph' = morph /\ (astray => astray')
         /\ (pending => assets = "Pending") => (pending' => assets' = "Pending")
<1>1. /\ Around /\ ui.modals = <<>> /\ morph' = morph /\ astray \in BOOLEAN
      /\ screen \in {"Game", "PostRound"} /\ Fits(ui)
  BY CoreFits DEF ScreenIsClicked, NoModal, IsAnyModalOpen, Around, watch, Core, Typed
<1>2. ~astray => popup = "Closed" /\ complete = "Never"
  BY <1>1 DEF Core, InStep, PopupOnMode, Completed
<1>3. CASE OneOf(ClusterPanels)
  <2>1. Core'
    BY <1>1, <1>2, <1>3, ClusterStep
  <2>. QED
    BY <1>1, <1>3, <2>1 DEF OneOf, Only, play
<1>4. CASE screen = "PostRound" /\ CommitAgain
  <2>. DEFINE stray == Running(lesson) /\ Advance(lesson) # "LaunchAggressor"
  <2>1. Core'
    BY <1>1, <1>4, AgainStep
  <2>2. \/ UNCHANGED <<pending, assets>> /\ (astray => astray')
        \/ RequestLaunch(ui, stray) /\ stray \in BOOLEAN
    BY <1>4 DEF CommitAgain
  <2>. HIDE DEF stray
  <2>. QED
    BY <1>1, <2>1, <2>2, RequestKeeps
<1>5. CASE screen = "PostRound" /\ ~IsActive(lesson) /\ \E s \in {"ModeSelection", "Root"} : Cut(ui, s)
  <2>1. PICK s \in {"Root", "ModeSelection"} : Cut(ui, s)
    BY <1>5
  <2>2. ~Running(lesson) /\ (~astray => ui.confirm = "None")
    BY <1>1, <1>5, CoreFits DEF Running
  <2>3. Core'
    BY <1>1, <2>1, <2>2, CutStep
  <2>. QED
    BY <1>1, <2>1, <2>3 DEF Cut, EnterScreen
<1>. QED
  BY <1>3, <1>4, <1>5 DEF ScreenIsClicked

\* Closing the clipboard fallback keeps the core, astray when another panel was on top.
LEMMA FallbackStep ==
  ASSUME Core, FallbackIsClicked
  PROVE  /\ Core' /\ morph' = morph /\ (astray => astray')
         /\ (pending => assets = "Pending") => (pending' => assets' = "Pending")
<1>. DEFINE v == CloseFallback(ui)
            w == CloseModal(ui)
<1>1. /\ fallback' = FALSE /\ ui' = v /\ astray' = (astray \/ TopModal(ui) # "Fallback")
      /\ UNCHANGED <<member, lesson, settings, play, watch, popup>>
  BY DEF FallbackIsClicked, tour
<1>2. Fits(ui) /\ PanelState(ui)
  BY CoreFits DEF Core, Typed
<1>3. PanelState(v) /\ v.confirm = ui.confirm
  <2>1. PanelState(PopContext(ui)) /\ Flags(PopContext(ui)) = Flags(ui)
    BY <1>2, PopContextDoes
  <2>2. PanelState(v) /\ Flags(v) = Flags(PopContext(ui))
    BY <2>1, NotifyClosedDoes DEF CloseFallback, Closed
  <2>. QED
    BY <2>1, <2>2 DEF Flags
<1>4. ASSUME ~astray' PROVE Fits(v)
  <2>1. ~astray /\ TopModal(ui) = "Fallback" /\ ui.confirm = "None" /\ IsAnyModalOpen(ui)
    BY <1>1, <1>4, CoreFits DEF IsAnyModalOpen, TopModal
  <2>2. Fits(w)
    BY <1>2, FitsClose
  <2>3. w = [v EXCEPT !.fresh = FALSE, !.confirm = "None"]
    BY <2>1 DEF CloseModal, OnClose, CloseFallback
  <2>. HIDE DEF v, w
  <2>4. v.contexts = w.contexts /\ v.modals = w.modals /\ v.registry = w.registry /\ v.confirm = w.confirm
    BY <1>3, <2>1, <2>3 DEF PanelState, Panelled
  <2>. QED
    BY <1>3, <2>2, <2>4, FitsSame
<1>. HIDE DEF v
<1>5. Core'
  <2>1. /\ UNCHANGED <<lesson, play, watch, popup>> /\ fallback' \in BOOLEAN /\ member' \in BOOLEAN
        /\ settings' \in ForcedSettings /\ settings'.on = settings.on /\ settings' = settings
        /\ astray' \in BOOLEAN /\ (astray => astray') /\ PanelState(ui') /\ (~astray' => Fits(ui'))
    BY <1>1, <1>3, <1>4 DEF Core, Typed
  <2>. QED
    BY <2>1, PanelStep
<1>. QED
  BY <1>1, <1>5 DEF watch, play

\* Drawing the screen, with the click it takes, keeps the invariant.
LEMMA DrawScreenStep ==
  ASSUME IInv, DrawScreen
  PROVE  IInv'
<1>1. stage = "Screen" /\ stage' = "Tour" /\ UNCHANGED <<inputs, click, drawn>> /\ Core
  BY DEF DrawScreen, IInv
<1>2. FrameTyped'
  BY <1>1 DEF IInv, FrameTyped
<1>3. ~astray => (pending => assets = "Pending") /\ (morph = "ToMode" => screen = "Root")
  BY <1>1 DEF IInv, StageRight, Core, InStep, Morphing
<1>4. SUFFICES /\ Core' /\ (astray => astray')
               /\ ~astray => (pending' => assets' = "Pending") /\ morph' # "ToMode"
  BY <1>1, <1>2, <1>3 DEF IInv, StageRight, Core, Typed
<1>5. CASE DrawMorph
  BY <1>1, <1>3, <1>5, DrawMorphStep
<1>6. CASE DrawPopup
  <2>1. screen = "ModeSelection"
    BY <1>6 DEF DrawPopup
  <2>. QED
    BY <1>1, <1>3, <1>6, <2>1, DrawPopupStep
<1>7. CASE ScreenIsClicked
  <2>1. screen # "Root"
    BY <1>7 DEF ScreenIsClicked
  <2>. QED
    BY <1>1, <1>3, <1>7, <2>1, ScreenClickedStep
<1>8. CASE FallbackIsClicked
  <2>1. screen # "Root"
    BY <1>8 DEF FallbackIsClicked
  <2>. QED
    BY <1>1, <1>3, <1>8, <2>1, FallbackStep
<1>9. CASE /\ \/ morph # (IF screen = "Root" THEN "ToMode" ELSE "ToRoot")
              \/ screen \notin {"Root", "ModeSelection"}
           /\ UNCHANGED <<acted, watch, popup, fallback>>
  <2>1. Only(ui) /\ Around /\ UNCHANGED <<astray, pending, assets, morph>>
    BY <1>9 DEF acted, panels, play, Only, Around, watch
  <2>2. Core'
    BY <1>1, <2>1, CoreFits, OnlyStep DEF Around, Core, Typed
  <2>. QED
    BY <1>3, <1>9, <2>1, <2>2
<1>. QED
  BY <1>5, <1>6, <1>7, <1>8, <1>9 DEF DrawScreen

\* Drawing the tutorial, with its prompt and its poll, keeps the invariant.
LEMMA DrawTourStep ==
  ASSUME IInv, DrawTour
  PROVE  IInv'
<1>1. /\ stage = "Tour" /\ stage' = "Panel" /\ UNCHANGED <<inputs, click, drawn>> /\ Core /\ Around
      /\ UNCHANGED <<panels, settings, play, astray>>
      /\ lesson' = PollAdvance(MaybeTriggerPrompt(lesson, screen), screen, TopModal(ui), popup # "Closed")
  BY DEF DrawTour, IInv, Around
<1>2. FrameTyped'
  BY <1>1 DEF IInv, FrameTyped
<1>3. ~astray => (pending => assets = "Pending") /\ morph # "ToMode"
  BY <1>1 DEF IInv, StageRight
<1>4. Core' /\ (~astray' /\ Running(lesson') => screen' = Script[lesson'.cursor].at)
  BY <1>1, <1>3, TourStep
<1>5. ~astray' => StageRight'
  BY <1>1, <1>3, <1>4 DEF StageRight, Around, watch, play
<1>. QED
  BY <1>2, <1>4, <1>5 DEF IInv

\* Drawing the top panel, with the click it takes, keeps the invariant.
LEMMA DrawPanelStep ==
  ASSUME IInv, DrawPanel
  PROVE  IInv'
<1>1. /\ stage' = "Events" /\ click' = "None" /\ UNCHANGED <<inputs, watch, popup, fallback>>
      /\ Core /\ Around
  BY DEF DrawPanel, IInv, Around
<1>2. /\ Fits(ui) /\ PanelState(ui) /\ TopModal(ui) \in PanelIds \cup {"None"}
  BY <1>1, CoreFits, StackFacts DEF Core, Typed
<1>3. FrameTyped'
  <2>1. drawn' \subseteq PanelIds \cup {"Popup"}
    BY <1>2 DEF DrawPanel, WindowOf, PanelIds
  <2>. QED
    BY <1>1, <2>1 DEF IInv, FrameTyped
<1>4. CASE TopModal(ui) \in {"None", "Fallback"}
  <2>1. Only(ui)
    BY <1>4 DEF DrawPanel, acted, panels, Only
  <2>2. Core'
    BY <1>1, <1>2, <2>1, OnlyStep DEF Around, Core, Typed
  <2>. QED
    BY <1>1, <1>3, <2>2 DEF IInv, StageRight
<1>5. CASE TopModal(ui) = "Leaderboard"
  <2>1. BoardIsDrawn(ui)
    BY <1>5 DEF DrawPanel
  <2>2. Core'
    BY <1>1, <1>2, <1>5, <2>1, BoardDrawnStep
  <2>. QED
    BY <1>1, <1>3, <2>2 DEF IInv, StageRight
<1>6. CASE TopModal(ui) \notin {"None", "Fallback", "Leaderboard"}
  <2>1. PanelIsDrawn(Serviced(ui))
    BY <1>6 DEF DrawPanel
  <2>2. Fits(Serviced(ui)) /\ TopModal(Serviced(ui)) = TopModal(ui)
    BY <1>2, <1>6, FitsServiced
  <2>3. TopModal(Serviced(ui)) \in PanelIds \ {"Leaderboard", "Fallback"}
    BY <1>2, <1>6, <2>2
  <2>4. Core'
    BY <1>1, <2>1, <2>2, <2>3, PanelDrawnStep
  <2>. QED
    BY <1>1, <1>3, <2>4 DEF IInv, StageRight
<1>. QED
  BY <1>4, <1>5, <1>6

\* A stuttering step changes nothing the invariant is about.
LEMMA StutterStep ==
  ASSUME IInv, UNCHANGED vars
  PROVE  IInv'
<1>1. UNCHANGED <<stage, inputs, click, drawn>> /\ Only(ui) /\ Around /\ UNCHANGED <<assets, pending, morph, screen, lesson, ui, astray>>
  BY DEF vars, frame, watch, play, panels, tour, Only, Around
<1>2. Core'
  BY <1>1, CoreFits, OnlyStep DEF IInv, Around, Core, Typed
<1>. QED
  BY <1>1, <1>2 DEF IInv, FrameTyped, StageRight

\* Every step keeps the invariant.
LEMMA NextIInv ==
  ASSUME IInv, [Next]_vars
  PROVE  IInv'
<1>1. CASE Input
  BY <1>1, InputStep, InputFrame DEF IInv, StageRight
<1>2. CASE AssetsArrive
  BY <1>2, AssetsStep
<1>3. CASE Frame
  BY <1>3, TickStep, DrawScreenStep, DrawTourStep, DrawPanelStep DEF Frame
<1>4. CASE UNCHANGED vars
  BY <1>4, StutterStep
<1>. QED
  BY <1>1, <1>2, <1>3, <1>4 DEF Next

----------------------------------------------------------------------------
(* Settings lies at the bottom of the modal stack or nowhere, also once a caller has
   gone astray. *)

\* No panel is under Settings.
Grounded(u) == PanelState(u) /\ \A i \in 2 .. Len(u.modals) : u.modals[i] # "Settings"

\* Opening a panel records it, unless the stack is at its cap.
LEMMA OpenedModals ==
  ASSUME NEW u, PanelState(u), NEW id \in PanelIds
  PROVE  LET v == OpenModal(u, id) IN
           /\ PanelState(v)
           /\ v.modals = IF Len(u.modals) = kMaxModalDepth THEN u.modals ELSE Append(u.modals, id)
<1>. DEFINE list == ListFor(u, id)
            a == PushContext(u, list)
            b == NotifyOpened(a, id)
            c == [b EXCEPT !.fresh = TRUE]
<1>1. list \in ListNames
  BY ListsAreNames
<1>2. OpenModal(u, id) = OnOpen(c, id)
  BY DEF OpenModal, Opened
<1>. HIDE DEF list
<1>3. PanelState(a) /\ a.modals = u.modals
  BY <1>1, PushContextDoes
<1>. HIDE DEF a
<1>4. PanelState(b)
  BY <1>3, NotifyOpenedDoes
<1>5. b.modals = IF Len(u.modals) = kMaxModalDepth THEN u.modals ELSE Append(u.modals, id)
  BY <1>3 DEF NotifyOpened, PanelState, Panelled
<1>. HIDE DEF b
<1>6. PanelState(c) /\ c.modals = b.modals
  BY <1>4 DEF PanelState, Panelled
<1>. HIDE DEF c
<1>. QED
  BY <1>2, <1>5, <1>6, OnOpenDoes

\* Only the modal stack matters.
LEMMA GroundedSame ==
  ASSUME NEW u, Grounded(u), NEW v, PanelState(v), v.modals = u.modals
  PROVE  Grounded(v)
  BY DEF Grounded

\* Settings is opened over no panel.
LEMMA GroundedOpen ==
  ASSUME NEW u, Grounded(u), NEW id \in PanelIds, id # "Settings" \/ u.modals = <<>>
  PROVE  Grounded(OpenModal(u, id))
<1>. DEFINE v == OpenModal(u, id)
            m == Append(u.modals, id)
<1>1. PanelState(u) /\ u.modals \in Seq(PanelIds) /\ Len(u.modals) \in Nat
  BY StackFacts DEF Grounded
<1>2. PanelState(v) /\ (v.modals = u.modals \/ v.modals = m)
  BY <1>1, OpenedModals
<1>3. ASSUME v.modals = m, NEW i \in 2 .. Len(v.modals) PROVE v.modals[i] # "Settings"
  <2>1. /\ Len(m) = Len(u.modals) + 1 /\ m[Len(u.modals) + 1] = id
        /\ \A j \in 1 .. Len(u.modals) : m[j] = u.modals[j]
    BY <1>1, AppendTo DEF Agree
  <2>. HIDE DEF m
  <2>2. CASE i = Len(u.modals) + 1
    <3>1. u.modals # <<>>
      BY <1>1, <2>2, EmptySeq
    <3>. QED
      BY <1>3, <2>1, <2>2, <3>1
  <2>3. CASE i # Len(u.modals) + 1
    <3>1. i \in 2 .. Len(u.modals) /\ i \in 1 .. Len(u.modals)
      BY <1>1, <1>3, <2>1, <2>3
    <3>. QED
      BY <1>3, <2>1, <3>1 DEF Grounded
  <2>. QED
    BY <2>2, <2>3
<1>. QED
  BY <1>2, <1>3, GroundedSame DEF Grounded

\* Closing the top panel.
LEMMA GroundedClose ==
  ASSUME NEW u, Grounded(u)
  PROVE  Grounded(CloseModal(u))
<1>. DEFINE v == CloseModal(u)
<1>1. PanelState(u) /\ Len(u.modals) \in Nat /\ PanelState(v)
  BY StackFacts, CloseModalDoes DEF Grounded
<1>2. CASE u.modals = <<>>
  BY <1>1, <1>2, CloseModalDoes
<1>3. CASE u.modals # <<>>
  <2>1. /\ Len(v.modals) = Len(u.modals) - 1
        /\ \A i \in 1 .. Len(v.modals) : v.modals[i] = u.modals[i]
    BY <1>1, <1>3, CloseModalDoes DEF Agree
  <2>. HIDE DEF v
  <2>2. ASSUME NEW i \in 2 .. Len(v.modals) PROVE v.modals[i] # "Settings"
    <3>1. i \in 1 .. Len(v.modals) /\ i \in 2 .. Len(u.modals)
      BY <1>1, <2>1
    <3>. QED
      BY <2>1, <3>1 DEF Grounded
  <2>. QED
    BY <1>1, <2>2 DEF Grounded, v
<1>. QED
  BY <1>2, <1>3

\* Contexts do not matter.
LEMMA GroundedContexts ==
  ASSUME NEW u, Grounded(u), NEW list \in ListNames
  PROVE  /\ Grounded(PopContext(u)) /\ Grounded(PushContext(u, list))
         /\ Grounded(RegisterList(u, list)) /\ Grounded(Relaid(u, list))
<1>1. PanelState(u)
  BY DEF Grounded
<1>2. PanelState(PopContext(u)) /\ PopContext(u).modals = u.modals
  BY <1>1, PopContextDoes
<1>3. PanelState(PushContext(u, list)) /\ PushContext(u, list).modals = u.modals
  BY <1>1, PushContextDoes
<1>4. PanelState(RegisterList(u, list)) /\ RegisterList(u, list).modals = u.modals
  BY <1>1, RegisterListDoes
<1>5. PanelState(Relaid(u, list)) /\ Relaid(u, list).modals = u.modals
  BY <1>1, RelaidDoes
<1>. QED
  BY <1>2, <1>3, <1>4, <1>5, GroundedSame

\* The openings that note something first or after.
LEMMA GroundedOpenings ==
  ASSUME NEW u, Grounded(u)
  PROVE  /\ \A what \in Confirms : Grounded(OpenConfirm(u, what))
         /\ \A doc \in Docs : Grounded(OpenDoc(u, doc))
         /\ \A mode \in {"SignIn", "SignUp"} : Grounded(OpenAuth(u, mode))
         /\ Grounded(OpenLeaderboard(u))
<1>1. {"Confirm", "Doc", "Auth", "Leaderboard"} \subseteq PanelIds
  BY DEF PanelIds
<1>2. ASSUME NEW what \in Confirms PROVE Grounded(OpenConfirm(u, what))
  <2>. DEFINE v == OpenModal(u, "Confirm")
  <2>1. Grounded(v)
    BY <1>1, GroundedOpen
  <2>. HIDE DEF v
  <2>2. PanelState([v EXCEPT !.confirm = what]) /\ [v EXCEPT !.confirm = what].modals = v.modals
    BY <2>1 DEF Grounded, PanelState, Panelled
  <2>. QED
    BY <2>1, <2>2, GroundedSame DEF OpenConfirm, v
<1>3. ASSUME NEW doc \in Docs PROVE Grounded(OpenDoc(u, doc))
  <2>. DEFINE v == [u EXCEPT !.doc = doc]
  <2>1. PanelState(v) /\ v.modals = u.modals
    BY DEF Grounded, PanelState, Panelled
  <2>. HIDE DEF v
  <2>2. Grounded(v)
    BY <2>1, GroundedSame
  <2>. QED
    BY <1>1, <2>2, GroundedOpen DEF OpenDoc, v
<1>4. ASSUME NEW mode \in {"SignIn", "SignUp"} PROVE Grounded(OpenAuth(u, mode))
  <2>. DEFINE v == [u EXCEPT !.mode = mode]
  <2>1. PanelState(v) /\ v.modals = u.modals
    BY DEF Grounded, PanelState, Panelled
  <2>. HIDE DEF v
  <2>2. Grounded(v)
    BY <2>1, GroundedSame
  <2>. QED
    BY <1>1, <2>2, GroundedOpen DEF OpenAuth, v
<1>5. Grounded(OpenLeaderboard(u))
  <2>. DEFINE v == [u EXCEPT !.report = FALSE, !.closing = FALSE, !.submitting = FALSE]
  <2>1. PanelState(v) /\ v.modals = u.modals
    BY DEF Grounded, PanelState, Panelled
  <2>. HIDE DEF v
  <2>2. Grounded(v)
    BY <2>1, GroundedSame
  <2>. QED
    BY <1>1, <2>2, GroundedOpen DEF OpenLeaderboard, v
<1>. QED
  BY <1>2, <1>3, <1>4, <1>5

\* The report panel and what it serves, the forms and the documents re-lay only.
LEMMA GroundedRelaid ==
  ASSUME NEW u, Grounded(u)
  PROVE  /\ Grounded(OpenReport(u)) /\ Grounded(CloseReport(u))
         /\ \A w \in ServeReport(u) : Grounded(w)
         /\ \A form \in AuthForms : Grounded(ShowForm(u, form))
         /\ Grounded(ServeDocSwitch(u)) /\ Grounded(RequestDocSwitch(u))
         /\ Grounded(RefreshAccountSection(u))
<1>1. /\ {"Report", "Leaderboard", "SignIn", "SignUp", "Forgot"} \subseteq ListNames
      /\ SettingsList \in ListNames
  BY DEF ListNames, PanelIds, SettingsList
<1>2. ASSUME NEW up \in BOOLEAN
      PROVE  Grounded([u EXCEPT !.report = up, !.closing = FALSE, !.submitting = FALSE])
  <2>. DEFINE v == [u EXCEPT !.report = up, !.closing = FALSE, !.submitting = FALSE]
  <2>1. PanelState(v) /\ v.modals = u.modals
    BY DEF Grounded, PanelState, Panelled
  <2>. QED
    BY <2>1, GroundedSame
<1>3. Grounded(OpenReport(u)) /\ Grounded(CloseReport(u))
  BY <1>1, <1>2, GroundedContexts DEF OpenReport, CloseReport
<1>4. \A w \in ServeReport(u) : Grounded(w)
  <2>1. PanelState([u EXCEPT !.submitting = FALSE]) /\ [u EXCEPT !.submitting = FALSE].modals = u.modals
    BY DEF Grounded, PanelState, Panelled
  <2>2. Grounded([u EXCEPT !.submitting = FALSE])
    BY <2>1, GroundedSame
  <2>. QED
    BY <1>3, <2>2 DEF ServeReport
<1>5. ASSUME NEW form \in AuthForms PROVE Grounded(ShowForm(u, form))
  <2>. DEFINE v == IF form = "Forgot" THEN [u EXCEPT !.forgot = TRUE]
                                      ELSE [u EXCEPT !.mode = form, !.forgot = FALSE]
  <2>1. PanelState(v) /\ v.modals = u.modals
    <3>1. CASE form = "Forgot"
      BY <3>1 DEF Grounded, PanelState, Panelled
    <3>2. CASE form \in {"SignIn", "SignUp"}
      BY <3>2 DEF Grounded, PanelState, Panelled
    <3>. QED
      BY <3>1, <3>2 DEF AuthForms
  <2>. HIDE DEF v
  <2>2. v.mode \in {"SignIn", "SignUp"}
    BY <2>1 DEF PanelState, Panelled
  <2>3. FormOf(v) \in ListNames
    BY <1>1, <2>2 DEF FormOf
  <2>4. Grounded(v)
    BY <2>1, GroundedSame
  <2>. QED
    BY <2>3, <2>4, GroundedContexts DEF ShowForm, v
<1>6. Grounded(ServeDocSwitch(u)) /\ Grounded(RequestDocSwitch(u))
  <2>. PanelState(u)
    BY DEF Grounded
  <2>1. PanelState(ServeDocSwitch(u)) /\ ServeDocSwitch(u).modals = u.modals
    <3>1. CASE u.switch
      <4>. DEFINE v == [u EXCEPT !.switch = FALSE]
      <4>1. PanelState(v) /\ v.modals = u.modals
        BY DEF PanelState, Panelled
      <4>2. \E doc \in Docs : ServeDocSwitch(u) = [v EXCEPT !.doc = doc]
        BY <3>1 DEF ServeDocSwitch, Docs
      <4>. HIDE DEF v
      <4>. QED
        BY <4>1, <4>2 DEF PanelState, Panelled
    <3>2. CASE ~u.switch
      BY <3>2 DEF ServeDocSwitch
    <3>. QED
      BY <3>1, <3>2
  <2>2. PanelState(RequestDocSwitch(u)) /\ RequestDocSwitch(u).modals = u.modals
    BY DEF Grounded, PanelState, Panelled, RequestDocSwitch
  <2>. QED
    BY <2>1, <2>2, GroundedSame
<1>7. Grounded(RefreshAccountSection(u))
  BY <1>1, GroundedContexts DEF RefreshAccountSection
<1>. QED
  BY <1>3, <1>4, <1>5, <1>6, <1>7

\* What the stops of a panel make of it.
LEMMA GroundedStops ==
  ASSUME NEW u, Grounded(u)
  PROVE  /\ \A rows : \A w \in SettingsOpens(u) \cup AccountRows(u, rows) : Grounded(w)
         /\ Grounded(SectionReset(u))
         /\ \A id \in {"Shop", "Leaderboard"} : Grounded(SwapTo(u, id))
         /\ \A w \in YourRowSignsIn(u) : Grounded(w)
         /\ \A stops : \A w \in FormLinks(u, stops) : Grounded(w)
<1>. DEFINE v == CloseModal(u)
<1>1. Grounded(v)
  BY GroundedClose
<1>. HIDE DEF v
<1>2. /\ {"ResetAll", "Harmless", "Delete", "ResetSection"} \subseteq Confirms
      /\ {"About", "Terms"} \subseteq Docs /\ {"Section", "Shop", "Leaderboard"} \subseteq PanelIds
  BY DEF Confirms, Docs, PanelIds
<1>3. Grounded(OpenModal(u, "Section")) /\ Grounded(OpenModal(v, "Shop"))
  BY <1>1, <1>2, GroundedOpen
<1>4. ASSUME NEW rows, NEW w \in SettingsOpens(u) \cup AccountRows(u, rows) PROVE Grounded(w)
  <2>1. \/ \E what \in {"ResetAll", "Harmless", "Delete"} : w = OpenConfirm(u, what)
        \/ w = OpenModal(u, "Section")
        \/ \E doc \in {"About", "Terms"} : w = OpenDoc(u, doc)
        \/ \E mode \in {"SignIn", "SignUp"} : w = OpenAuth(u, mode)
    BY <1>4 DEF SettingsOpens, AccountRows
  <2>. QED
    BY <1>2, <1>3, <2>1, GroundedOpenings
<1>5. Grounded(SectionReset(u))
  BY <1>1, <1>2, GroundedOpenings DEF SectionReset, v
<1>6. \A id \in {"Shop", "Leaderboard"} : Grounded(SwapTo(u, id))
  BY <1>1, <1>3, GroundedOpenings DEF SwapTo, v
<1>7. \A w \in YourRowSignsIn(u) : Grounded(w)
  BY <1>1, GroundedOpenings DEF YourRowSignsIn, v
<1>8. ASSUME NEW stops, NEW w \in FormLinks(u, stops) PROVE Grounded(w)
  <2>1. \/ w = ShowForm(u, IF u.mode = "SignIn" THEN "SignUp" ELSE "SignIn")
        \/ w = ShowForm(u, "Forgot") \/ w = ShowForm(u, "SignIn") \/ w = OpenDoc(u, "Terms")
    BY <1>8 DEF FormLinks
  <2>2. /\ (IF u.mode = "SignIn" THEN "SignUp" ELSE "SignIn") \in AuthForms
        /\ "Forgot" \in AuthForms /\ "SignIn" \in AuthForms
    BY DEF AuthForms
  <2>. QED
    BY <1>2, <2>1, <2>2, GroundedRelaid, GroundedOpenings
<1>. QED
  BY <1>4, <1>5, <1>6, <1>7, <1>8

\* The requests and the guard that a panel notes for the next drawing.
LEMMA GroundedRequests ==
  ASSUME NEW u, Grounded(u), NEW flag \in BOOLEAN
  PROVE  /\ Grounded([u EXCEPT !.closing = flag]) /\ Grounded([u EXCEPT !.submitting = flag])
         /\ Grounded([u EXCEPT !.fresh = flag])
<1>. PanelState(u)
  BY DEF Grounded
<1>1. PanelState([u EXCEPT !.closing = flag]) /\ [u EXCEPT !.closing = flag].modals = u.modals
  BY DEF PanelState, Panelled
<1>2. PanelState([u EXCEPT !.submitting = flag]) /\ [u EXCEPT !.submitting = flag].modals = u.modals
  BY DEF PanelState, Panelled
<1>3. PanelState([u EXCEPT !.fresh = flag]) /\ [u EXCEPT !.fresh = flag].modals = u.modals
  BY DEF PanelState, Panelled
<1>. QED
  BY <1>1, <1>2, <1>3, GroundedSame

\* The clipboard fallback opens and closes by itself.
LEMMA GroundedFallback ==
  ASSUME NEW u, Grounded(u)
  PROVE  Grounded(OpenFallback(u)) /\ Grounded(CloseFallback(u))
<1>. DEFINE a == PushContext(u, "Fallback")
            b == PopContext(u)
<1>1. Grounded(a) /\ Grounded(b) /\ "Fallback" \in PanelIds
  BY GroundedContexts DEF ListNames, PanelIds
<1>2. ASSUME NEW w, Grounded(w) PROVE Grounded(NotifyOpened(w, "Fallback")) /\ Grounded(NotifyClosed(w))
  <2>1. /\ PanelState(w) /\ w.modals \in Seq(PanelIds) /\ Len(w.modals) \in Nat
        /\ "Fallback" \in PanelIds
    BY <1>1, <1>2, StackFacts DEF Grounded
  <2>2. Grounded(NotifyOpened(w, "Fallback"))
    <3>. DEFINE v == NotifyOpened(w, "Fallback")
                m == Append(w.modals, "Fallback")
    <3>1. PanelState(v) /\ (v.modals = w.modals \/ v.modals = m)
      BY <2>1, NotifyOpenedDoes DEF NotifyOpened, PanelState, Panelled
    <3>2. /\ Len(m) = Len(w.modals) + 1 /\ m[Len(w.modals) + 1] = "Fallback"
          /\ \A j \in 1 .. Len(w.modals) : m[j] = w.modals[j]
      BY <2>1, AppendTo DEF Agree
    <3>. HIDE DEF m, v
    <3>3. ASSUME NEW i \in 2 .. Len(m) PROVE m[i] # "Settings"
      <4>1. i = Len(w.modals) + 1 \/ (i \in 2 .. Len(w.modals) /\ i \in 1 .. Len(w.modals))
        BY <2>1, <3>2
      <4>. QED
        BY <1>2, <3>2, <4>1 DEF Grounded
    <3>. QED
      BY <1>2, <3>1, <3>3 DEF Grounded, v
  <2>3. Grounded(NotifyClosed(w))
    <3>. DEFINE v == NotifyClosed(w)
    <3>1. /\ PanelState(v) /\ Len(v.modals) = IF w.modals = <<>> THEN 0 ELSE Len(w.modals) - 1
          /\ \A i \in 1 .. Len(v.modals) : v.modals[i] = w.modals[i]
      BY <2>1, NotifyClosedDoes DEF Agree
    <3>. HIDE DEF v
    <3>2. ASSUME NEW i \in 2 .. Len(v.modals) PROVE v.modals[i] # "Settings"
      <4>1. i \in 1 .. Len(v.modals) /\ i \in 2 .. Len(w.modals)
        BY <2>1, <3>1
      <4>. QED
        BY <1>2, <3>1, <4>1 DEF Grounded
    <3>. QED
      BY <3>1, <3>2 DEF Grounded, v
  <2>. QED
    BY <2>2, <2>3
<1>. QED
  BY <1>1, <1>2 DEF OpenFallback, CloseFallback, Opened, Closed

\* What a control of a panel leaves.
LEMMA GroundedControls ==
  ASSUME NEW u, Grounded(u)
  PROVE  /\ \A rows : SettingsControls(u, rows) => Grounded(ui')
         /\ ConfirmControls(u) => Grounded(ui')
         /\ StartTutorial(u) => Grounded(ui')
         /\ \A locked : HelpControls(u, locked) => Grounded(ui')
         /\ BoardControls(u) => Grounded(ui')
         /\ \A stops : AuthControls(u, stops) => Grounded(ui')
<1>. DEFINE v == CloseModal(u)
<1>1. Grounded(v)
  BY GroundedClose
<1>2. ASSUME NEW rows, SettingsControls(u, rows) PROVE Grounded(ui')
  <2>1. ui' = u \/ ui' \in SettingsOpens(u) \cup AccountRows(u, rows)
    BY <1>2 DEF SettingsControls, OneOf, Only, Change, LeaveAccount
  <2>. QED
    BY <2>1, GroundedStops
<1>3. ASSUME ConfirmControls(u) PROVE Grounded(ui')
  <2>1. ui' = v
    BY <1>3 DEF ConfirmControls, Confirmed, Only, Cut, SkipTutorial, LeaveAccount
  <2>. QED
    BY <1>1, <2>1
<1>4. ASSUME NEW w, Grounded(w), StartTutorial(w) PROVE Grounded(ui')
  <2>1. ui' = w \/ ui' = CloseModal(w)
    BY <1>4 DEF StartTutorial, Only
  <2>. QED
    BY <1>4, <2>1, GroundedClose
<1>5. ASSUME NEW locked, HelpControls(u, locked) PROVE Grounded(ui')
  <2>1. ui' = v \/ StartTutorial(v)
    BY <1>5 DEF HelpControls, Only
  <2>. QED
    BY <1>1, <1>4, <2>1
<1>6. ASSUME BoardControls(u) PROVE Grounded(ui')
  <2>1. ui' \in {SwapTo(u, "Shop"), OpenReport(u), u} \cup YourRowSignsIn(u)
    BY <1>6 DEF BoardControls, OneOf, Only, Change
  <2>. QED
    BY <2>1, GroundedStops, GroundedRelaid
<1>7. ASSUME NEW stops, AuthControls(u, stops) PROVE Grounded(ui')
  <2>1. ui' = u \/ ui' = v \/ ui' \in FormLinks(u, stops)
    BY <1>7 DEF AuthControls, OneOf, Only, SubmitForm
  <2>. QED
    BY <1>1, <2>1, GroundedStops
<1>. QED
  BY <1>2, <1>3, <1>4, <1>5, <1>6, <1>7

\* What a launch and the popup leave.
LEMMA GroundedLaunch ==
  ASSUME NEW u, Grounded(u)
  PROVE  /\ \A stray : RequestLaunch(u, stray) => Grounded(ui')
         /\ Grounded(ui) /\ CommitAgain => Grounded(ui')
         /\ Grounded(ui) /\ PopupControl => Grounded(ui')
<1>1. ASSUME NEW w, Grounded(w), NEW stray, RequestLaunch(w, stray) PROVE Grounded(ui')
  <2>1. ui' = w \/ ui' = RegisterList(w, "Game")
    BY <1>1 DEF RequestLaunch, Perform
  <2>2. "Game" \in ListNames
    BY DEF ListNames, Screens
  <2>. QED
    BY <1>1, <2>1, <2>2, GroundedContexts
<1>2. ASSUME Grounded(ui), CommitAgain PROVE Grounded(ui')
  <2>1. ui' = ui \/ \E stray : RequestLaunch(ui, stray)
    BY <1>2 DEF CommitAgain, panels
  <2>. QED
    BY <1>1, <1>2, <2>1
<1>3. ASSUME Grounded(ui), PopupControl PROVE Grounded(ui')
  <2>1. ui' = PopContext(ui) \/ \E stray : RequestLaunch(PopContext(ui), stray)
    BY <1>3 DEF PopupControl
  <2>2. Grounded(PopContext(ui))
    BY <1>3, GroundedContexts DEF ListNames
  <2>. QED
    BY <1>1, <2>1, <2>2
<1>. QED
  BY <1>1, <1>2, <1>3

\* Inputs between frames keep Settings at the bottom.
LEMMA GroundedInput ==
  ASSUME Grounded(ui), Input
  PROVE  Grounded(ui')
<1>1. NoModal => ui.modals = <<>>
  BY DEF NoModal, IsAnyModalOpen
<1>2. {"Leave", "Skip"} \subseteq Confirms /\ {"Settings", "Shop", "Help", "Fallback"} \subseteq PanelIds
  BY DEF Confirms, PanelIds
<1>3. \A id \in PanelIds : NoModal => Grounded(OpenModal(ui, id))
  BY <1>1, GroundedOpen
<1>4. CASE AnswerPrompt
  BY <1>4, GroundedControls DEF AnswerPrompt, panels
<1>5. CASE AskToSkip \/ AskToLeave
  BY <1>2, <1>5, GroundedOpenings DEF AskToSkip, AskToLeave, Only
<1>6. CASE NextStep \/ PreviousStep \/ StartMorph \/ GoHomeFromMode
  BY <1>6 DEF NextStep, PreviousStep, StartMorph, GoHomeFromMode, panels
<1>7. CASE ScriptedAdvance
  <2>1. CASE /\ Advance(lesson) \in ModalExplores \cup {"LeaderboardExplore"}
             /\ Only(OpenModal(ui, SpotPanel(Advance(lesson))))
    <3>1. SpotPanel(Advance(lesson)) \in PanelIds
      BY <2>1 DEF SpotPanel, ModalExplores, PanelIds
    <3>. QED
      BY <1>3, <1>7, <2>1, <3>1 DEF ScriptedAdvance, Only
  <2>2. CASE RequestLaunch(ui, FALSE) \/ CommitAgain
    BY <2>2, GroundedLaunch
  <2>. QED
    BY <1>7, <2>1, <2>2 DEF ScriptedAdvance
<1>8. CASE OpenRootPanel
  <2>1. PICK id \in {"Settings", "Shop", "Help"} : NoModal /\ Only(OpenModal(ui, id))
    BY <1>8 DEF OpenRootPanel, Reaches
  <2>. QED
    BY <1>2, <1>3, <2>1 DEF Only
<1>9. CASE LaunchMode
  BY <1>9, GroundedLaunch DEF LaunchMode
<1>10. CASE OpenCustomPopup
  <2>1. ui' = PushContext(ui, "Popup") /\ "Popup" \in ListNames
    BY <1>10 DEF OpenCustomPopup, Only, ListNames
  <2>. QED
    BY <2>1, GroundedContexts
<1>11. CASE PressClusterIcon
  <2>1. NoModal /\ OneOf(ClusterPanels)
    BY <1>11 DEF PressClusterIcon, Reaches
  <2>2. \A w \in ClusterPanels : Grounded(w)
    BY <1>2, <1>3, <2>1, GroundedOpenings DEF ClusterPanels
  <2>. QED
    BY <2>1, <2>2 DEF OneOf, Only
<1>12. CASE SubmitAnswers \/ LeavePostRound
  BY <1>12 DEF SubmitAnswers, LeavePostRound, Cut
<1>13. CASE PressAgain
  BY <1>13, GroundedLaunch DEF PressAgain
<1>14. CASE OpenClipboardFallback
  BY <1>14, GroundedFallback DEF OpenClipboardFallback, Only
<1>15. CASE PressCompleteButton
  BY <1>15, GroundedOpenings DEF PressCompleteButton, Only, FinishTo, panels
<1>16. CASE EscapePopup
  BY <1>16, GroundedContexts DEF EscapePopup, ListNames
<1>17. CASE PressPopupControl
  BY <1>17, GroundedLaunch DEF PressPopupControl
<1>18. CASE EscapePanel
  <2>1. ui' = [ui EXCEPT !.closing = TRUE] \/ ui' = CloseModal(ui)
    BY <1>18 DEF EscapePanel, Only
  <2>. QED
    BY <2>1, GroundedClose, GroundedRequests
<1>19. CASE PressSettingsStop
  BY <1>19, GroundedClose, GroundedControls DEF PressSettingsStop, Only
<1>20. CASE PressSubmodalStop
  BY <1>20, GroundedClose, GroundedStops, GroundedRelaid DEF PressSubmodalStop, Only
<1>21. CASE PressAuthStop
  BY <1>21, GroundedClose, GroundedControls DEF PressAuthStop, Only
<1>22. CASE PressBoardStop
  <2>1. \/ ui' = [ui EXCEPT !.closing = TRUE] \/ ui' = [ui EXCEPT !.submitting = TRUE]
        \/ ui' = CloseModal(ui) \/ BoardControls(ui)
    BY <1>22 DEF PressBoardStop, Only
  <2>. QED
    BY <2>1, GroundedClose, GroundedControls, GroundedRequests
<1>23. CASE PressShopStop
  BY <1>23, GroundedClose, GroundedStops DEF PressShopStop, OneOf, Only
<1>24. CASE PressHelpStop \/ PressConfirmStop
  BY <1>24, GroundedControls DEF PressHelpStop, PressConfirmStop
<1>25. CASE PressForeignStop
  BY <1>25, GroundedClose DEF PressForeignStop, Only
<1>. QED
  BY <1>4, <1>5, <1>6, <1>7, <1>8, <1>9, <1>10, <1>11, <1>12, <1>13, <1>14, <1>15, <1>16, <1>17,
     <1>18, <1>19, <1>20, <1>21, <1>22, <1>23, <1>24, <1>25 DEF Input

\* The ticks of a frame register lists or fire a launch.
LEMMA GroundedTick ==
  ASSUME Grounded(ui), Tick
  PROVE  Grounded(ui')
<1>1. ui' = ui \/ \E list \in ListNames : ui' = RegisterList(ui, list)
  <2>1. Screens \subseteq ListNames /\ CompleteList \in ListNames
    BY DEF ListNames, CompleteList
  <2>2. CASE FireLaunch
    BY <2>1, <2>2 DEF FireLaunch, Perform, Screens
  <2>3. CASE EnsureFocus
    <3>1. \/ ui' = ui \/ ui' = RegisterList(ui, CompleteList)
          \/ screen \in {"Root", "ModeSelection", "PostRound"} /\ ui' = RegisterList(ui, screen)
      BY <2>3 DEF EnsureFocus, Register
    <3>. QED
      BY <2>1, <3>1 DEF Screens
  <2>. QED
    BY <2>2, <2>3 DEF Tick
<1>. QED
  BY <1>1, GroundedContexts

\* So does drawing the screen, with the click it takes.
LEMMA GroundedScreen ==
  ASSUME Grounded(ui), DrawScreen
  PROVE  Grounded(ui')
<1>1. CASE DrawMorph
  BY <1>1 DEF DrawMorph
<1>2. CASE DrawPopup
  <2>1. ui' = ui \/ PopupControl \/ ui' = PopContext(ui)
    BY <1>2 DEF DrawPopup, acted, panels
  <2>. QED
    BY <2>1, GroundedLaunch, GroundedContexts DEF ListNames
<1>3. CASE ScreenIsClicked
  <2>1. ui.modals = <<>>
    BY <1>3 DEF ScreenIsClicked, NoModal, IsAnyModalOpen
  <2>2. \A w \in ClusterPanels : Grounded(w)
    <3>1. "Leave" \in Confirms /\ {"Settings", "Shop", "Help"} \subseteq PanelIds
      BY DEF Confirms, PanelIds
    <3>. QED
      BY <2>1, <3>1, GroundedOpen, GroundedOpenings DEF ClusterPanels
  <2>3. \/ \E w \in ClusterPanels : ui' = w
        \/ CommitAgain \/ ui' = ui
    BY <1>3 DEF ScreenIsClicked, OneOf, Only, Cut
  <2>. QED
    BY <2>2, <2>3, GroundedLaunch
<1>4. CASE FallbackIsClicked
  BY <1>4, GroundedFallback DEF FallbackIsClicked
<1>5. CASE UNCHANGED acted
  BY <1>5 DEF acted, panels
<1>. QED
  BY <1>1, <1>2, <1>3, <1>4, <1>5 DEF DrawScreen

\* Servicing a panel leaves the modal stack alone.
LEMMA ServicedModals ==
  ASSUME NEW u, PanelState(u)
  PROVE  Serviced(u).modals = u.modals /\ TopModal(Serviced(u)) = TopModal(u)
<1>1. RefreshAccountSection(u).modals = u.modals
  <2>1. SettingsList \in ListNames
    BY DEF ListNames, SettingsList
  <2>. QED
    BY <2>1, RelaidDoes DEF RefreshAccountSection
<1>2. ServeDocSwitch(u).modals = u.modals
  BY DEF ServeDocSwitch, PanelState, Panelled
<1>3. Serviced(u).modals = u.modals
  BY <1>1, <1>2 DEF Serviced
<1>. QED
  BY <1>3 DEF TopModal

\* And drawing the top panel, with the click it takes.
LEMMA GroundedPanel ==
  ASSUME Grounded(ui), member \in BOOLEAN, DrawPanel
  PROVE  Grounded(ui')
<1>1. CASE UNCHANGED acted
  BY <1>1 DEF acted, panels
<1>2. CASE BoardIsDrawn(ui)
  <2>1. ASSUME NEW v \in BoardClicks(ui) PROVE Grounded(v)
    <3>1. \/ v = [ui EXCEPT !.closing = TRUE] \/ v = [ui EXCEPT !.submitting = member]
          \/ v = OpenReport(ui) \/ v \in YourRowSignsIn(ui)
      BY <2>1 DEF BoardClicks
    <3>. QED
      BY <3>1, GroundedRequests, GroundedRelaid, GroundedStops
  <2>2. ASSUME NEW v \in BoardClicks(ui), NEW w \in ServeReport(v), ui' = w PROVE Grounded(ui')
    BY <2>1, <2>2, GroundedRelaid
  <2>3. ASSUME NEW w \in ServeReport(ui),
               \/ ui' \in {[w EXCEPT !.fresh = @ /\ click # "None"], SwapTo(w, "Shop"), CloseModal(w)}
               \/ ui' = w
        PROVE  Grounded(ui')
    <3>1. Grounded(w)
      BY GroundedRelaid
    <3>2. (w.fresh /\ click # "None") \in BOOLEAN
      OBVIOUS
    <3>3. Grounded([w EXCEPT !.fresh = @ /\ click # "None"])
      BY <3>1, <3>2, GroundedRequests
    <3>. QED
      BY <2>3, <3>1, <3>3, GroundedStops, GroundedClose
  <2>. QED
    BY <1>2, <2>2, <2>3 DEF BoardIsDrawn, OneOf, Only, Change
<1>3. CASE TopModal(ui) \notin {"None", "Fallback", "Leaderboard"} /\ PanelIsDrawn(Serviced(ui))
  <2>. DEFINE u == Serviced(ui)
  <2>1. Grounded(u)
    BY GroundedRelaid DEF Serviced
  <2>2. TopModal(u) = TopModal(ui) /\ TopModal(ui) \in PanelIds
    BY <1>3, ServicedModals, StackFacts DEF Grounded
  <2>3. PanelIsDrawn(u)
    BY <1>3
  <2>. HIDE DEF u
  <2>4. Grounded([u EXCEPT !.fresh = @ /\ click # "None"]) /\ Grounded(CloseModal(u))
    <3>1. (u.fresh /\ click # "None") \in BOOLEAN
      OBVIOUS
    <3>. QED
      BY <2>1, <3>1, GroundedRequests, GroundedClose
  <2>5. ASSUME PanelControls(u) PROVE Grounded(ui')
    <3>1. \/ SettingsControls(u, SettingsList) \/ AuthControls(u, FormStops(FormOf(u)))
          \/ HelpControls(u, Locked) \/ ConfirmControls(u)
          \/ ui' \in {CloseModal(u), SectionReset(u), RequestDocSwitch(u), SwapTo(u, "Leaderboard")}
      BY <1>3, <2>2, <2>5 DEF PanelControls, OneOf, Only, PanelIds
    <3>. QED
      BY <2>1, <2>4, <3>1, GroundedControls, GroundedStops, GroundedRelaid
  <2>. QED
    BY <2>3, <2>4, <2>5 DEF PanelIsDrawn, Only
<1>. QED
  BY <1>1, <1>2, <1>3 DEF DrawPanel

\* Every step keeps Settings at the bottom.
LEMMA NextGrounded ==
  ASSUME Grounded(ui), member \in BOOLEAN, [Next]_vars
  PROVE  Grounded(ui')
<1>1. CASE Input
  BY <1>1, GroundedInput
<1>2. CASE AssetsArrive \/ DrawTour \/ UNCHANGED vars
  BY <1>2 DEF AssetsArrive, DrawTour, vars, panels
<1>3. CASE Tick \/ DrawScreen \/ DrawPanel
  BY <1>3, GroundedTick, GroundedScreen, GroundedPanel
<1>. QED
  BY <1>1, <1>2, <1>3 DEF Next, Frame

\* What a row of Settings opens lies over Settings, which fits under the cap.
LEMMA SettingsIsCovered ==
  ASSUME NEW u, PanelState(u), Len(u.modals) = 1, NEW rows,
         NEW w \in SettingsOpens(u) \cup AccountRows(u, rows)
  PROVE  TopModal(w) # "Settings"
<1>1. ASSUME NEW s, PanelState(s), s.modals = u.modals, NEW id \in PanelIds
      PROVE  OpenModal(s, id).modals = Append(u.modals, id) /\ PanelState(OpenModal(s, id))
  <2>1. Len(s.modals) # kMaxModalDepth
    BY <1>1 DEF kMaxModalDepth
  <2>. QED
    BY <1>1, <2>1, OpenedModals
<1>2. \A id \in PanelIds : Append(u.modals, id) # <<>>
        /\ Append(u.modals, id)[Len(Append(u.modals, id))] = id
  BY AppendTo, StackFacts
<1>3. {"Confirm", "Section", "Doc", "Auth"} \subseteq PanelIds
  BY DEF PanelIds
<1>4. \A s, id : PanelState(s) /\ s.modals = u.modals /\ id \in PanelIds => TopModal(OpenModal(s, id)) = id
  BY <1>1, <1>2 DEF TopModal
<1>5. \A what \in Confirms : TopModal(OpenConfirm(u, what)) = "Confirm"
  <2>. DEFINE v == OpenModal(u, "Confirm")
  <2>1. PanelState(v) /\ TopModal(v) = "Confirm"
    BY <1>1, <1>3, <1>4
  <2>. HIDE DEF v
  <2>2. \A what : [v EXCEPT !.confirm = what].modals = v.modals
    BY <2>1 DEF PanelState, Panelled
  <2>. QED
    BY <2>1, <2>2 DEF OpenConfirm, TopModal, v
<1>6. \A doc \in Docs : TopModal(OpenDoc(u, doc)) = "Doc"
  <2>. TAKE doc \in Docs
  <2>1. PanelState([u EXCEPT !.doc = doc]) /\ [u EXCEPT !.doc = doc].modals = u.modals
    BY DEF PanelState, Panelled
  <2>. QED
    BY <1>3, <1>4, <2>1 DEF OpenDoc
<1>7. \A mode \in {"SignIn", "SignUp"} : TopModal(OpenAuth(u, mode)) = "Auth"
  <2>. TAKE mode \in {"SignIn", "SignUp"}
  <2>1. PanelState([u EXCEPT !.mode = mode]) /\ [u EXCEPT !.mode = mode].modals = u.modals
    BY DEF PanelState, Panelled
  <2>. QED
    BY <1>3, <1>4, <2>1 DEF OpenAuth
<1>8. TopModal(OpenModal(u, "Section")) = "Section"
  BY <1>3, <1>4
<1>9. \/ \E what \in {"ResetAll", "Harmless", "Delete"} : w = OpenConfirm(u, what)
      \/ w = OpenModal(u, "Section")
      \/ \E doc \in {"About", "Terms"} : w = OpenDoc(u, doc)
      \/ \E mode \in {"SignIn", "SignUp"} : w = OpenAuth(u, mode)
  BY DEF SettingsOpens, AccountRows
<1>10. {"ResetAll", "Harmless", "Delete"} \subseteq Confirms /\ {"About", "Terms"} \subseteq Docs
  BY DEF Confirms, Docs
<1>. QED
  BY <1>5, <1>6, <1>7, <1>8, <1>9, <1>10

----------------------------------------------------------------------------
(* The theorems. *)

\* The interface keeps its invariant, however many inputs fall between two frames and
\* however long the script's tours are.
THEOREM InterfaceInvariant == Spec => []IInv
<1>1. Init => IInv
  BY InitIInv
<1>2. IInv /\ [Next]_vars => IInv'
  BY NextIInv
<1>. QED
  BY <1>1, <1>2, PTL DEF Spec

\* As long as no caller has worked on another's context, there is one focus context for
\* every open panel, one for the popup and one for the screen, and the modal stack is
\* never at its cap, where a panel would be dropped.
THEOREM StacksStayInStep == Spec => []StacksInStep
<1>1. ASSUME IInv PROVE StacksInStep
  <2>1. Core /\ FrameTyped /\ PanelState(ui)
    BY <1>1 DEF IInv, Core, Typed
  <2>2. TutorialTypeOK
    BY <2>1 DEF Core, Typed, TutorialTypeOK, Lesson, ForcedSettings
  <2>3. PanelTypeOK
    <3>1. DOMAIN ui.modals = 1 .. Len(ui.modals)
      BY <2>1, StackFacts
    <3>2. Len(ui.contexts) >= 1 /\ \A i \in DOMAIN ui.modals : ui.modals[i] \in PanelIds
      BY <2>1, <3>1, StackFacts
    <3>3. member \in BOOLEAN /\ ui \in Panelled
      BY <2>1 DEF Core, Typed, PanelState
    <3>. QED
      BY <3>2, <3>3 DEF PanelTypeOK, Panelled
  <2>4. InterfaceTypeOK
    BY <2>1, <2>2, <2>3 DEF InterfaceTypeOK, Core, Typed, FrameTyped
  <2>5. ASSUME ~astray
        PROVE  /\ Len(ui.contexts) = 1 + Len(ui.modals) + (IF popup = "Closed" THEN 0 ELSE 1)
               /\ Len(ui.modals) < kMaxModalDepth
    <3>1. Nested(ui.modals) /\ Len(ui.contexts) = Base(popup) + Len(ui.modals)
      BY <2>1, <2>5 DEF Core, InStep, Layered
    <3>2. Len(ui.modals) \in Nat /\ Len(ui.modals) < kMaxModalDepth
      BY <2>1, <3>1, NestedFacts, StackFacts
    <3>3. CASE popup = "Closed"
      BY <3>1, <3>2, <3>3 DEF Base
    <3>4. CASE popup # "Closed"
      BY <3>1, <3>2, <3>4 DEF Base
    <3>. QED
      BY <3>3, <3>4
  <2>. QED
    BY <2>4, <2>5 DEF StacksInStep
<1>. QED
  BY <1>1, InterfaceInvariant, PTL

\* When a screen is about to be drawn, the keyboard works on the top panel, on the popup
\* or on that screen, and the Settings registry has the stops of the modal on top.
THEOREM FocusStaysTrapped == Spec => []FocusIsTrapped
<1>1. ASSUME IInv PROVE FocusIsTrapped
  <2>. SUFFICES ASSUME ~astray
                PROVE  /\ stage = "Screen" => Active(ui) \in ExpectedLists
                       /\ TopModal(ui) \in {"Settings", "Section", "Doc"} => ui.registry = TopModal(ui)
    BY DEF FocusIsTrapped
  <2>. DEFINE n == Len(ui.modals)
  <2>1. Layered(ui, popup) /\ PanelState(ui) /\ StageRight
    BY <1>1 DEF IInv, Core, Typed, InStep
  <2>2. /\ n \in Nat /\ (ui.modals = <<>> <=> n = 0)
        /\ TopModal(ui) = IF n = 0 THEN "None" ELSE ui.modals[n]
    BY <2>1, StackFacts
  <2>3. Len(ui.contexts) = Base(popup) + n
    BY <2>1 DEF Layered
  <2>. HIDE DEF n
  <2>4. ASSUME stage = "Screen" PROVE Active(ui) \in ExpectedLists
    <3>1. CASE ui.modals # <<>>
      <4>1. n \in 1 .. n
        BY <2>2, <3>1
      <4>2. ui.contexts[Base(popup) + n] \in PanelLists(ui.modals[n])
        BY <2>1, <4>1 DEF Layered, n
      <4>. QED
        BY <2>2, <2>3, <3>1, <4>2 DEF Active, ExpectedLists, IsAnyModalOpen
    <3>2. CASE ui.modals = <<>> /\ popup # "Closed"
      <4>1. Len(ui.contexts) = 2
        BY <2>2, <2>3, <3>2 DEF Base
      <4>2. ui.contexts[2] = "Popup"
        BY <2>1, <3>2 DEF Layered
      <4>. QED
        BY <3>2, <4>1, <4>2 DEF Active, ExpectedLists, IsAnyModalOpen
    <3>3. CASE ui.modals = <<>> /\ popup = "Closed"
      <4>1. Len(ui.contexts) = 1
        BY <2>2, <2>3, <3>3 DEF Base
      <4>2. ui.contexts[1] \in ScreenLists(screen)
        BY <2>1, <2>4 DEF StageRight
      <4>. QED
        BY <3>3, <4>1, <4>2 DEF Active, ExpectedLists, IsAnyModalOpen, ScreenLists
    <3>. QED
      BY <3>1, <3>2, <3>3
  <2>5. ASSUME TopModal(ui) \in {"Settings", "Section", "Doc"} PROVE ui.registry = TopModal(ui)
    <3>1. Nested(ui.modals) /\ RegistryRight(ui) /\ n > 0 /\ ui.modals # <<>>
      BY <2>1, <2>2, <2>5 DEF Layered
    <3>2. TopModal(ui) = "Settings" => n = 1
      BY <2>1, <3>1, NestedFacts DEF n
    <3>3. TopModal(ui) \in {"Settings", "Section"} => ui.modals[1] = "Settings"
      BY <2>1, <2>2, <3>1, <3>2, NestedFacts DEF n
    <3>. QED
      BY <2>5, <3>1, <3>3 DEF RegistryRight
  <2>. QED
    BY <2>4, <2>5
<1>. QED
  BY <1>1, InterfaceInvariant, PTL

\* However the tutorial ends, no forced setting is left live over a profile of the
\* user's own.
THEOREM ForcingEnds == Spec => []ForcingEndsWithTheLesson
<1>1. IInv => ForcingEndsWithTheLesson
  BY DEF IInv, Core
<1>. QED
  BY <1>1, InterfaceInvariant, PTL

\* Once the tutorial was polled, its substep is one of the screen that is shown.
THEOREM ScriptStaysOnScreen == Spec => []ScriptFollowsScreen
<1>1. IInv => ScriptFollowsScreen
  BY DEF IInv, StageRight, ScriptFollowsScreen
<1>. QED
  BY <1>1, InterfaceInvariant, PTL

\* A frame that draws Settings, and leaves it on top, leaves it with the rows of the
\* account that is signed in, whatever panel signed it in or out, also once a caller has
\* gone astray.
THEOREM RowsAreOfTheAccount == Spec => RowsFollowTheAccount
<1>1. Init => Grounded(ui)
  <2>. HAVE Init
  <2>1. PanelState(ui)
    BY InitIInv DEF IInv, Core, Typed
  <2>2. Len(ui.modals) = 0
    BY EmptySeq DEF Init, PanelInit, NoPanel
  <2>. QED
    BY <2>1, <2>2 DEF Grounded
<1>2. ASSUME IInv, Grounded(ui), [Next]_vars PROVE Grounded(ui)'
  <2>1. member \in BOOLEAN
    BY <1>2 DEF IInv, Core, Typed
  <2>. QED
    BY <1>2, <2>1, NextGrounded DEF Grounded, PanelState
<1>3. ASSUME IInv, Grounded(ui), Next, stage = "Panel", TopModal(ui) = "Settings",
             TopModal(ui') = "Settings"
      PROVE  Active(ui') = SettingsList
  <2>. DEFINE u == Serviced(ui)
  <2>1. DrawPanel
    <3>1. ~Input
      BY <1>3, InputFrame DEF IInv
    <3>. QED
      BY <1>3, <3>1 DEF Next, Frame, AssetsArrive, Tick, DrawScreen, DrawTour
  <2>2. PanelIsDrawn(u)
    BY <1>3, <2>1 DEF DrawPanel
  <2>3. PanelState(ui) /\ ui.modals # <<>> /\ Len(ui.modals) = 1
    <3>. DEFINE n == Len(ui.modals)
    <3>1. PanelState(ui) /\ n \in Nat /\ n # 0 /\ ui.modals[n] = "Settings" /\ ui.modals # <<>>
      BY <1>3, StackFacts DEF Grounded
    <3>2. n \notin 2 .. n
      BY <1>3, <3>1 DEF Grounded
    <3>. HIDE DEF n
    <3>3. n = 1
      BY <3>1, <3>2
    <3>. QED
      BY <3>1, <3>3 DEF n
  <2>4. PanelState(u) /\ u.modals = ui.modals /\ TopModal(u) = "Settings"
    BY <1>3, <2>3, GroundedRelaid, ServicedModals DEF Serviced, Grounded
  <2>5. Active(u) = SettingsList
    <3>1. u = RefreshAccountSection(ui) /\ SettingsList \in ListNames
      BY <1>3 DEF Serviced, ListNames, SettingsList
    <3>2. PanelState(PopContext(ui))
      BY <2>3, PopContextDoes
    <3>3. Active(Relaid(ui, SettingsList)) = SettingsList
      BY <3>1, <3>2, PushContextDoes DEF Relaid, Active
    <3>. QED
      BY <3>1, <3>3 DEF RefreshAccountSection
  <2>. HIDE DEF u
  <2>6. TopModal(CloseModal(u)) # "Settings"
    <3>. DEFINE v == CloseModal(u)
    <3>1. PanelState(v) /\ Len(v.modals) = Len(u.modals) - 1
      BY <2>3, <2>4, CloseModalDoes
    <3>. HIDE DEF v
    <3>2. Len(v.modals) = 0
      BY <2>3, <2>4, <3>1
    <3>. QED
      BY <3>1, <3>2, StackFacts DEF v
  <2>7. ASSUME ui' = u \/ ui' = [u EXCEPT !.fresh = @ /\ click # "None"] PROVE Active(ui') = SettingsList
    <3>1. ui'.contexts = u.contexts
      BY <2>4, <2>7 DEF PanelState, Panelled
    <3>. QED
      BY <2>5, <3>1 DEF Active
  <2>8. ASSUME PanelControls(u) PROVE ui' = u
    <3>1. ui' = CloseModal(u) \/ SettingsControls(u, SettingsList)
      BY <2>4, <2>8 DEF PanelControls, Only
    <3>2. \/ ui' = u \/ ui' \in SettingsOpens(u) \cup AccountRows(u, SettingsList)
      BY <1>3, <2>6, <3>1 DEF SettingsControls, OneOf, Only, Change, LeaveAccount
    <3>. QED
      BY <1>3, <2>3, <2>4, <3>2, SettingsIsCovered
  <2>. QED
    BY <1>3, <2>2, <2>6, <2>7, <2>8 DEF PanelIsDrawn, Only
<1>4. IInv /\ Grounded(ui) /\ [Next]_vars =>
        [stage = "Panel" /\ TopModal(ui) = "Settings" /\ TopModal(ui') = "Settings" /\ member' = member
           => Active(ui') = SettingsList]_vars
  BY <1>3
<1>. QED
  BY <1>1, <1>2, <1>4, InterfaceInvariant, PTL DEF Spec, RowsFollowTheAccount
=============================================================================
