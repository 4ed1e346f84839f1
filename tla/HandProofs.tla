------------------------------ MODULE HandProofs ------------------------------
(***************************************************************************)
(* Proofs about Scenario, FocusStack and Hand, for any seeds, settings and *)
(* bet tiers: the sheet is graded as it is shown, the recap hides nothing, *)
(* a lesson is never submitted with a blank, the caret follows the ring,   *)
(* and every deal is sound.                                                *)
(***************************************************************************)
EXTENDS Hand, FiniteSetTheorems, SequenceTheorems, WellFoundedInduction, TLAPS

(* ------------------------------- sequences ------------------------------- *)

\* A set of natural numbers without a least element is empty.
LEMMA NoDescent ==
  ASSUME NEW B \in SUBSET Nat, \A k \in B : \E j \in B : j < k
  PROVE  B = {}
<1>. DEFINE Less == OpToRel(<, Nat)
<1>1. IsWellFoundedOn(Less, Nat)
  BY NatLessThanWellFounded
<1>2. ASSUME NEW a \in Nat, NEW b \in Nat, a < b PROVE <<a, b>> \in Less
  BY <1>2, Zenon DEF OpToRel
<1>. HIDE DEF Less
<1>3. CASE B # {}
  <2>1. PICK n \in B : \A k \in B : <<k, n>> \notin Less
    BY <1>1, <1>3, WFMin, Zenon
  <2>2. PICK j \in B : j < n
    OBVIOUS
  <2>3. <<j, n>> \in Less
    BY <1>2, <2>2
  <2>. QED
    BY <2>1, <2>3
<1>. QED
  BY <1>3

\* A flattened sequence is the last of its prefixes, each one the one before it with
\* the next part at its end.
LEMMA FlattenIs ==
  ASSUME NEW n \in Nat, n >= 1, NEW G, NEW seqs \in [1 .. n -> G], NEW H,
         NEW h \in [1 .. n -> H], h[1] = seqs[1],
         \A i \in 2 .. n : h[i] = h[i - 1] \o seqs[i]
  PROVE  FlattenSeq(seqs) = h[n]
<1>0. ASSUME NEW i \in 1 .. n, i # 1 PROVE h[i] = h[i - 1] \o seqs[i] /\ i - 1 \in 1 .. n
  <2>1. i \in 2 .. n /\ i - 1 \in 1 .. n
    BY <1>0
  <2>. QED
    BY <2>1, Zenon
<1>. DEFINE Joins(g) == g = [i \in 1 .. n |-> IF i = 1 THEN seqs[i] ELSE g[i - 1] \o seqs[i]]
<1>1. Len(seqs) = n
  <2>1. seqs \in Seq(G)
    BY SeqDef
  <2>2. DOMAIN seqs = 1 .. Len(seqs) /\ Len(seqs) \in Nat
    BY <2>1, LenProperties
  <2>3. 1 .. n = 1 .. Len(seqs)
    BY <2>2
  <2>. QED
    BY <2>2, <2>3
<1>2. Joins(h)
  <2>1. \A i \in 1 .. n : h[i] = IF i = 1 THEN seqs[i] ELSE h[i - 1] \o seqs[i]
    BY <1>0, Zenon
  <2>2. [i \in 1 .. n |-> h[i]] = [i \in 1 .. n |-> IF i = 1 THEN seqs[i] ELSE h[i - 1] \o seqs[i]]
    BY <2>1, Zenon
  <2>3. h = [i \in 1 .. n |-> h[i]]
    OBVIOUS
  <2>. QED
    BY <2>2, <2>3, Zenon
<1>3. ASSUME NEW g, Joins(g) PROVE g = h
  <2>1. DOMAIN g = 1 .. n /\ \A i \in 1 .. n : g[i] = IF i = 1 THEN seqs[i] ELSE g[i - 1] \o seqs[i]
    BY <1>3, Zenon
  <2>2. g = [i \in 1 .. n |-> g[i]]
    BY <1>3, <2>1
  <2>. DEFINE B == {i \in 1 .. n : g[i] # h[i]}
  <2>3. ASSUME NEW i \in B PROVE i - 1 \in B /\ i - 1 < i
    <3>1. i \in 1 .. n /\ g[i] # h[i]
      OBVIOUS
    <3>2. g[i] = IF i = 1 THEN seqs[i] ELSE g[i - 1] \o seqs[i]
      BY <2>1, <3>1
    <3>3. i # 1
      BY <3>1, <3>2
    <3>4. h[i] = h[i - 1] \o seqs[i] /\ i - 1 \in 1 .. n
      BY <1>0, <3>1, <3>3
    <3>5. g[i - 1] # h[i - 1]
      BY <3>1, <3>2, <3>3, <3>4, Zenon
    <3>. QED
      BY <3>1, <3>4, <3>5
  <2>4. B \in SUBSET Nat
    OBVIOUS
  <2>5. B = {}
    <3>. HIDE DEF B
    <3>1. \A i \in B : \E j \in B : j < i
      BY <2>3
    <3>. QED
      BY <2>4, <3>1, NoDescent
  <2>6. \A i \in 1 .. n : g[i] = h[i]
    BY <2>5
  <2>7. h = [i \in 1 .. n |-> h[i]]
    OBVIOUS
  <2>8. [i \in 1 .. n |-> g[i]] = [i \in 1 .. n |-> h[i]]
    BY <2>6, Zenon
  <2>. QED
    BY <2>2, <2>7, <2>8
<1>. DEFINE Called(g) == g = [i \in 1 .. Len(seqs) |-> IF i = 1 THEN seqs[i] ELSE g[i - 1] \o seqs[i]]
            called == CHOOSE g : Called(g)
<1>4. FlattenSeq(seqs) = called[Len(seqs)]
  <2>1. Len(seqs) # 0
    BY <1>1
  <2>. QED
    BY <2>1, Zenon DEF FlattenSeq
<1>5. \A g : Called(g) <=> Joins(g)
  BY <1>1
<1>. HIDE DEF Called, Joins
<1>6. Called(called)
  BY <1>2, <1>5
<1>7. called = h
  BY <1>3, <1>5, <1>6
<1>. HIDE DEF called
<1>. QED
  BY <1>1, <1>4, <1>7

\* The sums exist and each is the one before it and a number more.
LEMMA PrefixSumsAre ==
  ASSUME NEW N \in Nat, NEW numbers \in [1 .. N -> Int]
  PROVE  LET sums == PrefixSums(numbers)
         IN sums[0] = 0 /\ \A n \in 1 .. N : sums[n] \in Int /\ sums[n - 1] \in Int /\ sums[n] = sums[n - 1] + numbers[n]
<1>1. Len(numbers) = N
  <2>1. numbers \in Seq(Int)
    BY SeqDef
  <2>2. DOMAIN numbers = 1 .. Len(numbers) /\ Len(numbers) \in Nat
    BY <2>1, LenProperties
  <2>3. 1 .. N = 1 .. Len(numbers)
    BY <2>2
  <2>. QED
    BY <2>2, <2>3
<1>. DEFINE Adds(h, k) == h[0] = 0 /\ \A n \in 1 .. k : h[n] = h[n - 1] + numbers[n]
            B == {k \in 0 .. N : ~\E h \in [0 .. k -> Int] : Adds(h, k)}
<1>2. ASSUME NEW k \in B PROVE \E j \in B : j < k
  <2>1. k \in 0 .. N /\ ~\E h \in [0 .. k -> Int] : Adds(h, k)
    OBVIOUS
  <2>2. k # 0
    <3>1. CASE k = 0
      <4>. DEFINE h == [n \in 0 .. k |-> 0]
      <4>1. h \in [0 .. k -> Int] /\ h[0] = 0
        BY <3>1
      <4>2. Adds(h, k)
        BY <3>1, <4>1
      <4>. QED
        BY <2>1, <4>1, <4>2
    <3>. QED
      BY <3>1
  <2>3. k - 1 \in 0 .. N
    BY <2>1, <2>2
  <2>4. ASSUME NEW g \in [0 .. k - 1 -> Int], Adds(g, k - 1) PROVE FALSE
    <3>. DEFINE h == [n \in 0 .. k |-> IF n = k THEN g[k - 1] + numbers[k] ELSE g[n]]
    <3>1. h \in [0 .. k -> Int]
      BY <2>1, <2>2
    <3>2. h[0] = 0
      BY <2>1, <2>2, <2>4
    <3>3. ASSUME NEW n \in 1 .. k PROVE h[n] = h[n - 1] + numbers[n]
      <4>1. CASE n = k
        BY <4>1, <2>1, <2>2
      <4>2. CASE n # k
        <5>1. n \in 1 .. k - 1 /\ h[n] = g[n] /\ h[n - 1] = g[n - 1]
          BY <4>2, <2>1, <2>2
        <5>. QED
          BY <5>1, <2>4
      <4>. QED
        BY <4>1, <4>2
    <3>4. Adds(h, k)
      BY <3>2, <3>3
    <3>. HIDE DEF h
    <3>. QED
      BY <2>1, <3>1, <3>4
  <2>5. k - 1 \in B
    BY <2>3, <2>4
  <2>6. k - 1 < k
    BY <2>1
  <2>. HIDE DEF B
  <2>. QED
    BY <2>5, <2>6
<1>3. B = {}
  <2>1. B \in SUBSET Nat
    OBVIOUS
  <2>. HIDE DEF B
  <2>. QED
    BY <1>2, <2>1, NoDescent
<1>4. PICK h \in [0 .. N -> Int] : Adds(h, N)
  <2>. HIDE DEF Adds
  <2>1. N \notin B
    BY <1>3, Zenon
  <2>2. N \in 0 .. N
    OBVIOUS
  <2>. QED
    BY <2>1, <2>2
<1>. DEFINE Sums(g) == g = [n \in 0 .. Len(numbers) |-> IF n = 0 THEN 0 ELSE g[n - 1] + numbers[n]]
            sums == CHOOSE g : Sums(g)
<1>5. Sums(h)
  <2>1. \A n \in 0 .. N : h[n] = IF n = 0 THEN 0 ELSE h[n - 1] + numbers[n]
    BY <1>4
  <2>2. h = [n \in 0 .. N |-> h[n]]
    OBVIOUS
  <2>3. [n \in 0 .. N |-> h[n]] = [n \in 0 .. N |-> IF n = 0 THEN 0 ELSE h[n - 1] + numbers[n]]
    BY <2>1, Zenon
  <2>. QED
    BY <1>1, <2>2, <2>3, Zenon
<1>6. Sums(sums)
  <2>. HIDE DEF Sums
  <2>. QED
    BY <1>5
<1>7. PrefixSums(numbers) = sums
  BY Zenon DEF PrefixSums
<1>8. \A n \in 0 .. N : sums[n] = IF n = 0 THEN 0 ELSE sums[n - 1] + numbers[n]
  <2>. HIDE DEF sums
  <2>. QED
    BY <1>1, <1>6
<1>. HIDE DEF sums
<1>9. \A n \in 0 .. N : sums[n] \in Int
  <2>. DEFINE C == {n \in 0 .. N : sums[n] \notin Int}
  <2>1. ASSUME NEW n \in C PROVE \E j \in C : j < n
    <3>1. n \in 0 .. N /\ sums[n] \notin Int
      OBVIOUS
    <3>2. n # 0
      BY <1>8, <3>1
    <3>3. sums[n] = sums[n - 1] + numbers[n] /\ numbers[n] \in Int /\ n - 1 \in 0 .. N
      BY <1>8, <3>1, <3>2
    <3>4. n - 1 \in C
      BY <3>1, <3>3
    <3>. QED
      BY <3>1, <3>4
  <2>2. C \in SUBSET Nat
    OBVIOUS
  <2>3. C = {}
    <3>. HIDE DEF C
    <3>. QED
      BY <2>1, <2>2, NoDescent
  <2>. QED
    BY <2>3
<1>10. sums[0] = 0
  BY <1>8
<1>11. ASSUME NEW n \in 1 .. N PROVE sums[n] \in Int /\ sums[n - 1] \in Int /\ sums[n] = sums[n - 1] + numbers[n]
  BY <1>8, <1>9
<1>. QED
  BY <1>7, <1>10, <1>11

\* The least of a set of natural numbers.
LEMMA LeastIs ==
  ASSUME NEW S \in SUBSET Nat, S # {}
  PROVE  \E n \in S : \A m \in S : n <= m
<1>1. PICK n \in S : ~\E m \in S : m < n
  BY NoDescent
<1>. QED
  BY <1>1

(* -------------------------------- the sheet ------------------------------ *)

LEMMA TierCount == kBetTierCount \in Nat /\ kBetTierCount >= 1 /\ BetTiers = 1 .. kBetTierCount
  BY ScenarioAssumption, LenProperties, EmptySeq DEF kBetTierCount, BetTiers

\* A hand that a launch may deal.
Fit(s) == s.type \in ScenarioTypes /\ s.multi_tier \in BOOLEAN /\ (~s.multi_tier => s.presented \in BetTiers)

\* The bet sizes a hand asks about: how many, and which one comes n-th.
Sizes(s) == IF s.multi_tier THEN kBetTierCount ELSE 1
SizeAt(s, n) == IF s.multi_tier THEN n ELSE s.presented

\* How many boxes come before the equity, and how many before the first EV.
Breakevens(s) == IF AsksBreakeven(s.type) THEN Sizes(s) ELSE 0
BeforeEv(s) == Breakevens(s) + (IF AsksEquityIfCalled(s.type) THEN 1 ELSE 0)

CallerBoxes == <<<<"PotOdds", 0>>, <<"Outs", 0>>, <<"Equity", 0>>, <<"Ev", 0>>>>

LEMMA SizesAre ==
  ASSUME NEW s, Fit(s)
  PROVE  /\ Sizes(s) \in Nat /\ Sizes(s) >= 1 /\ Breakevens(s) \in {0, Sizes(s)}
         /\ BeforeEv(s) \in {Breakevens(s), Breakevens(s) + 1}
         /\ \A n \in 1 .. Sizes(s) : SizeAt(s, n) \in BetTiers
         /\ \A n \in 1 .. Sizes(s), m \in 1 .. Sizes(s) : SizeAt(s, n) = SizeAt(s, m) => n = m
<1>1. CASE s.multi_tier
  BY <1>1, TierCount DEF Fit, Sizes, SizeAt, Breakevens, BeforeEv
<1>2. CASE ~s.multi_tier
  BY <1>2, TierCount DEF Fit, Sizes, SizeAt, Breakevens, BeforeEv
<1>. QED
  BY <1>1, <1>2 DEF Fit

LEMMA StopsAre ==
  /\ \A t \in BetTiers : <<"Breakeven", t>> \in Stops /\ <<"Ev", t>> \in Stops
  /\ <<"PotOdds", 0>> \in Stops /\ <<"Outs", 0>> \in Stops /\ <<"Equity", 0>> \in Stops /\ <<"Ev", 0>> \in Stops
  /\ <<"Shop", 0>> \in Stops /\ <<"X", 0>> \in Stops /\ NoStop \in Stops /\ BetGroup \in Stops
  BY TierCount DEF Stops, NoStop, BetGroup

\* A group of boxes, one per size, or none.
LEMMA PerTierIs ==
  ASSUME NEW s, Fit(s), NEW input
  PROVE  LET tiers == IF s.multi_tier THEN [t \in BetTiers |-> t] ELSE <<s.presented>>
         IN  /\ [n \in DOMAIN tiers |-> <<input, tiers[n]>>] = [n \in 1 .. Sizes(s) |-> <<input, SizeAt(s, n)>>]
             /\ <<>> = [n \in 1 .. 0 |-> <<input, SizeAt(s, n)>>]
<1>. DEFINE tiers == IF s.multi_tier THEN [t \in BetTiers |-> t] ELSE <<s.presented>>
            none == [n \in 1 .. 0 |-> <<input, SizeAt(s, n)>>]
<1>1. DOMAIN tiers = 1 .. Sizes(s) /\ \A n \in 1 .. Sizes(s) : tiers[n] = SizeAt(s, n)
  <2>1. CASE s.multi_tier
    BY <2>1, TierCount DEF Sizes, SizeAt
  <2>2. CASE ~s.multi_tier
    BY <2>2 DEF Sizes, SizeAt
  <2>. QED
    BY <2>1, <2>2 DEF Fit
<1>. HIDE DEF tiers
<1>2. [n \in DOMAIN tiers |-> <<input, tiers[n]>>] = [n \in 1 .. Sizes(s) |-> <<input, SizeAt(s, n)>>]
  BY <1>1
<1>3. <<>> = none
  <2>1. none \in [1 .. 0 -> {}]
    OBVIOUS
  <2>. HIDE DEF none
  <2>2. none \in Seq({})
    BY <2>1, SeqDef
  <2>3. DOMAIN none = 1 .. Len(none) /\ Len(none) \in Nat
    BY <2>2, LenProperties
  <2>4. Len(none) = 0
    BY <2>1, <2>3
  <2>. QED
    BY <2>2, <2>4, EmptySeq, SeqEqual
<1>. QED
  BY <1>2, <1>3 DEF tiers, none

\* The boxes in their order: every breakeven, the equity, every EV.
LEMMA BoxesAre ==
  ASSUME NEW s, Fit(s), s.type # "Caller"
  PROVE  /\ BuildBoxes(s) \in Seq(Stops) /\ Len(BuildBoxes(s)) = BeforeEv(s) + Sizes(s)
         /\ \A n \in 1 .. Breakevens(s) : BuildBoxes(s)[n] = <<"Breakeven", SizeAt(s, n)>>
         /\ AsksEquityIfCalled(s.type) => BuildBoxes(s)[BeforeEv(s)] = <<"Equity", 0>>
         /\ \A n \in 1 .. Sizes(s) : BuildBoxes(s)[BeforeEv(s) + n] = <<"Ev", SizeAt(s, n)>>
<1>. DEFINE tiers == IF s.multi_tier THEN [t \in BetTiers |-> t] ELSE <<s.presented>>
            first == [n \in 1 .. Breakevens(s) |-> <<"Breakeven", SizeAt(s, n)>>]
            middle == IF AsksEquityIfCalled(s.type) THEN <<<<"Equity", 0>>>> ELSE <<>>
            last == [n \in 1 .. Sizes(s) |-> <<"Ev", SizeAt(s, n)>>]
<1>1. PerTier("Breakeven", AsksBreakeven(s.type), tiers) = first
  <2>1. CASE AsksBreakeven(s.type)
    <3>1. [n \in DOMAIN tiers |-> <<"Breakeven", tiers[n]>>] = first
      BY <2>1, PerTierIs DEF Breakevens
    <3>. QED
      BY <2>1, <3>1, Zenon DEF PerTier
  <2>2. CASE ~AsksBreakeven(s.type)
    <3>1. <<>> = first
      BY <2>2, PerTierIs DEF Breakevens
    <3>. QED
      BY <2>2, <3>1, Zenon DEF PerTier
  <2>. QED
    BY <2>1, <2>2
<1>2. PerTier("Ev", TRUE, tiers) = last
  <2>1. [n \in DOMAIN tiers |-> <<"Ev", tiers[n]>>] = last
    BY PerTierIs
  <2>. QED
    BY <2>1, Zenon DEF PerTier
<1>3. BuildBoxes(s) = first \o middle \o last
  BY <1>1, <1>2, Zenon DEF BuildBoxes
<1>4. /\ first \in Seq(Stops) /\ Len(first) = Breakevens(s)
      /\ \A n \in 1 .. Breakevens(s) : first[n] = <<"Breakeven", SizeAt(s, n)>>
  <2>1. ASSUME NEW n \in 1 .. Breakevens(s) PROVE <<"Breakeven", SizeAt(s, n)>> \in Stops
    <3>1. n \in 1 .. Sizes(s)
      BY SizesAre
    <3>2. SizeAt(s, n) \in BetTiers
      BY <3>1, SizesAre
    <3>. QED
      BY <3>2, StopsAre
  <2>2. first \in [1 .. Breakevens(s) -> Stops] /\ Breakevens(s) \in Nat
    BY <2>1, SizesAre
  <2>3. first \in Seq(Stops)
    BY <2>2, SeqDef
  <2>4. DOMAIN first = 1 .. Len(first) /\ Len(first) \in Nat
    BY <2>3, LenProperties
  <2>. QED
    BY <2>2, <2>3, <2>4
<1>5. /\ last \in Seq(Stops) /\ Len(last) = Sizes(s)
      /\ \A n \in 1 .. Sizes(s) : last[n] = <<"Ev", SizeAt(s, n)>>
  <2>1. ASSUME NEW n \in 1 .. Sizes(s) PROVE <<"Ev", SizeAt(s, n)>> \in Stops
    <3>1. SizeAt(s, n) \in BetTiers
      BY SizesAre
    <3>. QED
      BY <3>1, StopsAre
  <2>2. last \in [1 .. Sizes(s) -> Stops] /\ Sizes(s) \in Nat
    BY <2>1, SizesAre
  <2>3. last \in Seq(Stops)
    BY <2>2, SeqDef
  <2>4. DOMAIN last = 1 .. Len(last) /\ Len(last) \in Nat
    BY <2>3, LenProperties
  <2>. QED
    BY <2>2, <2>3, <2>4
<1>6. /\ middle \in Seq(Stops) /\ Len(middle) = (IF AsksEquityIfCalled(s.type) THEN 1 ELSE 0)
      /\ AsksEquityIfCalled(s.type) => middle[1] = <<"Equity", 0>>
  <2>1. <<"Equity", 0>> \in Stops
    BY StopsAre
  <2>. QED
    BY <2>1
<1>. HIDE DEF first, middle, last
<1>7. /\ first \o middle \in Seq(Stops) /\ Len(first \o middle) = BeforeEv(s)
      /\ \A n \in 1 .. Breakevens(s) : (first \o middle)[n] = first[n]
      /\ AsksEquityIfCalled(s.type) => (first \o middle)[BeforeEv(s)] = <<"Equity", 0>>
  <2>1. Breakevens(s) \in Nat
    BY SizesAre
  <2>2. /\ first \o middle \in Seq(Stops) /\ Len(first \o middle) = Len(first) + Len(middle)
        /\ \A i \in 1 .. Len(first) + Len(middle) :
             (first \o middle)[i] = IF i <= Len(first) THEN first[i] ELSE middle[i - Len(first)]
    BY <1>4, <1>6, ConcatProperties, Zenon
  <2>. QED
    BY <1>4, <1>6, <2>1, <2>2 DEF BeforeEv
<1>. DEFINE begin == first \o middle
<1>. HIDE DEF begin
<1>8. /\ begin \in Seq(Stops) /\ Len(begin) = BeforeEv(s)
      /\ \A n \in 1 .. Breakevens(s) : begin[n] = <<"Breakeven", SizeAt(s, n)>>
      /\ AsksEquityIfCalled(s.type) => begin[BeforeEv(s)] = <<"Equity", 0>>
  BY <1>4, <1>7 DEF begin
<1>9. BuildBoxes(s) = begin \o last
  BY <1>3 DEF begin
<1>10. /\ begin \o last \in Seq(Stops) /\ Len(begin \o last) = BeforeEv(s) + Sizes(s)
       /\ \A n \in 1 .. BeforeEv(s) + Sizes(s) :
            (begin \o last)[n] = IF n <= BeforeEv(s) THEN begin[n] ELSE last[n - BeforeEv(s)]
  <2>1. /\ begin \o last \in Seq(Stops) /\ Len(begin \o last) = Len(begin) + Len(last)
        /\ \A i \in 1 .. Len(begin) + Len(last) :
             (begin \o last)[i] = IF i <= Len(begin) THEN begin[i] ELSE last[i - Len(begin)]
    BY <1>5, <1>8, ConcatProperties, Zenon
  <2>. QED
    BY <1>5, <1>8, <2>1, Zenon
<1>11. BeforeEv(s) \in Nat /\ Breakevens(s) \in Nat /\ Sizes(s) \in Nat /\ Breakevens(s) <= BeforeEv(s)
  BY SizesAre
<1>12. AsksEquityIfCalled(s.type) => BeforeEv(s) >= 1
  BY SizesAre DEF BeforeEv
<1>. QED
  BY <1>5, <1>8, <1>9, <1>10, <1>11, <1>12, SMTT(30)

(* --------------------------- the screen of a tier ------------------------ *)

\* A row, or none.
If(asked, x) == IF asked THEN <<x>> ELSE <<>>

LEMMA IfIs ==
  ASSUME NEW G, NEW asked, NEW x \in G
  PROVE  /\ If(asked, x) \in Seq(G)
         /\ asked => If(asked, x) = <<x>>
         /\ ~asked => If(asked, x) = <<>>
  BY DEF If

\* The screen of a tier: its breakeven, the equity, its EV.
LEMMA ShownIs ==
  ASSUME NEW s, Fit(s), IsSequential(s), NEW t \in BetTiers
  PROVE  View(s, BuildBoxes(s), t) =
           (If(AsksBreakeven(s.type), <<"Breakeven", t>>) \o If(AsksEquityIfCalled(s.type), <<"Equity", 0>>))
             \o <<<<"Ev", t>>>>
<1>. DEFINE all == BuildBoxes(s)
            n == BeforeEv(s) + kBetTierCount
            nb == Breakevens(s)
            be == BeforeEv(s)
            seqs == [i \in DOMAIN all |-> IF all[i][2] \in {0, t} THEN <<all[i]>> ELSE <<>>]
            B(i) == If(AsksBreakeven(s.type) /\ i >= t, <<"Breakeven", t>>)
            E(i) == If(AsksEquityIfCalled(s.type) /\ i >= be, <<"Equity", 0>>)
            V(i) == If(i >= be + t, <<"Ev", t>>)
            h == [i \in 1 .. n |-> (B(i) \o E(i)) \o V(i)]
<1>1. /\ s.type # "Caller" /\ s.multi_tier
      /\ Sizes(s) = kBetTierCount /\ \A i \in 1 .. kBetTierCount : SizeAt(s, i) = i
  BY DEF IsSequential, IsAggressor, Sizes, SizeAt
<1>2. kBetTierCount \in Nat /\ kBetTierCount >= 1 /\ t \in 1 .. kBetTierCount
  BY TierCount
<1>3. /\ nb \in Nat /\ be \in Nat /\ nb <= be
      /\ AsksBreakeven(s.type) => nb = kBetTierCount
      /\ ~AsksBreakeven(s.type) => nb = 0
      /\ AsksEquityIfCalled(s.type) => be = nb + 1
      /\ ~AsksEquityIfCalled(s.type) => be = nb
  BY <1>1, <1>2 DEF Breakevens, BeforeEv
<1>4. /\ all \in Seq(Stops) /\ Len(all) = n /\ DOMAIN all = 1 .. n
      /\ \A i \in 1 .. nb : all[i] = <<"Breakeven", i>>
      /\ AsksEquityIfCalled(s.type) => all[be] = <<"Equity", 0>>
      /\ \A i \in 1 .. kBetTierCount : all[be + i] = <<"Ev", i>>
  <2>1. nb \in {0, kBetTierCount}
    BY <1>1, SizesAre
  <2>2. /\ all \in Seq(Stops) /\ Len(all) = be + Sizes(s)
        /\ \A i \in 1 .. nb : all[i] = <<"Breakeven", SizeAt(s, i)>>
        /\ AsksEquityIfCalled(s.type) => all[be] = <<"Equity", 0>>
        /\ \A i \in 1 .. Sizes(s) : all[be + i] = <<"Ev", SizeAt(s, i)>>
    BY <1>1, BoxesAre
  <2>3. DOMAIN all = 1 .. Len(all)
    BY <2>2, LenProperties
  <2>. QED
    BY <1>1, <1>2, <2>1, <2>2, <2>3
<1>5. n \in Nat /\ n >= 1
  BY <1>2, <1>3
<1>. HIDE DEF all, n, nb, be
<1>6. ASSUME NEW i \in 1 .. n
      PROVE  /\ i <= nb => all[i] = <<"Breakeven", i>> /\ AsksBreakeven(s.type)
             /\ i > nb /\ i <= be => all[i] = <<"Equity", 0>> /\ AsksEquityIfCalled(s.type) /\ i = be
             /\ i > be => all[i] = <<"Ev", i - be>> /\ i - be \in 1 .. kBetTierCount
  <2>1. CASE i <= nb
    BY <1>3, <1>4, <2>1
  <2>2. CASE i > nb /\ i <= be
    BY <1>3, <1>4, <2>2
  <2>3. CASE i > be
    <3>1. i - be \in 1 .. kBetTierCount /\ be + (i - be) = i
      BY <1>2, <1>3, <2>3 DEF n, be
    <3>2. all[be + (i - be)] = <<"Ev", i - be>>
      BY <1>4, <3>1
    <3>. QED
      BY <1>3, <2>3, <3>1, <3>2
  <2>. QED
    BY <1>3, <2>1, <2>2, <2>3
<1>7. \A i \in 1 .. n : B(i) \in Seq(Stops) /\ E(i) \in Seq(Stops) /\ V(i) \in Seq(Stops)
  BY StopsAre, IfIs
<1>8. seqs \in [1 .. n -> Seq(Stops)]
  <2>1. ASSUME NEW i \in 1 .. n PROVE all[i] \in Stops
    BY <1>4, ElementOfSeq
  <2>. QED
    BY <1>4, <2>1
<1>9. h \in [1 .. n -> Seq(Stops)]
  BY <1>7, ConcatProperties
<1>10. ASSUME NEW i \in 1 .. n
       PROVE  /\ i <= nb => seqs[i] = If(i = t, <<"Breakeven", t>>)
              /\ i > nb /\ i <= be => seqs[i] = <<<<"Equity", 0>>>>
              /\ i > be => seqs[i] = If(i = be + t, <<"Ev", t>>)
  <2>0. seqs[i] = IF all[i][2] \in {0, t} THEN <<all[i]>> ELSE <<>>
    BY <1>4
  <2>1. ASSUME i <= nb PROVE seqs[i] = If(i = t, <<"Breakeven", t>>)
    <3>1. all[i] = <<"Breakeven", i>> /\ all[i][2] = i /\ i # 0
      BY <1>5, <1>6, <2>1
    <3>2. all[i][2] \in {0, t} <=> i = t
      BY <3>1
    <3>. QED
      BY <2>0, <3>1, <3>2, Zenon DEF If
  <2>2. ASSUME i > nb, i <= be PROVE seqs[i] = <<<<"Equity", 0>>>>
    <3>1. all[i] = <<"Equity", 0>> /\ all[i][2] \in {0, t}
      BY <1>6, <2>2
    <3>. QED
      BY <2>0, <3>1, Zenon
  <2>3. ASSUME i > be PROVE seqs[i] = If(i = be + t, <<"Ev", t>>)
    <3>1. all[i] = <<"Ev", i - be>> /\ all[i][2] = i - be /\ i - be # 0
      BY <1>6, <2>3
    <3>2. i - be = t <=> i = be + t
      BY <1>2, <1>3, <1>5
    <3>3. all[i][2] \in {0, t} <=> i = be + t
      BY <3>1, <3>2
    <3>. QED
      BY <2>0, <3>1, <3>2, <3>3, Zenon DEF If
  <2>. HIDE DEF seqs
  <2>. QED
    BY <2>1, <2>2, <2>3
<1>. HIDE DEF seqs
<1>11. /\ <<>> \in Seq(Stops) /\ \A x \in Seq(Stops) : x \o <<>> = x /\ <<>> \o x = x
       /\ \A x \in Seq(Stops), y \in Seq(Stops) : x \o y \in Seq(Stops)
       /\ \A x \in Seq(Stops), y \in Seq(Stops), z \in Seq(Stops) : (x \o y) \o z = x \o (y \o z)
  BY EmptySeq, ConcatEmptySeq, ConcatProperties, ConcatAssociative
<1>12. \A i \in 1 .. n : seqs[i] \in Seq(Stops)
  BY <1>8
<1>13. ASSUME NEW i \in 1 .. n
       PROVE  /\ i < t => B(i) = <<>>
              /\ i >= t /\ AsksBreakeven(s.type) => B(i) = <<<<"Breakeven", t>>>>
              /\ ~AsksBreakeven(s.type) => B(i) = <<>>
              /\ i < be => E(i) = <<>>
              /\ i >= be /\ AsksEquityIfCalled(s.type) => E(i) = <<<<"Equity", 0>>>>
              /\ ~AsksEquityIfCalled(s.type) => E(i) = <<>>
              /\ i < be + t => V(i) = <<>>
              /\ i >= be + t => V(i) = <<<<"Ev", t>>>>
  <2>1. i \in Nat /\ t \in Nat /\ be \in Nat
    BY <1>2, <1>3, <1>5
  <2>. QED
    BY <2>1 DEF If
<1>14. \A i \in 1 .. n : h[i] = (B(i) \o E(i)) \o V(i)
  OBVIOUS
<1>. HIDE DEF B, E, V, h
<1>21. ASSUME NEW i \in 1 .. n
        PROVE  /\ E(i) = <<>> /\ V(i) = <<>> => h[i] = B(i)
               /\ V(i) = <<>> => h[i] = B(i) \o E(i)
               /\ B(i) = <<>> /\ E(i) = <<>> => h[i] = V(i)
  <2>1. h[i] = (B(i) \o E(i)) \o V(i) /\ B(i) \in Seq(Stops) /\ E(i) \in Seq(Stops) /\ V(i) \in Seq(Stops)
    BY <1>7, <1>14
  <2>2. B(i) \o E(i) \in Seq(Stops)
    BY <1>11, <2>1, Zenon
  <2>3. ASSUME V(i) = <<>> PROVE h[i] = B(i) \o E(i)
    BY <1>11, <2>1, <2>2, <2>3, SMTT(30)
  <2>4. ASSUME E(i) = <<>> PROVE B(i) \o E(i) = B(i)
    BY <1>11, <2>1, <2>4, Zenon
  <2>5. ASSUME B(i) = <<>>, E(i) = <<>> PROVE h[i] = V(i)
    <3>1. B(i) \o E(i) = <<>>
      BY <2>4, <2>5, Zenon
    <3>. QED
      BY <1>11, <2>1, <3>1, Zenon
  <2>. QED
    BY <2>3, <2>4, <2>5
<1>15. h[1] = seqs[1]
  <2>1. 1 \in 1 .. n
    BY <1>5
  <2>2. CASE 1 <= nb
    <3>1. E(1) = <<>> /\ V(1) = <<>> /\ AsksBreakeven(s.type)
      BY <1>2, <1>3, <1>13, <2>1, <2>2
    <3>2. h[1] = B(1)
      BY <1>21, <2>1, <3>1
    <3>3. B(1) = seqs[1]
      BY <1>2, <1>10, <1>13, <2>1, <2>2, <3>1 DEF If
    <3>. QED
      BY <3>2, <3>3
  <2>3. CASE 1 > nb /\ 1 <= be
    <3>1. B(1) = <<>> /\ V(1) = <<>> /\ E(1) = <<<<"Equity", 0>>>> /\ seqs[1] = <<<<"Equity", 0>>>>
      BY <1>2, <1>3, <1>10, <1>13, <2>1, <2>3
    <3>2. h[1] = B(1) \o E(1)
      BY <1>21, <2>1, <3>1
    <3>. QED
      BY <1>11, <2>1, <1>7, <3>1, <3>2
  <2>4. CASE 1 > be
    <3>1. B(1) = <<>> /\ E(1) = <<>>
      BY <1>2, <1>3, <1>13, <2>1, <2>4
    <3>2. h[1] = V(1)
      BY <1>21, <2>1, <3>1
    <3>3. V(1) = seqs[1]
      BY <1>2, <1>3, <1>10, <1>13, <2>1, <2>4 DEF If
    <3>. QED
      BY <3>2, <3>3
  <2>. QED
    BY <1>3, <2>2, <2>3, <2>4
<1>16. ASSUME NEW i \in 2 .. n PROVE h[i] = h[i - 1] \o seqs[i]
  <2>. DEFINE j == i - 1
  <2>1. i \in 1 .. n /\ j \in 1 .. n /\ i = j + 1 /\ i \in Nat /\ j \in Nat
    BY <1>5
  <2>. HIDE DEF j
  <2>2. CASE i <= nb
    <3>1. E(i) = <<>> /\ V(i) = <<>> /\ E(j) = <<>> /\ V(j) = <<>> /\ AsksBreakeven(s.type)
      BY <1>2, <1>3, <1>13, <2>1, <2>2
    <3>2. h[i] = B(i) /\ h[j] = B(j)
      BY <1>21, <2>1, <3>1
    <3>3. seqs[i] = If(i = t, <<"Breakeven", t>>)
      BY <1>10, <2>1, <2>2
    <3>4. CASE i = t
      <4>1. B(j) = <<>> /\ B(i) = <<<<"Breakeven", t>>>> /\ seqs[i] = <<<<"Breakeven", t>>>>
        BY <1>13, <2>1, <3>1, <3>3, <3>4 DEF If
      <4>. QED
        BY <1>7, <1>11, <2>1, <3>2, <4>1 DEF j
    <3>5. CASE i # t
      <4>1. B(j) = B(i) /\ seqs[i] = <<>>
        BY <1>2, <1>13, <2>1, <3>1, <3>3, <3>5 DEF If
      <4>. QED
        BY <1>7, <1>11, <2>1, <3>2, <4>1 DEF j
    <3>. QED
      BY <3>4, <3>5
  <2>3. CASE i > nb /\ i <= be
    <3>1. /\ V(i) = <<>> /\ V(j) = <<>> /\ E(j) = <<>>
          /\ E(i) = <<<<"Equity", 0>>>> /\ seqs[i] = <<<<"Equity", 0>>>>
      BY <1>2, <1>3, <1>10, <1>13, <2>1, <2>3
    <3>2. B(i) = B(j)
      BY <1>2, <1>3, <1>13, <2>1, <2>3
    <3>3. h[i] = B(j) \o <<<<"Equity", 0>>>> /\ h[j] = B(j)
      BY <1>21, <2>1, <3>1, <3>2
    <3>. QED
      BY <3>1, <3>3 DEF j
  <2>4. CASE i > be
    <3>1. B(i) = B(j) /\ E(i) = E(j)
      BY <1>2, <1>3, <1>13, <2>1, <2>4
    <3>2. V(i) = V(j) \o seqs[i]
      <4>1. seqs[i] = If(i = be + t, <<"Ev", t>>)
        BY <1>10, <2>1, <2>4
      <4>2. CASE i = be + t
        <5>1. V(j) = <<>> /\ V(i) = <<<<"Ev", t>>>> /\ seqs[i] = <<<<"Ev", t>>>>
          BY <1>2, <1>3, <1>13, <2>1, <4>1, <4>2 DEF If
        <5>. QED
          BY <1>7, <1>11, <2>1, <5>1
      <4>3. CASE i # be + t
        <5>1. V(j) = V(i) /\ seqs[i] = <<>>
          BY <1>2, <1>3, <1>13, <2>1, <4>1, <4>3 DEF If
        <5>. QED
          BY <1>7, <1>11, <2>1, <5>1
      <4>. QED
        BY <4>2, <4>3
    <3>3. h[i] = (B(j) \o E(j)) \o (V(j) \o seqs[i]) /\ h[j] = (B(j) \o E(j)) \o V(j)
      BY <1>14, <2>1, <3>1, <3>2
    <3>4. B(j) \o E(j) \in Seq(Stops) /\ V(j) \in Seq(Stops) /\ seqs[i] \in Seq(Stops)
      BY <1>7, <1>11, <1>12, <2>1
    <3>5. h[i] = h[j] \o seqs[i]
      <4>. DEFINE p == B(j) \o E(j)
                  v == V(j)
                  x == seqs[i]
      <4>1. h[i] = p \o (v \o x) /\ h[j] = p \o v
        BY <3>3
      <4>2. p \in Seq(Stops) /\ v \in Seq(Stops) /\ x \in Seq(Stops)
        BY <3>4
      <4>. HIDE DEF p, v, x
      <4>3. (p \o v) \o x = p \o (v \o x)
        BY <4>2, ConcatAssociative
      <4>4. h[i] = h[j] \o x
        BY <4>1, <4>3, Zenon
      <4>. QED
        BY <4>4 DEF x
    <3>. QED
      BY <3>5 DEF j
  <2>. QED
    <3>1. i <= nb \/ (i > nb /\ i <= be) \/ i > be
      BY <1>3, <2>1
    <3>. QED
      BY <2>2, <2>3, <2>4, <3>1, Zenon
<1>17. FlattenSeq(seqs) = h[n]
  <2>1. \A i \in 2 .. n : h[i] = h[i - 1] \o seqs[i]
    BY <1>16
  <2>. QED
    BY <1>5, <1>8, <1>9, <1>15, <2>1, FlattenIs, ZenonT(40)
<1>18. View(s, BuildBoxes(s), t) = FlattenSeq(seqs)
  BY Zenon DEF View, seqs, all
<1>19. n \in 1 .. n /\ n >= be + t /\ n >= be /\ (AsksBreakeven(s.type) => n >= t)
  BY <1>2, <1>3, <1>5 DEF n, be
<1>20. /\ B(n) = If(AsksBreakeven(s.type), <<"Breakeven", t>>)
       /\ E(n) = If(AsksEquityIfCalled(s.type), <<"Equity", 0>>)
       /\ V(n) = <<<<"Ev", t>>>>
  BY <1>2, <1>3, <1>13, <1>19 DEF If
<1>. QED
  BY <1>14, <1>17, <1>18, <1>19, <1>20, Zenon

(* --------------------------- what a hand asks for ------------------------ *)

SizesAsked(s) == IF s.multi_tier THEN BetTiers ELSE {s.presented}
BreakevenBoxes(s) == {<<"Breakeven", t>> : t \in IF AsksBreakeven(s.type) THEN SizesAsked(s) ELSE {}}
EquityBoxes(s) == IF AsksEquityIfCalled(s.type) THEN {<<"Equity", 0>>} ELSE {}
EvBoxes(s) == {<<"Ev", t>> : t \in SizesAsked(s)}

LEMMA SizesAskedAre ==
  ASSUME NEW s, Fit(s)
  PROVE  /\ SizesAsked(s) \subseteq BetTiers
         /\ SizesAsked(s) = {SizeAt(s, n) : n \in 1 .. Sizes(s)}
<1>1. CASE s.multi_tier
  BY <1>1, TierCount DEF SizesAsked, Sizes, SizeAt
<1>2. CASE ~s.multi_tier
  <2>1. 1 .. 1 = {1}
    OBVIOUS
  <2>. QED
    BY <1>2, <2>1 DEF Fit, SizesAsked, Sizes, SizeAt
<1>. QED
  BY <1>1, <1>2

LEMMA BoxSet ==
  ASSUME NEW s, Fit(s)
  PROVE  /\ BuildBoxes(s) \in Seq(Stops) /\ Range(BuildBoxes(s)) \subseteq Stops
         /\ s.type = "Caller" => BuildBoxes(s) = CallerBoxes
         /\ s.type # "Caller" =>
              Range(BuildBoxes(s)) = (BreakevenBoxes(s) \cup EquityBoxes(s)) \cup EvBoxes(s)
<1>1. CASE s.type = "Caller"
  <2>1. BuildBoxes(s) = CallerBoxes
    BY <1>1 DEF BuildBoxes, CallerBoxes
  <2>2. CallerBoxes \in Seq(Stops)
    BY StopsAre DEF CallerBoxes
  <2>3. Range(CallerBoxes) \subseteq Stops
    BY <2>2, LenProperties DEF Range
  <2>. QED
    BY <1>1, <2>1, <2>2, <2>3
<1>2. CASE s.type # "Caller"
  <2>. DEFINE all == BuildBoxes(s)
              nb == Breakevens(s)
              be == BeforeEv(s)
  <2>1. /\ all \in Seq(Stops) /\ Len(all) = be + Sizes(s)
        /\ \A n \in 1 .. nb : all[n] = <<"Breakeven", SizeAt(s, n)>>
        /\ AsksEquityIfCalled(s.type) => all[be] = <<"Equity", 0>>
        /\ \A n \in 1 .. Sizes(s) : all[be + n] = <<"Ev", SizeAt(s, n)>>
    BY <1>2, BoxesAre
  <2>2. DOMAIN all = 1 .. be + Sizes(s)
    BY <2>1, LenProperties
  <2>3. /\ Sizes(s) \in Nat /\ Sizes(s) >= 1 /\ nb \in Nat /\ be \in Nat /\ nb <= be
        /\ AsksBreakeven(s.type) => nb = Sizes(s)
        /\ ~AsksBreakeven(s.type) => nb = 0
        /\ AsksEquityIfCalled(s.type) => be = nb + 1
        /\ ~AsksEquityIfCalled(s.type) => be = nb
    BY SizesAre DEF Breakevens, BeforeEv
  <2>. HIDE DEF all, nb, be
  <2>4. Range(all) \subseteq Stops
    BY <2>1, LenProperties DEF Range
  <2>5. ASSUME NEW n \in DOMAIN all PROVE all[n] \in (BreakevenBoxes(s) \cup EquityBoxes(s)) \cup EvBoxes(s)
    <3>1. CASE n <= nb
      <4>1. n \in 1 .. nb /\ AsksBreakeven(s.type) /\ n \in 1 .. Sizes(s)
        BY <2>2, <2>3, <3>1
      <4>2. all[n] = <<"Breakeven", SizeAt(s, n)>> /\ SizeAt(s, n) \in SizesAsked(s)
        BY <2>1, <4>1, SizesAskedAre
      <4>. QED
        BY <4>1, <4>2 DEF BreakevenBoxes
    <3>2. CASE n > nb /\ n <= be
      <4>1. n = be /\ AsksEquityIfCalled(s.type)
        BY <2>2, <2>3, <3>2
      <4>2. all[n] = <<"Equity", 0>>
        BY <2>1, <4>1
      <4>. QED
        BY <4>1, <4>2 DEF EquityBoxes
    <3>3. CASE n > be
      <4>1. n - be \in 1 .. Sizes(s) /\ be + (n - be) = n
        BY <2>2, <2>3, <3>3
      <4>2. all[n] = <<"Ev", SizeAt(s, n - be)>> /\ SizeAt(s, n - be) \in SizesAsked(s)
        BY <2>1, <4>1, SizesAskedAre
      <4>. QED
        BY <4>2 DEF EvBoxes
    <3>. QED
      BY <2>2, <2>3, <3>1, <3>2, <3>3
  <2>6. ASSUME NEW box \in (BreakevenBoxes(s) \cup EquityBoxes(s)) \cup EvBoxes(s) PROVE box \in Range(all)
    <3>1. CASE box \in BreakevenBoxes(s)
      <4>1. PICK n \in 1 .. Sizes(s) : box = <<"Breakeven", SizeAt(s, n)>> /\ AsksBreakeven(s.type)
        BY <3>1, SizesAskedAre DEF BreakevenBoxes
      <4>2. n \in 1 .. nb /\ n \in DOMAIN all
        BY <2>2, <2>3, <4>1
      <4>. QED
        BY <2>1, <4>1, <4>2 DEF Range
    <3>2. CASE box \in EquityBoxes(s)
      <4>1. AsksEquityIfCalled(s.type) /\ box = <<"Equity", 0>>
        BY <3>2 DEF EquityBoxes
      <4>2. be \in DOMAIN all
        BY <2>2, <2>3, <4>1
      <4>. QED
        BY <2>1, <4>1, <4>2 DEF Range
    <3>3. CASE box \in EvBoxes(s)
      <4>1. PICK n \in 1 .. Sizes(s) : box = <<"Ev", SizeAt(s, n)>>
        BY <3>3, SizesAskedAre DEF EvBoxes
      <4>2. be + n \in DOMAIN all
        BY <2>2, <2>3
      <4>. QED
        BY <2>1, <4>1, <4>2 DEF Range
    <3>. QED
      BY <3>1, <3>2, <3>3
  <2>7. Range(all) = (BreakevenBoxes(s) \cup EquityBoxes(s)) \cup EvBoxes(s)
    BY <2>5, <2>6 DEF Range
  <2>. QED
    BY <1>2, <2>1, <2>4, <2>7 DEF all
<1>. QED
  BY <1>1, <1>2

\* A box of the sheet is not the bet group, and its tier is one of the tiers or none.
LEMMA BoxIs ==
  ASSUME NEW s, Fit(s), NEW box \in Range(BuildBoxes(s))
  PROVE  box # BetGroup /\ box # NoStop /\ box[2] \in 0 .. kBetTierCount
<1>1. CASE s.type = "Caller"
  <2>1. box \in {<<"PotOdds", 0>>, <<"Outs", 0>>, <<"Equity", 0>>, <<"Ev", 0>>}
    BY <1>1, BoxSet DEF CallerBoxes, Range
  <2>. QED
    BY <2>1, TierCount DEF BetGroup, NoStop
<1>2. CASE s.type # "Caller"
  <2>1. \E t \in BetTiers : box \in {<<"Breakeven", t>>, <<"Equity", 0>>, <<"Ev", t>>}
    BY <1>2, BoxSet, SizesAskedAre, TierCount DEF BreakevenBoxes, EquityBoxes, EvBoxes
  <2>. QED
    BY <2>1, TierCount DEF BetGroup, NoStop
<1>. QED
  BY <1>1, <1>2

\* The range of two sequences in a row.
LEMMA RangeConcat ==
  ASSUME NEW G, NEW a \in Seq(G), NEW b \in Seq(G)
  PROVE  Range(a \o b) = Range(a) \cup Range(b)
<1>1. /\ a \o b \in Seq(G) /\ Len(a \o b) = Len(a) + Len(b)
      /\ \A i \in 1 .. Len(a) + Len(b) : (a \o b)[i] = IF i <= Len(a) THEN a[i] ELSE b[i - Len(a)]
  BY ConcatProperties
<1>2. Len(a) \in Nat /\ Len(b) \in Nat /\ DOMAIN a = 1 .. Len(a) /\ DOMAIN b = 1 .. Len(b)
  BY LenProperties
<1>3. DOMAIN (a \o b) = 1 .. Len(a) + Len(b)
  BY <1>1, LenProperties
<1>. DEFINE c == a \o b
<1>4. \A i \in 1 .. Len(a) + Len(b) : c[i] = IF i <= Len(a) THEN a[i] ELSE b[i - Len(a)]
  BY <1>1
<1>5. DOMAIN c = 1 .. Len(a) + Len(b)
  BY <1>3
<1>. HIDE DEF c
<1>6. ASSUME NEW i \in DOMAIN c PROVE c[i] \in Range(a) \cup Range(b)
  <2>1. CASE i <= Len(a)
    BY <1>2, <1>4, <1>5, <2>1 DEF Range
  <2>2. CASE i > Len(a)
    <3>1. i - Len(a) \in DOMAIN b /\ c[i] = b[i - Len(a)]
      BY <1>2, <1>4, <1>5, <2>2
    <3>. QED
      BY <3>1 DEF Range
  <2>. QED
    BY <1>2, <1>5, <2>1, <2>2
<1>7. ASSUME NEW i \in DOMAIN a PROVE a[i] \in Range(c)
  <2>1. i \in DOMAIN c /\ c[i] = a[i]
    BY <1>2, <1>4, <1>5
  <2>. QED
    BY <2>1 DEF Range
<1>8. ASSUME NEW i \in DOMAIN b PROVE b[i] \in Range(c)
  <2>1. Len(a) + i \in DOMAIN c /\ c[Len(a) + i] = b[(Len(a) + i) - Len(a)] /\ (Len(a) + i) - Len(a) = i
    BY <1>2, <1>4, <1>5
  <2>. QED
    BY <2>1 DEF Range
<1>9. Range(c) = Range(a) \cup Range(b)
  BY <1>6, <1>7, <1>8 DEF Range
<1>. QED
  BY <1>9 DEF c

\* The range of a tier's screen.
LEMMA ShownSet ==
  ASSUME NEW s, Fit(s), NEW t \in BetTiers
  PROVE  /\ View(s, BuildBoxes(s), t) \in Seq(Stops)
         /\ Range(View(s, BuildBoxes(s), t)) \subseteq Range(BuildBoxes(s))
         /\ Range(View(s, BuildBoxes(s), t)) \subseteq Stops
         /\ ~IsSequential(s) => View(s, BuildBoxes(s), t) = BuildBoxes(s)
         /\ IsSequential(s) =>
              Range(View(s, BuildBoxes(s), t)) = {box \in Range(BuildBoxes(s)) : box[2] \in {0, t}}
<1>1. CASE ~IsSequential(s)
  <2>1. View(s, BuildBoxes(s), t) = BuildBoxes(s)
    BY <1>1 DEF View
  <2>. QED
    BY <1>1, <2>1, BoxSet
<1>2. CASE IsSequential(s)
  <2>. DEFINE b == If(AsksBreakeven(s.type), <<"Breakeven", t>>)
              e == If(AsksEquityIfCalled(s.type), <<"Equity", 0>>)
              v == <<<<"Ev", t>>>>
              B == IF AsksBreakeven(s.type) THEN {<<"Breakeven", t>>} ELSE {}
  <2>1. b \in Seq(Stops) /\ e \in Seq(Stops) /\ v \in Seq(Stops)
    BY StopsAre, IfIs
  <2>2. View(s, BuildBoxes(s), t) = (b \o e) \o v
    BY <1>2, ShownIs
  <2>3. Range(b) = B /\ Range(e) = EquityBoxes(s) /\ Range(v) = {<<"Ev", t>>}
    BY DEF If, Range, EquityBoxes
  <2>. HIDE DEF b, e, v
  <2>4. b \o e \in Seq(Stops) /\ (b \o e) \o v \in Seq(Stops)
    BY <2>1, ConcatProperties
  <2>5. Range((b \o e) \o v) = (B \cup EquityBoxes(s)) \cup {<<"Ev", t>>}
    <3>1. Range(b \o e) = Range(b) \cup Range(e)
      BY <2>1, RangeConcat
    <3>. DEFINE c == b \o e
    <3>2. c \in Seq(Stops)
      BY <2>4
    <3>. HIDE DEF c
    <3>3. Range(c \o v) = Range(c) \cup Range(v)
      BY <2>1, <3>2, RangeConcat
    <3>. QED
      BY <2>3, <3>1, <3>3 DEF c
  <2>6. s.type # "Caller" /\ SizesAsked(s) = BetTiers
    BY <1>2 DEF IsSequential, IsAggressor, SizesAsked
  <2>7. Range(BuildBoxes(s)) = (BreakevenBoxes(s) \cup EquityBoxes(s)) \cup EvBoxes(s) /\ Range(BuildBoxes(s)) \subseteq Stops
    BY <2>6, BoxSet
  <2>8. (B \cup EquityBoxes(s)) \cup {<<"Ev", t>>}
          = {box \in (BreakevenBoxes(s) \cup EquityBoxes(s)) \cup EvBoxes(s) : box[2] \in {0, t}}
    <3>1. t # 0 /\ \A u \in BetTiers : u # 0
      BY TierCount
    <3>. QED
      BY <2>6, <3>1 DEF BreakevenBoxes, EquityBoxes, EvBoxes
  <2>. QED
    BY <1>2, <2>2, <2>4, <2>5, <2>7, <2>8
<1>. QED
  BY <1>1, <1>2

(* --------------------------------- grading ------------------------------- *)

\* The grades r are one for each stop of S.
Lists(r, S) ==
  /\ {r[n].id : n \in DOMAIN r} = S
  /\ \A m \in DOMAIN r, n \in DOMAIN r : r[m].id = r[n].id => m = n

LEMMA ListsConcat ==
  ASSUME NEW G, NEW a \in Seq(G), NEW b \in Seq(G), NEW S, NEW T,
         Lists(a, S), Lists(b, T), S \cap T = {}
  PROVE  a \o b \in Seq(G) /\ Lists(a \o b, S \cup T)
<1>1. /\ a \o b \in Seq(G) /\ Len(a \o b) = Len(a) + Len(b)
      /\ \A i \in 1 .. Len(a) + Len(b) : (a \o b)[i] = IF i <= Len(a) THEN a[i] ELSE b[i - Len(a)]
  BY ConcatProperties
<1>2. Len(a) \in Nat /\ Len(b) \in Nat /\ DOMAIN a = 1 .. Len(a) /\ DOMAIN b = 1 .. Len(b)
  BY LenProperties
<1>3. DOMAIN (a \o b) = 1 .. Len(a) + Len(b)
  BY <1>1, LenProperties
<1>. DEFINE c == a \o b
<1>4. \A i \in 1 .. Len(a) + Len(b) : c[i] = IF i <= Len(a) THEN a[i] ELSE b[i - Len(a)]
  BY <1>1
<1>5. DOMAIN c = 1 .. Len(a) + Len(b)
  BY <1>3
<1>. HIDE DEF c
<1>6. ASSUME NEW i \in DOMAIN c
      PROVE  \/ i \in DOMAIN a /\ c[i] = a[i] /\ c[i].id \in S
             \/ i > Len(a) /\ i - Len(a) \in DOMAIN b /\ c[i] = b[i - Len(a)] /\ c[i].id \in T
  <2>1. CASE i <= Len(a)
    BY <1>2, <1>4, <1>5, <2>1 DEF Lists
  <2>2. CASE i > Len(a)
    <3>1. i - Len(a) \in DOMAIN b /\ c[i] = b[i - Len(a)]
      BY <1>2, <1>4, <1>5, <2>2
    <3>. QED
      BY <2>2, <3>1 DEF Lists
  <2>. QED
    BY <1>2, <1>5, <2>1, <2>2
<1>7. \A x \in S : \E i \in DOMAIN c : c[i].id = x
  <2>1. ASSUME NEW x \in S PROVE \E i \in DOMAIN c : c[i].id = x
    <3>1. PICK i \in DOMAIN a : a[i].id = x
      BY DEF Lists
    <3>2. i \in DOMAIN c /\ c[i] = a[i]
      BY <1>2, <1>4, <1>5
    <3>. QED
      BY <3>1, <3>2
  <2>. QED
    BY <2>1
<1>8. \A x \in T : \E i \in DOMAIN c : c[i].id = x
  <2>1. ASSUME NEW x \in T PROVE \E i \in DOMAIN c : c[i].id = x
    <3>1. PICK i \in DOMAIN b : b[i].id = x
      BY DEF Lists
    <3>2. Len(a) + i \in DOMAIN c /\ c[Len(a) + i] = b[(Len(a) + i) - Len(a)] /\ (Len(a) + i) - Len(a) = i
      BY <1>2, <1>4, <1>5
    <3>. QED
      BY <3>1, <3>2
  <2>. QED
    BY <2>1
<1>9. {c[i].id : i \in DOMAIN c} = S \cup T
  BY <1>6, <1>7, <1>8
<1>10. ASSUME NEW m \in DOMAIN c, NEW n \in DOMAIN c, c[m].id = c[n].id PROVE m = n
  <2>1. CASE m \in DOMAIN a /\ c[m] = a[m] /\ c[m].id \in S
    <3>1. n \in DOMAIN a /\ c[n] = a[n]
      BY <1>6, <1>10, <2>1
    <3>. QED
      BY <1>10, <2>1, <3>1 DEF Lists
  <2>2. CASE m > Len(a) /\ m - Len(a) \in DOMAIN b /\ c[m] = b[m - Len(a)] /\ c[m].id \in T
    <3>1. n - Len(a) \in DOMAIN b /\ c[n] = b[n - Len(a)]
      BY <1>6, <1>10, <2>2
    <3>2. m - Len(a) = n - Len(a)
      BY <1>10, <2>2, <3>1 DEF Lists
    <3>. QED
      BY <1>2, <1>5, <3>2
  <2>. QED
    BY <1>6, <2>1, <2>2
<1>11. Lists(c, S \cup T)
  BY <1>9, <1>10 DEF Lists
<1>. QED
  BY <1>1, <1>11 DEF c

LEMMA ListsIf ==
  ASSUME NEW G, NEW asked, NEW x \in G
  PROVE  If(asked, x) \in Seq(G) /\ Lists(If(asked, x), IF asked THEN {x.id} ELSE {})
  BY DEF If, Lists

\* One row per size.
LEMMA Singles ==
  ASSUME NEW n \in Nat, n >= 1, NEW G, NEW e \in [1 .. n -> G]
  PROVE  FlattenSeq([t \in 1 .. n |-> <<e[t]>>]) = e /\ e \in Seq(G)
<1>. DEFINE seqs == [t \in 1 .. n |-> <<e[t]>>]
            h == [t \in 1 .. n |-> [k \in 1 .. t |-> e[k]]]
<1>1. \A t \in 1 .. n : <<e[t]>> \in Seq(G)
  OBVIOUS
<1>2. seqs \in [1 .. n -> Seq(G)]
  BY <1>1
<1>3. ASSUME NEW t \in 1 .. n
      PROVE  /\ h[t] \in Seq(G) /\ Len(h[t]) = t /\ \A k \in 1 .. t : h[t][k] = e[k]
  <2>1. h[t] \in [1 .. t -> G] /\ t \in Nat
    OBVIOUS
  <2>2. h[t] \in Seq(G)
    BY <2>1, SeqDef
  <2>3. DOMAIN h[t] = 1 .. Len(h[t]) /\ Len(h[t]) \in Nat
    BY <2>2, LenProperties
  <2>. QED
    BY <2>1, <2>2, <2>3
<1>4. h \in [1 .. n -> Seq(G)]
  BY <1>3
<1>. HIDE DEF h
<1>5. h[1] = seqs[1]
  <2>1. 1 \in 1 .. n /\ seqs[1] = <<e[1]>> /\ Len(<<e[1]>>) = 1 /\ <<e[1]>>[1] = e[1]
    OBVIOUS
  <2>2. \A k \in 1 .. Len(h[1]) : h[1][k] = <<e[1]>>[k]
    BY <1>3, <2>1
  <2>. QED
    BY <1>1, <1>3, <2>1, <2>2, SeqEqual
<1>6. ASSUME NEW i \in 2 .. n PROVE h[i] = h[i - 1] \o seqs[i]
  <2>1. i \in 1 .. n /\ i - 1 \in 1 .. n /\ seqs[i] = <<e[i]>> /\ Len(seqs[i]) = 1 /\ seqs[i][1] = e[i]
    OBVIOUS
  <2>2. seqs[i] \in Seq(G) /\ h[i - 1] \in Seq(G) /\ Len(h[i - 1]) = i - 1 /\ h[i] \in Seq(G) /\ Len(h[i]) = i
    BY <1>1, <1>3, <2>1
  <2>. HIDE DEF seqs
  <2>3. /\ h[i - 1] \o seqs[i] \in Seq(G) /\ Len(h[i - 1] \o seqs[i]) = Len(h[i - 1]) + Len(seqs[i])
        /\ \A k \in 1 .. Len(h[i - 1]) + Len(seqs[i]) :
             (h[i - 1] \o seqs[i])[k] = IF k <= Len(h[i - 1]) THEN h[i - 1][k] ELSE seqs[i][k - Len(h[i - 1])]
    BY <2>2, ConcatProperties, Zenon
  <2>4. ASSUME NEW k \in 1 .. i PROVE h[i][k] = (h[i - 1] \o seqs[i])[k]
    <3>1. h[i][k] = e[k] /\ k \in 1 .. Len(h[i - 1]) + Len(seqs[i])
      BY <1>3, <2>1, <2>2
    <3>2. CASE k <= i - 1
      <4>1. h[i - 1][k] = e[k]
        BY <1>3, <2>1, <3>2
      <4>. QED
        BY <2>2, <2>3, <3>1, <3>2, <4>1
    <3>3. CASE k > i - 1
      <4>1. k = i /\ k - Len(h[i - 1]) = 1
        BY <2>2, <3>3
      <4>. QED
        BY <2>1, <2>2, <2>3, <3>1, <3>3, <4>1
    <3>4. k <= i - 1 \/ k > i - 1
      OBVIOUS
    <3>. QED
      BY <3>2, <3>3, <3>4, Zenon
  <2>5. Len(h[i - 1] \o seqs[i]) = i
    BY <2>1, <2>2, <2>3
  <2>. QED
    BY <2>2, <2>3, <2>4, <2>5, SeqEqual
<1>7. FlattenSeq(seqs) = h[n]
  <2>. HIDE DEF seqs
  <2>1. \A i \in 2 .. n : h[i] = h[i - 1] \o seqs[i]
    BY <1>6
  <2>. QED
    BY <1>2, <1>4, <1>5, <2>1, FlattenIs, ZenonT(40)
<1>8. e \in Seq(G)
  BY SeqDef
<1>9. h[n] = e
  <2>1. Len(e) = n
    <3>1. DOMAIN e = 1 .. Len(e) /\ Len(e) \in Nat
      BY <1>8, LenProperties
    <3>. QED
      BY <3>1
  <2>. QED
    BY <1>3, <1>8, <2>1, SeqEqual
<1>. QED
  BY <1>7, <1>8, <1>9

\* Two rows per size, in turn.
InTurn(r, n, G, b, e) ==
  /\ r \in Seq(G) /\ Len(r) = n + n
  /\ \A t \in 1 .. n : r[(t + t) - 1] = b[t] /\ r[t + t] = e[t]

LEMMA Pairs ==
  ASSUME NEW n \in Nat, n >= 1, NEW G, NEW b \in [1 .. n -> G], NEW e \in [1 .. n -> G]
  PROVE  InTurn(FlattenSeq([t \in 1 .. n |-> <<b[t], e[t]>>]), n, G, b, e)
<1>. DEFINE seqs == [t \in 1 .. n |-> <<b[t], e[t]>>]
            At2(k) == IF k % 2 = 1 THEN b[(k + 1) \div 2] ELSE e[k \div 2]
            h == [t \in 1 .. n |-> [k \in 1 .. 2 * t |-> At2(k)]]
<1>1. \A t \in 1 .. n : <<b[t], e[t]>> \in Seq(G)
  OBVIOUS
<1>2. seqs \in [1 .. n -> Seq(G)]
  BY <1>1
<1>3. ASSUME NEW t \in 1 .. n, NEW k \in 1 .. 2 * t PROVE At2(k) \in G
  <2>1. CASE k % 2 = 1
    <3>1. (k + 1) \div 2 \in 1 .. n
      BY <2>1
    <3>. QED
      BY <2>1, <3>1
  <2>2. CASE k % 2 # 1
    <3>1. k \div 2 \in 1 .. n
      BY <2>2
    <3>. QED
      BY <2>2, <3>1
  <2>. QED
    BY <2>1, <2>2
<1>4. ASSUME NEW t \in 1 .. n
      PROVE  At2(2 * t - 1) = b[t] /\ At2(2 * t) = e[t]
  <2>1. (2 * t - 1) % 2 = 1 /\ ((2 * t - 1) + 1) \div 2 = t /\ (2 * t) % 2 # 1 /\ (2 * t) \div 2 = t
    OBVIOUS
  <2>. QED
    BY <2>1
<1>. HIDE DEF At2
<1>5. ASSUME NEW t \in 1 .. n
      PROVE  /\ h[t] \in Seq(G) /\ Len(h[t]) = 2 * t /\ \A k \in 1 .. 2 * t : h[t][k] = At2(k)
  <2>1. h[t] \in [1 .. 2 * t -> G] /\ t \in Nat /\ 2 * t \in Nat
    BY <1>3
  <2>2. h[t] \in Seq(G)
    BY <2>1, SeqDef
  <2>3. DOMAIN h[t] = 1 .. Len(h[t]) /\ Len(h[t]) \in Nat
    BY <2>2, LenProperties
  <2>. QED
    BY <2>1, <2>2, <2>3
<1>6. h \in [1 .. n -> Seq(G)]
  BY <1>5
<1>. HIDE DEF h
<1>7. ASSUME NEW t \in 1 .. n
      PROVE  seqs[t] \in Seq(G) /\ Len(seqs[t]) = 2 /\ seqs[t][1] = At2(2 * t - 1) /\ seqs[t][2] = At2(2 * t)
  <2>1. seqs[t] = <<b[t], e[t]>>
    OBVIOUS
  <2>. QED
    BY <1>1, <1>4, <2>1
<1>. HIDE DEF seqs
<1>8. h[1] = seqs[1]
  <2>1. 1 \in 1 .. n
    OBVIOUS
  <2>2. h[1] \in Seq(G) /\ Len(h[1]) = 2 /\ \A k \in 1 .. 2 : h[1][k] = At2(k)
    <3>1. 2 * 1 = 2
      OBVIOUS
    <3>2. h[1] \in Seq(G) /\ Len(h[1]) = 2 * 1 /\ \A k \in 1 .. 2 * 1 : h[1][k] = At2(k)
      BY <1>5, <2>1, Zenon
    <3>. QED
      BY <3>1, <3>2, Zenon
  <2>3. seqs[1] \in Seq(G) /\ Len(seqs[1]) = 2 /\ seqs[1][1] = At2(1) /\ seqs[1][2] = At2(2)
    BY <1>7, <2>1
  <2>4. \A k \in 1 .. 2 : h[1][k] = seqs[1][k]
    BY <2>2, <2>3
  <2>. QED
    BY <2>2, <2>3, <2>4, SeqEqual
<1>9. ASSUME NEW i \in 2 .. n PROVE h[i] = h[i - 1] \o seqs[i]
  <2>1. i \in 1 .. n /\ i - 1 \in 1 .. n
    OBVIOUS
  <2>2. /\ h[i - 1] \in Seq(G) /\ Len(h[i - 1]) = 2 * (i - 1) /\ h[i] \in Seq(G) /\ Len(h[i]) = 2 * i
        /\ seqs[i] \in Seq(G) /\ Len(seqs[i]) = 2
    BY <1>5, <1>7, <2>1
  <2>3. /\ h[i - 1] \o seqs[i] \in Seq(G) /\ Len(h[i - 1] \o seqs[i]) = Len(h[i - 1]) + Len(seqs[i])
        /\ \A k \in 1 .. Len(h[i - 1]) + Len(seqs[i]) :
             (h[i - 1] \o seqs[i])[k] = IF k <= Len(h[i - 1]) THEN h[i - 1][k] ELSE seqs[i][k - Len(h[i - 1])]
    BY <2>2, ConcatProperties, Zenon
  <2>4. ASSUME NEW k \in 1 .. 2 * i PROVE h[i][k] = (h[i - 1] \o seqs[i])[k]
    <3>1. h[i][k] = At2(k) /\ k \in 1 .. Len(h[i - 1]) + Len(seqs[i])
      BY <1>5, <2>1, <2>2
    <3>2. CASE k <= 2 * (i - 1)
      <4>1. h[i - 1][k] = At2(k)
        BY <1>5, <2>1, <3>2
      <4>. QED
        BY <2>2, <2>3, <3>1, <3>2, <4>1
    <3>3. CASE k = 2 * i - 1
      <4>1. ~(k <= Len(h[i - 1])) /\ k - Len(h[i - 1]) = 1
        BY <2>2, <3>3
      <4>2. (h[i - 1] \o seqs[i])[k] = seqs[i][1]
        BY <2>3, <3>1, <4>1
      <4>. QED
        BY <1>7, <2>1, <3>1, <3>3, <4>2
    <3>4. CASE k = 2 * i
      <4>1. ~(k <= Len(h[i - 1])) /\ k - Len(h[i - 1]) = 2
        BY <2>2, <3>4
      <4>2. (h[i - 1] \o seqs[i])[k] = seqs[i][2]
        BY <2>3, <3>1, <4>1
      <4>. QED
        BY <1>7, <2>1, <3>1, <3>4, <4>2
    <3>5. k <= 2 * (i - 1) \/ k = 2 * i - 1 \/ k = 2 * i
      OBVIOUS
    <3>. QED
      BY <3>2, <3>3, <3>4, <3>5, Zenon
  <2>5. Len(h[i - 1] \o seqs[i]) = 2 * i
    BY <2>1, <2>2, <2>3
  <2>. QED
    BY <2>2, <2>3, <2>4, <2>5, SeqEqual
<1>10. FlattenSeq(seqs) = h[n]
  BY <1>2, <1>6, <1>8, <1>9, FlattenIs, ZenonT(40)
<1>11. h[n] \in Seq(G) /\ Len(h[n]) = n + n /\ \A t \in 1 .. n : h[n][(t + t) - 1] = b[t] /\ h[n][t + t] = e[t]
  <2>1. h[n] \in Seq(G) /\ Len(h[n]) = 2 * n /\ \A k \in 1 .. 2 * n : h[n][k] = At2(k)
    BY <1>5
  <2>2. ASSUME NEW t \in 1 .. n PROVE h[n][(t + t) - 1] = b[t] /\ h[n][t + t] = e[t]
    <3>1. 2 * t - 1 \in 1 .. 2 * n /\ 2 * t \in 1 .. 2 * n /\ 2 * t - 1 = (t + t) - 1 /\ 2 * t = t + t
      OBVIOUS
    <3>. QED
      BY <1>4, <2>1, <3>1
  <2>3. 2 * n = n + n
    OBVIOUS
  <2>. QED
    BY <2>1, <2>2, <2>3
<1>. QED
  BY <1>10, <1>11, Zenon DEF seqs, InTurn

\* What is in a box, as a submission reads it, and the grade it gets.
Given(box) == IF box \in DOMAIN text THEN Parsed(text[box]) ELSE "None"
GradeOf(box) == GradeNumber(box, Given(box))
BetGrade == GradeBetSize(scenario, pick)
Grades == {GradeOf(box) : box \in Stops} \cup {BetGrade}

LEMMA GradeIs ==
  /\ \A box \in Stops : GradeOf(box) \in Grades
  /\ \A box : GradeOf(box).id = box /\ (GradeOf(box).correct <=> Given(box) = "Right")
  /\ BetGrade \in Grades /\ BetGrade.id = BetGroup
  BY DEF Grades, GradeOf, GradeNumber, BetGrade, GradeBetSize, BetGroup

\* The answers that are gathered are what the boxes hold.
LEMMA GatheredIs ==
  LET a == GatherAnswers
  IN  /\ a.potOdds = Given(<<"PotOdds", 0>>) /\ a.outs = Given(<<"Outs", 0>>) /\ a.callerEv = Given(<<"Ev", 0>>)
      /\ scenario.type = "Caller" => a.callerEquity = Given(<<"Equity", 0>>)
      /\ scenario.type # "Caller" => a.equityIfCalled = Given(<<"Equity", 0>>)
      /\ \A t \in BetTiers : a.tierEv[t] = Given(<<"Ev", t>>) /\ a.tierBreakeven[t] = Given(<<"Breakeven", t>>)
      /\ a.pick = pick
  BY DEF GatherAnswers, Given

\* The rows of the bet sizes asked, in the recap's order.
SizeRows(s) ==
  LET b(t) == If(AsksBreakeven(s.type), GradeOf(<<"Breakeven", t>>))
      v(t) == <<GradeOf(<<"Ev", t>>)>>
      e == If(AsksEquityIfCalled(s.type), GradeOf(<<"Equity", 0>>))
  IN  IF s.multi_tier THEN FlattenSeq([t \in BetTiers |-> b(t) \o v(t)]) \o e
      ELSE (b(s.presented) \o e) \o v(s.presented)

LEMMA ResultIs ==
  ASSUME Fit(scenario)
  PROVE  Evaluate(scenario, GatherAnswers) =
           IF scenario.type = "Caller"
           THEN <<GradeOf(<<"PotOdds", 0>>), GradeOf(<<"Outs", 0>>), GradeOf(<<"Equity", 0>>), GradeOf(<<"Ev", 0>>)>>
           ELSE SizeRows(scenario) \o <<BetGrade>>
<1>. DEFINE a == GatherAnswers
            s == scenario
            b(t) == If(AsksBreakeven(s.type), GradeOf(<<"Breakeven", t>>))
            v(t) == <<GradeOf(<<"Ev", t>>)>>
            e == If(AsksEquityIfCalled(s.type), GradeOf(<<"Equity", 0>>))
            B(t) == IF AsksBreakeven(s.type) THEN <<GradeNumber(<<"Breakeven", t>>, a.tierBreakeven[t])>> ELSE <<>>
            V(t) == <<GradeNumber(<<"Ev", t>>, a.tierEv[t])>>
            E == IF AsksEquityIfCalled(s.type) THEN <<GradeNumber(<<"Equity", 0>>, a.equityIfCalled)>> ELSE <<>>
<1>1. CASE s.type = "Caller"
  <2>1. /\ a.potOdds = Given(<<"PotOdds", 0>>) /\ a.outs = Given(<<"Outs", 0>>) /\ a.callerEv = Given(<<"Ev", 0>>)
        /\ a.callerEquity = Given(<<"Equity", 0>>)
    BY <1>1, GatheredIs
  <2>. HIDE DEF a
  <2>2. Evaluate(s, a) = <<GradeNumber(<<"PotOdds", 0>>, a.potOdds), GradeNumber(<<"Outs", 0>>, a.outs),
            GradeNumber(<<"Equity", 0>>, a.callerEquity), GradeNumber(<<"Ev", 0>>, a.callerEv)>>
    BY <1>1, Zenon DEF Evaluate
  <2>3. Evaluate(s, a) = <<GradeOf(<<"PotOdds", 0>>), GradeOf(<<"Outs", 0>>), GradeOf(<<"Equity", 0>>), GradeOf(<<"Ev", 0>>)>>
    BY <2>1, <2>2, Zenon DEF GradeOf
  <2>. QED
    BY <1>1, <2>3 DEF a
<1>2. CASE s.type # "Caller"
  <2>1. /\ a.equityIfCalled = Given(<<"Equity", 0>>) /\ a.pick = pick
        /\ \A t \in BetTiers : a.tierEv[t] = Given(<<"Ev", t>>) /\ a.tierBreakeven[t] = Given(<<"Breakeven", t>>)
    BY <1>2, GatheredIs
  <2>. HIDE DEF a
  <2>2. /\ E = e
        /\ \A t \in BetTiers : B(t) = b(t) /\ V(t) = v(t)
    BY <2>1, Zenon DEF If, GradeOf
  <2>3. GradeBetSize(s, a.pick) = BetGrade
    BY <2>1 DEF BetGrade
  <2>4. Evaluate(s, a) = (IF s.multi_tier THEN FlattenSeq([t \in BetTiers |-> B(t) \o V(t)]) \o E
                          ELSE (B(s.presented) \o E) \o V(s.presented)) \o <<GradeBetSize(s, a.pick)>>
    BY <1>2, Zenon DEF Evaluate
  <2>. HIDE DEF B, V, E
  <2>5. CASE s.multi_tier
    <3>1. [t \in BetTiers |-> B(t) \o V(t)] = [t \in BetTiers |-> b(t) \o v(t)]
      BY <2>2, Zenon
    <3>2. SizeRows(s) = FlattenSeq([t \in BetTiers |-> b(t) \o v(t)]) \o e
      BY <2>5, Zenon DEF SizeRows
    <3>3. Evaluate(s, a) = (FlattenSeq([t \in BetTiers |-> B(t) \o V(t)]) \o E) \o <<GradeBetSize(s, a.pick)>>
      BY <2>4, <2>5
    <3>. HIDE DEF b, v, e
    <3>4. Evaluate(s, a) = SizeRows(s) \o <<BetGrade>>
      BY <2>2, <2>3, <3>1, <3>2, <3>3, Zenon
    <3>. QED
      BY <1>2, <3>4 DEF a
  <2>6. CASE ~s.multi_tier
    <3>1. s.presented \in BetTiers
      BY <2>6 DEF Fit
    <3>2. SizeRows(s) = (b(s.presented) \o e) \o v(s.presented)
      BY <2>6, Zenon DEF SizeRows
    <3>3. Evaluate(s, a) = ((B(s.presented) \o E) \o V(s.presented)) \o <<GradeBetSize(s, a.pick)>>
      BY <2>4, <2>6
    <3>. HIDE DEF b, v, e
    <3>4. Evaluate(s, a) = SizeRows(s) \o <<BetGrade>>
      BY <2>2, <2>3, <3>1, <3>2, <3>3, Zenon
    <3>. QED
      BY <1>2, <3>4 DEF a
  <2>. QED
    BY <2>5, <2>6
<1>. QED
  BY <1>1, <1>2

LEMMA TwoRows ==
  ASSUME NEW G, NEW x \in G, NEW y \in G
  PROVE  <<x>> \o <<y>> = <<x, y>>
<1>1. <<x>> \in Seq(G) /\ Len(<<x>>) = 1 /\ <<y>> \in Seq(G) /\ Len(<<y>>) = 1 /\ <<x>>[1] = x /\ <<y>>[1] = y
  OBVIOUS
<1>. DEFINE a == <<x>>
            b == <<y>>
<1>. HIDE DEF a, b
<1>2. /\ a \o b \in Seq(G) /\ Len(a \o b) = 2
      /\ (a \o b)[1] = x /\ (a \o b)[2] = y
  <2>1. a \in Seq(G) /\ Len(a) = 1 /\ b \in Seq(G) /\ Len(b) = 1 /\ a[1] = x /\ b[1] = y
    BY <1>1 DEF a, b
  <2>2. /\ a \o b \in Seq(G) /\ Len(a \o b) = Len(a) + Len(b)
        /\ \A i \in 1 .. Len(a) + Len(b) : (a \o b)[i] = IF i <= Len(a) THEN a[i] ELSE b[i - Len(a)]
    BY <2>1, ConcatProperties, Zenon
  <2>. DEFINE c == a \o b
  <2>3. c \in Seq(G) /\ Len(c) = 2 /\ \A i \in 1 .. 2 : c[i] = IF i <= 1 THEN a[i] ELSE b[i - 1]
    BY <2>1, <2>2
  <2>. HIDE DEF c
  <2>4. c[1] = x /\ c[2] = y
    BY <2>1, <2>3
  <2>. QED
    BY <2>3, <2>4 DEF c
<1>3. <<x, y>> \in Seq(G) /\ Len(<<x, y>>) = 2 /\ <<x, y>>[1] = x /\ <<x, y>>[2] = y
  OBVIOUS
<1>. DEFINE c == a \o b
            d == <<x, y>>
<1>4. c \in Seq(G) /\ d \in Seq(G) /\ Len(c) = 2 /\ Len(d) = 2 /\ c[1] = d[1] /\ c[2] = d[2]
  BY <1>2, <1>3, Zenon
<1>. HIDE DEF c, d
<1>5. \A i \in 1 .. 2 : c[i] = d[i]
  BY <1>4
<1>6. c = d
  BY <1>4, <1>5, SeqEqual
<1>. QED
  BY <1>6 DEF a, b, c, d

\* The rows of the sizes: every box of the sheet once.
LEMMA SizeRowsAre ==
  ASSUME Fit(scenario), scenario.type # "Caller"
  PROVE  SizeRows(scenario) \in Seq(Grades) /\ Lists(SizeRows(scenario), Range(BuildBoxes(scenario)))
<1>. DEFINE s == scenario
            asked == AsksBreakeven(s.type)
            bg(t) == GradeOf(<<"Breakeven", t>>)
            vg(t) == GradeOf(<<"Ev", t>>)
            b(t) == If(asked, bg(t))
            v(t) == <<vg(t)>>
            e == If(AsksEquityIfCalled(s.type), GradeOf(<<"Equity", 0>>))
            K == kBetTierCount
<1>1. \A t \in BetTiers : /\ bg(t) \in Grades /\ bg(t).id = <<"Breakeven", t>>
                          /\ vg(t) \in Grades /\ vg(t).id = <<"Ev", t>>
  BY GradeIs, StopsAre
<1>2. GradeOf(<<"Equity", 0>>) \in Grades /\ GradeOf(<<"Equity", 0>>).id = <<"Equity", 0>>
  BY GradeIs, StopsAre
<1>3. Range(BuildBoxes(s)) = (BreakevenBoxes(s) \cup EquityBoxes(s)) \cup EvBoxes(s)
  BY BoxSet
<1>4. e \in Seq(Grades) /\ Lists(e, EquityBoxes(s))
  <2>1. Lists(e, IF AsksEquityIfCalled(s.type) THEN {<<"Equity", 0>>} ELSE {})
    BY <1>2, ListsIf
  <2>2. e \in Seq(Grades)
    BY <1>2, ListsIf
  <2>. QED
    BY <2>1, <2>2 DEF EquityBoxes
<1>. HIDE DEF bg, vg, e
<1>5. ASSUME NEW t \in BetTiers
      PROVE  b(t) \in Seq(Grades) /\ Lists(b(t), IF asked THEN {<<"Breakeven", t>>} ELSE {})
  <2>1. bg(t) \in Grades /\ bg(t).id = <<"Breakeven", t>>
    BY <1>1
  <2>2. b(t) \in Seq(Grades) /\ Lists(b(t), IF asked THEN {bg(t).id} ELSE {})
    BY <2>1, ListsIf
  <2>. QED
    BY <2>1, <2>2
<1>6. ASSUME NEW t \in BetTiers PROVE v(t) \in Seq(Grades) /\ Lists(v(t), {<<"Ev", t>>})
  BY <1>1 DEF Lists
<1>7. CASE ~s.multi_tier
  <2>. DEFINE t == s.presented
              bs == IF asked THEN {<<"Breakeven", t>>} ELSE {}
  <2>1. t \in BetTiers /\ SizesAsked(s) = {t}
    BY <1>7 DEF Fit, SizesAsked
  <2>2. BreakevenBoxes(s) = bs /\ EvBoxes(s) = {<<"Ev", t>>}
    BY <2>1 DEF BreakevenBoxes, EvBoxes
  <2>3. bs \cap EquityBoxes(s) = {} /\ (bs \cup EquityBoxes(s)) \cap {<<"Ev", t>>} = {}
    BY <2>1, TierCount DEF EquityBoxes
  <2>4. SizeRows(s) = (b(t) \o e) \o v(t)
    BY <1>7, Zenon DEF SizeRows, bg, vg, e
  <2>5. b(t) \in Seq(Grades) /\ Lists(b(t), bs) /\ v(t) \in Seq(Grades) /\ Lists(v(t), {<<"Ev", t>>})
    BY <1>5, <1>6, <2>1
  <2>. HIDE DEF b, v, bs
  <2>6. b(t) \o e \in Seq(Grades) /\ Lists(b(t) \o e, bs \cup EquityBoxes(s))
    BY <1>4, <2>3, <2>5, ListsConcat
  <2>7. /\ (b(t) \o e) \o v(t) \in Seq(Grades)
        /\ Lists((b(t) \o e) \o v(t), (bs \cup EquityBoxes(s)) \cup {<<"Ev", t>>})
    BY <2>3, <2>5, <2>6, ListsConcat
  <2>. QED
    BY <1>3, <2>2, <2>4, <2>7
<1>8. CASE s.multi_tier
  <2>. DEFINE r == FlattenSeq([t \in BetTiers |-> b(t) \o v(t)])
  <2>1. SizesAsked(s) = 1 .. K /\ BetTiers = 1 .. K /\ K \in Nat /\ K >= 1
    BY <1>8, TierCount DEF SizesAsked
  <2>2. r \in Seq(Grades) /\ Lists(r, BreakevenBoxes(s) \cup EvBoxes(s))
    <3>1. CASE asked
      <4>. DEFINE bs == [t \in 1 .. K |-> bg(t)]
                  vs == [t \in 1 .. K |-> vg(t)]
                  q == FlattenSeq([t \in 1 .. K |-> <<bs[t], vs[t]>>])
      <4>1. bs \in [1 .. K -> Grades] /\ vs \in [1 .. K -> Grades]
        BY <1>1, <2>1
      <4>2. \A t \in 1 .. K : bs[t].id = <<"Breakeven", t>> /\ vs[t].id = <<"Ev", t>>
        BY <1>1, <2>1
      <4>3. ASSUME NEW t \in BetTiers PROVE b(t) \o v(t) = <<bs[t], vs[t]>>
        <5>1. b(t) = <<bg(t)>> /\ v(t) = <<vg(t)>> /\ bs[t] = bg(t) /\ vs[t] = vg(t)
          BY <2>1, <3>1 DEF If
        <5>2. bg(t) \in Grades /\ vg(t) \in Grades
          BY <1>1
        <5>3. <<bg(t)>> \o <<vg(t)>> = <<bg(t), vg(t)>>
          BY <5>2, TwoRows
        <5>. QED
          BY <5>1, <5>3, Zenon
      <4>4. r = q
        <5>. HIDE DEF b, v, bs, vs
        <5>1. [t \in BetTiers |-> b(t) \o v(t)] = [t \in 1 .. K |-> <<bs[t], vs[t]>>]
          BY <2>1, <4>3, Zenon
        <5>. QED
          BY <5>1, Zenon
      <4>. HIDE DEF bs, vs
      <4>5. q \in Seq(Grades) /\ Len(q) = K + K /\ \A t \in 1 .. K : q[(t + t) - 1] = bs[t] /\ q[t + t] = vs[t]
        <5>1. InTurn(q, K, Grades, bs, vs)
          BY <2>1, <4>1, Pairs, Zenon
        <5>. QED
          BY <5>1, Zenon DEF InTurn
      <4>6. DOMAIN q = 1 .. K + K
        BY <4>5, LenProperties
      <4>. HIDE DEF q
      <4>7. ASSUME NEW k \in 1 .. K + K
            PROVE  \E t \in 1 .. K : (k = (t + t) - 1 /\ q[k] = bs[t]) \/ (k = t + t /\ q[k] = vs[t])
        <5>1. CASE k % 2 = 1
          <6>1. (k + 1) \div 2 \in 1 .. K /\ k = ((k + 1) \div 2 + (k + 1) \div 2) - 1
            BY <2>1, <5>1
          <6>. QED
            BY <4>5, <6>1
        <5>2. CASE k % 2 # 1
          <6>1. k \div 2 \in 1 .. K /\ k = k \div 2 + k \div 2
            BY <2>1, <5>2
          <6>. QED
            BY <4>5, <6>1
        <5>. QED
          BY <5>1, <5>2
      <4>8. ASSUME NEW t \in 1 .. K PROVE (t + t) - 1 \in 1 .. K + K /\ t + t \in 1 .. K + K
        BY <2>1
      <4>9. BreakevenBoxes(s) \cup EvBoxes(s) = {<<"Breakeven", t>> : t \in 1 .. K} \cup {<<"Ev", t>> : t \in 1 .. K}
        BY <2>1, <3>1 DEF BreakevenBoxes, EvBoxes
      <4>10. {q[k].id : k \in 1 .. K + K} = BreakevenBoxes(s) \cup EvBoxes(s)
        <5>1. ASSUME NEW k \in 1 .. K + K PROVE q[k].id \in BreakevenBoxes(s) \cup EvBoxes(s)
          <6>1. PICK t \in 1 .. K : q[k] = bs[t] \/ q[k] = vs[t]
            BY <4>7
          <6>2. q[k].id = <<"Breakeven", t>> \/ q[k].id = <<"Ev", t>>
            BY <4>2, <6>1
          <6>. QED
            BY <4>9, <6>2
        <5>2. ASSUME NEW x \in BreakevenBoxes(s) \cup EvBoxes(s) PROVE \E k \in 1 .. K + K : q[k].id = x
          <6>1. PICK t \in 1 .. K : x = <<"Breakeven", t>> \/ x = <<"Ev", t>>
            BY <4>9
          <6>2. q[(t + t) - 1].id = <<"Breakeven", t>> /\ q[t + t].id = <<"Ev", t>>
            BY <4>2, <4>5
          <6>. QED
            BY <4>8, <6>1, <6>2
        <5>. QED
          BY <5>1, <5>2
      <4>11. ASSUME NEW m \in 1 .. K + K, NEW n \in 1 .. K + K, q[m].id = q[n].id PROVE m = n
        <5>1. PICK t \in 1 .. K : (m = (t + t) - 1 /\ q[m] = bs[t]) \/ (m = t + t /\ q[m] = vs[t])
          BY <4>7
        <5>2. PICK u \in 1 .. K : (n = (u + u) - 1 /\ q[n] = bs[u]) \/ (n = u + u /\ q[n] = vs[u])
          BY <4>7
        <5>3. /\ bs[t].id = <<"Breakeven", t>> /\ vs[t].id = <<"Ev", t>>
              /\ bs[u].id = <<"Breakeven", u>> /\ vs[u].id = <<"Ev", u>>
          BY <4>2
        <5>. QED
          BY <4>11, <5>1, <5>2, <5>3
      <4>. QED
        BY <4>4, <4>5, <4>6, <4>10, <4>11, ZenonT(40) DEF Lists
    <3>2. CASE ~asked
      <4>. DEFINE vs == [t \in 1 .. K |-> vg(t)]
      <4>1. vs \in [1 .. K -> Grades] /\ \A t \in 1 .. K : vs[t].id = <<"Ev", t>>
        BY <1>1, <2>1
      <4>2. ASSUME NEW t \in BetTiers PROVE b(t) \o v(t) = <<vs[t]>>
        <5>1. b(t) = <<>> /\ v(t) = <<vs[t]>>
          BY <2>1, <3>2 DEF If
        <5>2. v(t) \in Seq(Grades)
          BY <1>6
        <5>3. <<>> \o v(t) = v(t)
          BY <5>2, ConcatEmptySeq
        <5>. QED
          BY <5>1, <5>3, Zenon
      <4>3. r = FlattenSeq([t \in 1 .. K |-> <<vs[t]>>])
        <5>. HIDE DEF b, v, vs
        <5>1. [t \in BetTiers |-> b(t) \o v(t)] = [t \in 1 .. K |-> <<vs[t]>>]
          BY <2>1, <4>2, Zenon
        <5>. QED
          BY <5>1, Zenon
      <4>4. r = vs /\ vs \in Seq(Grades)
        BY <2>1, <4>1, <4>3, Singles
      <4>5. DOMAIN vs = 1 .. K
        OBVIOUS
      <4>. HIDE DEF vs
      <4>6. BreakevenBoxes(s) \cup EvBoxes(s) = {<<"Ev", t>> : t \in 1 .. K}
        BY <2>1, <3>2 DEF BreakevenBoxes, EvBoxes
      <4>7. Lists(vs, {<<"Ev", t>> : t \in 1 .. K})
        <5>1. {vs[n].id : n \in 1 .. K} = {<<"Ev", t>> : t \in 1 .. K}
          BY <4>1
        <5>2. ASSUME NEW m \in 1 .. K, NEW n \in 1 .. K, vs[m].id = vs[n].id PROVE m = n
          <6>1. vs[m].id = <<"Ev", m>> /\ vs[n].id = <<"Ev", n>>
            BY <4>1
          <6>2. <<"Ev", m>> = <<"Ev", n>>
            BY <5>2, <6>1, Zenon
          <6>. QED
            BY <6>2
        <5>. QED
          BY <4>5, <5>1, <5>2 DEF Lists
      <4>. QED
        BY <4>4, <4>6, <4>7
    <3>. QED
      BY <3>1, <3>2
  <2>3. SizeRows(s) = r \o e
    BY <1>8, Zenon DEF SizeRows, bg, vg, e
  <2>. HIDE DEF r
  <2>4. (BreakevenBoxes(s) \cup EvBoxes(s)) \cap EquityBoxes(s) = {}
    BY <2>1 DEF BreakevenBoxes, EquityBoxes, EvBoxes
  <2>5. r \o e \in Seq(Grades) /\ Lists(r \o e, (BreakevenBoxes(s) \cup EvBoxes(s)) \cup EquityBoxes(s))
    BY <1>4, <2>2, <2>4, ListsConcat
  <2>6. (BreakevenBoxes(s) \cup EvBoxes(s)) \cup EquityBoxes(s) = Range(BuildBoxes(s))
    BY <1>3
  <2>. QED
    BY <2>3, <2>5, <2>6
<1>. QED
  BY <1>7, <1>8

\* The stops a hand is graded on.
Asked(s) == Range(BuildBoxes(s)) \cup (IF BetGroupPresent(s) THEN {BetGroup} ELSE {})

\* A submission grades each of them once.
LEMMA ResultListed ==
  ASSUME Fit(scenario)
  PROVE  /\ Evaluate(scenario, GatherAnswers) \in Seq(Grades)
         /\ Lists(Evaluate(scenario, GatherAnswers), Asked(scenario))
<1>. DEFINE r == Evaluate(scenario, GatherAnswers)
<1>1. CASE scenario.type = "Caller"
  <2>. DEFINE p == GradeOf(<<"PotOdds", 0>>)
              o == GradeOf(<<"Outs", 0>>)
              e == GradeOf(<<"Equity", 0>>)
              v == GradeOf(<<"Ev", 0>>)
  <2>1. r = <<p, o, e, v>>
    BY <1>1, ResultIs
  <2>2. /\ p \in Grades /\ p.id = <<"PotOdds", 0>> /\ o \in Grades /\ o.id = <<"Outs", 0>>
        /\ e \in Grades /\ e.id = <<"Equity", 0>> /\ v \in Grades /\ v.id = <<"Ev", 0>>
    BY GradeIs, StopsAre
  <2>. HIDE DEF p, o, e, v, r
  <2>3. Range(BuildBoxes(scenario)) = {<<"PotOdds", 0>>, <<"Outs", 0>>, <<"Equity", 0>>, <<"Ev", 0>>}
    <3>1. BuildBoxes(scenario) = CallerBoxes
      BY <1>1, BoxSet
    <3>2. Range(CallerBoxes) = {<<"PotOdds", 0>>, <<"Outs", 0>>, <<"Equity", 0>>, <<"Ev", 0>>}
      BY DEF CallerBoxes, Range
    <3>. QED
      BY <3>1, <3>2
  <2>4. Asked(scenario) = {<<"PotOdds", 0>>, <<"Outs", 0>>, <<"Equity", 0>>, <<"Ev", 0>>}
    BY <1>1, <2>3 DEF Asked, BetGroupPresent, IsAggressor
  <2>5. r \in Seq(Grades) /\ DOMAIN r = 1 .. 4 /\ r[1] = p /\ r[2] = o /\ r[3] = e /\ r[4] = v
    BY <2>1, <2>2
  <2>6. 1 .. 4 = {1, 2, 3, 4}
    OBVIOUS
  <2>7. /\ r[1].id = <<"PotOdds", 0>> /\ r[2].id = <<"Outs", 0>>
        /\ r[3].id = <<"Equity", 0>> /\ r[4].id = <<"Ev", 0>>
    BY <2>2, <2>5
  <2>8. {r[n].id : n \in DOMAIN r} = Asked(scenario)
    BY <2>4, <2>5, <2>6, <2>7
  <2>9. \A m \in DOMAIN r, n \in DOMAIN r : r[m].id = r[n].id => m = n
    BY <2>5, <2>6, <2>7
  <2>. QED
    BY <2>5, <2>8, <2>9 DEF Lists, r
<1>2. CASE scenario.type # "Caller"
  <2>. DEFINE a == SizeRows(scenario)
              b == <<BetGrade>>
  <2>1. r = a \o b
    BY <1>2, ResultIs
  <2>2. a \in Seq(Grades) /\ Lists(a, Range(BuildBoxes(scenario)))
    BY <1>2, SizeRowsAre
  <2>3. b \in Seq(Grades) /\ Lists(b, {BetGroup})
    BY GradeIs DEF Lists
  <2>4. Range(BuildBoxes(scenario)) \cap {BetGroup} = {}
    BY BoxIs
  <2>5. Asked(scenario) = Range(BuildBoxes(scenario)) \cup {BetGroup}
    BY <1>2 DEF Asked, BetGroupPresent, IsAggressor
  <2>. HIDE DEF a, b, r
  <2>6. a \o b \in Seq(Grades) /\ Lists(a \o b, Range(BuildBoxes(scenario)) \cup {BetGroup})
    BY <2>2, <2>3, <2>4, ListsConcat
  <2>. QED
    BY <2>1, <2>5, <2>6 DEF r
<1>. QED
  BY <1>1, <1>2

\* There are as many grades as stops.
LEMMA ListsCount ==
  ASSUME NEW G, NEW r \in Seq(G), NEW S, Lists(r, S)
  PROVE  Len(r) = Cardinality(S)
<1>1. Len(r) \in Nat /\ DOMAIN r = 1 .. Len(r)
  BY LenProperties
<1>2. IsFiniteSet(1 .. Len(r)) /\ Cardinality(1 .. Len(r)) = Len(r)
  BY <1>1, FS_Interval, SMTT(30)
<1>. DEFINE f == [n \in 1 .. Len(r) |-> r[n].id]
<1>3. f \in [1 .. Len(r) -> S] /\ (\A x \in S : \E n \in 1 .. Len(r) : f[n] = x)
      /\ (\A m \in 1 .. Len(r), n \in 1 .. Len(r) : f[m] = f[n] => m = n)
  BY <1>1 DEF Lists
<1>. HIDE DEF f
<1>4. f \in Bijection(1 .. Len(r), S)
  <2>1. f \in Injection(1 .. Len(r), S)
    BY <1>3 DEF Injection, IsInjective
  <2>2. f \in Surjection(1 .. Len(r), S)
    BY <1>3 DEF Surjection
  <2>. QED
    BY <2>1, <2>2 DEF Bijection
<1>5. ExistsBijection(1 .. Len(r), S)
  BY <1>4 DEF ExistsBijection
<1>. QED
  BY <1>2, <1>5, FS_Bijection

\* Grades for the stops asked, each by the answer in its own box.
LEMMA GradesAgree ==
  ASSUME Fit(scenario), boxes = BuildBoxes(scenario), DOMAIN text = Range(boxes), Range(text) \subseteq Texts,
         NEW r \in Seq(Grades), Lists(r, Asked(scenario)),
         NEW n \in DOMAIN r, r[n].id # BetGroup
  PROVE  r[n].correct <=> text[r[n].id] = "Right"
<1>1. r[n] \in Grades
  BY LenProperties, ElementOfSeq
<1>2. PICK box \in Stops : r[n] = GradeOf(box)
  BY <1>1, GradeIs DEF Grades
<1>3. r[n].id = box /\ (r[n].correct <=> Given(box) = "Right")
  BY <1>2, GradeIs
<1>4. box \in Range(boxes)
  BY <1>3 DEF Lists, Asked
<1>5. text[box] \in Texts /\ Given(box) = Parsed(text[box])
  BY <1>4 DEF Given, Range
<1>6. Given(box) = "Right" <=> text[box] = "Right"
  BY <1>5 DEF Parsed, Texts
<1>. QED
  BY <1>3, <1>6

(* -------------------------------- the recap ------------------------------ *)

\* The row of a stop is its one grade, or none.
LEMMA Found ==
  ASSUME NEW G, NEW r \in Seq(G), NEW S, Lists(r, S), NEW x
  PROVE  /\ x \notin S => PushFirst(r, {x}) = <<>>
         /\ x \in S => \E n \in DOMAIN r : r[n] \in G /\ r[n].id = x /\ PushFirst(r, {x}) = <<r[n]>>
<1>. DEFINE found == {n \in DOMAIN r : r[n].id \in {x}}
<1>1. CASE x \notin S
  <2>1. found = {}
    BY <1>1 DEF Lists
  <2>. QED
    BY <1>1, <2>1, Zenon DEF PushFirst
<1>2. CASE x \in S
  <2>1. PICK n \in DOMAIN r : r[n].id = x
    BY <1>2 DEF Lists
  <2>2. found = {n}
    BY <2>1 DEF Lists
  <2>3. DOMAIN r \subseteq Nat /\ r[n] \in G
    BY LenProperties, ElementOfSeq
  <2>4. (CHOOSE k \in found : \A m \in found : k <= m) = n
    <3>1. \A k \in found : k = n
      BY <2>2
    <3>2. n \in found /\ \A m \in found : n <= m
      BY <2>2, <2>3
    <3>. HIDE DEF found
    <3>. QED
      BY <3>1, <3>2
  <2>5. found # {}
    BY <2>2
  <2>6. PushFirst(r, {x}) = <<r[n]>>
    <3>1. PushFirst(r, {x}) = <<r[CHOOSE k \in found : \A m \in found : k <= m]>>
      BY <2>5, Zenon DEF PushFirst
    <3>. HIDE DEF found
    <3>. QED
      BY <2>4, <3>1, Zenon
  <2>. QED
    BY <1>2, <2>1, <2>3, <2>6
<1>. QED
  BY <1>1, <1>2

\* The ids of the rows.
Ids(rows) == [n \in DOMAIN rows |-> rows[n].id]

LEMMA IdsConcat ==
  ASSUME NEW G, NEW a \in Seq(G), NEW b \in Seq(G), NEW H, \A g \in G : g.id \in H
  PROVE  Ids(a) \in Seq(H) /\ Ids(a \o b) = Ids(a) \o Ids(b)
<1>1. ASSUME NEW c \in Seq(G)
      PROVE  Ids(c) \in Seq(H) /\ Len(Ids(c)) = Len(c) /\ \A n \in 1 .. Len(c) : Ids(c)[n] = c[n].id
  <2>1. Len(c) \in Nat /\ DOMAIN c = 1 .. Len(c) /\ \A n \in 1 .. Len(c) : c[n] \in G
    BY LenProperties, ElementOfSeq
  <2>2. Ids(c) \in [1 .. Len(c) -> H] /\ \A n \in 1 .. Len(c) : Ids(c)[n] = c[n].id
    BY <2>1 DEF Ids
  <2>3. Ids(c) \in Seq(H)
    BY <2>1, <2>2, SeqDef
  <2>4. DOMAIN Ids(c) = 1 .. Len(Ids(c)) /\ Len(Ids(c)) \in Nat
    BY <2>3, LenProperties
  <2>5. Len(Ids(c)) = Len(c)
    BY <2>1, <2>2, <2>4
  <2>. QED
    BY <2>2, <2>3, <2>5
<1>2. /\ a \o b \in Seq(G) /\ Len(a \o b) = Len(a) + Len(b)
      /\ \A i \in 1 .. Len(a) + Len(b) : (a \o b)[i] = IF i <= Len(a) THEN a[i] ELSE b[i - Len(a)]
  BY ConcatProperties
<1>3. Len(a) \in Nat /\ Len(b) \in Nat
  BY LenProperties
<1>. DEFINE x == Ids(a)
            y == Ids(b)
            c == a \o b
            z == Ids(c)
<1>4. x \in Seq(H) /\ y \in Seq(H) /\ Len(x) = Len(a) /\ Len(y) = Len(b) /\ z \in Seq(H) /\ Len(z) = Len(a) + Len(b)
  BY <1>1, <1>2
<1>5. (\A n \in 1 .. Len(a) : x[n] = a[n].id) /\ (\A n \in 1 .. Len(b) : y[n] = b[n].id)
      /\ (\A n \in 1 .. Len(a) + Len(b) : z[n] = c[n].id)
  BY <1>1, <1>2
<1>6. \A i \in 1 .. Len(a) + Len(b) : c[i] = IF i <= Len(a) THEN a[i] ELSE b[i - Len(a)]
  BY <1>2
<1>. HIDE DEF x, y, z, c
<1>7. /\ x \o y \in Seq(H) /\ Len(x \o y) = Len(x) + Len(y)
      /\ \A i \in 1 .. Len(x) + Len(y) : (x \o y)[i] = IF i <= Len(x) THEN x[i] ELSE y[i - Len(x)]
  <2>1. x \in Seq(H) /\ y \in Seq(H)
    BY <1>4
  <2>. QED
    BY <2>1, ConcatProperties
<1>8. ASSUME NEW i \in 1 .. Len(a) + Len(b) PROVE z[i] = (x \o y)[i]
  <2>1. CASE i <= Len(a)
    <3>1. i \in 1 .. Len(a)
      BY <1>3, <2>1
    <3>2. z[i] = a[i].id /\ x[i] = a[i].id
      BY <1>5, <1>6, <2>1, <3>1
    <3>. QED
      BY <1>4, <1>7, <2>1, <3>2
  <2>2. CASE ~(i <= Len(a))
    <3>1. i - Len(a) \in 1 .. Len(b)
      BY <1>3, <2>2
    <3>2. z[i] = b[i - Len(a)].id /\ y[i - Len(a)] = b[i - Len(a)].id
      BY <1>5, <1>6, <2>2, <3>1
    <3>. QED
      BY <1>4, <1>7, <2>2, <3>2
  <2>. QED
    BY <2>1, <2>2
<1>9. z = x \o y
  BY <1>4, <1>7, <1>8, SeqEqual
<1>. QED
  BY <1>4, <1>9 DEF x, y, z, c

LEMMA GradeIds == \A g \in Grades : g.id \in Stops
  BY GradeIs, StopsAre DEF Grades

LEMMA RowIs ==
  ASSUME NEW r \in Seq(Grades), NEW S, Lists(r, S), NEW x
  PROVE  /\ PushFirst(r, {x}) \in Seq(Grades)
         /\ x \notin S => Ids(PushFirst(r, {x})) = <<>>
         /\ x \in S => Ids(PushFirst(r, {x})) = <<x>>
         /\ Range(PushFirst(r, {x})) = {g \in Range(r) : g.id = x}
<1>1. CASE x \notin S
  <2>1. PushFirst(r, {x}) = <<>>
    BY <1>1, Found
  <2>2. \A g \in Range(r) : g.id # x
    BY <1>1 DEF Lists, Range
  <2>3. Ids(<<>>) = <<>> /\ Range(<<>>) = {} /\ <<>> \in Seq(Grades)
    BY DEF Ids, Range
  <2>. QED
    BY <1>1, <2>1, <2>2, <2>3
<1>2. CASE x \in S
  <2>1. PICK n \in DOMAIN r : r[n] \in Grades /\ r[n].id = x /\ PushFirst(r, {x}) = <<r[n]>>
    BY <1>2, Found
  <2>2. \A m \in DOMAIN r : r[m].id = x => m = n
    BY <2>1 DEF Lists
  <2>3. \A g \in Range(r) : g.id = x => g = r[n]
    BY <2>2 DEF Range
  <2>4. r[n] \in Range(r)
    BY DEF Range
  <2>5. Range(<<r[n]>>) = {r[n]} /\ <<r[n]>> \in Seq(Grades)
    BY <2>1 DEF Range
  <2>6. Ids(<<r[n]>>) = <<x>>
    <3>. DEFINE g == r[n]
    <3>1. g.id = x
      BY <2>1
    <3>. HIDE DEF g
    <3>2. Ids(<<g>>) = <<g.id>>
      BY DEF Ids
    <3>. QED
      BY <3>1, <3>2 DEF g
  <2>. QED
    BY <1>2, <2>1, <2>3, <2>4, <2>5, <2>6
<1>. QED
  BY <1>1, <1>2

\* What a tabbed hand is graded on.
LEMMA AskedIs ==
  ASSUME NEW s, Fit(s), IsSequential(s)
  PROVE  /\ Asked(s) = ((BreakevenBoxes(s) \cup EquityBoxes(s)) \cup EvBoxes(s)) \cup {BetGroup}
         /\ \A t \in BetTiers : /\ <<"Breakeven", t>> \in Asked(s) <=> AsksBreakeven(s.type)
                                /\ <<"Ev", t>> \in Asked(s)
         /\ <<"Equity", 0>> \in Asked(s) <=> AsksEquityIfCalled(s.type)
         /\ BetGroup \in Asked(s)
         /\ \A x \in Asked(s) : \E t \in BetTiers : x \in {<<"Breakeven", t>>, <<"Equity", 0>>, <<"Ev", t>>, BetGroup}
<1>1. s.type # "Caller" /\ SizesAsked(s) = BetTiers /\ BetGroupPresent(s)
  BY DEF IsSequential, IsAggressor, SizesAsked, BetGroupPresent
<1>2. Asked(s) = ((BreakevenBoxes(s) \cup EquityBoxes(s)) \cup EvBoxes(s)) \cup {BetGroup}
  BY <1>1, BoxSet DEF Asked
<1>3. ASSUME NEW t \in BetTiers
      PROVE  (<<"Breakeven", t>> \in Asked(s) <=> AsksBreakeven(s.type)) /\ <<"Ev", t>> \in Asked(s)
  BY <1>1, <1>2 DEF BreakevenBoxes, EquityBoxes, EvBoxes, BetGroup
<1>4. <<"Equity", 0>> \in Asked(s) <=> AsksEquityIfCalled(s.type)
  BY <1>2 DEF BreakevenBoxes, EquityBoxes, EvBoxes, BetGroup
<1>5. ASSUME NEW x \in Asked(s)
      PROVE  \E t \in BetTiers : x \in {<<"Breakeven", t>>, <<"Equity", 0>>, <<"Ev", t>>, BetGroup}
  <2>1. 1 \in BetTiers
    BY TierCount
  <2>. QED
    BY <1>1, <1>2, <2>1 DEF BreakevenBoxes, EquityBoxes, EvBoxes
<1>. QED
  BY <1>2, <1>3, <1>4, <1>5

\* What becomes of the grades when rows are put together.
LEMMA RowsJoin ==
  ASSUME NEW a \in Seq(Grades), NEW b \in Seq(Grades)
  PROVE  a \o b \in Seq(Grades) /\ Ids(a \o b) = Ids(a) \o Ids(b) /\ Range(a \o b) = Range(a) \cup Range(b)
<1>1. \A g \in Grades : g.id \in Stops
  BY GradeIds
<1>2. Ids(a \o b) = Ids(a) \o Ids(b)
  BY <1>1, IdsConcat, ZenonT(40)
<1>3. Range(a \o b) = Range(a) \cup Range(b)
  BY RangeConcat
<1>4. a \o b \in Seq(Grades)
  BY ConcatProperties
<1>. QED
  BY <1>2, <1>3, <1>4, Zenon

\* The row of a box that a hand asks, if it does.
IsRow(q, r, ids, x) == q \in Seq(Grades) /\ Ids(q) = ids /\ Range(q) = {g \in Range(r) : g.id = x}

LEMMA RowFits ==
  ASSUME NEW r \in Seq(Grades), NEW S, Lists(r, S), NEW x, NEW asked \in BOOLEAN, x \in S <=> asked
  PROVE  IsRow(PushFirst(r, {x}), r, If(asked, x), x)
<1>1. CASE asked
  BY <1>1, RowIs DEF IsRow, If
<1>2. CASE ~asked
  BY <1>2, RowIs DEF IsRow, If
<1>. QED
  BY <1>1, <1>2

\* A tab shows the grades of what its tier's screen asked, in its order.
LEMMA TierRowsAre ==
  ASSUME NEW s, Fit(s), IsSequential(s), NEW t \in BetTiers, NEW r \in Seq(Grades), Lists(r, Asked(s))
  PROVE  /\ BuildTierRows(r, t) \in Seq(Grades)
         /\ Ids(BuildTierRows(r, t)) = FocusSegment(s, BuildBoxes(s), t)
         /\ Range(BuildTierRows(r, t)) =
              {g \in Range(r) : g.id \in {<<"Breakeven", t>>, <<"Equity", 0>>, <<"Ev", t>>, BetGroup}}
<1>. DEFINE b == PushFirst(r, {<<"Breakeven", t>>})
            e == PushFirst(r, {<<"Equity", 0>>})
            v == PushFirst(r, {<<"Ev", t>>})
            p == PushFirst(r, {BetGroup})
            ib == If(AsksBreakeven(s.type), <<"Breakeven", t>>)
            ie == If(AsksEquityIfCalled(s.type), <<"Equity", 0>>)
            iv == <<<<"Ev", t>>>>
            ip == <<BetGroup>>
<1>1. BuildTierRows(r, t) = ((b \o e) \o v) \o p
  BY Zenon DEF BuildTierRows, BetGroup
<1>2. IsRow(b, r, ib, <<"Breakeven", t>>)
  <2>1. AsksBreakeven(s.type) \in BOOLEAN
    BY DEF AsksBreakeven
  <2>2. <<"Breakeven", t>> \in Asked(s) <=> AsksBreakeven(s.type)
    BY AskedIs
  <2>. QED
    BY <2>1, <2>2, RowFits
<1>3. IsRow(e, r, ie, <<"Equity", 0>>)
  <2>1. AsksEquityIfCalled(s.type) \in BOOLEAN
    BY DEF AsksEquityIfCalled
  <2>2. <<"Equity", 0>> \in Asked(s) <=> AsksEquityIfCalled(s.type)
    BY AskedIs
  <2>. QED
    BY <2>1, <2>2, RowFits
<1>4. IsRow(v, r, iv, <<"Ev", t>>)
  <2>1. <<"Ev", t>> \in Asked(s)
    BY AskedIs
  <2>2. If(TRUE, <<"Ev", t>>) = iv
    BY DEF If
  <2>3. <<"Ev", t>> \in Asked(s) <=> TRUE
    BY <2>1
  <2>4. IsRow(v, r, If(TRUE, <<"Ev", t>>), <<"Ev", t>>)
    BY <2>3, RowFits
  <2>. QED
    BY <2>2, <2>4
<1>5. IsRow(p, r, ip, BetGroup)
  <2>1. BetGroup \in Asked(s) <=> TRUE
    BY AskedIs
  <2>2. If(TRUE, BetGroup) = ip
    BY DEF If
  <2>3. IsRow(p, r, If(TRUE, BetGroup), BetGroup)
    BY <2>1, RowFits
  <2>. QED
    BY <2>2, <2>3
<1>6. FocusSegment(s, BuildBoxes(s), t) = ((ib \o ie) \o iv) \o ip
  <2>1. BetGroupPresent(s)
    BY DEF IsSequential, BetGroupPresent
  <2>2. View(s, BuildBoxes(s), t) = (ib \o ie) \o iv
    BY ShownIs
  <2>. QED
    BY <2>1, <2>2, Zenon DEF FocusSegment
<1>. HIDE DEF b, e, v, p, ib, ie, iv, ip
<1>. DEFINE be == b \o e
            bev == be \o v
            all == bev \o p
<1>7. be \in Seq(Grades) /\ Ids(be) = ib \o ie /\ Range(be) = Range(b) \cup Range(e)
  BY <1>2, <1>3, RowsJoin, Zenon DEF IsRow
<1>. HIDE DEF be
<1>8. bev \in Seq(Grades) /\ Ids(bev) = (ib \o ie) \o iv /\ Range(bev) = Range(be) \cup Range(v)
  BY <1>4, <1>7, RowsJoin, Zenon DEF IsRow
<1>. HIDE DEF bev
<1>9. all \in Seq(Grades) /\ Ids(all) = ((ib \o ie) \o iv) \o ip /\ Range(all) = Range(bev) \cup Range(p)
  BY <1>5, <1>8, RowsJoin, Zenon DEF IsRow
<1>10. BuildTierRows(r, t) = all
  BY <1>1 DEF be, bev
<1>. HIDE DEF all
<1>11. Range(all) = {g \in Range(r) : g.id \in {<<"Breakeven", t>>, <<"Equity", 0>>, <<"Ev", t>>, BetGroup}}
  BY <1>2, <1>3, <1>4, <1>5, <1>7, <1>8, <1>9 DEF IsRow
<1>. QED
  BY <1>6, <1>9, <1>10, <1>11

\* Every grade is all right exactly when as many are right as there are.
LEMMA AllCorrect ==
  ASSUME NEW G, NEW r \in Seq(G)
  PROVE  BuildSummary(r).totalCorrect = BuildSummary(r).total <=> \A n \in DOMAIN r : r[n].correct
<1>. DEFINE right == {n \in DOMAIN r : r[n].correct}
<1>1. Len(r) \in Nat /\ DOMAIN r = 1 .. Len(r)
  BY LenProperties
<1>2. IsFiniteSet(DOMAIN r) /\ Cardinality(DOMAIN r) = Len(r)
  BY <1>1, FS_Interval, SMTT(30)
<1>3. right \in SUBSET DOMAIN r
  OBVIOUS
<1>4. BuildSummary(r).totalCorrect = Cardinality(right) /\ BuildSummary(r).total = Len(r)
  BY DEF BuildSummary
<1>5. right = DOMAIN r <=> \A n \in DOMAIN r : r[n].correct
  OBVIOUS
<1>. HIDE DEF right
<1>6. Cardinality(right) = Len(r) <=> right = DOMAIN r
  BY <1>2, <1>3, FS_Subset
<1>. QED
  BY <1>4, <1>5, <1>6

\* The tabs show every grade and nothing else, and pass together when the summary does.
LEMMA TabsShowAll ==
  ASSUME NEW s, Fit(s), IsSequential(s), NEW r \in Seq(Grades), Lists(r, Asked(s))
  PROVE  /\ UNION {Range(BuildTierRows(r, t)) : t \in BetTiers} = Range(r)
         /\ BuildSummary(r).totalCorrect = BuildSummary(r).total
              <=> \A t \in BetTiers : IsPass(BuildTierRows(r, t))
<1>1. \A t \in BetTiers :
        Range(BuildTierRows(r, t)) =
          {g \in Range(r) : g.id \in {<<"Breakeven", t>>, <<"Equity", 0>>, <<"Ev", t>>, BetGroup}}
  BY TierRowsAre
<1>2. ASSUME NEW g \in Range(r) PROVE \E t \in BetTiers : g \in Range(BuildTierRows(r, t))
  <2>1. g.id \in Asked(s)
    BY DEF Lists, Range
  <2>2. PICK t \in BetTiers : g.id \in {<<"Breakeven", t>>, <<"Equity", 0>>, <<"Ev", t>>, BetGroup}
    BY <2>1, AskedIs
  <2>. QED
    BY <1>1, <2>2
<1>3. UNION {Range(BuildTierRows(r, t)) : t \in BetTiers} = Range(r)
  BY <1>1, <1>2
<1>4. ASSUME NEW q PROVE (\A n \in DOMAIN q : q[n].correct) <=> \A g \in Range(q) : g.correct
  BY DEF Range
<1>5. BuildSummary(r).totalCorrect = BuildSummary(r).total <=> \A g \in Range(r) : g.correct
  BY <1>4, AllCorrect
<1>6. \A t \in BetTiers : IsPass(BuildTierRows(r, t)) <=> \A g \in Range(BuildTierRows(r, t)) : g.correct
  BY <1>4, Zenon DEF IsPass
<1>. QED
  BY <1>3, <1>5, <1>6

(* ---------------------------- dealing and walking ------------------------ *)

\* The settings a hand may be dealt with.
DealtWith == Options \cup {LessonOptions(o) : o \in Options}

\* Every hand that may be dealt is a hand of its seed's type, with a bet size to present.
LEMMA HandsFit ==
  ASSUME NEW seed \in Seeds, NEW o \in DealtWith
  PROVE  Fit(Hands[seed][o]) /\ Hands[seed][o].type = seed.type
<1>1. Hands[seed][o] = GenerateScenario(seed, o)
  BY DEF Hands, DealtWith
<1>2. /\ GenerateScenario(seed, o).type = seed.type
      /\ GenerateScenario(seed, o).multi_tier = o.multi_tier
      /\ ~o.multi_tier => GenerateScenario(seed, o).presented = seed.tier
  BY DEF GenerateScenario
<1>3. \A p \in Options : p.multi_tier \in BOOLEAN /\ LessonOptions(p).multi_tier = TRUE
  <2>1. \A p \in Options :
          p \in [multi_tier : BOOLEAN, weight : [Range(Streets) -> Nat], shop : BOOLEAN, summaryFirst : BOOLEAN]
    BY HandAssumption
  <2>. DEFINE W == [Range(Streets) -> Nat]
  <2>2. \A p \in Options : p \in [multi_tier : BOOLEAN, weight : W, shop : BOOLEAN, summaryFirst : BOOLEAN]
    BY <2>1
  <2>. HIDE DEF W
  <2>. QED
    BY <2>2 DEF LessonOptions
<1>4. o.multi_tier \in BOOLEAN
  <2>1. o \in Options \/ \E p \in Options : o = LessonOptions(p)
    BY DEF DealtWith
  <2>. QED
    BY <1>3, <2>1
<1>5. seed.type \in ScenarioTypes /\ seed.tier \in BetTiers
  BY HandAssumption
<1>. QED
  BY <1>1, <1>2, <1>4, <1>5 DEF Fit

\* Whatever the mode accepts is one of the seeds, and the lessons are of two types.
LEMMA OfferedAre == Offered \subseteq Seeds
  BY DEF Offered, Selectable

LEMMA LessonsAre == \A seed \in Lessons : seed \in Seeds /\ seed.type \in {"Caller", "PureBluff"}
  BY HandAssumption

\* The walk ends where its last step ends: a named input is taught or submitted next,
\* a taught one is followed by the next one's name or, after the bet size, by the tiers.
WalkGoesOn ==
  \A n \in DOMAIN Walk :
    /\ Walk[n].kind = "Stage1" => n + 1 \in DOMAIN Walk /\ Walk[n + 1].kind \in {"Stage2", "Submit"}
    /\ Walk[n].kind = "Stage2" =>
         /\ n + 1 \in DOMAIN Walk
         /\ Walk[n + 1].kind \in {"Stage1", "Tiers"}
         /\ Walk[n + 1].kind = "Tiers" => Walk[n].stop = BetGroup

Steps == [kind : {"Stage1", "Stage2", "Submit", "Tiers"}, stop : Stops]
Step(kind, stop) == [kind |-> kind, stop |-> stop]

\* Three inputs are named and taught one after the other.
LEMMA ThreeWalked ==
  ASSUME NEW x \in Stops, NEW y \in Stops, NEW z \in Stops
  PROVE  LET w == Walked(<<x, y, z>>)
         IN  /\ w \in Seq(Steps) /\ Len(w) = 6
             /\ w[1] = Step("Stage1", x) /\ w[2] = Step("Stage2", x) /\ w[3] = Step("Stage1", y)
             /\ w[4] = Step("Stage2", y) /\ w[5] = Step("Stage1", z) /\ w[6] = Step("Stage2", z)
<1>. DEFINE stops == <<x, y, z>>
            b == [n \in 1 .. 3 |-> Step("Stage1", stops[n])]
            e == [n \in 1 .. 3 |-> Step("Stage2", stops[n])]
            w == Walked(stops)
<1>1. DOMAIN stops = 1 .. 3 /\ \A n \in 1 .. 3 : stops[n] \in Stops
  OBVIOUS
<1>2. b \in [1 .. 3 -> Steps] /\ e \in [1 .. 3 -> Steps]
  BY <1>1 DEF Steps, Step
<1>3. [n \in DOMAIN stops |-> <<Step("Stage1", stops[n]), Step("Stage2", stops[n])>>]
        = [n \in 1 .. 3 |-> <<b[n], e[n]>>]
  BY <1>1
<1>4. b[1] = Step("Stage1", x) /\ b[2] = Step("Stage1", y) /\ b[3] = Step("Stage1", z)
  OBVIOUS
<1>5. e[1] = Step("Stage2", x) /\ e[2] = Step("Stage2", y) /\ e[3] = Step("Stage2", z)
  OBVIOUS
<1>6. w = FlattenSeq([n \in DOMAIN stops |-> <<Step("Stage1", stops[n]), Step("Stage2", stops[n])>>])
  BY Zenon DEF Walked, Step
<1>7. w = FlattenSeq([n \in 1 .. 3 |-> <<b[n], e[n]>>])
  BY <1>3, <1>6, Zenon
<1>. HIDE DEF b, e, w, stops
<1>8. InTurn(FlattenSeq([n \in 1 .. 3 |-> <<b[n], e[n]>>]), 3, Steps, b, e)
  <2>1. 3 \in Nat /\ 3 >= 1
    OBVIOUS
  <2>. QED
    BY <1>2, <2>1, Pairs, Zenon
<1>9. w \in Seq(Steps) /\ Len(w) = 3 + 3 /\ \A n \in 1 .. 3 : w[(n + n) - 1] = b[n] /\ w[n + n] = e[n]
  BY <1>7, <1>8, Zenon DEF InTurn
<1>10. /\ w[(1 + 1) - 1] = b[1] /\ w[1 + 1] = e[1] /\ w[(2 + 2) - 1] = b[2] /\ w[2 + 2] = e[2]
       /\ w[(3 + 3) - 1] = b[3] /\ w[3 + 3] = e[3]
  <2>1. 1 \in 1 .. 3 /\ 2 \in 1 .. 3 /\ 3 \in 1 .. 3
    OBVIOUS
  <2>. QED
    BY <1>9, <2>1, Zenon
<1>11. w[1] = b[1] /\ w[2] = e[1] /\ w[3] = b[2] /\ w[4] = e[2] /\ w[5] = b[3] /\ w[6] = e[3]
  BY <1>10
<1>12. Len(w) = 6
  BY <1>9
<1>. QED
  BY <1>4, <1>5, <1>9, <1>11, <1>12, Zenon DEF w, stops

\* Every lesson's walk is such a walk.
WalkFits ==
  scenario.type \in {"Caller", "PureBluff"} =>
    /\ WalkGoesOn /\ DOMAIN Walk \subseteq 1 .. 8 /\ 1 \in DOMAIN Walk
    /\ \A n \in DOMAIN Walk : Walk[n].kind \in {"Stage1", "Stage2", "Submit", "Tiers"} /\ Walk[n].stop \in Stops

LEMMA WalkIs == WalkFits
<1>1. CASE scenario.type = "Caller"
  <2>. DEFINE w == Walked(<<<<"PotOdds", 0>>, <<"Outs", 0>>, <<"Equity", 0>>>>)
              end == <<Step("Stage1", <<"Ev", 0>>), Step("Submit", <<"Ev", 0>>)>>
  <2>1. /\ w \in Seq(Steps) /\ Len(w) = 6
        /\ w[1] = Step("Stage1", <<"PotOdds", 0>>) /\ w[2] = Step("Stage2", <<"PotOdds", 0>>)
        /\ w[3] = Step("Stage1", <<"Outs", 0>>) /\ w[4] = Step("Stage2", <<"Outs", 0>>)
        /\ w[5] = Step("Stage1", <<"Equity", 0>>) /\ w[6] = Step("Stage2", <<"Equity", 0>>)
    <3>1. <<"PotOdds", 0>> \in Stops /\ <<"Outs", 0>> \in Stops /\ <<"Equity", 0>> \in Stops
      BY StopsAre
    <3>. QED
      BY <3>1, ThreeWalked
  <2>2. Walk = w \o end
    BY <1>1 DEF Walk, Step
  <2>3. end \in Seq(Steps) /\ Len(end) = 2
    BY StopsAre DEF Steps, Step
  <2>4. end[1] = Step("Stage1", <<"Ev", 0>>) /\ end[2] = Step("Submit", <<"Ev", 0>>)
    OBVIOUS
  <2>. HIDE DEF w, end
  <2>5. /\ w \o end \in Seq(Steps) /\ Len(w \o end) = Len(w) + Len(end)
        /\ \A i \in 1 .. Len(w) + Len(end) : (w \o end)[i] = IF i <= Len(w) THEN w[i] ELSE end[i - Len(w)]
    BY <2>1, <2>3, ConcatProperties
  <2>6. /\ Len(Walk) = 8 /\ Walk \in Seq(Steps)
        /\ \A i \in 1 .. 8 : Walk[i] = IF i <= 6 THEN w[i] ELSE end[i - 6]
    BY <2>1, <2>2, <2>3, <2>5
  <2>7. /\ Walk[1] = w[1] /\ Walk[2] = w[2] /\ Walk[3] = w[3] /\ Walk[4] = w[4] /\ Walk[5] = w[5] /\ Walk[6] = w[6]
        /\ Walk[7] = end[1] /\ Walk[8] = end[2]
    BY <2>6
  <2>8. DOMAIN Walk = 1 .. 8
    BY <2>6, LenProperties
  <2>9. /\ Walk[1].kind = "Stage1" /\ Walk[2].kind = "Stage2" /\ Walk[3].kind = "Stage1" /\ Walk[4].kind = "Stage2"
        /\ Walk[5].kind = "Stage1" /\ Walk[6].kind = "Stage2" /\ Walk[7].kind = "Stage1" /\ Walk[8].kind = "Submit"
    BY <2>1, <2>4, <2>7 DEF Step
  <2>. HIDE DEF Walk
  <2>10. \A n \in DOMAIN Walk : Walk[n] \in Steps
    BY <2>6, <2>8, ElementOfSeq
  <2>11. WalkGoesOn
    BY <2>8, <2>9 DEF WalkGoesOn
  <2>. QED
    BY <1>1, <2>8, <2>10, <2>11 DEF Steps, WalkFits
<1>2. CASE scenario.type = "PureBluff"
  <2>. DEFINE w == Walked(<<<<"Breakeven", 1>>, <<"Ev", 1>>, BetGroup>>)
              end == <<Step("Tiers", NoStop)>>
  <2>1. /\ w \in Seq(Steps) /\ Len(w) = 6
        /\ w[1] = Step("Stage1", <<"Breakeven", 1>>) /\ w[2] = Step("Stage2", <<"Breakeven", 1>>)
        /\ w[3] = Step("Stage1", <<"Ev", 1>>) /\ w[4] = Step("Stage2", <<"Ev", 1>>)
        /\ w[5] = Step("Stage1", BetGroup) /\ w[6] = Step("Stage2", BetGroup)
    <3>1. <<"Breakeven", 1>> \in Stops /\ <<"Ev", 1>> \in Stops /\ BetGroup \in Stops
      BY StopsAre, TierCount
    <3>. QED
      BY <3>1, ThreeWalked
  <2>2. Walk = w \o end
    BY <1>2 DEF Walk, Step
  <2>3. end \in Seq(Steps) /\ Len(end) = 1
    BY StopsAre DEF Steps, Step
  <2>4. end[1] = Step("Tiers", NoStop)
    OBVIOUS
  <2>. HIDE DEF w, end
  <2>5. /\ w \o end \in Seq(Steps) /\ Len(w \o end) = Len(w) + Len(end)
        /\ \A i \in 1 .. Len(w) + Len(end) : (w \o end)[i] = IF i <= Len(w) THEN w[i] ELSE end[i - Len(w)]
    BY <2>1, <2>3, ConcatProperties
  <2>6. /\ Len(Walk) = 7 /\ Walk \in Seq(Steps)
        /\ \A i \in 1 .. 7 : Walk[i] = IF i <= 6 THEN w[i] ELSE end[i - 6]
    BY <2>1, <2>2, <2>3, <2>5
  <2>7. /\ Walk[1] = w[1] /\ Walk[2] = w[2] /\ Walk[3] = w[3] /\ Walk[4] = w[4] /\ Walk[5] = w[5] /\ Walk[6] = w[6]
        /\ Walk[7] = end[1]
    BY <2>6
  <2>8. DOMAIN Walk = 1 .. 7
    BY <2>6, LenProperties
  <2>9. /\ Walk[1].kind = "Stage1" /\ Walk[2].kind = "Stage2" /\ Walk[3].kind = "Stage1" /\ Walk[4].kind = "Stage2"
        /\ Walk[5].kind = "Stage1" /\ Walk[6].kind = "Stage2" /\ Walk[6].stop = BetGroup /\ Walk[7].kind = "Tiers"
    BY <2>1, <2>4, <2>7 DEF Step
  <2>. HIDE DEF Walk
  <2>10. \A n \in DOMAIN Walk : Walk[n] \in Steps
    BY <2>6, <2>8, ElementOfSeq
  <2>11. WalkGoesOn
    BY <2>8, <2>9 DEF WalkGoesOn
  <2>. QED
    BY <1>2, <2>8, <2>10, <2>11 DEF Steps, WalkFits
<1>. QED
  BY <1>1, <1>2 DEF WalkFits

LEMMA NextWalkIs == WalkFits'
  BY WalkIs, PTL

(* -------------------------- the ring and the registry -------------------- *)

LEMMA ClusterIs == Range(ClusterTail) = {<<"Shop", 0>>, <<"X", 0>>}
<1>1. ClusterTail = <<<<"Shop", 0>>, <<"X", 0>>>>
  BY DEF ClusterTail, Cluster
<1>. QED
  BY <1>1 DEF Range

\* A stop of the focus list is a text field of the screen or one of the others.
LEMMA RegistryIs ==
  ASSUME NEW s, Fit(s), NEW t \in BetTiers
  PROVE  LET known == RegistryOf(s, BuildBoxes(s), t)
         IN  /\ known.fields = Range(View(s, BuildBoxes(s), t))
             /\ known.fields \subseteq Stops /\ known.others \subseteq Stops
             /\ known.fields \cap known.others = {}
             /\ NoStop \notin known.fields /\ NoStop \notin known.others /\ BetGroup \notin known.fields
             /\ BetGroupPresent(s) => BetGroup \in known.others
             /\ {<<"Shop", 0>>, <<"X", 0>>} \subseteq known.others
<1>. DEFINE known == RegistryOf(s, BuildBoxes(s), t)
<1>1. /\ known.fields = Range(View(s, BuildBoxes(s), t))
      /\ known.others = (IF BetGroupPresent(s) THEN {BetGroup} ELSE {}) \cup Range(ClusterTail)
  BY DEF RegistryOf
<1>2. Range(View(s, BuildBoxes(s), t)) \subseteq Range(BuildBoxes(s)) /\ Range(View(s, BuildBoxes(s), t)) \subseteq Stops
  BY ShownSet
<1>3. \A box \in Range(BuildBoxes(s)) : box # BetGroup /\ box # NoStop
  BY BoxIs
<1>4. \A box \in Range(BuildBoxes(s)) : box \notin {<<"Shop", 0>>, <<"X", 0>>}
  <2>1. CASE s.type = "Caller"
    BY <2>1, BoxSet DEF CallerBoxes, Range
  <2>2. CASE s.type # "Caller"
    BY <2>2, BoxSet DEF BreakevenBoxes, EquityBoxes, EvBoxes
  <2>. QED
    BY <2>1, <2>2
<1>5. NoStop \notin {BetGroup, <<"Shop", 0>>, <<"X", 0>>}
  BY DEF NoStop, BetGroup
<1>6. known.others \subseteq Stops
  BY <1>1, ClusterIs, StopsAre
<1>. HIDE DEF known
<1>. QED
  BY <1>1, <1>2, <1>3, <1>4, <1>5, <1>6, ClusterIs DEF known

\* The ring of a context walks over the text fields of the screen and the other stops.
RingOn(context, known) ==
  /\ context \in [list : Seq(Stops), pointer : Nat, armed : BOOLEAN]
  /\ context.list # <<>> /\ context.pointer \in DOMAIN context.list
  /\ known.fields \subseteq Range(context.list) /\ Range(context.list) \subseteq known.fields \cup known.others

\* A fresh sheet or the screen of the next tier has such a ring.
LEMMA GameRing ==
  ASSUME NEW s, Fit(s), NEW t \in BetTiers, NEW o
  PROVE  RingOn(Registered(GameFocusList(s, BuildBoxes(s), t, o)), RegistryOf(s, BuildBoxes(s), t))
<1>. DEFINE view == View(s, BuildBoxes(s), t)
            known == RegistryOf(s, BuildBoxes(s), t)
            bet == IF BetGroupPresent(s) THEN <<BetGroup>> ELSE <<>>
            icons == Cluster(o)
            list == (view \o bet) \o icons
<1>1. view \in Seq(Stops) /\ Range(view) = known.fields
  BY ShownSet, RegistryIs
<1>2. bet \in Seq(Stops) /\ Range(bet) \subseteq known.others
  <2>1. CASE BetGroupPresent(s)
    <3>1. bet = <<BetGroup>> /\ BetGroup \in known.others /\ BetGroup \in Stops
      BY <2>1, RegistryIs, StopsAre
    <3>. QED
      BY <3>1 DEF Range
  <2>2. CASE ~BetGroupPresent(s)
    BY <2>2 DEF Range
  <2>. QED
    BY <2>1, <2>2
<1>3. icons \in Seq(Stops) /\ Range(icons) \subseteq known.others /\ Len(icons) >= 1
  <2>1. <<"Shop", 0>> \in Stops /\ <<"X", 0>> \in Stops /\ {<<"Shop", 0>>, <<"X", 0>>} \subseteq known.others
    BY RegistryIs, StopsAre
  <2>2. icons \in {<<<<"Shop", 0>>, <<"X", 0>>>>, <<<<"X", 0>>>>}
    BY DEF Cluster
  <2>. HIDE DEF icons, known
  <2>3. CASE icons = <<<<"Shop", 0>>, <<"X", 0>>>>
    <3>1. Range(icons) = {<<"Shop", 0>>, <<"X", 0>>} /\ Len(icons) = 2
      BY <2>3 DEF Range
    <3>2. icons \in Seq(Stops)
      BY <2>1, <2>3
    <3>. QED
      BY <2>1, <3>1, <3>2
  <2>4. CASE icons = <<<<"X", 0>>>>
    <3>1. Range(icons) = {<<"X", 0>>} /\ Len(icons) = 1
      BY <2>4 DEF Range
    <3>2. icons \in Seq(Stops)
      BY <2>1, <2>4
    <3>. QED
      BY <2>1, <3>1, <3>2
  <2>. QED
    BY <2>2, <2>3, <2>4
<1>4. GameFocusList(s, BuildBoxes(s), t, o) = list
  BY DEF GameFocusList, FocusSegment
<1>. HIDE DEF view, known, bet, icons
<1>5. view \o bet \in Seq(Stops) /\ Range(view \o bet) = Range(view) \cup Range(bet)
  BY <1>1, <1>2, ConcatProperties, RangeConcat
<1>6. list \in Seq(Stops) /\ Range(list) = Range(view \o bet) \cup Range(icons) /\ Len(list) = Len(view \o bet) + Len(icons)
  <2>1. view \o bet \in Seq(Stops) /\ icons \in Seq(Stops)
    BY <1>3, <1>5
  <2>2. list \in Seq(Stops) /\ Len(list) = Len(view \o bet) + Len(icons)
    BY <2>1, ConcatProperties
  <2>3. Range(list) = Range(view \o bet) \cup Range(icons)
    BY <2>1, RangeConcat, ZenonT(40)
  <2>. QED
    BY <2>2, <2>3
<1>7. Len(list) >= 1
  BY <1>3, <1>5, <1>6, LenProperties
<1>. HIDE DEF list
<1>8. list # <<>> /\ 1 \in DOMAIN list
  BY <1>6, <1>7, LenProperties
<1>9. known.fields \subseteq Range(list) /\ Range(list) \subseteq known.fields \cup known.others
  BY <1>1, <1>2, <1>3, <1>5, <1>6
<1>10. RingOn(Registered(list), known)
  BY <1>6, <1>8, <1>9 DEF Registered, RingOn
<1>. QED
  BY <1>4, <1>10 DEF known

\* Snapping and advancing keep the list and leave the pointer in it.
LEMMA SnappedRing ==
  ASSUME NEW c, NEW known, RingOn(c, known), NEW stop
  PROVE  /\ RingOn(Snapped(c, stop), known)
         /\ stop \in Range(c.list) => Snapped(c, stop).armed /\ Snapped(c, stop).list[Snapped(c, stop).pointer] = stop
         /\ ~Snapped(c, stop).armed => Snapped(c, stop) = c
<1>1. CASE Holds(c.list, stop)
  <2>1. IndexIn(c.list, stop) \in DOMAIN c.list /\ c.list[IndexIn(c.list, stop)] = stop
    BY <1>1 DEF Holds, IndexIn
  <2>2. DOMAIN c.list \subseteq Nat
    BY LenProperties DEF RingOn
  <2>. QED
    BY <1>1, <2>1, <2>2 DEF RingOn, Snapped
<1>2. CASE ~Holds(c.list, stop)
  BY <1>2 DEF Snapped, Holds, Range
<1>. QED
  BY <1>1, <1>2

LEMMA AdvancedRing ==
  ASSUME NEW c, NEW known, RingOn(c, known), NEW reverse \in BOOLEAN
  PROVE  RingOn(AdvanceFocus(c, reverse), known) /\ AdvanceFocus(c, reverse).armed
<1>. DEFINE n == Len(c.list)
            p == IF c.armed THEN (IF reverse THEN ((c.pointer + n - 2) % n) + 1 ELSE (c.pointer % n) + 1)
                 ELSE IF reverse THEN n ELSE 1
<1>1. n \in Nat /\ n >= 1 /\ DOMAIN c.list = 1 .. n /\ c.pointer \in 1 .. n
  <2>1. c.list \in Seq(Stops) /\ c.list # <<>> /\ c.pointer \in DOMAIN c.list
    BY DEF RingOn
  <2>. QED
    BY <2>1, LenProperties, EmptySeq
<1>2. AdvanceFocus(c, reverse) = [c EXCEPT !.armed = TRUE, !.pointer = p]
  BY <1>1 DEF AdvanceFocus, RingOn
<1>3. p \in 1 .. n
  BY <1>1
<1>. HIDE DEF p, n
<1>. DEFINE d == AdvanceFocus(c, reverse)
<1>4. c \in [list : Seq(Stops), pointer : Nat, armed : BOOLEAN]
  BY DEF RingOn
<1>5. d.armed /\ d.list = c.list /\ d.pointer = p /\ d \in [list : Seq(Stops), pointer : Nat, armed : BOOLEAN]
  <2>. DEFINE L == Seq(Stops)
  <2>1. c \in [list : L, pointer : Nat, armed : BOOLEAN] /\ p \in Nat
    BY <1>1, <1>3, <1>4
  <2>. HIDE DEF L
  <2>2. d = [list |-> c.list, pointer |-> p, armed |-> TRUE]
    BY <1>2, <2>1
  <2>. HIDE DEF d
  <2>3. d \in [list : L, pointer : Nat, armed : BOOLEAN]
    BY <2>1, <2>2
  <2>. QED
    BY <2>2, <2>3 DEF L
<1>. HIDE DEF d
<1>6. RingOn(d, known)
  BY <1>1, <1>3, <1>5 DEF RingOn
<1>. QED
  BY <1>5, <1>6 DEF d

\* The stop such a context rings.
Ringed(c) == IF c.armed THEN c.list[c.pointer] ELSE NoStop

LEMMA RingedIs ==
  ASSUME NEW c, NEW known, RingOn(c, known), NoStop \notin known.fields, NoStop \notin known.others
  PROVE  /\ c.list # <<>>
         /\ c.armed => Ringed(c) \in known.fields \cup known.others
         /\ Ringed(c) \in Stops
         /\ Ringed(c) = NoStop <=> ~c.armed
<1>1. c.list # <<>> /\ c.pointer \in DOMAIN c.list /\ Range(c.list) \subseteq known.fields \cup known.others
  BY DEF RingOn
<1>2. c.list[c.pointer] \in Range(c.list) /\ c.list[c.pointer] \in Stops
  BY <1>1, ElementOfSeq, LenProperties DEF RingOn, Range
<1>. QED
  BY <1>1, <1>2, StopsAre DEF Ringed

(* ------------------------------ the invariant ---------------------------- *)

\* The step of the walk: what it does, and with which stop.
Stage == IF lesson # 0 THEN Walk[lesson].kind ELSE "None"
Taught == IF lesson # 0 THEN Walk[lesson].stop ELSE NoStop

\* What is on the table.
Table ==
  /\ options \in Options
  /\ screen \in {"Lobby", "Game", "PostRound"}
  /\ screen = "Lobby" => boxes = <<>> /\ lesson = 0
  /\ screen # "Lobby" => Fit(scenario) /\ boxes = BuildBoxes(scenario)
  /\ text \in [Range(boxes) -> Texts]
  /\ pick \in 0 .. kBetTierCount /\ tier \in BetTiers
  /\ synced \in Stops /\ caret \in Stops /\ grab \in Stops
  /\ tab \in 1 .. SummaryTab /\ calm \in 0 .. 2
  /\ lesson \in 0 .. 8 /\ (lesson # 0 => scenario.type \in {"Caller", "PureBluff"} /\ lesson \in DOMAIN Walk)

\* The screen of the current tier: its registry, its ring, and the caret in a box it shows.
OnSheet ==
  /\ registry = RegistryOf(scenario, boxes, tier)
  /\ RingOn(focus, registry)
  /\ caret \in registry.fields \cup {NoStop}

\* In a lesson, the screens of the earlier tiers were left filled.
LeftFilled ==
  lesson # 0 /\ IsSequential(scenario) => \A box \in Range(boxes) : box[2] \in 1 .. tier - 1 => BoxFilled(box)

\* A field that was reconciled holds the caret or has asked for it, unless no box holds
\* it; and after one quiet frame the reconciler has seen the ring where it is.
Reconciled ==
  /\ ~focus.armed => caret = NoStop /\ grab = NoStop
  /\ ~raced /\ synced \in registry.fields => grab \in {NoStop, synced}
  /\ ~raced /\ synced \in registry.fields /\ ~inert /\ Stage \notin {"Stage1", "Stage2"} /\ grab = NoStop =>
       caret \in {NoStop, synced}
  /\ Stage = "Stage2" /\ Taught = BetGroup => caret = NoStop
  /\ calm >= 1 => synced = Ringed(focus) /\ grab \in {NoStop, Ringed(focus)} /\ (inert <=> Stage = "Stage1")
  /\ calm = 2 /\ ~raced /\ Stage # "Stage2" => caret \in {NoStop, Ringed(focus)}

\* The recap is that of the sheet still on the table.
Submitted ==
  /\ result = Evaluate(scenario, GatherAnswers)
  /\ lesson # 0 => \A n \in DOMAIN boxes : BoxFilled(boxes[n])

HandInv ==
  /\ Table
  /\ screen # "Game" => caret = NoStop /\ grab = NoStop
  /\ screen = "Game" => OnSheet /\ LeftFilled /\ Reconciled
  /\ screen = "PostRound" => Submitted

\* Who is taught what.
LEMMA StageIs ==
  /\ At({"Stage1"}) <=> Stage = "Stage1"
  /\ At({"Stage2"}) <=> Stage = "Stage2"
  /\ At({"Stage1", "Stage2"}) <=> Stage \in {"Stage1", "Stage2"}
  /\ At({"Stage1", "Submit"}) <=> Stage \in {"Stage1", "Submit"}
  /\ At({"Stage1", "Stage2", "Submit"}) <=> Stage \in {"Stage1", "Stage2", "Submit"}
  BY DEF At, InLesson, Stage

LEMMA EnabledIs ==
  ASSUME NEW stop
  PROVE  /\ Stage \notin {"Stage1", "Stage2"} => Enabled(stop)
         /\ Stage = "Stage1" => ~Enabled(stop)
         /\ Stage = "Stage2" /\ Taught = BetGroup /\ Enabled(stop) => stop = BetGroup
<1>1. Enabled(stop) <=> (lesson # 0 => Stage # "Stage1" /\ LiveBox \in {NoStop, stop})
  BY StageIs DEF Enabled, SuppressesTextFocus, InLesson
<1>2. LiveBox = IF Stage \in {"Stage1", "Stage2"} THEN Walk[lesson].stop ELSE NoStop
  BY StageIs DEF LiveBox
<1>3. Stage \in {"Stage1", "Stage2"} => lesson # 0 /\ Taught = Walk[lesson].stop
  BY DEF Stage, Taught
<1>4. BetGroup # NoStop
  BY DEF BetGroup, NoStop
<1>. QED
  BY <1>1, <1>2, <1>3, <1>4

LEMMA StageStays ==
  ASSUME scenario' = scenario, lesson' = lesson
  PROVE  Stage' = Stage /\ Taught' = Taught /\ Walk' = Walk
  BY DEF Stage, Taught, Walk

LEMMA StageGoesOn ==
  ASSUME Table, lesson # 0, scenario' = scenario, lesson' = lesson + 1
  PROVE  /\ Walk' = Walk
         /\ Stage \in {"Stage1", "Stage2"} => lesson' \in 1 .. 8 /\ lesson' \in DOMAIN Walk'
         /\ Stage = "Stage1" => Stage' \in {"Stage2", "Submit"}
         /\ Stage = "Stage2" => Stage' \in {"Stage1", "Tiers"} /\ (Stage' = "Tiers" => Taught = BetGroup)
<1>1. Walk' = Walk
  BY DEF Walk
<1>2. WalkGoesOn /\ DOMAIN Walk \subseteq 1 .. 8 /\ lesson \in DOMAIN Walk
  BY WalkIs DEF WalkFits, Table
<1>3. lesson' # 0
  BY <1>2
<1>4. Stage = Walk[lesson].kind /\ Taught = Walk[lesson].stop /\ Stage' = Walk[lesson + 1].kind
  BY <1>1, <1>3 DEF Stage, Taught
<1>. QED
  BY <1>1, <1>2, <1>4 DEF WalkGoesOn

LEMMA HandInit == Init => HandInv
<1>. SUFFICES ASSUME Init PROVE HandInv
  OBVIOUS
<1>1. Range(<<>>) = {} /\ <<>> \in [{} -> Texts]
  BY DEF Range
<1>2. Table
  BY <1>1, TierCount, StopsAre DEF Init, Table, SummaryTab
<1>. QED
  BY <1>2 DEF Init, HandInv

(* ---------------------------------- deals -------------------------------- *)

LEMMA DealKeeps ==
  ASSUME HandInv, NEW seed \in Seeds, NEW o \in DealtWith, Deal(seed, o), options' = options,
         screen # "Game", calm' = 0,
         lesson' = 0 \/ (lesson' = 1 /\ seed \in Lessons)
  PROVE  HandInv'
<1>. DEFINE s == Hands[seed][o]
<1>1. Fit(s) /\ s.type = seed.type
  BY HandsFit
<1>2. /\ scenario' = s /\ boxes' = BuildBoxes(s) /\ text' = [box \in Range(BuildBoxes(s)) |-> "Blank"]
      /\ pick' = 0 /\ tier' = 1 /\ synced' = NoStop /\ screen' = "Game"
      /\ focus' = Registered(GameFocusList(s, BuildBoxes(s), 1, o))
      /\ registry' = RegistryOf(s, BuildBoxes(s), 1)
      /\ UNCHANGED <<caret, grab, tab>>
  BY DEF Deal, ApplyScenario, Configured
<1>. HIDE DEF s
<1>3. caret = NoStop /\ grab = NoStop /\ options \in Options /\ tab \in 1 .. SummaryTab
  BY DEF HandInv, Table
<1>4. 1 \in BetTiers
  BY TierCount
<1>5. lesson' # 0 => scenario'.type \in {"Caller", "PureBluff"} /\ lesson' = 1 /\ 1 \in DOMAIN Walk'
  <2>1. lesson' # 0 => lesson' = 1 /\ seed.type \in {"Caller", "PureBluff"}
    BY LessonsAre
  <2>. QED
    BY <1>1, <1>2, <2>1, NextWalkIs DEF WalkFits
<1>6. text' \in [Range(boxes') -> Texts]
  <2>. DEFINE R == Range(BuildBoxes(s))
  <2>1. text' = [box \in R |-> "Blank"] /\ Range(boxes') = R
    BY <1>2
  <2>. HIDE DEF R
  <2>. QED
    BY <2>1 DEF Texts
<1>7. Table'
  BY <1>1, <1>2, <1>3, <1>4, <1>5, <1>6, StopsAre, TierCount DEF Table
<1>8. RingOn(focus', registry') /\ ~focus'.armed
  BY <1>1, <1>2, <1>4, GameRing DEF Registered
<1>9. OnSheet'
  BY <1>2, <1>3, <1>8 DEF OnSheet
<1>10. LeftFilled'
  BY <1>2 DEF LeftFilled
<1>11. NoStop \notin registry'.fields
  BY <1>1, <1>2, <1>4, RegistryIs
<1>12. Reconciled'
  BY <1>2, <1>3, <1>8, <1>11 DEF Reconciled
<1>. QED
  BY <1>2, <1>7, <1>9, <1>10, <1>12 DEF HandInv

LEMMA LaunchKeeps ==
  ASSUME HandInv, Launch
  PROVE  HandInv'
<1>1. PICK seed \in Offered : Deal(seed, options)
  BY DEF Launch
<1>2. seed \in Seeds /\ options \in DealtWith
  BY OfferedAre DEF HandInv, Table, DealtWith
<1>3. screen # "Game" /\ lesson' = 0 /\ calm' = 0 /\ options' = options
  BY DEF Launch
<1>. QED
  BY <1>1, <1>2, <1>3, DealKeeps

LEMMA LaunchLessonKeeps ==
  ASSUME HandInv, LaunchLesson
  PROVE  HandInv'
<1>1. PICK seed \in Lessons : Deal(seed, LessonOptions(options))
  BY DEF LaunchLesson
<1>2. seed \in Seeds /\ LessonOptions(options) \in DealtWith
  BY LessonsAre DEF HandInv, Table, DealtWith
<1>3. screen # "Game" /\ lesson' = 1 /\ calm' = 0 /\ options' = options
  BY DEF LaunchLesson
<1>. QED
  BY <1>1, <1>2, <1>3, DealKeeps

(* --------------------- steps that leave the keyboard alone --------------- *)

\* The hand, the ring and the reconciler stay; what else changes, and how, varies.
LEMMA ReconcilerStays ==
  ASSUME Reconciled, UNCHANGED <<scenario, lesson, focus, registry, synced, caret, grab, inert, raced, calm>>
  PROVE  Reconciled'
<1>1. Stage' = Stage /\ Taught' = Taught
  BY StageStays
<1>. QED
  BY <1>1 DEF Reconciled

LEMMA AnswersStay ==
  ASSUME Submitted, UNCHANGED <<scenario, lesson, boxes, text, pick, result>>
  PROVE  Submitted'
<1>1. GatherAnswers' = GatherAnswers
  BY DEF GatherAnswers
<1>. QED
  BY <1>1 DEF Submitted, BoxFilled

LEMMA ChangeOptionsKeeps ==
  ASSUME HandInv, ChangeOptions
  PROVE  HandInv'
<1>1. /\ options' \in Options
      /\ UNCHANGED <<screen, scenario, boxes, text, pick, tier, focus, registry, synced, caret, grab, inert, raced,
                     lesson, result, tab, calm>>
  BY DEF ChangeOptions, sheet, keyboard
<1>2. Table'
  BY <1>1, StageStays DEF HandInv, Table
<1>3. screen' = "Game" => OnSheet' /\ LeftFilled'
  BY <1>1 DEF HandInv, OnSheet, LeftFilled, BoxFilled
<1>4. screen' = "Game" => Reconciled'
  BY <1>1, ReconcilerStays DEF HandInv
<1>5. screen' = "PostRound" => Submitted'
  BY <1>1, AnswersStay DEF HandInv
<1>. QED
  BY <1>1, <1>2, <1>3, <1>4, <1>5 DEF HandInv

LEMMA ArrowKeyKeeps ==
  ASSUME HandInv, ArrowKey
  PROVE  HandInv'
<1>1. /\ screen = "Game"
      /\ UNCHANGED <<options, screen, scenario, boxes, text, tier, focus, registry, synced, caret, grab, inert, raced,
                     lesson, result, tab, calm>>
  BY DEF ArrowKey, keyboard, Working
<1>2. pick' \in 0 .. kBetTierCount
  <2>1. PICK step \in {-1, 1} : pick' = ArrowPick(step)
    BY DEF ArrowKey
  <2>2. pick \in 0 .. kBetTierCount
    BY DEF HandInv, Table
  <2>. QED
    BY <2>1, <2>2, TierCount DEF ArrowPick, Clamped, AtLeast, AtMost
<1>3. Table'
  BY <1>1, <1>2, StageStays DEF HandInv, Table
<1>4. OnSheet' /\ LeftFilled'
  BY <1>1 DEF HandInv, OnSheet, LeftFilled, BoxFilled
<1>5. Reconciled'
  BY <1>1, ReconcilerStays DEF HandInv
<1>. QED
  BY <1>1, <1>3, <1>4, <1>5 DEF HandInv

\* The caret is in a box of the screen, so no box of an earlier tier is written.
LEMMA TypeTextKeeps ==
  ASSUME HandInv, TypeText
  PROVE  HandInv'
<1>1. /\ screen = "Game" /\ caret # NoStop
      /\ UNCHANGED <<options, screen, scenario, boxes, pick, tier, focus, registry, synced, caret, grab, inert, raced,
                     lesson, result, tab, calm>>
  BY DEF TypeText, keyboard, Working
<1>2. PICK value \in Texts : text' = [text EXCEPT ![caret] = value]
  BY DEF TypeText
<1>3. Fit(scenario) /\ boxes = BuildBoxes(scenario) /\ tier \in BetTiers /\ text \in [Range(boxes) -> Texts]
  BY <1>1 DEF HandInv, Table
<1>4. caret \in Range(View(scenario, boxes, tier))
  BY <1>1, <1>3, RegistryIs DEF HandInv, OnSheet
<1>5. text' \in [Range(boxes) -> Texts]
  BY <1>2, <1>3
<1>6. Table'
  BY <1>1, <1>5, StageStays DEF HandInv, Table
<1>7. LeftFilled'
  <2>1. SUFFICES ASSUME lesson # 0, IsSequential(scenario), NEW box \in Range(boxes), box[2] \in 1 .. tier - 1
                 PROVE  BoxFilled(box)'
    BY <1>1 DEF LeftFilled
  <2>2. BoxFilled(box)
    BY <1>1, <2>1 DEF HandInv, LeftFilled
  <2>3. caret[2] \in {0, tier}
    BY <1>3, <1>4, <2>1, ShownSet
  <2>4. caret # box
    BY <1>3, <2>1, <2>3, TierCount
  <2>5. text'[box] = text[box]
    BY <1>2, <1>3, <2>4
  <2>. QED
    BY <2>2, <2>5 DEF BoxFilled
<1>8. OnSheet'
  BY <1>1 DEF HandInv, OnSheet
<1>9. Reconciled'
  BY <1>1, ReconcilerStays DEF HandInv
<1>. QED
  BY <1>1, <1>6, <1>7, <1>8, <1>9 DEF HandInv

LEMMA ChangeTabKeeps ==
  ASSUME HandInv, ChangeTab
  PROVE  HandInv'
<1>1. /\ screen = "PostRound"
      /\ UNCHANGED <<options, screen, scenario, boxes, text, pick, tier, registry, synced, caret, grab, inert, raced,
                     lesson, result, calm>>
  BY DEF ChangeTab, sheet
<1>2. tab' \in 1 .. SummaryTab
  <2>1. tab' \in 1 .. SummaryTab \/ \E step \in {-1, 1} : tab' = Clamped(tab + step, 1, SummaryTab)
    BY DEF ChangeTab
  <2>2. tab \in 1 .. SummaryTab /\ SummaryTab \in Nat
    BY TierCount DEF HandInv, Table, SummaryTab
  <2>. QED
    BY <2>1, <2>2 DEF Clamped, AtLeast, AtMost
<1>3. Table'
  BY <1>1, <1>2, StageStays DEF HandInv, Table, SummaryTab
<1>4. Submitted'
  BY <1>1, AnswersStay DEF HandInv
<1>. QED
  BY <1>1, <1>3, <1>4 DEF HandInv

LEMMA RecapTabKeyKeeps ==
  ASSUME HandInv, RecapTabKey
  PROVE  HandInv'
<1>1. /\ screen = "PostRound"
      /\ UNCHANGED <<options, screen, scenario, boxes, text, pick, tier, registry, synced, caret, grab, inert, raced,
                     lesson, result, tab, calm>>
  BY DEF RecapTabKey, sheet
<1>2. Table'
  BY <1>1, StageStays DEF HandInv, Table
<1>3. Submitted'
  BY <1>1, AnswersStay DEF HandInv
<1>. QED
  BY <1>1, <1>2, <1>3 DEF HandInv

(* --------------------- keys that move the ring or the walk ---------------- *)

LEMMA RingMoves ==
  ASSUME HandInv, screen = "Game", RingOn(focus', registry), ~focus'.armed => focus' = focus, calm' = 0,
         pick' \in 0 .. kBetTierCount,
         UNCHANGED <<options, screen, scenario, boxes, text, tier, registry, synced, caret, grab, inert, raced,
                     result, tab>>,
         \/ lesson' = lesson
         \/ lesson # 0 /\ lesson' = lesson + 1 /\ Stage = "Stage1" /\ caret = NoStop
         \/ lesson # 0 /\ lesson' = lesson + 1 /\ Stage = "Stage2"
  PROVE  HandInv'
<1>1. Table /\ OnSheet /\ LeftFilled /\ Reconciled
  BY DEF HandInv
<1>2. CASE lesson' = lesson
  <2>1. Stage' = Stage /\ Taught' = Taught /\ Walk' = Walk
    BY <1>2, StageStays
  <2>2. Table'
    BY <1>1, <1>2, <2>1 DEF Table
  <2>3. OnSheet' /\ LeftFilled'
    BY <1>1, <1>2 DEF OnSheet, LeftFilled, BoxFilled
  <2>4. Reconciled'
    BY <1>1, <2>1 DEF Reconciled
  <2>. QED
    BY <2>2, <2>3, <2>4 DEF HandInv
<1>3. CASE lesson # 0 /\ lesson' = lesson + 1 /\ Stage \in {"Stage1", "Stage2"} /\ (Stage = "Stage1" => caret = NoStop)
  <2>1. /\ Walk' = Walk /\ lesson' \in 1 .. 8 /\ lesson' \in DOMAIN Walk'
        /\ Stage = "Stage1" => Stage' \in {"Stage2", "Submit"}
        /\ Stage = "Stage2" => Stage' \in {"Stage1", "Tiers"} /\ (Stage' = "Tiers" => Taught = BetGroup)
    BY <1>1, <1>3, StageGoesOn
  <2>2. Table'
    BY <1>1, <1>3, <2>1 DEF Table
  <2>3. OnSheet' /\ LeftFilled'
    BY <1>1, <1>3 DEF OnSheet, LeftFilled, BoxFilled
  <2>4. Stage' = "Stage1" \/ caret = NoStop
    BY <1>1, <1>3, <2>1 DEF Reconciled
  <2>5. Reconciled'
    BY <1>1, <2>4 DEF Reconciled
  <2>. QED
    BY <2>2, <2>3, <2>5 DEF HandInv
<1>. QED
  BY <1>2, <1>3

\* Snapping the ring, or leaving it, is such a move.
LEMMA SnapMoves ==
  ASSUME OnSheet, NEW stop, focus' = focus \/ focus' = Snapped(focus, stop)
  PROVE  RingOn(focus', registry) /\ (~focus'.armed => focus' = focus)
<1>1. RingOn(focus, registry)
  BY DEF OnSheet
<1>. QED
  BY <1>1, SnappedRing

LEMMA EnterWalkKeeps ==
  ASSUME HandInv, EnterWalk
  PROVE  HandInv'
<1>1. /\ screen = "Game" /\ focus' = Snapped(focus, Walk[1].stop) /\ calm' = 0 /\ lesson' = lesson
      /\ UNCHANGED <<options, screen, scenario, boxes, text, pick, tier, registry, synced, caret, grab, inert, raced,
                     result, tab>>
  BY DEF EnterWalk, sheet
<1>2. RingOn(focus', registry) /\ (~focus'.armed => focus' = focus)
  BY <1>1, SnapMoves DEF HandInv
<1>3. pick' \in 0 .. kBetTierCount
  BY <1>1 DEF HandInv, Table
<1>. QED
  BY <1>1, <1>2, <1>3, RingMoves

\* A step that is taught focuses the next stop, or leaves the ring for the tiers.
LEMMA CursorMoves ==
  ASSUME OnSheet, AdvanceCursor
  PROVE  lesson' = lesson + 1 /\ RingOn(focus', registry) /\ (~focus'.armed => focus' = focus)
<1>1. lesson' = lesson + 1 /\ (focus' = focus \/ focus' = Snapped(focus, Walk[lesson + 1].stop))
  BY DEF AdvanceCursor
<1>. QED
  BY <1>1, SnapMoves

LEMMA NumberKeyKeeps ==
  ASSUME HandInv, NumberKey
  PROVE  HandInv'
<1>1. /\ screen = "Game" /\ caret = NoStop /\ calm' = 0
      /\ UNCHANGED <<options, screen, scenario, boxes, text, tier, registry, synced, caret, grab, inert, raced,
                     result, tab>>
  BY DEF NumberKey, Working
<1>2. OnSheet /\ pick \in 0 .. kBetTierCount
  BY <1>1 DEF HandInv, Table
<1>3. PICK digit \in 1 .. 6 :
       \/ /\ At({"Stage1"})
          /\ FocusTarget(digit) = Walk[lesson].stop
          /\ AdvanceCursor
          /\ UNCHANGED pick
       \/ /\ ~At({"Stage1", "Submit"})
          /\ IF Focused = BetGroup
             THEN /\ pick' = IF digit \in BetTiers THEN digit ELSE pick
                  /\ UNCHANGED focus
             ELSE /\ FocusTarget(digit) # NoStop
                  /\ focus' = Snapped(focus, FocusTarget(digit))
                  /\ UNCHANGED pick
          /\ UNCHANGED lesson
  BY Zenon DEF NumberKey
<1>4. CASE At({"Stage1"}) /\ AdvanceCursor /\ UNCHANGED pick
  <2>1. Stage = "Stage1" /\ lesson # 0
    BY <1>4, StageIs DEF Stage
  <2>2. lesson' = lesson + 1 /\ RingOn(focus', registry) /\ (~focus'.armed => focus' = focus)
    BY <1>2, <1>4, CursorMoves
  <2>. QED
    BY <1>1, <1>2, <1>4, <2>1, <2>2, RingMoves
<1>5. CASE UNCHANGED lesson /\ pick' \in 0 .. kBetTierCount /\ (focus' = focus \/ focus' = Snapped(focus, FocusTarget(digit)))
  <2>1. RingOn(focus', registry) /\ (~focus'.armed => focus' = focus)
    BY <1>2, <1>5, SnapMoves
  <2>. QED
    BY <1>1, <1>5, <2>1, RingMoves
<1>6. digit \in BetTiers => digit \in 0 .. kBetTierCount
  BY TierCount
<1>. QED
  BY <1>2, <1>3, <1>4, <1>5, <1>6

LEMMA TabKeyKeeps ==
  ASSUME HandInv, TabKey
  PROVE  HandInv'
<1>1. /\ screen = "Game" /\ calm' = 0
      /\ UNCHANGED <<options, screen, scenario, boxes, text, pick, tier, registry, synced, caret, grab, inert, raced,
                     result, tab>>
  BY DEF TabKey, Working, sheet
<1>2. OnSheet /\ pick' \in 0 .. kBetTierCount
  BY <1>1 DEF HandInv, Table
<1>3. CASE At({"Stage2"}) /\ AdvanceCursor
  <2>1. Stage = "Stage2" /\ lesson # 0
    BY <1>3, StageIs DEF Stage
  <2>2. lesson' = lesson + 1 /\ RingOn(focus', registry) /\ (~focus'.armed => focus' = focus)
    BY <1>2, <1>3, CursorMoves
  <2>. QED
    BY <1>1, <1>2, <2>1, <2>2, RingMoves
<1>4. CASE (\E reverse \in BOOLEAN : focus' = AdvanceFocus(focus, reverse)) /\ UNCHANGED lesson
  <2>1. PICK reverse \in BOOLEAN : focus' = AdvanceFocus(focus, reverse)
    BY <1>4
  <2>2. RingOn(focus', registry) /\ focus'.armed
    BY <1>2, <2>1, AdvancedRing DEF OnSheet
  <2>. QED
    BY <1>1, <1>2, <1>4, <2>2, RingMoves
<1>. QED
  BY <1>3, <1>4 DEF TabKey

\* The bet group is no text field: its click takes the caret away.
LEMMA ClickBetKeeps ==
  ASSUME HandInv, ClickBet
  PROVE  HandInv'
<1>1. /\ screen = "Game" /\ pick' \in BetTiers /\ focus' = Snapped(focus, BetGroup) /\ synced' = BetGroup
      /\ caret' = NoStop /\ calm' = 0
      /\ UNCHANGED <<options, screen, scenario, boxes, text, tier, registry, grab, inert, raced, lesson, result, tab>>
  BY DEF ClickBet, Working
<1>2. Table /\ OnSheet /\ LeftFilled /\ Reconciled
  BY <1>1 DEF HandInv
<1>3. Stage' = Stage /\ Taught' = Taught /\ Walk' = Walk
  BY <1>1, StageStays
<1>4. Fit(scenario) /\ boxes = BuildBoxes(scenario) /\ tier \in BetTiers
  BY <1>1, <1>2 DEF Table
<1>5. BetGroup \notin registry.fields
  BY <1>2, <1>4, RegistryIs DEF OnSheet
<1>6. RingOn(focus', registry) /\ (~focus'.armed => focus' = focus)
  BY <1>1, <1>2, SnapMoves
<1>7. Table'
  BY <1>1, <1>2, <1>3, StopsAre, TierCount DEF Table
<1>8. OnSheet' /\ LeftFilled'
  BY <1>1, <1>2, <1>6 DEF OnSheet, LeftFilled, BoxFilled
<1>9. Reconciled'
  BY <1>1, <1>2, <1>3, <1>5, <1>6 DEF Reconciled
<1>. QED
  BY <1>1, <1>7, <1>8, <1>9 DEF HandInv

(* -------------------------------- frames --------------------------------- *)

\* A frame on a sheet, whether or not it has a click.
LEMMA SheetRendered ==
  ASSUME HandInv, screen = "Game"
  PROVE  /\ Table /\ OnSheet /\ LeftFilled /\ Reconciled
         /\ registry.fields = Range(View(scenario, boxes, tier)) /\ registry.fields \subseteq Stops
         /\ registry.fields \cap registry.others = {} /\ BetGroup \notin registry.fields
         /\ NoStop \notin registry.fields /\ NoStop \notin registry.others
         /\ Focused = Ringed(focus) /\ Ringed(focus) \in Stops
         /\ focus.armed => Ringed(focus) \in registry.fields \cup registry.others
         /\ Ringed(focus) = NoStop <=> ~focus.armed
<1>1. Table /\ OnSheet /\ LeftFilled /\ Reconciled
  BY DEF HandInv
<1>2. Fit(scenario) /\ boxes = BuildBoxes(scenario) /\ tier \in BetTiers /\ registry = RegistryOf(scenario, boxes, tier)
  BY <1>1 DEF Table, OnSheet
<1>3. /\ registry.fields = Range(View(scenario, boxes, tier)) /\ registry.fields \subseteq Stops
      /\ registry.fields \cap registry.others = {} /\ BetGroup \notin registry.fields
      /\ NoStop \notin registry.fields /\ NoStop \notin registry.others
  BY <1>2, RegistryIs
<1>4. RingOn(focus, registry)
  BY <1>1 DEF OnSheet
<1>5. /\ focus.list # <<>> /\ Ringed(focus) \in Stops
      /\ focus.armed => Ringed(focus) \in registry.fields \cup registry.others
      /\ Ringed(focus) = NoStop <=> ~focus.armed
  BY <1>3, <1>4, RingedIs
<1>6. Focused = Ringed(focus)
  BY <1>5 DEF Focused, Ringed
<1>. QED
  BY <1>1, <1>3, <1>5, <1>6

\* The fields that take text in a frame.
Drawn == {box \in Range(View(scenario, boxes, tier)) : Enabled(box)}

\* What a frame without a click does, by where the ring is.
LEMMA FrameIs ==
  ASSUME HandInv, Frame
  PROVE  /\ screen = "Game" /\ (inert' <=> Stage = "Stage1") /\ focus' = focus /\ synced' = Ringed(focus)
         /\ calm' = AtMost(2, calm + 1)
         /\ UNCHANGED <<options, screen, scenario, boxes, text, pick, tier, registry, lesson, result, tab>>
         /\ caret' = NoStop \/ (caret' \in Drawn /\ caret' \in {grab, caret})
         /\ \/ grab' = NoStop /\ caret' \in {NoStop, grab} /\ Stage = "Stage1"
            \/ grab' = NoStop /\ caret' \in {NoStop, grab} /\ Ringed(focus) \in registry.others
            \/ /\ grab' = IF Ringed(focus) \in Drawn THEN Ringed(focus) ELSE NoStop
               /\ Ringed(focus) \in registry.fields /\ ~raced' /\ Stage # "Stage1"
               /\ inert \/ synced # Ringed(focus)
            \/ /\ grab' = NoStop /\ (~raced' => ~raced) /\ Stage # "Stage1" /\ Ringed(focus) \notin registry.others
               /\ Ringed(focus) # NoStop => synced = Ringed(focus) /\ ~inert
               /\ caret' = IF grab \in Drawn THEN grab ELSE IF caret \in Drawn THEN caret ELSE NoStop
<1>. DEFINE sup == SuppressesTextFocus
            lifted == inert /\ ~sup
            previous == IF lifted THEN NoStop ELSE synced
            decision == IF sup THEN [action |-> "None", target |-> NoStop] ELSE Reconcile(previous, Focused)
            kept == IF decision.action = "Yield" \/ sup THEN NoStop ELSE caret
            taken == IF grab # NoStop /\ grab \in Drawn THEN grab ELSE kept
<1>1. /\ Working /\ inert' = sup
      /\ grab' = IF decision.action = "Focus" /\ decision.target \in Drawn THEN decision.target ELSE NoStop
      /\ caret' = IF taken \in Drawn THEN taken ELSE NoStop
      /\ focus' = focus
      /\ synced' = IF focus'.armed THEN focus'.list[focus'.pointer] ELSE NoStop
      /\ raced' = (raced /\ decision.action = "None")
      /\ calm' = AtMost(2, calm + 1)
      /\ UNCHANGED <<options, screen, scenario, sheet, registry, lesson, result, tab>>
  BY Zenon DEF Frame, RenderMathInputs, Drawn
<1>2. screen = "Game" /\ (sup <=> Stage = "Stage1")
  BY <1>1, StageIs DEF Working, SuppressesTextFocus
<1>3. /\ registry.fields = Range(View(scenario, boxes, tier)) /\ registry.fields \cap registry.others = {}
      /\ NoStop \notin registry.fields /\ NoStop \notin registry.others
      /\ Focused = Ringed(focus) /\ (focus.armed => Ringed(focus) \in registry.fields \cup registry.others)
      /\ Ringed(focus) = NoStop <=> ~focus.armed
  BY <1>2, SheetRendered
<1>4. synced' = Ringed(focus)
  BY <1>1 DEF Ringed
<1>5. Drawn \subseteq registry.fields /\ NoStop \notin Drawn
  BY <1>3 DEF Drawn
<1>6. Stage = "Stage1" => Drawn = {}
  BY EnabledIs DEF Drawn
<1>7. caret' = NoStop \/ (caret' \in Drawn /\ caret' \in {grab, caret})
  BY <1>1, <1>5
<1>. DEFINE f == Ringed(focus)
            Outcome ==
              \/ grab' = NoStop /\ caret' \in {NoStop, grab} /\ Stage = "Stage1"
              \/ grab' = NoStop /\ caret' \in {NoStop, grab} /\ f \in registry.others
              \/ /\ grab' = IF f \in Drawn THEN f ELSE NoStop
                 /\ f \in registry.fields /\ ~raced' /\ Stage # "Stage1"
                 /\ inert \/ synced # f
              \/ /\ grab' = NoStop /\ (~raced' => ~raced) /\ Stage # "Stage1" /\ f \notin registry.others
                 /\ f # NoStop => synced = f /\ ~inert
                 /\ caret' = IF grab \in Drawn THEN grab ELSE IF caret \in Drawn THEN caret ELSE NoStop
<1>8. ASSUME Stage = "Stage1"
       PROVE  Outcome
  BY <1>1, <1>2, <1>6, <1>8
<1>9. ASSUME Stage # "Stage1" /\ f \in registry.others
       PROVE  Outcome
  <2>1. decision = [action |-> "Yield", target |-> NoStop]
    BY <1>2, <1>3, <1>9 DEF Reconcile
  <2>. HIDE DEF decision
  <2>2. kept = NoStop
    BY <2>1
  <2>3. caret' \in {NoStop, grab} /\ grab' = NoStop
    BY <1>1, <1>5, <2>1, <2>2
  <2>. QED
    BY <1>9, <2>3
<1>10. ASSUME Stage # "Stage1" /\ f \notin registry.others /\ f \in registry.fields /\ f # previous
       PROVE  Outcome
  <2>1. decision = [action |-> "Focus", target |-> f]
    BY <1>2, <1>3, <1>10 DEF Reconcile
  <2>. HIDE DEF decision
  <2>2. grab' = (IF f \in Drawn THEN f ELSE NoStop) /\ ~raced'
    BY <1>1, <2>1
  <2>3. inert \/ synced # f
    BY <1>10
  <2>. QED
    BY <1>10, <2>2, <2>3
<1>11. ASSUME Stage # "Stage1" /\ f \notin registry.others /\ (f \notin registry.fields \/ f = previous)
       PROVE  Outcome
  <2>1. decision = [action |-> "None", target |-> NoStop]
    BY <1>2, <1>3, <1>11 DEF Reconcile
  <2>. HIDE DEF decision
  <2>2. kept = caret /\ grab' = NoStop /\ (~raced' => ~raced)
    BY <1>1, <1>2, <1>11, <2>1
  <2>3. caret' = IF grab \in Drawn THEN grab ELSE IF caret \in Drawn THEN caret ELSE NoStop
    BY <1>1, <1>5, <2>2
  <2>4. f # NoStop => synced = f /\ ~inert
    BY <1>2, <1>3, <1>11
  <2>. QED
    BY <1>11, <2>2, <2>3, <2>4
<1>12. Outcome
  <2>. HIDE DEF Outcome, previous
  <2>. QED
    BY <1>8, <1>9, <1>10, <1>11
<1>. QED
  BY <1>1, <1>2, <1>4, <1>7, <1>12 DEF sheet

LEMMA FrameKeeps ==
  ASSUME HandInv, Frame
  PROVE  HandInv'
<1>. DEFINE f == Ringed(focus)
<1>1. /\ screen = "Game" /\ (inert' <=> Stage = "Stage1") /\ focus' = focus /\ synced' = f /\ calm' = AtMost(2, calm + 1)
      /\ UNCHANGED <<options, screen, scenario, boxes, text, pick, tier, registry, lesson, result, tab>>
      /\ caret' = NoStop \/ (caret' \in Drawn /\ caret' \in {grab, caret})
      /\ \/ grab' = NoStop /\ caret' \in {NoStop, grab} /\ Stage = "Stage1"
         \/ grab' = NoStop /\ caret' \in {NoStop, grab} /\ f \in registry.others
         \/ /\ grab' = IF f \in Drawn THEN f ELSE NoStop
            /\ f \in registry.fields /\ ~raced' /\ Stage # "Stage1"
            /\ inert \/ synced # f
         \/ /\ grab' = NoStop /\ (~raced' => ~raced) /\ Stage # "Stage1" /\ f \notin registry.others
            /\ f # NoStop => synced = f /\ ~inert
            /\ caret' = IF grab \in Drawn THEN grab ELSE IF caret \in Drawn THEN caret ELSE NoStop
  BY FrameIs
<1>2. /\ Table /\ OnSheet /\ LeftFilled /\ Reconciled
      /\ registry.fields = Range(View(scenario, boxes, tier)) /\ registry.fields \subseteq Stops
      /\ registry.fields \cap registry.others = {} /\ BetGroup \notin registry.fields
      /\ NoStop \notin registry.fields /\ NoStop \notin registry.others
      /\ f \in Stops /\ (focus.armed => f \in registry.fields \cup registry.others)
      /\ f = NoStop <=> ~focus.armed
  BY <1>1, SheetRendered
<1>3. Stage' = Stage /\ Taught' = Taught /\ Walk' = Walk
  BY <1>1, StageStays
<1>. HIDE DEF f
<1>4. Drawn \subseteq registry.fields /\ (Stage \notin {"Stage1", "Stage2"} => Drawn = registry.fields)
  BY <1>2, EnabledIs DEF Drawn
<1>5. /\ Stage = "Stage1" => Drawn = {}
      /\ Stage = "Stage2" /\ Taught = BetGroup => Drawn = {}
  BY <1>2, EnabledIs DEF Drawn
<1>6. caret' \in registry.fields \cup {NoStop} /\ grab' \in {NoStop, f}
  BY <1>1, <1>4
<1>7. calm \in 0 .. 2 /\ calm' \in 0 .. 2 /\ calm' >= 1 /\ (calm' = 2 => calm >= 1)
  BY <1>1, <1>2 DEF Table, AtMost
<1>8. Table'
  BY <1>1, <1>2, <1>3, <1>6, <1>7, StopsAre DEF Table
<1>9. OnSheet' /\ LeftFilled'
  BY <1>1, <1>2, <1>6 DEF OnSheet, LeftFilled, BoxFilled
<1>10. Ringed(focus)' = f
  BY <1>1 DEF f
<1>11. Reconciled'
  <2>1. ~focus'.armed => caret' = NoStop /\ grab' = NoStop
    <3>1. SUFFICES ASSUME ~focus.armed PROVE caret' = NoStop /\ grab' = NoStop
      BY <1>1
    <3>2. f = NoStop /\ caret = NoStop /\ grab = NoStop
      BY <1>2, <3>1 DEF Reconciled
    <3>. QED
      BY <1>1, <1>6, <3>2
  <2>2. ~raced' /\ synced' \in registry'.fields => grab' \in {NoStop, synced'}
    BY <1>1, <1>6
  <2>3. ASSUME ~raced', f \in registry.fields, ~inert', Stage \notin {"Stage1", "Stage2"}, grab' = NoStop
        PROVE  caret' \in {NoStop, f}
    <3>1. f # NoStop /\ f \notin registry.others /\ Drawn = registry.fields
      BY <1>2, <1>4, <2>3
    <3>2. /\ ~raced /\ synced = f /\ ~inert
          /\ caret' = IF grab \in Drawn THEN grab ELSE IF caret \in Drawn THEN caret ELSE NoStop
      BY <1>1, <2>3, <3>1
    <3>3. grab \in {NoStop, f} /\ (grab = NoStop => caret \in {NoStop, f})
      BY <1>2, <2>3, <3>2 DEF Reconciled
    <3>. QED
      BY <2>3, <3>1, <3>2, <3>3
  <2>4. Stage' = "Stage2" /\ Taught' = BetGroup => caret' = NoStop
    BY <1>1, <1>3, <1>5
  <2>5. calm' >= 1 => synced' = Ringed(focus)' /\ grab' \in {NoStop, Ringed(focus)'} /\ (inert' <=> Stage' = "Stage1")
    BY <1>1, <1>3, <1>6, <1>10
  <2>6. ASSUME calm' = 2, ~raced', Stage # "Stage2"
        PROVE  caret' \in {NoStop, f}
    <3>1. synced = f /\ grab \in {NoStop, f} /\ (inert <=> Stage = "Stage1")
      BY <1>2, <1>7, <2>6 DEF Reconciled, f
    <3>2. caret' \in {NoStop, grab} => caret' \in {NoStop, f}
      BY <3>1
    <3>3. CASE caret' \in {NoStop, grab}
      BY <3>2, <3>3
    <3>4. CASE caret' \notin {NoStop, grab}
      <4>1. /\ ~raced /\ Stage # "Stage1" /\ ~inert
            /\ caret' = IF grab \in Drawn THEN grab ELSE IF caret \in Drawn THEN caret ELSE NoStop
        BY <1>1, <2>6, <3>1, <3>4
      <4>2. caret' = caret /\ grab \notin Drawn /\ focus.armed
        BY <1>1, <2>1, <3>4, <4>1
      <4>3. f \in registry.fields
        BY <1>1, <1>2, <2>6, <3>4, <4>2
      <4>4. f \in Drawn /\ grab = NoStop
        BY <1>4, <2>6, <3>1, <4>1, <4>2, <4>3
      <4>. QED
        BY <1>2, <2>6, <3>1, <4>1, <4>2, <4>3, <4>4 DEF Reconciled
    <3>. QED
      BY <3>3, <3>4
  <2>. QED
    BY <1>1, <1>3, <1>10, <2>1, <2>2, <2>3, <2>4, <2>5, <2>6 DEF Reconciled
<1>. QED
  BY <1>1, <1>8, <1>9, <1>11 DEF HandInv

\* What a click into a box does: the ring moves to it, and unless a grab was on its way
\* to another box, so do the caret and whatever is on its way.
LEMMA ClickIs ==
  ASSUME HandInv, NEW click, click # NoStop, RenderMathInputs(click)
  PROVE  /\ screen = "Game" /\ click \in Drawn /\ focus' = Snapped(focus, click) /\ calm' = 0
         /\ synced' = IF focus'.armed THEN focus'.list[focus'.pointer] ELSE NoStop
         /\ UNCHANGED <<options, screen, scenario, boxes, text, pick, tier, registry, lesson, result, tab>>
         /\ grab' \in Drawn \cup {NoStop}
         /\ caret' \in Drawn \cup {caret, NoStop}
         /\ ~raced' => caret' \in {click, NoStop} /\ grab' \in {click, NoStop}
<1>. DEFINE sup == SuppressesTextFocus
            lifted == inert /\ ~sup
            previous == IF lifted THEN NoStop ELSE synced
            decision == IF sup THEN [action |-> "None", target |-> NoStop] ELSE Reconcile(previous, Focused)
            kept == IF decision.action = "Yield" \/ sup THEN NoStop ELSE caret
            taken == IF grab # NoStop /\ grab \in Drawn THEN grab ELSE kept
            view == View(scenario, boxes, tier)
            clicked == IF grab # NoStop /\ taken = grab /\ IndexIn(view, click) < IndexIn(view, grab)
                       THEN grab ELSE click
<1>1. /\ Working /\ click \in Drawn
      /\ grab' = IF decision.action = "Focus" /\ decision.target \in Drawn THEN decision.target ELSE NoStop
      /\ caret' = clicked
      /\ focus' = Snapped(focus, click)
      /\ synced' = IF focus'.armed THEN focus'.list[focus'.pointer] ELSE NoStop
      /\ raced' = ~({clicked, grab'} \subseteq {click, NoStop})
      /\ calm' = 0
      /\ UNCHANGED <<options, screen, scenario, sheet, registry, lesson, result, tab>>
  BY Zenon DEF RenderMathInputs, Drawn
<1>. HIDE DEF decision
<1>2. grab' \in Drawn \cup {NoStop}
  BY <1>1
<1>3. taken \in Drawn \cup {caret, NoStop}
  OBVIOUS
<1>. HIDE DEF taken
<1>4. clicked \in Drawn \cup {caret, NoStop}
  BY <1>1, <1>3
<1>. HIDE DEF clicked
<1>5. ~raced' => caret' \in {click, NoStop} /\ grab' \in {click, NoStop}
  BY <1>1
<1>. QED
  BY <1>1, <1>2, <1>4, <1>5 DEF Working, sheet

LEMMA ClickBoxKeeps ==
  ASSUME HandInv, ClickBox
  PROVE  HandInv'
<1>1. PICK click \in ShownBoxes : RenderMathInputs(click)
  BY DEF ClickBox
<1>2. screen = "Game"
  BY <1>1 DEF RenderMathInputs, Working
<1>3. /\ Table /\ OnSheet /\ LeftFilled /\ Reconciled
      /\ registry.fields = Range(View(scenario, boxes, tier)) /\ registry.fields \subseteq Stops
      /\ registry.fields \cap registry.others = {} /\ BetGroup \notin registry.fields
      /\ NoStop \notin registry.fields /\ NoStop \notin registry.others
  BY <1>2, SheetRendered
<1>4. click # NoStop
  BY <1>1, <1>3 DEF ShownBoxes
<1>5. /\ click \in Drawn /\ focus' = Snapped(focus, click) /\ calm' = 0
      /\ synced' = IF focus'.armed THEN focus'.list[focus'.pointer] ELSE NoStop
      /\ UNCHANGED <<options, screen, scenario, boxes, text, pick, tier, registry, lesson, result, tab>>
      /\ grab' \in Drawn \cup {NoStop}
      /\ caret' \in Drawn \cup {caret, NoStop}
      /\ ~raced' => caret' \in {click, NoStop} /\ grab' \in {click, NoStop}
  BY <1>1, <1>4, ClickIs
<1>6. Stage' = Stage /\ Taught' = Taught /\ Walk' = Walk
  BY <1>5, StageStays
<1>7. Drawn \subseteq registry.fields /\ ~(Stage = "Stage2" /\ Taught = BetGroup)
  BY <1>3, <1>5, EnabledIs DEF Drawn
<1>8. RingOn(focus', registry) /\ focus'.armed /\ synced' = click
  <2>1. RingOn(focus, registry) /\ click \in Range(focus.list)
    BY <1>3, <1>5, <1>7 DEF OnSheet, RingOn
  <2>. QED
    BY <1>5, <2>1, SnappedRing
<1>9. caret' \in registry.fields \cup {NoStop}
  BY <1>3, <1>5, <1>7 DEF OnSheet
<1>10. Table'
  BY <1>3, <1>5, <1>6, <1>7, <1>8, <1>9, StopsAre DEF Table
<1>11. OnSheet' /\ LeftFilled'
  BY <1>3, <1>5, <1>8, <1>9 DEF OnSheet, LeftFilled, BoxFilled
<1>12. Reconciled'
  BY <1>5, <1>6, <1>7, <1>8 DEF Reconciled
<1>. QED
  BY <1>2, <1>5, <1>10, <1>11, <1>12 DEF HandInv

(* ------------------------------ Enter and the recap ---------------------- *)

\* A screen that is left is a filled one, in a lesson.
LEMMA TierLeft ==
  ASSUME HandInv, screen = "Game", ~Ignored, IsSequential(scenario), lesson # 0
  PROVE  \A box \in Range(boxes) : box[2] \in 0 .. tier => BoxFilled(box)
<1>1. Fit(scenario) /\ boxes = BuildBoxes(scenario) /\ tier \in BetTiers /\ LeftFilled
  BY DEF HandInv, Table
<1>2. \A box \in ShownBoxes : BoxFilled(box)
  BY DEF Ignored, InLesson, CurrentTierFilled
<1>3. ShownBoxes = {box \in Range(boxes) : box[2] \in {0, tier}}
  BY <1>1, ShownSet DEF ShownBoxes
<1>4. ASSUME NEW box \in Range(boxes), box[2] \in 0 .. tier PROVE BoxFilled(box)
  <2>1. box[2] \in {0, tier} \/ box[2] \in 1 .. tier - 1
    BY <1>1, <1>4, TierCount
  <2>. QED
    BY <1>1, <1>2, <1>3, <2>1 DEF LeftFilled
<1>. QED
  BY <1>4

LEMMA AdvanceTierKeeps ==
  ASSUME HandInv, screen = "Game", ~Ignored, IsSequential(scenario), ~IsLastTier, AdvanceTier,
         caret' = NoStop, calm' = 0, UNCHANGED <<options, scenario, boxes, text, pick, inert, lesson>>
  PROVE  HandInv'
<1>. DEFINE list == GameFocusList(scenario, boxes, tier + 1, options)
            known == RegistryOf(scenario, boxes, tier + 1)
<1>1. /\ tier' = tier + 1 /\ focus' = Snapped(Registered(list), list[1]) /\ registry' = known
      /\ synced' = NoStop /\ UNCHANGED <<screen, grab, raced, result, tab>>
  BY DEF AdvanceTier
<1>2. Table /\ Fit(scenario) /\ boxes = BuildBoxes(scenario) /\ tier \in BetTiers
  BY DEF HandInv, Table
<1>3. tier' \in BetTiers
  BY <1>1, <1>2, TierCount DEF IsLastTier
<1>4. RingOn(Registered(list), known)
  BY <1>1, <1>2, <1>3, GameRing
<1>5. NoStop \notin known.fields
  BY <1>1, <1>2, <1>3, RegistryIs
<1>6. Registered(list).list = list /\ list[1] \in Range(list)
  <2>1. Registered(list).list = list /\ Registered(list).pointer = 1
    BY DEF Registered
  <2>2. 1 \in DOMAIN list
    BY <1>4, <2>1 DEF RingOn
  <2>. QED
    BY <2>1, <2>2 DEF Range
<1>. HIDE DEF list, known
<1>7. RingOn(focus', known) /\ focus'.armed
  BY <1>1, <1>4, <1>6, SnappedRing
<1>8. Walk' = Walk /\ Stage' = Stage /\ Taught' = Taught
  BY StageStays
<1>9. Table'
  BY <1>1, <1>2, <1>3, <1>8, StopsAre DEF Table
<1>10. OnSheet'
  BY <1>1, <1>7 DEF OnSheet, known
<1>11. LeftFilled'
  <2>1. SUFFICES ASSUME lesson # 0, NEW box \in Range(boxes), box[2] \in 1 .. tier' - 1 PROVE BoxFilled(box)'
    BY DEF LeftFilled
  <2>2. box[2] \in 0 .. tier
    BY <1>1, <1>2, <2>1, TierCount
  <2>3. BoxFilled(box)
    BY <2>1, <2>2, TierLeft
  <2>. QED
    BY <2>3 DEF BoxFilled
<1>12. Reconciled'
  BY <1>1, <1>5, <1>7 DEF Reconciled
<1>. QED
  BY <1>1, <1>9, <1>10, <1>11, <1>12 DEF HandInv

LEMMA SubmitKeeps ==
  ASSUME HandInv, screen = "Game", ~Ignored, IsSequential(scenario) => IsLastTier, Submit,
         caret' = NoStop, calm' = 0, UNCHANGED <<options, scenario, boxes, text, pick, inert, lesson>>
  PROVE  HandInv'
<1>1. /\ result' = Evaluate(scenario, GatherAnswers) /\ screen' = "PostRound" /\ tab' \in {1, SummaryTab}
      /\ synced' = NoStop /\ grab' = NoStop /\ UNCHANGED <<tier, registry>>
  BY DEF Submit
<1>2. Table /\ Fit(scenario) /\ boxes = BuildBoxes(scenario) /\ tier \in BetTiers
  BY DEF HandInv, Table
<1>3. Walk' = Walk
  BY StageStays
<1>4. tab' \in 1 .. SummaryTab
  BY <1>1, TierCount DEF SummaryTab
<1>5. Table'
  BY <1>1, <1>2, <1>3, <1>4, StopsAre DEF Table, SummaryTab
<1>6. GatherAnswers' = GatherAnswers
  BY DEF GatherAnswers
<1>7. ASSUME lesson # 0, NEW n \in DOMAIN boxes PROVE BoxFilled(boxes[n])
  <2>1. CASE IsSequential(scenario)
    <3>1. tier = kBetTierCount
      BY <1>2, <2>1, TierCount DEF IsLastTier
    <3>2. boxes[n] \in Range(boxes)
      BY DEF Range
    <3>3. boxes[n][2] \in 0 .. tier
      BY <1>2, <3>1, <3>2, BoxIs
    <3>. QED
      BY <1>7, <2>1, <3>2, <3>3, TierLeft
  <2>2. CASE ~IsSequential(scenario)
    BY <1>7, <2>2 DEF Ignored, InLesson, AllVisibleInputsFilled
  <2>. QED
    BY <2>1, <2>2
<1>8. Submitted'
  BY <1>1, <1>6, <1>7 DEF Submitted, BoxFilled
<1>. QED
  BY <1>1, <1>5, <1>8 DEF HandInv

LEMMA EnterKeyKeeps ==
  ASSUME HandInv, EnterKey
  PROVE  HandInv'
<1>1. /\ screen = "Game" /\ caret' = NoStop /\ calm' = 0
      /\ UNCHANGED <<options, scenario, boxes, text, pick, inert, lesson>>
  BY DEF EnterKey, Working
<1>2. CASE Ignored /\ UNCHANGED <<screen, tier, focus, registry, synced, grab, raced, result, tab>>
  <2>1. Table /\ OnSheet /\ LeftFilled /\ Reconciled
    BY <1>1 DEF HandInv
  <2>2. Stage' = Stage /\ Taught' = Taught /\ Walk' = Walk
    BY <1>1, StageStays
  <2>3. Table'
    BY <1>1, <1>2, <2>1, <2>2, StopsAre DEF Table
  <2>4. OnSheet' /\ LeftFilled'
    BY <1>1, <1>2, <2>1 DEF OnSheet, LeftFilled, BoxFilled
  <2>5. Reconciled'
    BY <1>1, <1>2, <2>1, <2>2 DEF Reconciled
  <2>. QED
    BY <1>1, <1>2, <2>3, <2>4, <2>5 DEF HandInv
<1>3. CASE ~Ignored /\ IsSequential(scenario) /\ ~IsLastTier /\ AdvanceTier
  BY <1>1, <1>3, AdvanceTierKeeps
<1>4. CASE ~Ignored /\ (IsSequential(scenario) => IsLastTier) /\ Submit
  BY <1>1, <1>4, SubmitKeeps
<1>. QED
  BY <1>2, <1>3, <1>4 DEF EnterKey

LEMMA StutterKeeps ==
  ASSUME HandInv, UNCHANGED vars
  PROVE  HandInv'
<1>1. UNCHANGED <<options, screen, scenario, boxes, text, pick, tier, focus, registry, synced, caret, grab, inert,
                  raced, lesson, result, tab, calm>>
  BY DEF vars, sheet, keyboard
<1>2. Table'
  BY <1>1, StageStays DEF HandInv, Table
<1>3. screen' = "Game" => OnSheet' /\ LeftFilled'
  BY <1>1 DEF HandInv, OnSheet, LeftFilled, BoxFilled
<1>4. screen' = "Game" => Reconciled'
  BY <1>1, ReconcilerStays DEF HandInv
<1>5. screen' = "PostRound" => Submitted'
  BY <1>1, AnswersStay DEF HandInv
<1>. QED
  BY <1>1, <1>2, <1>3, <1>4, <1>5 DEF HandInv

LEMMA HandStep == HandInv /\ [Next]_vars => HandInv'
<1>. SUFFICES ASSUME HandInv, [Next]_vars PROVE HandInv'
  OBVIOUS
<1>1. CASE Launch
  BY <1>1, LaunchKeeps
<1>2. CASE LaunchLesson
  BY <1>2, LaunchLessonKeeps
<1>3. CASE EnterWalk
  BY <1>3, EnterWalkKeeps
<1>4. CASE ChangeOptions
  BY <1>4, ChangeOptionsKeeps
<1>5. CASE Frame
  BY <1>5, FrameKeeps
<1>6. CASE ClickBox
  BY <1>6, ClickBoxKeeps
<1>7. CASE ClickBet
  BY <1>7, ClickBetKeeps
<1>8. CASE TypeText
  BY <1>8, TypeTextKeeps
<1>9. CASE NumberKey
  BY <1>9, NumberKeyKeeps
<1>10. CASE ArrowKey
  BY <1>10, ArrowKeyKeeps
<1>11. CASE TabKey
  BY <1>11, TabKeyKeeps
<1>12. CASE EnterKey
  BY <1>12, EnterKeyKeeps
<1>13. CASE ChangeTab
  BY <1>13, ChangeTabKeeps
<1>14. CASE RecapTabKey
  BY <1>14, RecapTabKeyKeeps
<1>15. CASE UNCHANGED vars
  BY <1>15, StutterKeeps
<1>. QED
  BY <1>1, <1>2, <1>3, <1>4, <1>5, <1>6, <1>7, <1>8, <1>9, <1>10, <1>11, <1>12, <1>13, <1>14, <1>15 DEF Next

\* The hand's invariant, of which the four properties below are consequences: the table
\* holds a hand that may be dealt with the boxes it asks, the ring walks over the screen
\* of its tier and the caret stays on it, the tiers a lesson left are filled, and the
\* recap is that of the sheet still on the table (game_launch.cpp, input_boxes.cpp,
\* tier_flow.cpp, submission.cpp).
THEOREM HandInvariant == Spec => []HandInv
  BY HandInit, HandStep, PTL DEF Spec

LEMMA TypesHold == ASSUME HandInv PROVE HandTypeOK
<1>1. Table
  BY DEF HandInv
<1>2. Range(boxes) \subseteq Stops
  <2>1. CASE screen = "Lobby"
    BY <1>1, <2>1 DEF Table, Range
  <2>2. CASE screen # "Lobby"
    BY <1>1, <2>2, BoxSet DEF Table
  <2>. QED
    BY <2>1, <2>2
<1>3. DOMAIN text = Range(boxes) /\ Range(text) \subseteq Texts
  <2>. DEFINE R == Range(boxes)
  <2>1. text \in [R -> Texts]
    BY <1>1 DEF Table
  <2>. HIDE DEF R
  <2>2. DOMAIN text = R /\ Range(text) \subseteq Texts
    BY <2>1 DEF Range
  <2>. QED
    BY <2>2 DEF R
<1>. QED
  BY <1>1, <1>2, <1>3 DEF Table, HandTypeOK

\* The submission grades every box the hand asks and the bet size, each once and by its
\* own answer (submission.cpp, evaluator.cpp), whatever the seeds, the settings and the
\* number of bet sizes.
THEOREM SheetIsGradedAsShown == Spec => []GradedAsShown
<1>1. HandInv => GradedAsShown
  <2>. SUFFICES ASSUME HandInv PROVE GradedAsShown
    OBVIOUS
  <2>1. HandTypeOK
    BY TypesHold
  <2>. SUFFICES ASSUME screen = "PostRound"
                PROVE  /\ {result[n].id : n \in DOMAIN result} = Asked(scenario)
                       /\ Len(result) = Cardinality(Asked(scenario))
                       /\ \A n \in DOMAIN result :
                            result[n].id # BetGroup => (result[n].correct <=> text[result[n].id] = "Right")
    <3>1. screen # "Lobby" => boxes = BuildBoxes(scenario)
      BY DEF HandInv, Table
    <3>. QED
      BY <2>1, <3>1 DEF GradedAsShown, Asked
  <2>2. Fit(scenario) /\ boxes = BuildBoxes(scenario) /\ result = Evaluate(scenario, GatherAnswers)
    BY DEF HandInv, Table, Submitted
  <2>3. result \in Seq(Grades) /\ Lists(result, Asked(scenario))
    BY <2>2, ResultListed
  <2>4. {result[n].id : n \in DOMAIN result} = Asked(scenario)
    BY <2>3 DEF Lists
  <2>5. Len(result) = Cardinality(Asked(scenario))
    BY <2>3, ListsCount
  <2>6. DOMAIN text = Range(boxes) /\ Range(text) \subseteq Texts
    BY <2>1 DEF HandTypeOK
  <2>7. \A n \in DOMAIN result : result[n].id # BetGroup => (result[n].correct <=> text[result[n].id] = "Right")
    BY <2>2, <2>3, <2>6, GradesAgree
  <2>. QED
    BY <2>4, <2>5, <2>7
<1>. QED
  BY <1>1, HandInvariant, PTL

\* A tabbed recap shows on each tier's tab what that tier's screen asked, in its order,
\* every grade on some tab, and a summary that passes when every tab does
\* (stat_modal.cpp).
THEOREM RecapHidesNothing == Spec => []RecapShowsEveryGrade
<1>1. HandInv => RecapShowsEveryGrade
  <2>. SUFFICES ASSUME HandInv, screen = "PostRound"
                PROVE  RecapShowsEveryGrade
    BY DEF RecapShowsEveryGrade
  <2>1. Fit(scenario) /\ boxes = BuildBoxes(scenario) /\ result = Evaluate(scenario, GatherAnswers)
    BY DEF HandInv, Table, Submitted
  <2>2. result \in Seq(Grades) /\ Lists(result, Asked(scenario))
    BY <2>1, ResultListed
  <2>3. CASE HasTierTabs(scenario)
    <3>1. IsSequential(scenario)
      BY <2>3 DEF HasTierTabs
    <3>2. \A t \in BetTiers : Ids(BuildTierRows(result, t)) = FocusSegment(scenario, boxes, t)
      BY <2>1, <2>2, <3>1, TierRowsAre
    <3>3. UNION {Range(BuildTierRows(result, t)) : t \in BetTiers} = Range(result)
      BY <2>1, <2>2, <3>1, TabsShowAll
    <3>4. BuildSummary(result).totalCorrect = BuildSummary(result).total
            <=> \A t \in BetTiers : IsPass(BuildTierRows(result, t))
      BY <2>1, <2>2, <3>1, TabsShowAll
    <3>. QED
      BY <2>3, <3>2, <3>3, <3>4, Zenon DEF RecapShowsEveryGrade, Ids
  <2>4. CASE ~HasTierTabs(scenario)
    BY <2>4 DEF RecapShowsEveryGrade, BuildFlatRows
  <2>. QED
    BY <2>3, <2>4
<1>. QED
  BY <1>1, HandInvariant, PTL

\* Two frames after the last key or click the typed characters go to the ringed box or to
\* none (focus_reconcile.cpp, input_boxes.cpp).
THEOREM CaretFollows == Spec => []CaretFollowsTheRing
<1>1. HandInv => CaretFollowsTheRing
  <2>. SUFFICES ASSUME HandInv, Working, calm = 2, ~raced, ~At({"Stage2"})
                PROVE  caret \in {NoStop, Focused}
    BY DEF CaretFollowsTheRing
  <2>1. screen = "Game"
    BY DEF Working
  <2>2. Focused = Ringed(focus) /\ Reconciled
    BY <2>1, SheetRendered
  <2>. QED
    BY <2>2, StageIs DEF Reconciled
<1>. QED
  BY <1>1, HandInvariant, PTL

\* A lesson is never submitted with a blank, although its gate looks at one tier's screen
\* at a time (keybinds.cpp, tier_flow.cpp).
THEOREM LessonsAreFilled == Spec => []LessonSheetIsComplete
<1>1. HandInv => LessonSheetIsComplete
  BY DEF HandInv, Submitted, LessonSheetIsComplete, InLesson
<1>. QED
  BY <1>1, HandInvariant, PTL

(* --------------------------------- the deal ------------------------------ *)

\* The streets a type is dealt on.
LEMMA StreetsAre ==
  /\ AllowedStreets("Caller") = <<"Flop", "Turn">> /\ AllowedStreets("SemiBluff") = <<"Flop", "Turn">>
  /\ AllowedStreets("PureBluff") = Streets /\ AllowedStreets("ValueBet") = Streets
  /\ Range(Streets) = {"Preflop", "Flop", "Turn", "River"}
<1>1. Range(Streets) = {Streets[n] : n \in 1 .. 4}
  BY DEF Range, Streets
<1>2. Range(Streets) = {"Preflop", "Flop", "Turn", "River"}
  BY <1>1 DEF Streets
<1>. QED
  BY <1>2 DEF AllowedStreets, NeedsDraw

\* The street drawn is one the type allows, and one with a weight unless all of its
\* streets are at zero (draw_street).
LEMMA StreetIsDrawn ==
  ASSUME NEW type \in ScenarioTypes, NEW u \in 0 .. 99, NEW weight \in [Range(Streets) -> Nat]
  PROVE  LET allowed == AllowedStreets(type)
             street == DrawStreet(type, u, weight)
         IN /\ street \in Range(allowed) /\ street \in Range(Streets)
            /\ weight[street] > 0 \/ \A n \in DOMAIN allowed : weight[allowed[n]] = 0
<1>. DEFINE allowed == AllowedStreets(type)
            K == Len(allowed)
            weights == [n \in 1 .. K |-> weight[allowed[n]]]
            upTo == PrefixSums(weights)
            total == upTo[K]
            Reached(n) == u * total < 100 * upTo[n]
            First(n) == Reached(n) /\ \A m \in 1 .. n - 1 : ~Reached(m)
            street == DrawStreet(type, u, weight)
<1>1. /\ K \in {2, 4} /\ DOMAIN allowed = 1 .. K
      /\ \A n \in 1 .. K : allowed[n] \in Range(Streets) /\ allowed[n] \in Range(allowed)
  <2>1. CASE type \in {"Caller", "SemiBluff"}
    <3>1. allowed = <<"Flop", "Turn">>
      BY <2>1, StreetsAre
    <3>2. K = 2 /\ DOMAIN allowed = 1 .. 2 /\ \A n \in 1 .. 2 : allowed[n] \in {"Flop", "Turn"}
      BY <3>1
    <3>. QED
      BY <3>2, StreetsAre DEF Range
  <2>2. CASE type \in {"PureBluff", "ValueBet"}
    <3>1. allowed = Streets
      BY <2>2, StreetsAre
    <3>2. K = 4 /\ DOMAIN allowed = 1 .. 4
      BY <3>1 DEF Streets
    <3>. QED
      BY <3>1, <3>2 DEF Range
  <2>. QED
    BY <2>1, <2>2 DEF ScenarioTypes
<1>. HIDE DEF allowed
<1>2. K \in Nat /\ weights \in [1 .. K -> Nat] /\ weights \in [1 .. K -> Int]
      /\ \A n \in 1 .. K : weights[n] = weight[allowed[n]]
  BY <1>1
<1>. HIDE DEF K, weights
<1>3. upTo[0] = 0 /\ \A n \in 1 .. K : upTo[n] \in Int /\ upTo[n - 1] \in Int /\ upTo[n] = upTo[n - 1] + weights[n]
  BY <1>2, PrefixSumsAre
<1>. HIDE DEF upTo
<1>4. street = IF total = 0 THEN allowed[(u * K) \div 100 + 1] ELSE allowed[CHOOSE n \in 1 .. K : First(n)]
  BY Zenon DEF DrawStreet, allowed, K, weights, upTo
<1>. HIDE DEF street
<1>5. CASE total = 0
  <2>1. (u * K) \div 100 + 1 \in 1 .. K
    BY <1>1
  <2>2. \A n \in 1 .. K : weights[n] = 0
    <3>1. CASE K = 2
      BY <3>1, <1>2, <1>3, <1>5
    <3>2. CASE K = 4
      <4>1. \A n \in 1 .. 4 : weights[n] \in Nat /\ upTo[n] = upTo[n - 1] + weights[n] /\ upTo[n] \in Int
        BY <3>2, <1>2, <1>3
      <4>2. upTo[1] = weights[1] /\ upTo[2] = upTo[1] + weights[2]
              /\ upTo[3] = upTo[2] + weights[3] /\ upTo[4] = upTo[3] + weights[4]
        BY <4>1, <1>3
      <4>3. \A n \in {1, 2, 3, 4} : weights[n] \in Nat /\ upTo[n] \in Int
        BY <4>1
      <4>4. weights[1] \in Nat /\ weights[2] \in Nat /\ weights[3] \in Nat /\ weights[4] \in Nat
        BY <4>3
      <4>5. upTo[1] \in Int /\ upTo[2] \in Int /\ upTo[3] \in Int /\ upTo[4] = 0
        BY <4>3, <3>2, <1>5
      <4>6. weights[1] = 0 /\ weights[2] = 0 /\ weights[3] = 0 /\ weights[4] = 0
        BY <4>2, <4>4, <4>5
      <4>7. \A n \in 1 .. K : n \in {1, 2, 3, 4}
        BY <3>2
      <4>. QED
        BY <4>6, <4>7
    <3>. QED
      BY <1>1, <3>1, <3>2
  <2>. QED
    BY <1>1, <1>2, <1>4, <1>5, <2>1, <2>2 DEF allowed, street
<1>6. CASE total # 0
  <2>1. total \in Nat
    <3>1. CASE K = 2
      BY <3>1, <1>2, <1>3
    <3>2. CASE K = 4
      BY <3>2, <1>2, <1>3
    <3>. QED
      BY <1>1, <3>1, <3>2
  <2>2. u * total \in Nat /\ u * total < 100 * total
    BY <1>6, <2>1
  <2>. DEFINE target == u * total
  <2>3. \E n \in 1 .. K : First(n)
    <3>. DEFINE reached == {m \in 1 .. K : Reached(m)}
    <3>1. reached \in SUBSET Nat
      OBVIOUS
    <3>2. K \in reached
      BY <2>2, <1>1
    <3>. HIDE DEF reached
    <3>3. PICK n \in reached : \A m \in reached : n <= m
      BY <3>1, <3>2, LeastIs
    <3>. USE DEF reached
    <3>. HIDE DEF Reached
    <3>4. n \in 1 .. K /\ Reached(n)
      BY <3>3
    <3>5. ASSUME NEW m \in 1 .. n - 1 PROVE ~Reached(m)
      BY <3>3, <3>4, <1>2
    <3>. QED
      BY <3>4, <3>5
  <2>. DEFINE n == CHOOSE m \in 1 .. K : First(m)
  <2>4. n \in 1 .. K /\ First(n)
    <3>. HIDE DEF First
    <3>. QED
      BY <2>3
  <2>. HIDE DEF n, target
  <2>5. target < 100 * upTo[n] /\ target \in Nat /\ \A m \in 1 .. n - 1 : ~(target < 100 * upTo[m])
    BY <2>2, <2>4 DEF target
  <2>6. weights[n] > 0
    <3>1. CASE n = 1
      BY <3>1, <2>4, <2>5, <1>2, <1>3
    <3>2. CASE n # 1
      <4>1. n \in 1 .. K /\ n - 1 \in 1 .. n - 1
        BY <3>2, <2>4, <1>2
      <4>2. ~(target < 100 * upTo[n - 1])
        BY <4>1, <2>5
      <4>3. upTo[n] \in Int /\ upTo[n - 1] \in Int /\ upTo[n] = upTo[n - 1] + weights[n] /\ weights[n] \in Nat
        BY <4>1, <1>2, <1>3
      <4>. QED
        BY <2>5, <4>2, <4>3
    <3>. QED
      BY <3>1, <3>2
  <2>7. street = allowed[n]
    BY <1>4, <1>6 DEF n
  <2>. QED
    BY <1>1, <1>2, <2>4, <2>6, <2>7 DEF allowed, street
<1>. QED
  BY <1>5, <1>6

\* A drawing hand is a clean draw whenever one of the shuffles was (draw_cards).
LEMMA DrawIsClean ==
  ASSUME NEW type, NeedsDraw(type), NEW street, NEW shuffles \in Seq(Seq(FullDeck)),
         NEW k \in DOMAIN shuffles,
         ~IsMade(Dealt(shuffles[k], street)), CountDrawOuts(Dealt(shuffles[k], street)) > 0
  PROVE  LET cards == Dealt(DrawCards(type, street, shuffles), street)
         IN CountDrawOuts(cards) > 0 /\ ~IsMade(cards)
<1>. DEFINE Clean(n) == ~IsMade(Dealt(shuffles[n], street)) /\ CountDrawOuts(Dealt(shuffles[n], street)) > 0
            clean == {n \in DOMAIN shuffles : Clean(n)}
            first == CHOOSE n \in clean : \A m \in clean : n <= m
<1>1. k \in clean
  OBVIOUS
<1>2. clean \in SUBSET Nat
  <2>1. DOMAIN shuffles = 1 .. Len(shuffles) /\ Len(shuffles) \in Nat
    BY LenProperties
  <2>. QED
    BY <2>1
<1>3. DrawCards(type, street, shuffles) = shuffles[first]
  <2>1. clean # {}
    BY <1>1
  <2>. QED
    BY <2>1, Zenon DEF DrawCards
<1>4. first \in clean
  <2>. HIDE DEF clean
  <2>1. \E n \in clean : \A m \in clean : n <= m
    BY <1>1, <1>2, LeastIs
  <2>. QED
    BY <2>1
<1>5. Clean(first)
  <2>. HIDE DEF first, Clean
  <2>. QED
    BY <1>4
<1>. QED
  BY <1>3, <1>5

\* Clamping a number gives a number.
LEMMA ClampedIs ==
  ASSUME NEW x \in Int, NEW low \in Int, NEW high \in Int
  PROVE  Clamped(x, low, high) \in Int
BY DEF Clamped, AtLeast, AtMost

\* A bigger number is clamped to one no less.
LEMMA ClampedRises ==
  ASSUME NEW x \in Int, NEW y \in Int, x <= y, NEW low \in Int, NEW high \in Int
  PROVE  Clamped(x, low, high) <= Clamped(y, low, high)
BY DEF Clamped, AtLeast, AtMost

\* The texture of a board and the fold chance it sets are numbers (fold_texture_wetness,
\* sample_situational_f).
LEMMA WetnessIs == ASSUME NEW board PROVE FoldTextureWetness(board) \in Int
<1>. DEFINE ranks == {r \in 2..14 : \E c \in board : c.rank = r}
            joined == {r \in ranks : \E q \in ranks : q > r}
            Above(r) == CHOOSE q \in ranks : q > r /\ \A p \in ranks : p > r => q <= p
            scores == [r \in 1..14 |-> IF r \in joined THEN GapConnectScore(Above(r) - r) ELSE 0]
            straight == IF joined = {} THEN 0 ELSE PrefixSums(scores)[14] \div Cardinality(joined)
            flush == IF \E s \in 1..4 : SuitCount(board, s) >= 3 THEN 1000
                     ELSE IF \E s \in 1..4 : SuitCount(board, s) = 2 THEN 500 ELSE 0
            paired == IF Cardinality(ranks) < Cardinality(board) THEN 150 ELSE 0
            wet == (550 * flush + 550 * straight) \div 1000 - paired
<1>1. \A gap : GapConnectScore(gap) \in Int
  BY DEF GapConnectScore
<1>2. scores \in [1..14 -> Int]
  <2>. HIDE DEF joined, ranks
  <2>. QED
    BY <1>1
<1>3. PrefixSums(scores)[14] \in Int
  <2>. HIDE DEF scores
  <2>1. 14 \in Nat /\ 14 \in 1 .. 14
    OBVIOUS
  <2>. QED
    BY <1>2, <2>1, PrefixSumsAre
<1>4. joined # {} => Cardinality(joined) \in Nat /\ Cardinality(joined) > 0
  <2>1. IsFiniteSet(2..14)
    <3>1. 2 \in Int /\ 14 \in Int
      OBVIOUS
    <3>. QED
      BY <3>1, FS_Interval, Zenon
  <2>2. joined \subseteq 2..14
    OBVIOUS
  <2>. HIDE DEF joined
  <2>3. IsFiniteSet(joined)
    BY <2>1, <2>2, FS_Subset
  <2>. QED
    BY <2>3, FS_CardinalityType, FS_EmptySet
<1>5. straight \in Int
  <2>. HIDE DEF scores, joined
  <2>. QED
    BY <1>3, <1>4
<1>6. flush \in Int /\ paired \in Int
  OBVIOUS
<1>7. FoldTextureWetness(board) = IF Cardinality(board) < 3 THEN 500 ELSE Clamped(wet, 0, 1000)
  BY Zenon DEF FoldTextureWetness
<1>. HIDE DEF straight, flush, paired
<1>8. wet \in Int
  BY <1>5, <1>6
<1>. HIDE DEF wet
<1>. QED
  BY <1>7, <1>8, ClampedIs

\* The fold chance before the bet size is a number (fold_function.cpp).
LEMMA SituationIs ==
  ASSUME NEW street \in Range(Streets), NEW board, NEW jitter \in Int
  PROVE  SituationalF(street, board, jitter) \in Int
<1>1. StreetFoldAdj(street) \in Int
  BY StreetsAre DEF StreetFoldAdj
<1>2. FoldBoardDanger(board) \in Int
  BY DEF FoldBoardDanger
<1>. DEFINE x == 450 + StreetFoldAdj(street) + (260 * (500 - FoldTextureWetness(board))) \div 1000
                   + (60 * FoldBoardDanger(board)) \div 1000
<1>3. x \in Int
  BY <1>1, <1>2, WetnessIs
<1>4. FoldCenter(street, board) = Clamped(x, kFoldProbabilityMin, kFoldProbabilityMax)
  BY Zenon DEF FoldCenter
<1>. HIDE DEF x
<1>5. FoldCenter(street, board) \in Int
  BY <1>3, <1>4, ClampedIs DEF kFoldProbabilityMin, kFoldProbabilityMax
<1>6. FoldCenter(street, board) + jitter \in Int
  BY <1>5
<1>. QED
  BY <1>6, ClampedIs DEF SituationalF, kFoldProbabilityMin, kFoldProbabilityMax

\* The opponent folds no less often to a bigger bet (fold_probability).
LEMMA FoldRises ==
  ASSUME NEW f \in Int, NEW a \in Nat, NEW b \in Nat, a <= b
  PROVE  FoldProbability(f, a) <= FoldProbability(f, b)
<1>1. f + (250 * (a - 3)) \div 6 \in Int /\ f + (250 * (b - 3)) \div 6 \in Int
  OBVIOUS
<1>2. f + (250 * (a - 3)) \div 6 <= f + (250 * (b - 3)) \div 6
  OBVIOUS
<1>. QED
  BY <1>1, <1>2, ClampedRises DEF FoldProbability, kFoldProbabilityMin, kFoldProbabilityMax

\* Every hand that a seed generates is sound under the settings it is generated with.
LEMMA GeneratedIsSound ==
  ASSUME NEW seed \in Seeds, NEW g, g.weight \in [Range(Streets) -> Nat]
  PROVE  SoundDeal(GenerateScenario(seed, g), g)
<1>. DEFINE s == GenerateScenario(seed, g)
            street == DrawStreet(seed.type, seed.u, g.weight)
            deck == DrawCards(seed.type, street, seed.shuffles)
            cards == Dealt(deck, street)
            f == IF IsAggressor(seed.type) THEN SituationalF(street, BoardOf(deck, street), seed.jitter) ELSE 0
            Clean(c) == ~IsMade(c) /\ CountDrawOuts(c) > 0
            shuffled == {Dealt(seed.shuffles[n], street) : n \in DOMAIN seed.shuffles}
<1>1. seed.type \in ScenarioTypes /\ seed.u \in 0 .. 99 /\ seed.shuffles \in Seq(Seq(FullDeck)) /\ seed.jitter \in Int
  BY HandAssumption, SeedAssumption
<1>2. s.id = seed.id /\ s.type = seed.type /\ s.street = street /\ s.hand = cards /\ s.outs = CountDrawOuts(cards)
  BY DEF GenerateScenario
<1>3. \A t \in BetTiers : s.tiers[t].fold = FoldProbability(f, BetFractions[t])
  BY DEF GenerateScenario, BuildTiers
<1>4. (CHOOSE x \in Seeds : x.id = s.id) = seed
  BY <1>2, HandAssumption
<1>. HIDE DEF s
<1>5. /\ street \in Range(AllowedStreets(seed.type)) /\ street \in Range(Streets)
      /\ g.weight[street] > 0 \/ \A n \in DOMAIN AllowedStreets(seed.type) : g.weight[AllowedStreets(seed.type)[n]] = 0
  BY <1>1, StreetIsDrawn
<1>. HIDE DEF street
<1>6. NeedsDraw(seed.type) /\ (\E c \in shuffled : Clean(c)) => CountDrawOuts(cards) > 0 /\ ~IsMade(cards)
  <2>. SUFFICES ASSUME NeedsDraw(seed.type), NEW k \in DOMAIN seed.shuffles, Clean(Dealt(seed.shuffles[k], street))
                PROVE  CountDrawOuts(cards) > 0 /\ ~IsMade(cards)
    OBVIOUS
  <2>. QED
    BY <1>1, DrawIsClean
<1>. HIDE DEF deck
<1>7. f \in Int
  BY <1>1, <1>5, SituationIs
<1>. HIDE DEF f, cards
<1>8. \A t, u \in BetTiers : BetFractions[t] <= BetFractions[u] => s.tiers[t].fold <= s.tiers[u].fold
  <2>1. \A t \in BetTiers : BetFractions[t] \in Nat
    BY ScenarioAssumption, TierCount, ElementOfSeq DEF BetTiers, kBetTierCount
  <2>. QED
    BY <1>3, <1>7, <2>1, FoldRises
<1>9. SoundDeal(s, g)
  BY <1>2, <1>4, <1>5, <1>6, <1>8, Zenon DEF SoundDeal
<1>. QED
  BY <1>9, Zenon DEF s

\* Only a launch changes the hand on the table, and it deals with the weights now set.
LEMMA DealsAreSound ==
  ASSUME HandInv, [Next]_vars
  PROVE  scenario' # scenario => SoundDeal(scenario', options)
<1>. SUFFICES ASSUME scenario' # scenario PROVE SoundDeal(scenario', options)
  OBVIOUS
<1>1. options \in Options
  BY DEF HandInv, Table
<1>2. \A o \in Options : o.weight \in [Range(Streets) -> Nat] /\ LessonOptions(o).weight = o.weight
  BY HandAssumption DEF LessonOptions
<1>3. ASSUME NEW seed \in Seeds, NEW o \in DealtWith, o.weight = options.weight, Deal(seed, o)
      PROVE  SoundDeal(scenario', options)
  <2>1. scenario' = GenerateScenario(seed, o)
    BY <1>3, Zenon DEF Deal, ApplyScenario, Configured, Hands, DealtWith
  <2>2. SoundDeal(GenerateScenario(seed, o), o)
    BY <1>1, <1>2, <1>3, GeneratedIsSound
  <2>. QED
    BY <2>1, <2>2, <1>3, Zenon DEF SoundDeal
<1>4. CASE Launch
  <2>1. PICK seed \in Offered : Deal(seed, options)
    BY <1>4 DEF Launch
  <2>. QED
    BY <2>1, <1>1, <1>3, OfferedAre DEF DealtWith
<1>5. CASE LaunchLesson
  <2>1. PICK seed \in Lessons : Deal(seed, LessonOptions(options))
    BY <1>5 DEF LaunchLesson
  <2>. QED
    BY <2>1, <1>1, <1>2, <1>3, LessonsAre DEF DealtWith
<1>6. CASE UNCHANGED vars
  BY <1>6 DEF vars
<1>7. CASE EnterWalk \/ ChangeOptions \/ ClickBet \/ TypeText \/ NumberKey \/ ArrowKey \/ TabKey \/ ChangeTab \/ RecapTabKey
  BY <1>7 DEF EnterWalk, ChangeOptions, ClickBet, TypeText, NumberKey, ArrowKey, TabKey, ChangeTab, RecapTabKey
<1>8. CASE Frame \/ ClickBox
  <2>1. PICK click : RenderMathInputs(click)
    BY <1>8 DEF Frame, ClickBox
  <2>2. UNCHANGED scenario
    BY <2>1, Zenon DEF RenderMathInputs
  <2>. QED
    BY <2>2
<1>9. CASE EnterKey
  BY <1>9, Zenon DEF EnterKey
<1>. QED
  BY <1>4, <1>5, <1>6, <1>7, <1>8, <1>9 DEF Next

\* Every deal is of a street that the type and the weights allow, a clean draw whenever a
\* shuffle was one, and against an opponent who folds no less to a bigger bet
\* (generator.cpp, fold_function.cpp).
THEOREM DealsStaySound == Spec => DealIsSound
<1>1. HandInv /\ [Next]_vars => [scenario' # scenario => SoundDeal(scenario', options)]_vars
  BY DealsAreSound
<1>. QED
  BY <1>1, HandInvariant, PTL DEF Spec, DealIsSound
=============================================================================
