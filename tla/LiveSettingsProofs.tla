-------------------------- MODULE LiveSettingsProofs --------------------------
(***************************************************************************)
(* Proofs about SettingsBlob and LiveSettings, for any profiles, numbers   *)
(* typed and sets of sections: the street weights share out 100 however    *)
(* they are pulled, a blob reads back as what was written, and the live    *)
(* settings stay in range and in step with the profile and the screen.     *)
(***************************************************************************)
EXTENDS LiveSettings, FiniteSetTheorems, SequenceTheorems, WellFoundedInduction, TLAPS

(* -------------------------- the street weights --------------------------- *)

Weights == [1 .. 4 -> 0 .. 100]

\* A subset of three things is as large as the number of them in it.
LEMMA CountOfThree ==
  ASSUME NEW a, NEW b, NEW c, a # b, a # c, b # c, NEW S \in SUBSET {a, b, c}
  PROVE  Cardinality(S) = (IF a \in S THEN 1 ELSE 0) + (IF b \in S THEN 1 ELSE 0) + (IF c \in S THEN 1 ELSE 0)
<1>. DEFINE A == S \cap {a}
            B == IF b \in S THEN A \cup {b} ELSE A
            C == IF c \in S THEN B \cup {c} ELSE B
<1>1. IsFiniteSet(A) /\ Cardinality(A) = IF a \in S THEN 1 ELSE 0
  <2>1. A = IF a \in S THEN {a} ELSE {}
    OBVIOUS
  <2>2. Cardinality({}) = 0 /\ IsFiniteSet({}) /\ Cardinality({a}) = 1 /\ IsFiniteSet({a})
    BY FS_EmptySet, FS_Singleton
  <2>. QED
    BY <2>1, <2>2
<1>2. b \notin A /\ c \notin B /\ S = C
  OBVIOUS
<1>. HIDE DEF A
<1>3. IsFiniteSet(B) /\ Cardinality(B) = Cardinality(A) + IF b \in S THEN 1 ELSE 0
  BY <1>1, <1>2, FS_AddElement
<1>. HIDE DEF B
<1>4. Cardinality(C) = Cardinality(B) + IF c \in S THEN 1 ELSE 0
  BY <1>1, <1>2, <1>3, FS_AddElement
<1>. HIDE DEF C
<1>. QED
  BY <1>1, <1>2, <1>3, <1>4

\* The three streets that are not touched, in their order.
LEMMA RestIs ==
  ASSUME NEW t \in 1 .. 4
  PROVE  \E a, b, c \in 1 .. 4 :
           /\ a < b /\ b < c /\ t \notin {a, b, c} /\ (1 .. 4) \ {t} = {a, b, c}
           /\ \A f \in [1 .. 4 -> Int] : Total(f) = f[t] + f[a] + f[b] + f[c]
<1>1. t = 1 \/ t = 2 \/ t = 3 \/ t = 4
  OBVIOUS
<1>2. 1 .. 4 = {1, 2, 3, 4}
  OBVIOUS
<1>3. \A f \in [1 .. 4 -> Int] : f[1] \in Int /\ f[2] \in Int /\ f[3] \in Int /\ f[4] \in Int
  OBVIOUS
<1>4. CASE t = 1
  <2>1. 2 < 3 /\ 3 < 4 /\ t \notin {2, 3, 4} /\ (1 .. 4) \ {t} = {2, 3, 4}
    BY <1>2, <1>4
  <2>2. \A f \in [1 .. 4 -> Int] : Total(f) = f[t] + f[2] + f[3] + f[4]
    BY <1>3, <1>4 DEF Total
  <2>. QED
    BY <2>1, <2>2
<1>5. CASE t = 2
  <2>1. 1 < 3 /\ 3 < 4 /\ t \notin {1, 3, 4} /\ (1 .. 4) \ {t} = {1, 3, 4}
    BY <1>2, <1>5
  <2>2. \A f \in [1 .. 4 -> Int] : Total(f) = f[t] + f[1] + f[3] + f[4]
    BY <1>3, <1>5 DEF Total
  <2>. QED
    BY <2>1, <2>2
<1>6. CASE t = 3
  <2>1. 1 < 2 /\ 2 < 4 /\ t \notin {1, 2, 4} /\ (1 .. 4) \ {t} = {1, 2, 4}
    BY <1>2, <1>6
  <2>2. \A f \in [1 .. 4 -> Int] : Total(f) = f[t] + f[1] + f[2] + f[4]
    BY <1>3, <1>6 DEF Total
  <2>. QED
    BY <2>1, <2>2
<1>7. CASE t = 4
  <2>1. 1 < 2 /\ 2 < 3 /\ t \notin {1, 2, 3} /\ (1 .. 4) \ {t} = {1, 2, 3}
    BY <1>2, <1>7
  <2>2. \A f \in [1 .. 4 -> Int] : Total(f) = f[t] + f[1] + f[2] + f[3]
    BY <1>3, <1>7 DEF Total
  <2>. QED
    BY <2>1, <2>2
<1>. QED
  BY <1>1, <1>4, <1>5, <1>6, <1>7

LEMMA Division ==
  ASSUME NEW a \in Nat, NEW d \in Nat, d > 0
  PROVE  /\ a \div d \in Nat /\ a % d \in Nat /\ a % d < d
         /\ a = d * (a \div d) + (a % d)
  OBVIOUS

LEMMA Quotient ==
  ASSUME NEW d \in Nat, NEW k \in Int, 0 <= d * k, d * k < 3 * d
  PROVE  k \in 0 .. 2
<1>1. ASSUME k <= -1 PROVE FALSE
  <2>1. d * (k + 1) <= 0
    BY <1>1
  <2>2. d * k + d <= 0
    BY <2>1
  <2>. QED
    BY <2>2
<1>2. ASSUME k >= 3 PROVE FALSE
  <2>1. d * (k - 3) >= 0
    BY <1>2
  <2>2. d * k - 3 * d >= 0
    BY <2>1
  <2>. QED
    BY <2>2
<1>. QED
  BY <1>1, <1>2

\* What rounding down leaves over of a budget for three is less than three.
LEMMA Leftover ==
  ASSUME NEW budget \in 0 .. 100, NEW x \in 0 .. 100, NEW y \in 0 .. 100, NEW z \in 0 .. 100,
         NEW d, d = x + y + z, d > 0
  PROVE  budget - (((x * budget) \div d) + ((y * budget) \div d) + ((z * budget) \div d)) \in 0 .. 2
<1>. DEFINE p == (x * budget) \div d
            q == (y * budget) \div d
            r == (z * budget) \div d
            e == ((x * budget) % d)
            f == ((y * budget) % d)
            g == ((z * budget) % d)
            L == budget - (p + q + r)
<1>0. d \in Nat
  OBVIOUS
<1>1. x * budget \in Nat /\ y * budget \in Nat /\ z * budget \in Nat /\ d \in Nat
  OBVIOUS
<1>2. /\ p \in Nat /\ q \in Nat /\ r \in Nat /\ e \in Nat /\ f \in Nat /\ g \in Nat
      /\ e < d /\ f < d /\ g < d
      /\ x * budget = d * p + e /\ y * budget = d * q + f /\ z * budget = d * r + g
  BY <1>1, Division
<1>. HIDE DEF p, q, r, e, f, g
<1>3. d * budget = x * budget + y * budget + z * budget
  OBVIOUS
<1>4. d * L = d * budget - (d * p + d * q + d * r) /\ L \in Int
  BY <1>1, <1>2
<1>9. L \in Int
  BY <1>4
<1>5. d * p \in Int /\ d * q \in Int /\ d * r \in Int
  BY <1>1, <1>2
<1>6. d * L = e + f + g
  BY <1>1, <1>2, <1>3, <1>4, <1>5
<1>. HIDE DEF L
<1>7. 0 <= d * L /\ d * L < 3 * d
  <2>. HIDE DEF L
  <2>. QED
    BY <1>0, <1>2, <1>6
<1>8. L \in 0 .. 2
  <2>. HIDE DEF L
  <2>. QED
    BY <1>0, <1>7, <1>9, Quotient
<1>. QED
  BY <1>8 DEF L, p, q, r

\* Handing one unit each to the streets of lowest rank hands out what is left over.
LEMMA Handed ==
  ASSUME NEW L \in 0 .. 2, NEW ra \in Int, NEW rb \in Int, NEW rc \in Int,
         NEW na, na = (IF rb > ra THEN 1 ELSE 0) + (IF rc > ra THEN 1 ELSE 0),
         NEW nb, nb = (IF ra >= rb THEN 1 ELSE 0) + (IF rc > rb THEN 1 ELSE 0),
         NEW nc, nc = (IF ra >= rc THEN 1 ELSE 0) + (IF rb >= rc THEN 1 ELSE 0)
  PROVE  (IF na < L THEN 1 ELSE 0) + (IF nb < L THEN 1 ELSE 0) + (IF nc < L THEN 1 ELSE 0) = L
<1>1. L = 0 \/ L = 1 \/ L = 2
  OBVIOUS
<1>2. /\ na \in 0 .. 2 /\ nb \in 0 .. 2 /\ nc \in 0 .. 2
  OBVIOUS
<1>. QED
  BY <1>1, <1>2

\* However a street is pulled, the four weights share out 100 (redistribute_street_weights).
THEOREM WeightsShareOutAHundred ==
  ASSUME NEW w \in Weights, Total(w) = 100, NEW t \in 1 .. 4, NEW value \in Int
  PROVE  LET f == RedistributeStreetWeights(w, t, value)
         IN  f \in Weights /\ Total(f) = 100
<1>. DEFINE held == ClampInt(value, 0, 100)
            budget == 100 - held
            rest == (1 .. 4) \ {t}
            others == Total(w) - w[t]
            Share(i) == IF others = 0 THEN budget \div 3 ELSE (w[i] * budget) \div others
            Remainder(i) == IF others = 0 THEN 0 ELSE (w[i] * budget) % others
            Floor == [i \in 1 .. 4 |-> IF i = t THEN held ELSE Share(i)]
            Before(i) == {j \in rest : \/ Remainder(j) > Remainder(i)
                                       \/ Remainder(j) = Remainder(i) /\ j < i}
            f == [i \in 1 .. 4 |->
                    IF i # t /\ Cardinality(Before(i)) < 100 - Total(Floor)
                    THEN Floor[i] + 1 ELSE Floor[i]]
<1>0. RedistributeStreetWeights(w, t, value) = f
  BY DEF RedistributeStreetWeights
<1>1. PICK a \in 1 .. 4, b \in 1 .. 4, c \in 1 .. 4 :
        /\ a < b /\ b < c /\ t \notin {a, b, c} /\ rest = {a, b, c}
        /\ \A g \in [1 .. 4 -> Int] : Total(g) = g[t] + g[a] + g[b] + g[c]
  BY RestIs
<1>. HIDE DEF rest
<1>2. \A i \in 1 .. 4 : w[i] \in 0 .. 100
  BY DEF Weights
<1>3. others = w[a] + w[b] + w[c] /\ others \in Nat
  <2>1. w \in [1 .. 4 -> Int]
    BY DEF Weights
  <2>. DEFINE T == Total(w)
              wt == w[t]
              wa == w[a]
              wb == w[b]
              wc == w[c]
  <2>2. T = wt + wa + wb + wc
    BY <1>1, <2>1
  <2>3. wt \in 0 .. 100 /\ wa \in 0 .. 100 /\ wb \in 0 .. 100 /\ wc \in 0 .. 100
    BY <1>2
  <2>. HIDE DEF T, wt, wa, wb, wc
  <2>4. T - wt = wa + wb + wc /\ T - wt \in Nat
    BY <2>2, <2>3
  <2>. QED
    BY <2>4 DEF others, T, wt, wa, wb, wc
<1>. HIDE DEF others
<1>4. held \in 0 .. 100 /\ budget \in 0 .. 100
  BY DEF ClampInt
<1>. HIDE DEF held
<1>5. \A i \in 1 .. 4 : Share(i) \in Nat /\ Remainder(i) \in Nat
  <2>1. CASE others = 0
    BY <1>4, <2>1
  <2>2. CASE others # 0
    <3>1. ASSUME NEW i \in 1 .. 4
          PROVE  (w[i] * budget) \div others \in Nat /\ (w[i] * budget) % others \in Nat
      <4>. HIDE DEF budget
      <4>1. w[i] * budget \in Nat
        BY <1>2, <1>4
      <4>2. others > 0
        BY <1>3, <2>2
      <4>. QED
        BY <1>3, <4>1, <4>2, Division
    <3>. QED
      BY <2>2, <3>1
  <2>. QED
    BY <2>1, <2>2
<1>6. budget - (Share(a) + Share(b) + Share(c)) \in 0 .. 2
  <2>1. CASE others = 0
    BY <1>4, <2>1
  <2>2. CASE others # 0
    <3>1. others > 0
      BY <1>3, <2>2
    <3>2. w[a] \in 0 .. 100 /\ w[b] \in 0 .. 100 /\ w[c] \in 0 .. 100
      BY <1>2
    <3>. DEFINE x == w[a]
                y == w[b]
                z == w[c]
    <3>3. others = x + y + z /\ x \in 0 .. 100 /\ y \in 0 .. 100 /\ z \in 0 .. 100 /\ budget \in 0 .. 100
      BY <1>3, <1>4, <3>2
    <3>. HIDE DEF budget, x, y, z
    <3>4. budget - (((x * budget) \div others) + ((y * budget) \div others)
                     + ((z * budget) \div others)) \in 0 .. 2
      <4>1. others = x + y + z
        BY <3>3
      <4>2. x \in 0 .. 100 /\ y \in 0 .. 100 /\ z \in 0 .. 100
        BY <3>3
      <4>3. budget \in 0 .. 100
        BY <3>3
      <4>. QED
        BY <3>1, <4>1, <4>2, <4>3, Leftover, Zenon
    <3>. QED
      BY <2>2, <3>4 DEF x, y, z
  <2>. QED
    BY <2>1, <2>2
<1>. HIDE DEF Share, Remainder
<1>7. /\ Floor \in [1 .. 4 -> Int] /\ Floor[t] = held
      /\ Floor[a] = Share(a) /\ Floor[b] = Share(b) /\ Floor[c] = Share(c)
      /\ \A i \in 1 .. 4 : Floor[i] \in Nat
  BY <1>1, <1>4, <1>5
<1>8. 100 - Total(Floor) = budget - (Share(a) + Share(b) + Share(c))
  <2>1. Total(Floor) = held + Share(a) + Share(b) + Share(c)
    BY <1>1, <1>7, Zenon
  <2>. QED
    BY <1>4, <1>5, <2>1
<1>. DEFINE L == 100 - Total(Floor)
<1>9. L \in 0 .. 2
  BY <1>6, <1>8
<1>. HIDE DEF L
<1>10. ASSUME NEW i \in {a, b, c}
       PROVE  Cardinality(Before(i)) = (IF a \in Before(i) THEN 1 ELSE 0)
                + (IF b \in Before(i) THEN 1 ELSE 0) + (IF c \in Before(i) THEN 1 ELSE 0)
  <2>1. Before(i) \in SUBSET {a, b, c} /\ a # b /\ a # c /\ b # c
    BY <1>1
  <2>. HIDE DEF Before
  <2>. QED
    BY <2>1, CountOfThree
<1>. DEFINE ra == Remainder(a)
            rb == Remainder(b)
            rc == Remainder(c)
            na == Cardinality(Before(a))
            nb == Cardinality(Before(b))
            nc == Cardinality(Before(c))
<1>11. /\ na = (IF rb > ra THEN 1 ELSE 0) + (IF rc > ra THEN 1 ELSE 0)
       /\ nb = (IF ra >= rb THEN 1 ELSE 0) + (IF rc > rb THEN 1 ELSE 0)
       /\ nc = (IF ra >= rc THEN 1 ELSE 0) + (IF rb >= rc THEN 1 ELSE 0)
  <2>0. ra \in Nat /\ rb \in Nat /\ rc \in Nat
    BY <1>5
  <2>1. a \notin Before(a) /\ (b \in Before(a) <=> rb > ra) /\ (c \in Before(a) <=> rc > ra)
    BY <1>1, <2>0
  <2>2. (a \in Before(b) <=> ra >= rb) /\ b \notin Before(b) /\ (c \in Before(b) <=> rc > rb)
    BY <1>1, <2>0
  <2>3. (a \in Before(c) <=> ra >= rc) /\ (b \in Before(c) <=> rb >= rc) /\ c \notin Before(c)
    BY <1>1, <2>0
  <2>. HIDE DEF Before, ra, rb, rc
  <2>4. /\ na = (IF a \in Before(a) THEN 1 ELSE 0) + (IF b \in Before(a) THEN 1 ELSE 0) + (IF c \in Before(a) THEN 1 ELSE 0)
        /\ nb = (IF a \in Before(b) THEN 1 ELSE 0) + (IF b \in Before(b) THEN 1 ELSE 0) + (IF c \in Before(b) THEN 1 ELSE 0)
        /\ nc = (IF a \in Before(c) THEN 1 ELSE 0) + (IF b \in Before(c) THEN 1 ELSE 0) + (IF c \in Before(c) THEN 1 ELSE 0)
    BY <1>10
  <2>. HIDE DEF na, nb, nc
  <2>. QED
    BY <2>0, <2>1, <2>2, <2>3, <2>4
<1>12. f[t] = held /\ \A i \in {a, b, c} : f[i] = Share(i) + IF Cardinality(Before(i)) < L THEN 1 ELSE 0
  <2>. HIDE DEF Before
  <2>1. \A i \in 1 .. 4 : f[i] = IF i # t /\ Cardinality(Before(i)) < L THEN Floor[i] + 1 ELSE Floor[i]
    BY DEF L
  <2>2. {a, b, c} \subseteq 1 .. 4
    OBVIOUS
  <2>. HIDE DEF f, Floor
  <2>. QED
    BY <1>1, <1>5, <1>7, <2>1, <2>2
<1>13. (IF na < L THEN 1 ELSE 0) + (IF nb < L THEN 1 ELSE 0) + (IF nc < L THEN 1 ELSE 0) = L
  <2>1. ra \in Int /\ rb \in Int /\ rc \in Int
    BY <1>5
  <2>. HIDE DEF na, nb, nc, ra, rb, rc
  <2>. QED
    BY <1>9, <1>11, <2>1, Handed
<1>14. f[t] + f[a] + f[b] + f[c] = 100 /\ f[t] \in Nat /\ f[a] \in Nat /\ f[b] \in Nat /\ f[c] \in Nat
  <2>1. /\ f[t] = held /\ f[a] = Share(a) + IF na < L THEN 1 ELSE 0
        /\ f[b] = Share(b) + IF nb < L THEN 1 ELSE 0
        /\ f[c] = Share(c) + IF nc < L THEN 1 ELSE 0
    BY <1>12
  <2>2. L = 100 - held - (Share(a) + Share(b) + Share(c))
    BY <1>4, <1>5, <1>8 DEF L
  <2>. HIDE DEF f, na, nb, nc
  <2>. QED
    BY <1>4, <1>5, <1>9, <1>13, <2>1, <2>2
<1>15. \A i \in 1 .. 4 : f[i] \in 0 .. 100
  <2>1. 1 .. 4 = {t, a, b, c}
    BY <1>1 DEF rest
  <2>2. f[t] \in 0 .. 100 /\ f[a] \in 0 .. 100 /\ f[b] \in 0 .. 100 /\ f[c] \in 0 .. 100
    <3>. DEFINE ft == f[t]
                fa == f[a]
                fb == f[b]
                fc == f[c]
    <3>1. ft + fa + fb + fc = 100 /\ ft \in Nat /\ fa \in Nat /\ fb \in Nat /\ fc \in Nat
      BY <1>14
    <3>. HIDE DEF ft, fa, fb, fc
    <3>2. ft \in 0 .. 100 /\ fa \in 0 .. 100 /\ fb \in 0 .. 100 /\ fc \in 0 .. 100
      BY <3>1
    <3>. QED
      BY <3>2 DEF ft, fa, fb, fc
  <2>. HIDE DEF f
  <2>. QED
    BY <2>1, <2>2
<1>16. f \in Weights /\ f \in [1 .. 4 -> Int]
  <2>1. f = [i \in 1 .. 4 |-> f[i]]
    OBVIOUS
  <2>. HIDE DEF f
  <2>. QED
    BY <1>15, <2>1 DEF Weights
<1>17. Total(f) = 100
  <2>. HIDE DEF f
  <2>. QED
    BY <1>1, <1>14, <1>16
<1>. QED
  BY <1>0, <1>16, <1>17

(* ------------------------------- recursion ------------------------------- *)

\* Numbers that each have a smaller one among them: there are none.
LEMMA NoDescent ==
  ASSUME NEW B \in SUBSET Nat, \A k \in B : \E j \in B : j < k
  PROVE  B = {}
<1>. DEFINE Less == OpToRel(<, Nat)
<1>1. IsWellFoundedOn(Less, Nat)
  BY NatLessThanWellFounded
<1>2. ASSUME NEW a \in Nat, NEW b \in Nat, a < b PROVE <<a, b>> \in Less
  BY <1>2, Zenon DEF OpToRel
<1>. HIDE DEF Less
<1>3. CASE B # {}
  <2>1. PICK n \in B : \A k \in B : <<k, n>> \notin Less
    BY <1>1, <1>3, WFMin, Zenon
  <2>2. PICK j \in B : j < n
    OBVIOUS
  <2>3. <<j, n>> \in Less
    BY <1>2, <2>2
  <2>. QED
    BY <2>1, <2>3
<1>. QED
  BY <1>3

\* What a recursive function on 1 .. n is, its step given as a function.
Follows(h, n, base, step) ==
  \A i \in 1 .. n : h[i] = IF i = 1 THEN base ELSE step[<<i, h[i - 1]>>]

\* Such a function is defined.
LEMMA Recursion ==
  ASSUME NEW n \in Nat, NEW V, NEW base \in V, NEW step \in [(1 .. n) \X V -> V]
  PROVE  \E h \in [1 .. n -> V] : Follows(h, n, base, step)
<1>. DEFINE Partial(m) == {h \in [1 .. m -> V] : Follows(h, m, base, step)}
            B == {m \in 0 .. n : Partial(m) = {}}
<1>1. 0 \notin B
  <2>1. [i \in 1 .. 0 |-> base] \in Partial(0)
    BY DEF Follows
  <2>. QED
    BY <2>1
<1>2. ASSUME NEW m \in B PROVE m - 1 \in B
  <2>1. m \in 1 .. n /\ Partial(m) = {}
    BY <1>1
  <2>2. ASSUME NEW h \in Partial(m - 1) PROVE FALSE
    <3>. DEFINE g == [i \in 1 .. m |-> IF i = 1 THEN base ELSE step[<<i, h[i - 1]>>]]
    <3>1. h \in [1 .. m - 1 -> V] /\ Follows(h, m - 1, base, step)
      OBVIOUS
    <3>2. \A i \in 1 .. m : i # 1 => i - 1 \in 1 .. m - 1 /\ i \in 1 .. n
      BY <2>1
    <3>3. \A i \in 1 .. m - 1 : g[i] = h[i]
      <4>1. ASSUME NEW i \in 1 .. m - 1 PROVE i \in 1 .. m
        BY <2>1
      <4>. QED
        BY <3>1, <4>1, Zenon DEF Follows
    <3>4. g \in [1 .. m -> V]
      <4>1. ASSUME NEW i \in 1 .. m, i # 1 PROVE step[<<i, h[i - 1]>>] \in V
        <5>1. i \in 1 .. n /\ h[i - 1] \in V
          BY <3>1, <3>2, <4>1
        <5>. QED
          BY <5>1
      <4>. QED
        BY <4>1
    <3>5. Follows(g, m, base, step)
      <4>1. ASSUME NEW i \in 1 .. m PROVE g[i] = IF i = 1 THEN base ELSE step[<<i, g[i - 1]>>]
        <5>1. i # 1 => g[i - 1] = h[i - 1]
          BY <3>2, <3>3
        <5>. QED
          BY <5>1
      <4>. HIDE DEF g
      <4>. QED
        BY <4>1 DEF Follows
    <3>. HIDE DEF g
    <3>. QED
      BY <2>1, <3>4, <3>5
  <2>. HIDE DEF Partial
  <2>. QED
    BY <2>1, <2>2
<1>3. B = {}
  <2>1. B \in SUBSET Nat /\ \A m \in B : \E j \in B : j < m
    <3>. HIDE DEF Partial
    <3>1. \A m \in B : m - 1 \in B /\ m \in Nat
      BY <1>2
    <3>. QED
      BY <3>1
  <2>. HIDE DEF B
  <2>. QED
    BY <2>1, NoDescent
<1>4. n \notin B
  BY <1>3
<1>. QED
  BY <1>4

(* ------------------------------- the order ------------------------------- *)

LEMMA OrderIs ==
  /\ DOMAIN Layout = 1 .. 30 /\ Len(ReadOrder) = 29 /\ DOMAIN ReadOrder = 1 .. 29
  /\ \A i \in 1 .. 29 : ReadOrder[i] = Layout[i]
  /\ Layout[29] = "display_name_override" /\ Layout[30] = "confirm_before_leaving_site"
<1>1. DOMAIN Layout = 1 .. 30 /\ Len(ReadOrder) = 29 /\ DOMAIN ReadOrder = 1 .. 29
  BY DEF Layout, ReadOrder
<1>2. Layout[29] = "display_name_override" /\ Layout[30] = "confirm_before_leaving_site"
  BY DEF Layout
<1>3. ASSUME NEW i \in 1 .. 29 PROVE ReadOrder[i] = Layout[i]
  BY DEF Layout, ReadOrder
<1>. QED
  BY <1>1, <1>2, <1>3

LEMMA FieldsAre ==
  Fields = {"street_weights", "custom_weights", "side_pot_frequency", "chip_denomination_mode",
    "bet_sizing_engine_enabled", "difficulty", "time_pressure_custom_enabled",
    "time_pressure_custom_seconds", "delta_timer_enabled", "show_hud", "show_countdown",
    "cash_mode", "active_theme_id", "reduce_motion", "background_atmospheric_movement",
    "particle_drift", "hover_tilt", "volume", "current_music_genre", "music_playback_order",
    "mute_all", "mute_sfx", "mute_music", "dealer_arrival_animation", "transitions_enabled",
    "default_aggressor_recap_tab", "shop_button_visible", "leaderboard_opt_in",
    "display_name_override", "confirm_before_leaving_site"}
  BY DEF Fields, SectionOf

\* Every field but the last has its place in the order, and the name is no other's.
LEMMA OrderOf ==
  /\ \A f \in Fields \ {"confirm_before_leaving_site"} : \E i \in 1 .. 29 : ReadOrder[i] = f
  /\ \A i \in 1 .. 28 : Layout[i] \in Fields \ {"display_name_override", "confirm_before_leaving_site"}
<1>1. ASSUME NEW f \in Fields \ {"confirm_before_leaving_site"}
      PROVE  \E i \in 1 .. 29 : ReadOrder[i] = f
  BY FieldsAre DEF ReadOrder
<1>2. ASSUME NEW i \in 1 .. 28
      PROVE  Layout[i] \in Fields \ {"display_name_override", "confirm_before_leaving_site"}
  BY FieldsAre DEF Layout
<1>. QED
  BY <1>1, <1>2

\* The fields of one byte that are a number.
Plain == {"side_pot_frequency", "chip_denomination_mode", "active_theme_id", "volume",
          "current_music_genre", "music_playback_order", "default_aggressor_recap_tab"}

LEMMA KindsAre ==
  /\ Fields = Toggles \cup Plain \cup {"street_weights", "custom_weights", "difficulty",
                 "time_pressure_custom_seconds", "display_name_override"}
  /\ "confirm_before_leaving_site" \in Toggles
  /\ Toggles \cap (Plain \cup {"street_weights", "custom_weights", "difficulty",
                 "time_pressure_custom_seconds", "display_name_override"}) = {}
  BY FieldsAre DEF Toggles, Plain

(* ------------------------------- the bytes ------------------------------- *)

LEMMA Appended ==
  ASSUME NEW a \in Seq(Int), NEW b \in Seq(Int)
  PROVE  /\ a \o b \in Seq(Int) /\ Len(a) \in Nat /\ Len(b) \in Nat
         /\ Len(a \o b) = Len(a) + Len(b)
         /\ \A k \in 1 .. Len(a) : (a \o b)[k] = a[k]
         /\ \A k \in 1 .. Len(b) : (a \o b)[Len(a) + k] = b[k]
<1>1. /\ a \o b \in Seq(Int) /\ Len(a) \in Nat /\ Len(b) \in Nat
      /\ Len(a \o b) = Len(a) + Len(b)
      /\ \A k \in 1 .. Len(a) + Len(b) : (a \o b)[k] = IF k <= Len(a) THEN a[k] ELSE b[k - Len(a)]
  BY ConcatProperties, LenProperties
<1>2. ASSUME NEW k \in 1 .. Len(a) PROVE (a \o b)[k] = a[k]
  BY <1>1
<1>3. ASSUME NEW k \in 1 .. Len(b) PROVE (a \o b)[Len(a) + k] = b[k]
  <2>1. Len(a) + k \in 1 .. Len(a) + Len(b) /\ ~(Len(a) + k <= Len(a)) /\ (Len(a) + k) - Len(a) = k
    BY <1>1
  <2>. QED
    BY <1>1, <2>1, Zenon
<1>. QED
  BY <1>1, <1>2, <1>3

\* What FlattenSeq makes of the sequences: each stands at its place.
LEMMA Flattened ==
  ASSUME NEW n \in Nat, n >= 1, NEW seqs \in [1 .. n -> Seq(Int)], NEW pos \in [1 .. n -> Nat],
         pos[1] = 1, \A i \in 2 .. n : pos[i] = pos[i - 1] + Len(seqs[i - 1])
  PROVE  LET c == FlattenSeq(seqs)
         IN  /\ c \in Seq(Int) /\ Len(c) = pos[n] + Len(seqs[n]) - 1
             /\ \A i \in 1 .. n : \A k \in 1 .. Len(seqs[i]) : c[pos[i] + k - 1] = seqs[i][k]
<1>. DEFINE step == [x \in (1 .. n) \X Seq(Int) |-> x[2] \o seqs[x[1]]]
            Joins(g) == g = [i \in 1 .. n |-> IF i = 1 THEN seqs[i] ELSE g[i - 1] \o seqs[i]]
            joined == CHOOSE g : Joins(g)
<1>1. seqs \in Seq(Seq(Int)) /\ Len(seqs) = n
  <2>1. seqs \in Seq(Seq(Int))
    BY SeqDef
  <2>2. DOMAIN seqs = 1 .. Len(seqs) /\ Len(seqs) \in Nat
    BY <2>1, LenProperties
  <2>3. 1 .. n = 1 .. Len(seqs)
    BY <2>2
  <2>. QED
    BY <2>1, <2>2, <2>3
<1>2. \A i \in 1 .. n : seqs[i] \in Seq(Int) /\ Len(seqs[i]) \in Nat
  BY LenProperties
<1>3. step \in [(1 .. n) \X Seq(Int) -> Seq(Int)]
  <2>1. ASSUME NEW x \in (1 .. n) \X Seq(Int) PROVE x[2] \o seqs[x[1]] \in Seq(Int)
    <3>1. x[2] \in Seq(Int) /\ seqs[x[1]] \in Seq(Int)
      BY <1>2
    <3>. QED
      BY <3>1, ConcatProperties
  <2>. QED
    BY <2>1
<1>4. PICK h \in [1 .. n -> Seq(Int)] : Follows(h, n, seqs[1], step)
  <2>. HIDE DEF step
  <2>1. seqs[1] \in Seq(Int)
    BY <1>2
  <2>. QED
    BY <1>3, <2>1, Recursion
<1>5. ASSUME NEW i \in 1 .. n
      PROVE  /\ i = 1 => h[i] = seqs[i]
             /\ i # 1 => h[i] = h[i - 1] \o seqs[i] /\ i - 1 \in 1 .. n /\ h[i - 1] \in Seq(Int)
  <2>1. h[i] = IF i = 1 THEN seqs[1] ELSE step[<<i, h[i - 1]>>]
    BY <1>4 DEF Follows
  <2>2. ASSUME i # 1
        PROVE  h[i] = h[i - 1] \o seqs[i] /\ i - 1 \in 1 .. n /\ h[i - 1] \in Seq(Int)
    <3>1. i - 1 \in 1 .. n
      BY <2>2
    <3>2. h[i - 1] \in Seq(Int)
      BY <3>1
    <3>3. <<i, h[i - 1]>> \in (1 .. n) \X Seq(Int)
      BY <3>2
    <3>4. step[<<i, h[i - 1]>>] = h[i - 1] \o seqs[i]
      BY <3>3
    <3>. QED
      BY <2>1, <2>2, <3>1, <3>2, <3>4
  <2>. QED
    BY <2>1, <2>2
<1>6. Joins(h)
  <2>1. \A i \in 1 .. n : h[i] = IF i = 1 THEN seqs[i] ELSE h[i - 1] \o seqs[i]
    BY <1>5
  <2>. QED
    BY <2>1
<1>7. Joins(joined)
  <2>. HIDE DEF Joins
  <2>. QED
    BY <1>6
<1>8. ASSUME NEW g, Joins(g) PROVE g = h
  <2>1. DOMAIN g = 1 .. n /\ \A i \in 1 .. n : g[i] = IF i = 1 THEN seqs[i] ELSE g[i - 1] \o seqs[i]
    BY <1>8, Zenon
  <2>2. g = [i \in 1 .. n |-> g[i]]
    BY <1>8, <2>1
  <2>. DEFINE B == {i \in 1 .. n : g[i] # h[i]}
  <2>3. ASSUME NEW i \in B PROVE i - 1 \in B /\ i - 1 < i
    <3>1. i \in 1 .. n /\ g[i] # h[i]
      OBVIOUS
    <3>2. g[i] = IF i = 1 THEN seqs[i] ELSE g[i - 1] \o seqs[i]
      BY <2>1, <3>1
    <3>3. i # 1
      BY <1>5, <3>1, <3>2
    <3>4. h[i] = h[i - 1] \o seqs[i] /\ i - 1 \in 1 .. n
      BY <1>5, <3>1, <3>3
    <3>5. g[i - 1] # h[i - 1]
      BY <3>1, <3>2, <3>3, <3>4, Zenon
    <3>. QED
      BY <3>1, <3>4, <3>5
  <2>4. B \in SUBSET Nat
    OBVIOUS
  <2>5. B = {}
    <3>. HIDE DEF B
    <3>1. \A i \in B : \E j \in B : j < i
      BY <2>3
    <3>. QED
      BY <2>4, <3>1, NoDescent
  <2>. QED
    BY <2>2, <2>5
<1>9. FlattenSeq(seqs) = h[n]
  <2>. DEFINE Called(g) == g = [i \in 1 .. Len(seqs) |-> IF i = 1 THEN seqs[i] ELSE g[i - 1] \o seqs[i]]
              called == CHOOSE g : Called(g)
  <2>1. FlattenSeq(seqs) = called[Len(seqs)]
    <3>1. Len(seqs) # 0
      BY <1>1
    <3>. QED
      BY <3>1, Zenon DEF FlattenSeq
  <2>2. \A g : Called(g) <=> Joins(g)
    BY <1>1
  <2>. HIDE DEF Called, Joins
  <2>3. Called(called)
    BY <1>6, <2>2
  <2>4. called = h
    BY <1>8, <2>2, <2>3
  <2>. HIDE DEF called
  <2>. QED
    BY <1>1, <2>1, <2>4
\* every prefix has its places
<1>. DEFINE Right(i) == /\ Len(h[i]) = pos[i] + Len(seqs[i]) - 1
                        /\ \A j \in 1 .. i : /\ pos[j] >= 1 /\ pos[j] + Len(seqs[j]) - 1 <= Len(h[i])
                                             /\ \A k \in 1 .. Len(seqs[j]) : h[i][pos[j] + k - 1] = seqs[j][k]
            B == {i \in 1 .. n : ~Right(i)}
<1>10. 1 \notin B
  <2>1. h[1] = seqs[1] /\ Len(seqs[1]) \in Nat
    BY <1>2, <1>5
  <2>2. Right(1)
    BY <2>1
  <2>. QED
    BY <2>2
<1>11. ASSUME NEW i \in 2 .. n, Right(i - 1) PROVE Right(i)
  <2>1. i \in 1 .. n /\ i - 1 \in 1 .. n /\ i # 1
    OBVIOUS
  <2>. DEFINE a == h[i - 1]
              b == seqs[i]
              la == Len(a)
              lb == Len(b)
              p == pos[i]
  <2>2. h[i] = a \o b /\ a \in Seq(Int) /\ b \in Seq(Int)
    BY <1>2, <1>5, <2>1
  <2>3. pos[i] = pos[i - 1] + Len(seqs[i - 1]) /\ la = pos[i - 1] + Len(seqs[i - 1]) - 1
    BY <1>11
  <2>4. p = la + 1 /\ la \in Nat /\ lb \in Nat
    <3>. DEFINE q == pos[i - 1]
                lq == Len(seqs[i - 1])
    <3>1. q \in Nat /\ lq \in Nat /\ la \in Nat /\ lb \in Nat
      BY <1>2, <2>1, <2>2, LenProperties
    <3>2. p = q + lq /\ la = q + lq - 1
      BY <2>3
    <3>. HIDE DEF p, q, lq, la, lb
    <3>. QED
      BY <3>1, <3>2
  <2>5. /\ Len(h[i]) = la + lb
        /\ \A k \in 1 .. la : h[i][k] = a[k]
        /\ \A k \in 1 .. lb : h[i][la + k] = b[k]
    <3>. HIDE DEF a, b
    <3>. QED
      BY <2>2, Appended
  <2>. DEFINE lh == Len(h[i])
  <2>6. ASSUME NEW j \in 1 .. i
        PROVE  /\ pos[j] >= 1 /\ pos[j] + Len(seqs[j]) - 1 <= Len(h[i])
               /\ \A k \in 1 .. Len(seqs[j]) : h[i][pos[j] + k - 1] = seqs[j][k]
    <3>. DEFINE q == pos[j]
                lj == Len(seqs[j])
    <3>0. j \in 1 .. n /\ q \in Nat /\ lj \in Nat
      BY <1>2, <2>1
    <3>1. CASE j = i
      <4>0. q = p /\ lj = lb /\ seqs[j] = b
        BY <3>1
      <4>1. ASSUME NEW k \in 1 .. lj PROVE h[i][q + k - 1] = seqs[j][k]
        <5>. HIDE DEF la, lb, p, q, lj, b
        <5>1. q + k - 1 = la + k /\ k \in 1 .. lb
          BY <2>4, <4>0
        <5>. QED
          BY <2>5, <4>0, <5>1
      <4>2. q >= 1 /\ q + lj - 1 <= lh
        <5>1. lh = la + lb
          BY <2>5
        <5>. HIDE DEF la, lb, p, q, lj, lh
        <5>. QED
          BY <2>4, <4>0, <5>1
      <4>. QED
        BY <4>1, <4>2
    <3>2. CASE j # i
      <4>1. j \in 1 .. i - 1
        BY <2>1, <3>2
      <4>2. /\ q >= 1 /\ q + lj - 1 <= la
            /\ \A k \in 1 .. lj : a[q + k - 1] = seqs[j][k]
        BY <1>11, <4>1
      <4>3. ASSUME NEW k \in 1 .. lj PROVE h[i][q + k - 1] = seqs[j][k]
        <5>1. a[q + k - 1] = seqs[j][k]
          BY <4>2
        <5>. HIDE DEF la, q, lj, a
        <5>2. q + k - 1 \in 1 .. la
          BY <2>4, <3>0, <4>2
        <5>. QED
          BY <2>5, <5>1, <5>2
      <4>4. q + lj - 1 <= lh
        <5>1. lh = la + lb
          BY <2>5
        <5>. HIDE DEF la, lb, q, lj, lh
        <5>. QED
          BY <2>4, <3>0, <4>2, <5>1
      <4>. QED
        BY <4>2, <4>3, <4>4
    <3>. QED
      BY <3>1, <3>2
  <2>7. Len(h[i]) = pos[i] + Len(seqs[i]) - 1
    <3>1. lh = la + lb
      BY <2>5
    <3>2. lh = p + lb - 1
      <4>. HIDE DEF la, lb, p, lh
      <4>. QED
        BY <2>4, <3>1
    <3>. QED
      BY <3>2
  <2>. QED
    BY <2>6, <2>7
<1>12. B = {}
  <2>1. B \in SUBSET Nat
    OBVIOUS
  <2>2. ASSUME NEW i \in B PROVE i - 1 \in B /\ i - 1 < i
    <3>1. i \in 2 .. n /\ ~Right(i) /\ i - 1 \in 1 .. n /\ i - 1 < i
      <4>. HIDE DEF Right
      <4>. QED
        BY <1>10
    <3>. HIDE DEF Right
    <3>. QED
      BY <1>11, <3>1
  <2>. HIDE DEF B
  <2>3. \A i \in B : \E j \in B : j < i
    BY <2>2
  <2>. QED
    BY <2>1, <2>3, NoDescent
<1>13. Right(n)
  <2>1. n \in 1 .. n
    OBVIOUS
  <2>. HIDE DEF Right
  <2>. QED
    BY <1>12, <2>1
<1>. HIDE DEF step
<1>14. h[n] \in Seq(Int)
  OBVIOUS
<1>15. Len(h[n]) = pos[n] + Len(seqs[n]) - 1
  BY <1>13 DEF Right
<1>16. \A i \in 1 .. n : \A k \in 1 .. Len(seqs[i]) : h[n][pos[i] + k - 1] = seqs[i][k]
  BY <1>13, Zenon DEF Right
<1>. QED
  BY <1>9, <1>14, <1>15, <1>16, Zenon

(* ------------------------------- the places ------------------------------ *)

LEMMA NoFieldTwice ==
  \A i, j \in 1 .. 29 : Layout[i] = Layout[j] => i = j
<1>. DEFINE place ==
       [street_weights |-> 1, custom_weights |-> 2, side_pot_frequency |-> 3,
        chip_denomination_mode |-> 4, bet_sizing_engine_enabled |-> 5, difficulty |-> 6,
        time_pressure_custom_enabled |-> 7, time_pressure_custom_seconds |-> 8,
        delta_timer_enabled |-> 9, show_hud |-> 10, show_countdown |-> 11, cash_mode |-> 12,
        active_theme_id |-> 13, reduce_motion |-> 14, background_atmospheric_movement |-> 15,
        particle_drift |-> 16, hover_tilt |-> 17, volume |-> 18, current_music_genre |-> 19,
        music_playback_order |-> 20, mute_all |-> 21, mute_sfx |-> 22, mute_music |-> 23,
        dealer_arrival_animation |-> 24, transitions_enabled |-> 25,
        default_aggressor_recap_tab |-> 26, shop_button_visible |-> 27,
        leaderboard_opt_in |-> 28, display_name_override |-> 29]
<1>1. ASSUME NEW i \in 1 .. 29 PROVE place[Layout[i]] = i
  BY DEF Layout
<1>. HIDE DEF place
<1>. QED
  BY <1>1, Zenon

\* Position[version][f], without the CHOOSE.
LEMMA PositionIs ==
  ASSUME NEW v \in {1, 2}
  PROVE  \E h \in [1 .. 29 -> Nat] :
           /\ h[1] = 1 /\ \A i \in 2 .. 29 : h[i] = h[i - 1] + Width(Layout[i - 1], v)
           /\ \A i \in 1 .. 29 : Position[v][Layout[i]] = h[i]
<1>. DEFINE W(i) == Width(ReadOrder[i], v)
            step == [x \in (1 .. 29) \X Nat |-> x[2] + W(x[1] - 1)]
            Starting(g) == g = [i \in 1 .. Len(ReadOrder) |->
                                  IF i = 1 THEN 1 ELSE g[i - 1] + Width(ReadOrder[i - 1], v)]
            start == CHOOSE g : Starting(g)
            place(f) == CHOOSE i \in DOMAIN ReadOrder : ReadOrder[i] = f
<1>1. \A f : Width(f, v) \in Nat
  BY DEF Width
<1>2. PICK h \in [1 .. 29 -> Nat] : Follows(h, 29, 1, step)
  <2>1. step \in [(1 .. 29) \X Nat -> Nat]
    BY <1>1
  <2>. HIDE DEF step
  <2>. QED
    BY <2>1, Recursion
<1>3. ASSUME NEW i \in 1 .. 29 PROVE h[i] = IF i = 1 THEN 1 ELSE h[i - 1] + W(i - 1)
  <2>1. h[i] = IF i = 1 THEN 1 ELSE step[<<i, h[i - 1]>>]
    BY <1>2 DEF Follows
  <2>2. ASSUME i # 1 PROVE step[<<i, h[i - 1]>>] = h[i - 1] + W(i - 1)
    <3>1. i - 1 \in 1 .. 29
      BY <2>2
    <3>2. <<i, h[i - 1]>> \in (1 .. 29) \X Nat
      BY <3>1
    <3>. QED
      BY <3>2
  <2>. QED
    BY <2>1, <2>2
<1>4. Starting(h)
  <2>1. \A i \in 1 .. 29 : h[i] = IF i = 1 THEN 1 ELSE h[i - 1] + Width(ReadOrder[i - 1], v)
    BY <1>3
  <2>. QED
    BY <2>1, OrderIs
<1>5. Starting(start)
  <2>. HIDE DEF Starting
  <2>. QED
    BY <1>4
<1>6. ASSUME NEW g, Starting(g) PROVE g = h
  <2>1. DOMAIN g = 1 .. 29 /\ \A i \in 1 .. 29 : g[i] = IF i = 1 THEN 1 ELSE g[i - 1] + W(i - 1)
    BY <1>6, OrderIs, ZenonT(40)
  <2>2. g = [i \in 1 .. 29 |-> g[i]]
    BY <1>6, <2>1
  <2>. DEFINE B == {i \in 1 .. 29 : g[i] # h[i]}
  <2>3. ASSUME NEW i \in B PROVE i - 1 \in B /\ i - 1 < i
    <3>1. i \in 1 .. 29 /\ g[i] # h[i]
      OBVIOUS
    <3>2. g[i] = IF i = 1 THEN 1 ELSE g[i - 1] + W(i - 1)
      BY <2>1, <3>1
    <3>3. h[i] = IF i = 1 THEN 1 ELSE h[i - 1] + W(i - 1)
      BY <1>3, <3>1
    <3>4. i # 1 /\ g[i - 1] # h[i - 1]
      BY <3>1, <3>2, <3>3, Zenon
    <3>5. i - 1 \in 1 .. 29
      BY <3>1, <3>4
    <3>. QED
      BY <3>1, <3>4, <3>5
  <2>4. B \in SUBSET Nat
    OBVIOUS
  <2>5. B = {}
    <3>. HIDE DEF B
    <3>1. \A i \in B : \E j \in B : j < i
      BY <2>3
    <3>. QED
      BY <2>4, <3>1, NoDescent
  <2>. QED
    BY <2>2, <2>5
<1>7. start = h
  <2>. HIDE DEF Starting, start
  <2>. QED
    BY <1>5, <1>6
<1>8. Position[v] = [f \in Fields \ {"confirm_before_leaving_site"} |-> start[place(f)]]
  BY DEF Position
<1>9. ASSUME NEW i \in 1 .. 29 PROVE place(Layout[i]) = i
  <2>1. \A j \in DOMAIN ReadOrder : ReadOrder[j] = Layout[i] <=> j = i
    BY OrderIs, NoFieldTwice
  <2>2. i \in DOMAIN ReadOrder
    BY OrderIs
  <2>. QED
    BY <2>1, <2>2
<1>10. ASSUME NEW i \in 1 .. 29 PROVE Position[v][Layout[i]] = h[i]
  <2>1. Layout[i] \in Fields \ {"confirm_before_leaving_site"}
    <3>1. i \in 1 .. 28 \/ i = 29
      OBVIOUS
    <3>. QED
      BY <3>1, OrderOf, OrderIs, FieldsAre
  <2>. HIDE DEF start, place
  <2>. QED
    BY <1>7, <1>8, <1>9, <2>1
<1>11. \A i \in 2 .. 29 : h[i] = h[i - 1] + Width(Layout[i - 1], v)
  <2>1. ASSUME NEW i \in 2 .. 29 PROVE h[i] = h[i - 1] + Width(Layout[i - 1], v)
    <3>1. i \in 1 .. 29 /\ i # 1 /\ i - 1 \in 1 .. 29
      OBVIOUS
    <3>2. ReadOrder[i - 1] = Layout[i - 1]
      BY <3>1, OrderIs
    <3>. QED
      BY <1>3, <3>1, <3>2
  <2>. QED
    BY <2>1
<1>12. h[1] = 1
  BY <1>3
<1>. QED
  BY <1>10, <1>11, <1>12

\* Numbers that rise are between the first and the last.
LEMMA Rising ==
  ASSUME NEW n \in Nat, n >= 1, NEW h \in [1 .. n -> Nat], \A i \in 2 .. n : h[i - 1] <= h[i]
  PROVE  \A i \in 1 .. n : h[1] <= h[i] /\ h[i] <= h[n]
<1>. DEFINE Low == {i \in 1 .. n : ~(h[1] <= h[i])}
            High == {j \in 0 .. n - 1 : ~(h[n - j] <= h[n])}
<1>0. h[1] \in Nat /\ h[n] \in Nat
  OBVIOUS
<1>1. Low = {}
  <2>1. ASSUME NEW i \in Low PROVE i - 1 \in Low /\ i - 1 < i
    <3>1. i # 1
      BY <1>0
    <3>2. i \in 2 .. n /\ i - 1 \in 1 .. n
      BY <3>1
    <3>3. h[i - 1] <= h[i] /\ h[i] \in Nat /\ h[i - 1] \in Nat
      BY <3>2
    <3>. QED
      BY <1>0, <3>2, <3>3
  <2>2. Low \in SUBSET Nat
    OBVIOUS
  <2>. HIDE DEF Low
  <2>3. \A i \in Low : \E j \in Low : j < i
    BY <2>1
  <2>. QED
    BY <2>2, <2>3, NoDescent
<1>2. High = {}
  <2>1. ASSUME NEW j \in High PROVE j - 1 \in High /\ j - 1 < j
    <3>0. j \in 0 .. n - 1 /\ ~(h[n - j] <= h[n])
      OBVIOUS
    <3>1. j # 0
      <4>1. n - 0 = n
        OBVIOUS
      <4>. QED
        BY <1>0, <3>0, <4>1
    <3>2. n - (j - 1) \in 2 .. n /\ n - (j - 1) - 1 = n - j /\ j - 1 \in 0 .. n - 1 /\ n - j \in 1 .. n
      BY <3>0, <3>1
    <3>. DEFINE k == n - (j - 1)
    <3>3. k \in 2 .. n /\ k \in 1 .. n /\ k - 1 = n - j
      BY <3>2
    <3>. HIDE DEF k
    <3>4. h[k - 1] <= h[k] /\ h[k - 1] \in Nat /\ h[k] \in Nat
      BY <3>2, <3>3
    <3>5. ~(h[k] <= h[n])
      <4>1. ~(h[k - 1] <= h[n])
        BY <3>0, <3>3
      <4>. QED
        BY <1>0, <3>4, <4>1
    <3>6. ~(h[n - (j - 1)] <= h[n])
      BY <3>5 DEF k
    <3>. QED
      BY <3>0, <3>2, <3>6
  <2>2. High \in SUBSET Nat
    OBVIOUS
  <2>. HIDE DEF High
  <2>3. \A i \in High : \E j \in High : j < i
    BY <2>1
  <2>. QED
    BY <2>2, <2>3, NoDescent
<1>3. ASSUME NEW i \in 1 .. n PROVE h[1] <= h[i] /\ h[i] <= h[n]
  <2>1. n - i \in 0 .. n - 1 /\ n - (n - i) = i
    OBVIOUS
  <2>2. n - i \notin High /\ i \notin Low
    BY <1>1, <1>2
  <2>3. h[n - (n - i)] <= h[n]
    BY <2>1, <2>2
  <2>. QED
    BY <2>1, <2>2, <2>3
<1>. QED
  BY <1>3

LEMMA HeadAndName ==
  ASSUME NEW m \in Int, NEW name \in Seq(Int)
  PROVE  LET q == <<m>> \o name
         IN  Len(q) = 1 + Len(name) /\ q[1] = m /\ \A k \in 1 .. Len(name) : q[1 + k] = name[k]
<1>. DEFINE a == <<m>>
<1>1. a \in Seq(Int) /\ Len(a) = 1 /\ a[1] = m /\ 1 \in 1 .. 1
  OBVIOUS
<1>. HIDE DEF a
<1>2. /\ Len(a \o name) = Len(a) + Len(name)
      /\ \A k \in 1 .. Len(a) : (a \o name)[k] = a[k]
      /\ \A k \in 1 .. Len(name) : (a \o name)[Len(a) + k] = name[k]
  BY <1>1, Appended, Zenon
<1>3. (a \o name)[1] = m
  BY <1>1, <1>2
<1>. QED
  BY <1>1, <1>2, <1>3, Zenon DEF a

LEMMA Indices ==
  /\ \A i \in 2 .. 29 : i - 1 \in 1 .. 28 /\ i - 1 \in 1 .. 29 /\ i \in 1 .. 29
  /\ \A i \in 1 .. 29 : i \in 1 .. 30 /\ i # 30
  /\ \A i \in 1 .. 28 : /\ i \in 1 .. 29 /\ i \in 1 .. 30 /\ i + 1 \in 2 .. 29 /\ i + 1 \in 1 .. 29
                        /\ (i + 1) - 1 = i
  OBVIOUS

\* Where the cells of a flattened layout stand.
LEMMA CellsAre ==
  ASSUME NEW v \in {1, 2}, NEW seqs \in [1 .. 30 -> Seq(Int)], NEW name \in Seq(Int)
  PROVE  (/\ \A i \in 1 .. 28 : Len(seqs[i]) = Width(Layout[i], v)
          /\ seqs[29] = <<Len(name)>> \o name /\ Len(seqs[30]) = 1) =>
         LET c == FlattenSeq(seqs)
             nameAt == Position[v]["display_name_override"]
         IN  /\ c \in Seq(Int) /\ nameAt \in Nat /\ nameAt >= 1 /\ Len(c) = nameAt + Len(name) + 1
             /\ \A i \in 1 .. 28 : /\ Position[v][Layout[i]] \in Nat /\ Position[v][Layout[i]] >= 1
                                   /\ Position[v][Layout[i]] + Width(Layout[i], v) - 1 <= Len(c)
                                   /\ \A k \in 1 .. Width(Layout[i], v) :
                                        c[Position[v][Layout[i]] + k - 1] = seqs[i][k]
             /\ c[nameAt] = Len(name)
             /\ \A k \in 1 .. Len(name) : c[nameAt + k] = name[k]
             /\ c[nameAt + Len(name) + 1] = seqs[30][1]
<1>. DEFINE c == FlattenSeq(seqs)
            m == Len(name)
<1>0. HAVE /\ \A i \in 1 .. 28 : Len(seqs[i]) = Width(Layout[i], v)
           /\ seqs[29] = <<Len(name)>> \o name /\ Len(seqs[30]) = 1
<1>1. PICK h \in [1 .. 29 -> Nat] :
        /\ h[1] = 1 /\ \A i \in 2 .. 29 : h[i] = h[i - 1] + Width(Layout[i - 1], v)
        /\ \A i \in 1 .. 29 : Position[v][Layout[i]] = h[i]
  BY PositionIs
<1>. DEFINE nameAt == h[29]
<1>2. m \in Nat /\ nameAt \in Nat
  BY LenProperties
<1>3. /\ Len(seqs[29]) = 1 + m /\ seqs[29][1] = m
      /\ \A k \in 1 .. m : seqs[29][1 + k] = name[k]
  <2>1. m \in Int
    BY <1>2
  <2>2. seqs[29] = <<m>> \o name
    BY <1>0
  <2>. HIDE DEF m
  <2>3. /\ Len(<<m>> \o name) = 1 + Len(name) /\ (<<m>> \o name)[1] = m
        /\ \A k \in 1 .. Len(name) : (<<m>> \o name)[1 + k] = name[k]
    BY <2>1, HeadAndName, Zenon
  <2>4. Len(name) = m
    BY Zenon DEF m
  <2>. QED
    BY <2>2, <2>3, <2>4, Zenon
<1>. DEFINE pos == [i \in 1 .. 30 |-> IF i = 30 THEN h[29] + Len(seqs[29]) ELSE h[i]]
<1>4. /\ pos \in [1 .. 30 -> Nat] /\ pos[1] = 1 /\ pos[30] = nameAt + 1 + m
      /\ \A i \in 1 .. 29 : pos[i] = h[i]
  <2>1. h[29] + Len(seqs[29]) = nameAt + 1 + m /\ nameAt + 1 + m \in Nat
    <3>. HIDE DEF m, nameAt
    <3>1. Len(seqs[29]) = 1 + m
      BY <1>3
    <3>2. nameAt + (1 + m) = nameAt + 1 + m /\ nameAt + 1 + m \in Nat
      BY <1>2
    <3>. QED
      BY <3>1, <3>2 DEF nameAt
  <2>2. \A i \in 1 .. 29 : i \in 1 .. 30 /\ i # 30 /\ h[i] \in Nat
    BY Indices, Zenon
  <2>. HIDE DEF m
  <2>. QED
    BY <1>1, <2>1, <2>2
<1>5. \A i \in 2 .. 30 : pos[i] = pos[i - 1] + Len(seqs[i - 1])
  <2>1. ASSUME NEW i \in 2 .. 29 PROVE pos[i] = pos[i - 1] + Len(seqs[i - 1])
    <3>1. i - 1 \in 1 .. 28 /\ i - 1 \in 1 .. 29 /\ i \in 1 .. 29
      BY Indices, Zenon
    <3>2. pos[i] = h[i] /\ pos[i - 1] = h[i - 1] /\ Len(seqs[i - 1]) = Width(Layout[i - 1], v)
      BY <1>0, <1>4, <3>1
    <3>. QED
      BY <1>1, <3>2
  <2>2. pos[30] = pos[29] + Len(seqs[29])
    BY <1>4
  <2>3. 30 - 1 = 29 /\ \A i \in 2 .. 30 : i \in 2 .. 29 \/ i = 30
    OBVIOUS
  <2>. HIDE DEF pos
  <2>. QED
    BY <2>1, <2>2, <2>3
<1>. HIDE DEF pos
<1>6. /\ c \in Seq(Int) /\ Len(c) = pos[30] + Len(seqs[30]) - 1
      /\ \A i \in 1 .. 30 : \A k \in 1 .. Len(seqs[i]) : c[pos[i] + k - 1] = seqs[i][k]
  <2>1. 30 \in Nat /\ 30 >= 1
    OBVIOUS
  <2>. QED
    BY <1>4, <1>5, <2>1, Flattened, Zenon
<1>7. Len(c) = nameAt + m + 1
  <2>1. Len(seqs[30]) = 1
    BY <1>0, Zenon
  <2>2. Len(c) = pos[30] + Len(seqs[30]) - 1 /\ pos[30] = nameAt + 1 + m
    BY <1>4, <1>6, Zenon
  <2>. HIDE DEF m, nameAt, c
  <2>. QED
    BY <1>2, <2>1, <2>2
<1>8. h[1] <= h[29] /\ \A i \in 1 .. 29 : h[i] >= 1 /\ h[i] <= h[29]
  <2>0. \A i \in 2 .. 29 : h[i - 1] <= h[i] /\ h[i] \in Nat /\ h[i - 1] \in Nat
    <3>1. ASSUME NEW i \in 2 .. 29 PROVE h[i - 1] <= h[i] /\ h[i] \in Nat /\ h[i - 1] \in Nat
      <4>. DEFINE w == Width(Layout[i - 1], v)
                  x == h[i]
                  y == h[i - 1]
      <4>1. w \in Nat
        BY DEF Width
      <4>2. i - 1 \in 1 .. 29 /\ i \in 1 .. 29
        BY Indices, Zenon
      <4>3. x = y + w /\ x \in Nat /\ y \in Nat
        BY <1>1, <4>2
      <4>. HIDE DEF w, x, y
      <4>4. y <= x
        BY <4>1, <4>3
      <4>. QED
        BY <4>3, <4>4 DEF x, y
    <3>. QED
      BY <3>1
  <2>1. 29 \in Nat /\ 29 >= 1
    OBVIOUS
  <2>2. \A i \in 1 .. 29 : h[1] <= h[i] /\ h[i] <= h[29]
    BY <2>0, <2>1, Rising
  <2>. QED
    BY <1>1, <2>2
<1>9. Position[v]["display_name_override"] = nameAt
  BY <1>1, OrderIs
<1>10. ASSUME NEW i \in 1 .. 28
       PROVE  /\ Position[v][Layout[i]] = h[i] /\ h[i] \in Nat /\ h[i] >= 1
              /\ h[i] + Width(Layout[i], v) - 1 <= Len(c)
              /\ \A k \in 1 .. Width(Layout[i], v) : c[h[i] + k - 1] = seqs[i][k]
  <2>1. i \in 1 .. 29 /\ i \in 1 .. 30 /\ i + 1 \in 2 .. 29 /\ i + 1 \in 1 .. 29 /\ (i + 1) - 1 = i
    BY Indices, Zenon
  <2>2. pos[i] = h[i] /\ Len(seqs[i]) = Width(Layout[i], v)
    BY <1>0, <1>4, <2>1
  <2>. DEFINE w == Width(Layout[i], v)
              x == h[i]
              y == h[i + 1]
              lc == Len(c)
  <2>3. y = x + w /\ y <= nameAt /\ x \in Nat /\ y \in Nat /\ w \in Nat
    <3>1. w \in Nat
      BY DEF Width
    <3>2. h[i + 1] = h[(i + 1) - 1] + Width(Layout[(i + 1) - 1], v)
      BY <1>1, <2>1
    <3>. HIDE DEF w
    <3>. QED
      BY <1>8, <2>1, <3>1, <3>2 DEF w
  <2>4. lc = nameAt + m + 1
    BY <1>7
  <2>5. x + w - 1 <= lc
    <3>. HIDE DEF w, x, y, lc, nameAt, m
    <3>. QED
      BY <1>2, <2>3, <2>4
  <2>6. \A k \in 1 .. w : c[x + k - 1] = seqs[i][k]
    <3>. HIDE DEF c
    <3>. QED
      BY <1>6, <2>1, <2>2
  <2>. HIDE DEF c
  <2>. QED
    BY <1>1, <1>8, <2>1, <2>5, <2>6
<1>11. c[nameAt] = m /\ \A k \in 1 .. m : c[nameAt + k] = name[k]
  <2>1. pos[29] = nameAt /\ Len(seqs[29]) = 1 + m
    BY <1>3, <1>4
  <2>2. \A k \in 1 .. 1 + m : c[nameAt + k - 1] = seqs[29][k]
    <3>. HIDE DEF c, m, nameAt
    <3>1. 29 \in 1 .. 30
      OBVIOUS
    <3>. QED
      BY <1>6, <2>1, <3>1
  <2>. HIDE DEF c, nameAt, m
  <2>3. 1 \in 1 .. 1 + m /\ nameAt + 1 - 1 = nameAt
    BY <1>2
  <2>4. c[nameAt] = m
    BY <1>3, <2>2, <2>3
  <2>5. ASSUME NEW k \in 1 .. m PROVE c[nameAt + k] = name[k]
    <3>1. 1 + k \in 1 .. 1 + m /\ nameAt + (1 + k) - 1 = nameAt + k
      BY <1>2
    <3>2. c[nameAt + (1 + k) - 1] = seqs[29][1 + k] /\ seqs[29][1 + k] = name[k]
      BY <1>3, <2>2, <3>1
    <3>. QED
      BY <3>1, <3>2
  <2>. QED
    BY <2>4, <2>5
<1>12. c[nameAt + m + 1] = seqs[30][1]
  <2>1. 30 \in 1 .. 30 /\ 1 \in 1 .. Len(seqs[30])
    BY <1>0
  <2>2. c[pos[30] + 1 - 1] = seqs[30][1]
    <3>. HIDE DEF c
    <3>. QED
      BY <1>6, <2>1
  <2>3. pos[30] + 1 - 1 = nameAt + m + 1
    <3>. HIDE DEF nameAt, m
    <3>. QED
      BY <1>2, <1>4
  <2>. QED
    BY <2>2, <2>3
<1>13. nameAt >= 1
  BY <1>8
<1>14. \A i \in 1 .. 28 : /\ Position[v][Layout[i]] \in Nat /\ Position[v][Layout[i]] >= 1
                         /\ Position[v][Layout[i]] + Width(Layout[i], v) - 1 <= Len(c)
                         /\ \A k \in 1 .. Width(Layout[i], v) :
                              c[Position[v][Layout[i]] + k - 1] = seqs[i][k]
  <2>1. ASSUME NEW i \in 1 .. 28
        PROVE  /\ Position[v][Layout[i]] \in Nat /\ Position[v][Layout[i]] >= 1
               /\ Position[v][Layout[i]] + Width(Layout[i], v) - 1 <= Len(c)
               /\ \A k \in 1 .. Width(Layout[i], v) :
                    c[Position[v][Layout[i]] + k - 1] = seqs[i][k]
    <3>. DEFINE p == Position[v][Layout[i]]
    <3>. HIDE DEF c
    <3>1. /\ p = h[i] /\ h[i] \in Nat /\ h[i] >= 1
          /\ h[i] + Width(Layout[i], v) - 1 <= Len(c)
          /\ \A k \in 1 .. Width(Layout[i], v) : c[h[i] + k - 1] = seqs[i][k]
      BY <1>10, Zenon
    <3>. HIDE DEF p
    <3>2. /\ p \in Nat /\ p >= 1 /\ p + Width(Layout[i], v) - 1 <= Len(c)
          /\ \A k \in 1 .. Width(Layout[i], v) : c[p + k - 1] = seqs[i][k]
      BY <3>1, Zenon
    <3>. QED
      BY <3>2, Zenon DEF p
  <2>. HIDE DEF c
  <2>. QED
    BY <2>1, Zenon
<1>. HIDE DEF c, m
<1>. QED
  BY <1>2, <1>6, <1>7, <1>9, <1>11, <1>12, <1>13, <1>14, Zenon DEF c, m

\* The cells from p on that hold the sequence a.
LEMMA Slice ==
  ASSUME NEW c \in Seq(Int), NEW p \in Nat, p >= 1, NEW a \in Seq(Int), NEW w, w = Len(a),
         p + w - 1 <= Len(c), \A k \in 1 .. w : c[p + k - 1] = a[k]
  PROVE  SubSeq(c, p, p + w - 1) = a
<1>. DEFINE q == p + w - 1
            lc == Len(c)
<1>1. w \in Nat /\ lc \in Nat /\ q \in Int /\ p \in Int /\ q - p + 1 = w
  BY LenProperties
<1>2. \A i \in 1 .. lc : c[i] \in Int
  BY LenProperties
<1>3. \A i \in p .. q : c[i] \in Int
  <2>1. q <= lc
    OBVIOUS
  <2>. HIDE DEF q, lc
  <2>. QED
    BY <1>1, <1>2, <2>1
<1>. HIDE DEF q
<1>4. /\ SubSeq(c, p, q) \in Seq(Int)
      /\ Len(SubSeq(c, p, q)) = IF p <= q THEN q - p + 1 ELSE 0
      /\ \A i \in 1 .. q - p + 1 : SubSeq(c, p, q)[i] = c[p + i - 1]
  BY <1>1, <1>3, SubSeqProperties
<1>5. Len(SubSeq(c, p, q)) = w
  <2>. DEFINE ls == Len(SubSeq(c, p, q))
  <2>1. ls = IF p <= q THEN q - p + 1 ELSE 0
    BY <1>4
  <2>. HIDE DEF ls
  <2>2. ls = w
    BY <1>1, <2>1
  <2>. QED
    BY <2>2 DEF ls
<1>6. \A i \in 1 .. w : SubSeq(c, p, q)[i] = a[i]
  BY <1>1, <1>4
<1>7. SubSeq(c, p, q) = a
  BY <1>4, <1>5, <1>6, SeqEqual
<1>. QED
  BY <1>7 DEF q

\* What each field is written as.
LEMMA BytesOfTuple ==
  ASSUME NEW s, NEW f \in {"street_weights", "custom_weights", "difficulty"}
  PROVE  FieldBytes(s, f) = s[f]
  BY KindsAre, Zenon DEF FieldBytes

LEMMA BytesOfSeconds ==
  ASSUME NEW s
  PROVE  LET x == s["time_pressure_custom_seconds"]
         IN  FieldBytes(s, "time_pressure_custom_seconds") = <<x % 256, x \div 256>>
  BY KindsAre DEF FieldBytes

LEMMA BytesOfName ==
  ASSUME NEW s
  PROVE  LET name == s["display_name_override"]
             n == ClampInt(Len(name), 0, kMaxDisplayNameOverrideLength)
         IN  FieldBytes(s, "display_name_override") = <<n>> \o SubSeq(name, 1, n)
  BY KindsAre DEF FieldBytes

LEMMA BytesOfToggle ==
  ASSUME NEW s, NEW f \in Toggles
  PROVE  FieldBytes(s, f) = IF s[f] THEN <<1>> ELSE <<0>>
  BY KindsAre DEF FieldBytes

LEMMA BytesOfPlain ==
  ASSUME NEW s, NEW f \in Plain
  PROVE  FieldBytes(s, f) = <<s[f]>>
  BY KindsAre DEF FieldBytes, Plain

\* What decode_settings makes of one field of the cells c.
Reading(c, at, v, n, f) ==
  LET nameAt == at["display_name_override"]
  IN  CASE f \in {"street_weights", "custom_weights", "difficulty"} ->
             SubSeq(c, at[f], at[f] + Width(f, v) - 1)
        [] f = "time_pressure_custom_seconds" -> c[at[f]] + 256 * c[at[f] + 1]
        [] f = "current_music_genre" -> DecodeGenre(c[at[f]], v)
        [] f = "music_playback_order" ->
             IF v = 1 THEN Defaults[f] ELSE IF c[at[f]] = 1 THEN 1 ELSE 0
        [] f = "display_name_override" -> SubSeq(c, nameAt + 1, nameAt + n)
        [] f = "confirm_before_leaving_site" -> c[nameAt + n + 1] # 0
        [] f \in Toggles \ {"confirm_before_leaving_site"} -> c[at[f]] # 0
        [] OTHER -> c[at[f]]

LEMMA ReadingTuple ==
  ASSUME NEW c, NEW at, NEW v, NEW n, NEW f \in {"street_weights", "custom_weights", "difficulty"}
  PROVE  Reading(c, at, v, n, f) = SubSeq(c, at[f], at[f] + Width(f, v) - 1)
  BY KindsAre, Zenon DEF Reading

LEMMA ReadingSeconds ==
  ASSUME NEW c, NEW at, NEW v, NEW n
  PROVE  LET p == at["time_pressure_custom_seconds"]
         IN  Reading(c, at, v, n, "time_pressure_custom_seconds") = c[p] + 256 * c[p + 1]
  BY KindsAre DEF Reading

LEMMA ReadingGenre ==
  ASSUME NEW c, NEW at, NEW v, NEW n
  PROVE  Reading(c, at, v, n, "current_music_genre") = DecodeGenre(c[at["current_music_genre"]], v)
  BY KindsAre DEF Reading, Plain

LEMMA ReadingOrder ==
  ASSUME NEW c, NEW at, NEW v, NEW n
  PROVE  Reading(c, at, v, n, "music_playback_order") =
           IF v = 1 THEN 0 ELSE IF c[at["music_playback_order"]] = 1 THEN 1 ELSE 0
  BY KindsAre DEF Reading, Plain, Defaults

LEMMA ReadingName ==
  ASSUME NEW c, NEW at, NEW v, NEW n
  PROVE  LET p == at["display_name_override"]
         IN  Reading(c, at, v, n, "display_name_override") = SubSeq(c, p + 1, p + n)
  BY KindsAre DEF Reading

LEMMA ReadingLast ==
  ASSUME NEW c, NEW at, NEW v, NEW n
  PROVE  Reading(c, at, v, n, "confirm_before_leaving_site") =
           (c[at["display_name_override"] + n + 1] # 0)
  BY KindsAre DEF Reading

LEMMA ReadingToggle ==
  ASSUME NEW c, NEW at, NEW v, NEW n, NEW f \in Toggles \ {"confirm_before_leaving_site"}
  PROVE  Reading(c, at, v, n, f) = (c[at[f]] # 0)
  BY KindsAre DEF Reading, Plain

LEMMA ReadingPlain ==
  ASSUME NEW c, NEW at, NEW v, NEW n, NEW f \in Plain \ {"current_music_genre", "music_playback_order"}
  PROVE  Reading(c, at, v, n, f) = c[at[f]]
  BY KindsAre DEF Reading, Plain

LEMMA LenOfTuple ==
  ASSUME NEW n \in Nat, NEW a \in [1 .. n -> Int]
  PROVE  a \in Seq(Int) /\ Len(a) = n
<1>1. a \in Seq(Int)
  BY SeqDef
<1>2. DOMAIN a = 1 .. Len(a) /\ Len(a) \in Nat /\ DOMAIN a = 1 .. n
  BY <1>1, LenProperties
<1>. QED
  BY <1>1, <1>2

LEMMA Widened ==
  ASSUME NEW n \in Nat, NEW k \in Nat, NEW a \in [1 .. n -> 0 .. k]
  PROVE  a \in [1 .. n -> Int]
<1>1. \A i \in 1 .. n : a[i] \in 0 .. k
  OBVIOUS
<1>2. \A i \in 1 .. n : a[i] \in Int
  BY <1>1
<1>3. a = [i \in 1 .. n |-> a[i]]
  OBVIOUS
<1>. QED
  BY <1>2, <1>3

\* What choosable settings hold, field by field.
LEMMA ChosenFields ==
  ASSUME NEW s, Choosable(s)
  PROVE  /\ s.street_weights \in [1 .. 4 -> 0 .. 100] /\ s.custom_weights \in [1 .. 2 -> 0 .. 100]
         /\ s.difficulty \in [1 .. 2 -> 0 .. 100]
         /\ s.time_pressure_custom_seconds \in 1 .. 300
         /\ s.current_music_genre \in 0 .. 4 /\ s.music_playback_order \in {0, 1}
         /\ s.display_name_override \in Seq(Int) /\ Len(s.display_name_override) \in 0 .. 32
         /\ \A f \in Plain : s[f] \in Int
         /\ \A f \in Toggles : s[f] \in BOOLEAN
         /\ s = [f \in Fields |-> s[f]]
<1>1. /\ s.street_weights \in [1 .. 4 -> 0 .. 100] /\ s.custom_weights \in [1 .. 2 -> 0 .. 100]
      /\ s.difficulty \in [1 .. 2 -> 0 .. 100]
      /\ s.time_pressure_custom_seconds \in 1 .. 300
      /\ s.current_music_genre \in 0 .. 4 /\ s.music_playback_order \in {0, 1}
      /\ \A f \in Toggles : s[f] \in BOOLEAN
      /\ s = [f \in Fields |-> s[f]]
  BY DEF Choosable, kGenreCount
<1>2. s.display_name_override \in Seq(Int) /\ Len(s.display_name_override) \in 0 .. 32
  <2>. DEFINE name == s.display_name_override
              l == Len(name)
  <2>1. name \in Seq(0 .. 255) /\ l <= 32
    BY DEF Choosable, kMaxDisplayNameOverrideLength
  <2>. HIDE DEF name
  <2>2. l \in Nat /\ name \in [1 .. l -> 0 .. 255]
    BY <2>1, LenProperties, ZenonT(40)
  <2>. HIDE DEF l
  <2>3. name \in [1 .. l -> Int]
    <3>1. 255 \in Nat
      OBVIOUS
    <3>. QED
      BY <2>2, <3>1, Widened, ZenonT(40)
  <2>4. name \in Seq(Int)
    BY <2>2, <2>3, SeqDef
  <2>5. l \in 0 .. 32
    BY <2>1, <2>2
  <2>. QED
    BY <2>4, <2>5 DEF name, l
<1>3. \A f \in Plain : s[f] \in Int
  <2>1. /\ s.side_pot_frequency \in 0 .. 100 /\ s.volume \in 0 .. 100
        /\ s.chip_denomination_mode \in {0, 1} /\ s.default_aggressor_recap_tab \in {0, 1}
        /\ s.active_theme_id \in 0 .. 4 - 1
        /\ s.current_music_genre \in 0 .. 4 /\ s.music_playback_order \in {0, 1}
    BY Zenon, <1>1 DEF Choosable, kThemeIdCount
  <2>2. /\ s.side_pot_frequency \in Int /\ s.volume \in Int /\ s.chip_denomination_mode \in Int
        /\ s.default_aggressor_recap_tab \in Int /\ s.active_theme_id \in Int
        /\ s.current_music_genre \in Int /\ s.music_playback_order \in Int
    BY <2>1
  <2>. QED
    BY <2>2, Zenon DEF Plain
<1>. QED
  BY <1>1, <1>2, <1>3

\* The bytes of a field in the layout of a version.
Bytes(v, s, f) == IF f = "music_playback_order" /\ v = 1 THEN <<>> ELSE FieldBytes(s, f)

LEMMA WidthsAre ==
  ASSUME NEW s, Choosable(s), NEW v \in {1, 2},
         NEW f \in Fields \ {"display_name_override"}
  PROVE  Bytes(v, s, f) \in Seq(Int) /\ Len(Bytes(v, s, f)) = Width(f, v)
<1>1. CASE f = "street_weights"
  <2>1. s[f] \in [1 .. 4 -> 0 .. 100]
    BY <1>1, ChosenFields, Zenon
  <2>2. s[f] \in Seq(Int) /\ Len(s[f]) = 4
    <3>1. 4 \in Nat /\ 100 \in Nat
      OBVIOUS
    <3>2. s[f] \in [1 .. 4 -> Int]
      BY <2>1, <3>1, Widened, Zenon
    <3>. QED
      BY <3>1, <3>2, LenOfTuple, Zenon
  <2>3. FieldBytes(s, f) = s[f]
    BY <1>1, BytesOfTuple, Zenon
  <2>4. Bytes(v, s, f) = s[f] /\ Width(f, v) = 4
    BY <1>1, <2>3 DEF Bytes, Width
  <2>. QED
    BY <2>2, <2>4, Zenon
<1>2. CASE f \in {"custom_weights", "difficulty"}
  <2>1. s[f] \in [1 .. 2 -> 0 .. 100]
    BY <1>2, ChosenFields, Zenon
  <2>2. s[f] \in Seq(Int) /\ Len(s[f]) = 2
    <3>1. 2 \in Nat /\ 100 \in Nat
      OBVIOUS
    <3>2. s[f] \in [1 .. 2 -> Int]
      BY <2>1, <3>1, Widened, Zenon
    <3>. QED
      BY <3>1, <3>2, LenOfTuple, Zenon
  <2>3. FieldBytes(s, f) = s[f]
    BY <1>2, BytesOfTuple, Zenon
  <2>4. Bytes(v, s, f) = s[f] /\ Width(f, v) = 2
    BY <1>2, <2>3 DEF Bytes, Width
  <2>. QED
    BY <2>2, <2>4, Zenon
<1>3. CASE f = "time_pressure_custom_seconds"
  <2>1. s[f] \in 1 .. 300
    BY <1>3, ChosenFields, Zenon
  <2>2. s[f] % 256 \in Int /\ s[f] \div 256 \in Int
    BY <2>1
  <2>3. FieldBytes(s, f) = <<s[f] % 256, s[f] \div 256>>
    BY <1>3, BytesOfSeconds, ZenonT(40)
  <2>4. Bytes(v, s, f) = <<s[f] % 256, s[f] \div 256>> /\ Width(f, v) = 2
    BY <1>3, <2>3 DEF Bytes, Width
  <2>. QED
    BY <2>2, <2>4
<1>4. CASE f \in Toggles
  <2>1. FieldBytes(s, f) = IF s[f] THEN <<1>> ELSE <<0>>
    BY <1>4, BytesOfToggle, Zenon
  <2>2. Bytes(v, s, f) = (IF s[f] THEN <<1>> ELSE <<0>>) /\ Width(f, v) = 1
    BY <1>4, <2>1, KindsAre DEF Bytes, Width, Plain
  <2>. QED
    BY <2>2
<1>5. CASE f \in Plain
  <2>1. s[f] \in Int
    BY <1>5, ChosenFields
  <2>2. CASE f = "music_playback_order" /\ v = 1
    <3>1. Bytes(v, s, f) = <<>> /\ Width(f, v) = 0
      BY <2>2 DEF Bytes, Width
    <3>. QED
      BY <3>1
  <2>3. CASE ~(f = "music_playback_order" /\ v = 1)
    <3>1. Bytes(v, s, f) = <<s[f]>>
      <4>1. FieldBytes(s, f) = <<s[f]>>
        BY <1>5, BytesOfPlain, Zenon
      <4>. QED
        BY <2>3, <4>1, Zenon DEF Bytes
    <3>2. Width(f, v) = 1
      BY <1>5, <2>3 DEF Width, Plain
    <3>. QED
      BY <2>1, <3>1, <3>2
  <2>. QED
    BY <2>2, <2>3
<1>. QED
  BY <1>1, <1>2, <1>3, <1>4, <1>5, KindsAre

\* What decode_settings makes of the cells c of a layout v that it knows.
Decoding(c, v) ==
  LET at == Position[v]
      nameAt == at["display_name_override"]
      m == IF nameAt \in DOMAIN c THEN ClampInt(c[nameAt], 0, kMaxDisplayNameOverrideLength) ELSE 0
  IN  IF Len(c) < nameAt + m + 1 THEN Rejected ELSE [f \in Fields |-> Reading(c, at, v, m, f)]

LEMMA DecodingIs ==
  ASSUME NEW b, b.magic = "PTS1", b.version \in {1, 2}
  PROVE  DecodeSettings(b) = Decoding(b.cells, b.version)
<1>1. ~(b.magic # "PTS1" \/ b.version \notin {1, 2})
  OBVIOUS
<1>. QED
  BY <1>1, Zenon DEF DecodeSettings, Decoding, Reading

LEMMA ClampedIs ==
  ASSUME NEW n \in 0 .. 32
  PROVE  ClampInt(n, 0, kMaxDisplayNameOverrideLength) = n
  BY DEF ClampInt, kMaxDisplayNameOverrideLength

\* decode_settings gives back what the layout of its version holds.
LEMMA Decoded ==
  ASSUME NEW s, Choosable(s), NEW v \in {1, 2}, NEW b
  PROVE  (/\ b.magic = "PTS1" /\ b.version = v
          /\ b.cells = FlattenSeq([i \in 1 .. 30 |-> Bytes(v, s, Layout[i])])) =>
         DecodeSettings(b) =
           [f \in Fields |-> IF f = "current_music_genre" THEN DecodeGenre(s[f], v)
                             ELSE IF f = "music_playback_order" /\ v = 1 THEN 0 ELSE s[f]]
<1>. DEFINE seqs == [i \in 1 .. 30 |-> Bytes(v, s, Layout[i])]
            c == FlattenSeq(seqs)
            at == Position[v]
            name == s["display_name_override"]
            n == Len(name)
            nameAt == at["display_name_override"]
            Back(f) == IF f = "current_music_genre" THEN DecodeGenre(s[f], v)
                       ELSE IF f = "music_playback_order" /\ v = 1 THEN 0 ELSE s[f]
<1>0. HAVE /\ b.magic = "PTS1" /\ b.version = v
           /\ b.cells = FlattenSeq([i \in 1 .. 30 |-> Bytes(v, s, Layout[i])])
<1>1. name \in Seq(Int) /\ n \in 0 .. 32
  BY ChosenFields, Zenon
<1>2. ClampInt(n, 0, kMaxDisplayNameOverrideLength) = n
  <2>. HIDE DEF n
  <2>. QED
    BY <1>1, ClampedIs, Zenon
<1>3. Bytes(v, s, "display_name_override") = <<n>> \o name
  <2>1. FieldBytes(s, "display_name_override") = <<n>> \o SubSeq(name, 1, n)
    BY <1>2, BytesOfName, Zenon
  <2>2. SubSeq(name, 1, n) = name
    BY <1>1, SubSeqFull
  <2>. QED
    BY <2>1, <2>2 DEF Bytes
<1>. DEFINE last == "confirm_before_leaving_site"
<1>4. /\ Bytes(v, s, last) \in Seq(Int) /\ Len(Bytes(v, s, last)) = 1
      /\ Bytes(v, s, last) = IF s[last] THEN <<1>> ELSE <<0>>
  <2>1. last \in Fields \ {"display_name_override"} /\ last \in Toggles
    BY FieldsAre, KindsAre, Zenon
  <2>2. Bytes(v, s, last) = FieldBytes(s, last) /\ Width(last, v) = 1
    BY DEF Bytes, Width
  <2>. HIDE DEF last
  <2>. QED
    BY <2>1, <2>2, WidthsAre, BytesOfToggle
<1>5. \A i \in 1 .. 28 : Bytes(v, s, Layout[i]) \in Seq(Int) /\ Len(Bytes(v, s, Layout[i])) = Width(Layout[i], v)
  <2>1. ASSUME NEW i \in 1 .. 28 PROVE Layout[i] \in Fields \ {"display_name_override"}
    BY OrderOf, Zenon
  <2>. QED
    BY <2>1, WidthsAre, Zenon
<1>6. <<n>> \o name \in Seq(Int)
  <2>1. <<n>> \in Seq(Int)
    <3>. HIDE DEF n
    <3>. QED
      BY <1>1
  <2>. DEFINE a == <<n>>
  <2>. HIDE DEF a, name
  <2>2. a \o name \in Seq(Int)
    BY <1>1, <2>1, Appended, Zenon DEF a
  <2>. QED
    BY <2>2, Zenon DEF a
<1>7. /\ seqs \in [1 .. 30 -> Seq(Int)]
      /\ \A i \in 1 .. 28 : seqs[i] = Bytes(v, s, Layout[i])
      /\ seqs[29] = <<n>> \o name /\ seqs[30] = Bytes(v, s, last)
  <2>1. Layout[29] = "display_name_override" /\ Layout[30] = last
    BY OrderIs, Zenon
  <2>2. \A i \in 1 .. 30 : i \in 1 .. 28 \/ i = 29 \/ i = 30
    OBVIOUS
  <2>3. ASSUME NEW i \in 1 .. 30 PROVE Bytes(v, s, Layout[i]) \in Seq(Int)
    <3>. HIDE DEF n, name
    <3>. QED
      BY <1>3, <1>4, <1>5, <1>6, <2>1, <2>2, ZenonT(40)
  <2>4. seqs \in [1 .. 30 -> Seq(Int)]
    <3>. HIDE DEF Bytes
    <3>. QED
      BY <2>3, Zenon
  <2>5. 29 \in 1 .. 30 /\ 30 \in 1 .. 30 /\ \A i \in 1 .. 28 : i \in 1 .. 30
    OBVIOUS
  <2>6. \A i \in 1 .. 30 : seqs[i] = Bytes(v, s, Layout[i])
    OBVIOUS
  <2>. HIDE DEF seqs, n, name
  <2>. QED
    BY <1>3, <2>1, <2>4, <2>5, <2>6, Zenon
<1>. HIDE DEF seqs
<1>8. /\ c \in Seq(Int) /\ nameAt \in Nat /\ nameAt >= 1 /\ Len(c) = nameAt + n + 1
      /\ \A i \in 1 .. 28 : /\ at[Layout[i]] \in Nat /\ at[Layout[i]] >= 1
                            /\ at[Layout[i]] + Width(Layout[i], v) - 1 <= Len(c)
                            /\ \A k \in 1 .. Width(Layout[i], v) : c[at[Layout[i]] + k - 1] = seqs[i][k]
      /\ c[nameAt] = n
      /\ \A k \in 1 .. n : c[nameAt + k] = name[k]
      /\ c[nameAt + n + 1] = seqs[30][1]
  <2>1. /\ \A i \in 1 .. 28 : Len(seqs[i]) = Width(Layout[i], v)
        /\ seqs[29] = <<Len(name)>> \o name /\ Len(seqs[30]) = 1
    BY <1>4, <1>5, <1>7, Zenon
  <2>. HIDE DEF name
  <2>. QED
    BY <1>1, <1>7, <2>1, CellsAre, ZenonT(40)
<1>9. ASSUME NEW f \in Fields \ {"display_name_override", "confirm_before_leaving_site"}
      PROVE  /\ at[f] \in Nat /\ at[f] >= 1 /\ at[f] + Width(f, v) - 1 <= Len(c)
             /\ \A k \in 1 .. Width(f, v) : c[at[f] + k - 1] = Bytes(v, s, f)[k]
  <2>1. PICK i \in 1 .. 29 : ReadOrder[i] = f
    BY OrderOf, Zenon
  <2>2. i # 29 /\ Layout[i] = f
    BY <2>1, OrderIs, ZenonT(30)
  <2>3. i \in 1 .. 28
    BY <2>2
  <2>. DEFINE g == Layout[i]
  <2>. HIDE DEF c, at
  <2>4. /\ at[g] \in Nat /\ at[g] >= 1 /\ at[g] + Width(g, v) - 1 <= Len(c)
        /\ \A k \in 1 .. Width(g, v) : c[at[g] + k - 1] = seqs[i][k]
    BY <1>8, <2>3, Zenon
  <2>5. seqs[i] = Bytes(v, s, g) /\ g = f
    BY <1>7, <2>2, <2>3, Zenon
  <2>. HIDE DEF g
  <2>. QED
    BY <2>4, <2>5
<1>10. DecodeSettings(b) = [f \in Fields |-> Reading(c, at, v, n, f)]
  <2>1. b.magic = "PTS1" /\ b.version = v /\ b.cells = c /\ v \in {1, 2}
    BY <1>0, Zenon DEF seqs
  <2>2. nameAt \in DOMAIN c
    <3>. DEFINE lc == Len(c)
    <3>1. DOMAIN c = 1 .. lc
      BY <1>8, LenProperties
    <3>2. lc = nameAt + n + 1 /\ nameAt \in Nat /\ nameAt >= 1
      BY <1>8
    <3>. HIDE DEF lc, n, nameAt
    <3>3. nameAt \in 1 .. lc
      BY <1>1, <3>2
    <3>. QED
      BY <3>1, <3>3
  <2>4. c[nameAt] = n
    BY <1>8
  <2>. HIDE DEF c, at, n, seqs
  <2>. DEFINE m == IF nameAt \in DOMAIN c THEN ClampInt(c[nameAt], 0, kMaxDisplayNameOverrideLength) ELSE 0
  <2>5. m = n
    BY <1>2, <2>2, <2>4
  <2>6. DecodeSettings(b) = IF Len(c) < nameAt + m + 1 THEN Rejected
                            ELSE [f \in Fields |-> Reading(c, at, v, m, f)]
    <3>1. b.version \in {1, 2}
      BY <2>1
    <3>2. DecodeSettings(b) = Decoding(b.cells, b.version)
      BY <2>1, <3>1, DecodingIs
    <3>3. DecodeSettings(b) = Decoding(c, v)
      BY <2>1, <3>2
    <3>. QED
      BY <3>3, Zenon DEF Decoding, at
  <2>. HIDE DEF m
  <2>7. ~(Len(c) < nameAt + n + 1)
    <3>. DEFINE lc == Len(c)
    <3>1. lc = nameAt + n + 1 /\ nameAt \in Nat
      BY <1>8
    <3>. HIDE DEF lc, nameAt
    <3>2. ~(lc < nameAt + n + 1)
      BY <1>1, <3>1
    <3>. QED
      BY <3>2 DEF lc
  <2>. QED
    BY <2>5, <2>6, <2>7, Zenon
<1>. HIDE DEF c, at
<1>11. ASSUME NEW f \in {"street_weights", "custom_weights", "difficulty"}
       PROVE  Reading(c, at, v, n, f) = Back(f)
  <2>1. /\ f \in Fields \ {"display_name_override", "confirm_before_leaving_site"}
        /\ f \in Fields \ {"display_name_override"}
        /\ f # "current_music_genre" /\ f # "music_playback_order"
    BY KindsAre
  <2>. DEFINE a == Bytes(v, s, f)
              p == at[f]
              w == Width(f, v)
  <2>2. a = s[f]
    BY <2>1, BytesOfTuple, Zenon DEF Bytes
  <2>3. a \in Seq(Int) /\ Len(a) = w
    BY <2>1, WidthsAre, Zenon
  <2>4. p \in Nat /\ p >= 1 /\ p + w - 1 <= Len(c) /\ \A k \in 1 .. w : c[p + k - 1] = a[k]
    BY <1>9, <2>1, Zenon
  <2>5. Reading(c, at, v, n, f) = SubSeq(c, p, p + w - 1)
    BY ReadingTuple, ZenonT(40)
  <2>6. c \in Seq(Int)
    BY <1>8
  <2>7. SubSeq(c, p, p + w - 1) = a
    <3>. HIDE DEF a, p, w
    <3>. QED
      BY <2>3, <2>4, <2>6, Slice, Zenon
  <2>8. Back(f) = s[f]
    BY <2>1, Zenon
  <2>. HIDE DEF Back, a, p, w
  <2>. QED
    BY <2>2, <2>5, <2>7, <2>8, Zenon
<1>12. Reading(c, at, v, n, "time_pressure_custom_seconds") = Back("time_pressure_custom_seconds")
  <2>. DEFINE f == "time_pressure_custom_seconds"
              x == s[f]
              p == at[f]
              y == x % 256
              z == x \div 256
  <2>1. f \in Fields \ {"display_name_override", "confirm_before_leaving_site"} /\ Width(f, v) = 2
    BY KindsAre DEF Width
  <2>2. Bytes(v, s, f) = <<y, z>>
    BY BytesOfSeconds DEF Bytes
  <2>3. p \in Nat /\ \A k \in 1 .. 2 : c[p + k - 1] = <<y, z>>[k]
    <3>1. at[f] \in Nat /\ \A k \in 1 .. Width(f, v) : c[at[f] + k - 1] = Bytes(v, s, f)[k]
      BY <1>9, <2>1, Zenon
    <3>. HIDE DEF y, z
    <3>. QED
      BY <2>1, <2>2, <3>1
  <2>4. Back(f) = x
    OBVIOUS
  <2>5. Reading(c, at, v, n, f) = c[p] + 256 * c[p + 1]
    BY ReadingSeconds, ZenonT(40)
  <2>6. x \in 1 .. 300
    BY ChosenFields, Zenon
  <2>. HIDE DEF p, x
  <2>7. y \in Int /\ z \in Int /\ x = y + 256 * z
    BY <2>6
  <2>. HIDE DEF y, z
  <2>8. c[p] = y /\ c[p + 1] = z
    <3>1. p + 1 - 1 = p /\ p + 2 - 1 = p + 1 /\ 1 \in 1 .. 2 /\ 2 \in 1 .. 2
      BY <2>3
    <3>2. c[p + 1 - 1] = y /\ c[p + 2 - 1] = z
      BY <2>3, <3>1
    <3>. QED
      BY <3>1, <3>2
  <2>. HIDE DEF f, Back
  <2>. QED
    BY <2>4, <2>5, <2>7, <2>8 DEF f
<1>13. ASSUME NEW f \in Plain \cup (Toggles \ {"confirm_before_leaving_site"}),
              f = "music_playback_order" => v = 2
       PROVE  c[at[f]] = IF f \in Plain THEN s[f] ELSE IF s[f] THEN 1 ELSE 0
  <2>1. /\ f \in Fields \ {"display_name_override", "confirm_before_leaving_site"}
        /\ f \in Fields \ {"display_name_override"} /\ (f \in Toggles <=> f \notin Plain)
    BY KindsAre DEF Plain
  <2>2. Width(f, v) = 1
    BY <1>13, KindsAre DEF Width, Plain
  <2>3. at[f] \in Nat /\ \A k \in 1 .. Width(f, v) : c[at[f] + k - 1] = Bytes(v, s, f)[k]
    BY <1>9, <2>1, Zenon
  <2>4. c[at[f]] = Bytes(v, s, f)[1]
    <3>. DEFINE p == at[f]
                a == Bytes(v, s, f)
    <3>1. p \in Nat /\ \A k \in 1 .. 1 : c[p + k - 1] = a[k]
      BY <2>2, <2>3, Zenon
    <3>. HIDE DEF p, a
    <3>2. 1 \in 1 .. 1 /\ p + 1 - 1 = p
      BY <3>1
    <3>3. c[p] = a[1]
      BY <3>1, <3>2
    <3>. QED
      BY <3>3, Zenon DEF p, a
  <2>5. Bytes(v, s, f) = FieldBytes(s, f)
    BY <1>13 DEF Bytes
  <2>6. ASSUME f \in Plain PROVE Bytes(v, s, f)[1] = s[f]
    <3>1. FieldBytes(s, f) = <<s[f]>>
      BY <2>6, BytesOfPlain, Zenon
    <3>. QED
      BY <2>5, <3>1
  <2>7. ASSUME f \in Toggles PROVE Bytes(v, s, f)[1] = IF s[f] THEN 1 ELSE 0
    <3>1. FieldBytes(s, f) = IF s[f] THEN <<1>> ELSE <<0>>
      BY <2>7, BytesOfToggle, Zenon
    <3>. QED
      BY <2>5, <3>1
  <2>. QED
    BY <2>1, <2>4, <2>6, <2>7, Zenon
<1>14. Reading(c, at, v, n, "current_music_genre") = Back("current_music_genre")
  <2>1. "current_music_genre" \in Plain /\ "current_music_genre" # "music_playback_order"
    BY DEF Plain
  <2>2. c[at["current_music_genre"]] = s["current_music_genre"]
    BY <1>13, <2>1, Zenon
  <2>3. Back("current_music_genre") = DecodeGenre(s["current_music_genre"], v)
    BY Zenon
  <2>. HIDE DEF Back
  <2>. QED
    BY <2>2, <2>3, ReadingGenre, ZenonT(40)
<1>15. Reading(c, at, v, n, "music_playback_order") = Back("music_playback_order")
  <2>. DEFINE f == "music_playback_order"
  <2>1. f \in Plain /\ f # "current_music_genre"
    BY DEF Plain
  <2>2. v = 2 => c[at[f]] = s[f]
    BY <1>13, <2>1, Zenon
  <2>3. s[f] \in {0, 1}
    BY ChosenFields, Zenon
  <2>4. Back(f) = IF v = 1 THEN 0 ELSE s[f]
    BY <2>1
  <2>5. Reading(c, at, v, n, f) = IF v = 1 THEN 0 ELSE IF c[at[f]] = 1 THEN 1 ELSE 0
    BY ReadingOrder, Zenon
  <2>. HIDE DEF f, Back
  <2>6. Reading(c, at, v, n, f) = Back(f)
    BY <2>2, <2>3, <2>4, <2>5
  <2>. QED
    BY <2>6, Zenon DEF f
<1>16. Reading(c, at, v, n, "display_name_override") = Back("display_name_override")
  <2>. DEFINE p == nameAt + 1
  <2>1. p \in Nat /\ p >= 1 /\ p + n - 1 = nameAt + n /\ p + n - 1 <= Len(c)
    <3>. DEFINE lc == Len(c)
    <3>1. nameAt \in Nat /\ lc = nameAt + n + 1
      BY <1>8, Zenon
    <3>. HIDE DEF lc, n, nameAt
    <3>2. p \in Nat /\ p >= 1 /\ p + n - 1 = nameAt + n /\ p + n - 1 <= lc
      BY <1>1, <3>1
    <3>. QED
      BY <3>2, Zenon DEF lc
  <2>2. \A k \in 1 .. n : c[p + k - 1] = name[k]
    <3>1. ASSUME NEW k \in 1 .. n PROVE c[p + k - 1] = name[k]
      <4>1. nameAt \in Nat /\ c[nameAt + k] = name[k]
        BY <1>8, Zenon
      <4>. HIDE DEF nameAt, name
      <4>2. p + k - 1 = nameAt + k
        BY <4>1
      <4>. QED
        BY <4>1, <4>2
    <3>. QED
      BY <3>1, Zenon
  <2>3. c \in Seq(Int)
    BY <1>8, Zenon
  <2>4. SubSeq(c, p, p + n - 1) = name
    <3>1. n = Len(name)
      BY Zenon
    <3>. HIDE DEF p, n, name
    <3>. QED
      BY <1>1, <2>1, <2>2, <2>3, <3>1, Slice, Zenon
  <2>5. Reading(c, at, v, n, "display_name_override") = SubSeq(c, p, nameAt + n)
    BY ReadingName, Zenon
  <2>6. Back("display_name_override") = name
    OBVIOUS
  <2>. HIDE DEF Back, p
  <2>. QED
    BY <2>1, <2>4, <2>5, <2>6, Zenon
<1>17. Reading(c, at, v, n, last) = Back(last)
  <2>1. last \in Toggles
    BY KindsAre
  <2>2. s[last] \in BOOLEAN
    BY <2>1, ChosenFields, Zenon
  <2>3. c[nameAt + n + 1] = IF s[last] THEN 1 ELSE 0
    <3>1. c[nameAt + n + 1] = Bytes(v, s, last)[1]
      BY <1>7, <1>8, Zenon
    <3>2. Bytes(v, s, last) = IF s[last] THEN <<1>> ELSE <<0>>
      BY <1>4, Zenon
    <3>. QED
      BY <3>1, <3>2
  <2>4. Reading(c, at, v, n, last) = (c[nameAt + n + 1] # 0)
    BY ReadingLast, Zenon
  <2>5. Back(last) = s[last]
    OBVIOUS
  <2>. HIDE DEF last, Back, n, nameAt
  <2>. QED
    BY <2>2, <2>3, <2>4, <2>5
<1>18. ASSUME NEW f \in Toggles \ {"confirm_before_leaving_site"}
       PROVE  Reading(c, at, v, n, f) = Back(f)
  <2>1. f \notin Plain /\ f # "music_playback_order" /\ f # "current_music_genre"
    BY KindsAre DEF Plain
  <2>2. c[at[f]] = IF s[f] THEN 1 ELSE 0
    BY <1>13, <2>1, Zenon
  <2>3. s[f] \in BOOLEAN
    BY ChosenFields, Zenon
  <2>4. Reading(c, at, v, n, f) = (c[at[f]] # 0)
    BY ReadingToggle, Zenon
  <2>5. Back(f) = s[f]
    BY <2>1, Zenon
  <2>. HIDE DEF Back
  <2>. QED
    BY <2>2, <2>3, <2>4, <2>5
<1>19. ASSUME NEW f \in Plain \ {"current_music_genre", "music_playback_order"}
       PROVE  Reading(c, at, v, n, f) = Back(f)
  <2>1. c[at[f]] = s[f]
    BY <1>13, Zenon
  <2>2. Back(f) = s[f]
    BY Zenon
  <2>. HIDE DEF Back, n
  <2>3. Reading(c, at, v, n, f) = c[at[f]]
    BY ReadingPlain
  <2>. QED
    BY <2>1, <2>2, <2>3, Zenon
<1>20. ASSUME NEW f \in Fields PROVE Reading(c, at, v, n, f) = Back(f)
  <2>1. \/ f \in {"street_weights", "custom_weights", "difficulty"} \/ f = "time_pressure_custom_seconds"
        \/ f = "display_name_override" \/ f = last \/ f = "current_music_genre" \/ f = "music_playback_order"
        \/ f \in Toggles \ {"confirm_before_leaving_site"}
        \/ f \in Plain \ {"current_music_genre", "music_playback_order"}
    BY KindsAre, Zenon
  <2>. HIDE DEF Back, n
  <2>. QED
    BY <1>11, <1>12, <1>14, <1>15, <1>16, <1>17, <1>18, <1>19, <2>1, Zenon
<1>. QED
  BY <1>10, <1>20, Zenon

\* What one field of choosable settings may hold.
Right(f, x) ==
  /\ f = "street_weights" => x \in [1 .. 4 -> 0 .. 100] /\ Total(x) = 100
  /\ f = "custom_weights" => x \in [1 .. 2 -> 0 .. 100] /\ x[1] + x[2] = 100
  /\ f = "difficulty" => x \in [1 .. 2 -> 0 .. 100] /\ x[1] <= x[2]
  /\ f = "time_pressure_custom_seconds" => x \in 1 .. 300
  /\ f \in {"side_pot_frequency", "volume"} => x \in 0 .. 100
  /\ f \in {"chip_denomination_mode", "default_aggressor_recap_tab", "music_playback_order"} => x \in {0, 1}
  /\ f = "active_theme_id" => x \in 0 .. kThemeIdCount - 1
  /\ f = "current_music_genre" => x \in 0 .. kGenreCount
  /\ f = "display_name_override" => x \in Seq(0 .. 255) /\ Len(x) <= kMaxDisplayNameOverrideLength
  /\ f \in Toggles => x \in BOOLEAN

LEMMA FieldByField ==
  ASSUME NEW s
  PROVE  Choosable(s) <=> s = [f \in Fields |-> s[f]] /\ \A f \in Fields : Right(f, s[f])
<1>1. ASSUME Choosable(s), NEW f \in Fields PROVE Right(f, s[f])
  <2>1. f \in {"street_weights", "custom_weights", "difficulty", "time_pressure_custom_seconds",
               "display_name_override"} \cup Plain => f \notin Toggles
    BY KindsAre
  <2>2. f = "street_weights" => s[f] \in [1 .. 4 -> 0 .. 100] /\ Total(s[f]) = 100
    BY <1>1, Zenon DEF Choosable
  <2>3. f = "custom_weights" => s[f] \in [1 .. 2 -> 0 .. 100] /\ s[f][1] + s[f][2] = 100
    BY <1>1, Zenon DEF Choosable
  <2>4. f = "difficulty" => s[f] \in [1 .. 2 -> 0 .. 100] /\ s[f][1] <= s[f][2]
    BY <1>1, Zenon DEF Choosable
  <2>5. f = "time_pressure_custom_seconds" => s[f] \in 1 .. 300
    <3>1. s["time_pressure_custom_seconds"] \in 1 .. 300
      BY <1>1, Zenon DEF Choosable
    <3>. QED
      BY <3>1
  <2>6. f \in {"side_pot_frequency", "volume"} => s[f] \in 0 .. 100
    BY <1>1, Zenon DEF Choosable
  <2>7. f \in {"chip_denomination_mode", "default_aggressor_recap_tab", "music_playback_order"} => s[f] \in {0, 1}
    BY <1>1, Zenon DEF Choosable
  <2>8. f = "active_theme_id" => s[f] \in 0 .. kThemeIdCount - 1
    BY <1>1, Zenon DEF Choosable
  <2>9. f = "current_music_genre" => s[f] \in 0 .. kGenreCount
    BY <1>1, Zenon DEF Choosable
  <2>10. f = "display_name_override" => s[f] \in Seq(0 .. 255) /\ Len(s[f]) <= kMaxDisplayNameOverrideLength
    BY <1>1, Zenon DEF Choosable
  <2>11. f \in Toggles => s[f] \in BOOLEAN
    BY <1>1, Zenon DEF Choosable
  <2>. QED
    BY <2>2, <2>3, <2>4, <2>5, <2>6, <2>7, <2>8, <2>9, <2>10, <2>11, Zenon DEF Right
<1>2. ASSUME s = [f \in Fields |-> s[f]], \A f \in Fields : Right(f, s[f])
      PROVE  Choosable(s)
  <2>1. /\ "street_weights" \in Fields /\ "custom_weights" \in Fields /\ "difficulty" \in Fields
        /\ "time_pressure_custom_seconds" \in Fields /\ "side_pot_frequency" \in Fields
        /\ "volume" \in Fields /\ "chip_denomination_mode" \in Fields
        /\ "default_aggressor_recap_tab" \in Fields /\ "music_playback_order" \in Fields
        /\ "active_theme_id" \in Fields /\ "current_music_genre" \in Fields
        /\ "display_name_override" \in Fields /\ Toggles \subseteq Fields
    BY FieldsAre, KindsAre
  <2>2. s.street_weights \in [1 .. 4 -> 0 .. 100] /\ Total(s.street_weights) = 100
    BY <1>2, <2>1, Zenon DEF Right
  <2>3. s.custom_weights \in [1 .. 2 -> 0 .. 100] /\ s.custom_weights[1] + s.custom_weights[2] = 100
    BY <1>2, <2>1, Zenon DEF Right
  <2>4. s.difficulty \in [1 .. 2 -> 0 .. 100] /\ s.difficulty[1] <= s.difficulty[2]
    BY <1>2, <2>1, Zenon DEF Right
  <2>5. s.time_pressure_custom_seconds \in 1 .. 300
    <3>1. Right("time_pressure_custom_seconds", s["time_pressure_custom_seconds"])
      BY <1>2, <2>1, Zenon
    <3>. QED
      BY <3>1, SMT DEF Right
  <2>6. s.side_pot_frequency \in 0 .. 100 /\ s.volume \in 0 .. 100
    BY <1>2, <2>1, Zenon DEF Right
  <2>7. /\ s.chip_denomination_mode \in {0, 1} /\ s.default_aggressor_recap_tab \in {0, 1}
        /\ s.music_playback_order \in {0, 1}
    <3>1. \A f \in {"chip_denomination_mode", "default_aggressor_recap_tab", "music_playback_order"} :
            s[f] \in {0, 1}
      BY <1>2, <2>1, ZenonT(40) DEF Right
    <3>. QED
      BY <3>1, Zenon
  <2>8. s.active_theme_id \in 0 .. kThemeIdCount - 1
    BY <1>2, <2>1, Zenon DEF Right
  <2>9. s.current_music_genre \in 0 .. kGenreCount
    BY <1>2, <2>1, Zenon DEF Right
  <2>10. /\ s.display_name_override \in Seq(0 .. 255)
         /\ Len(s.display_name_override) <= kMaxDisplayNameOverrideLength
    BY <1>2, <2>1, Zenon DEF Right
  <2>11. \A f \in Toggles : s[f] \in BOOLEAN
    BY <1>2, <2>1, Zenon DEF Right
  <2>. QED
    BY <1>2, <2>2, <2>3, <2>4, <2>5, <2>6, <2>7, <2>8, <2>9, <2>10, <2>11, Zenon DEF Choosable
<1>3. Choosable(s) => s = [f \in Fields |-> s[f]]
  BY Zenon DEF Choosable
<1>. QED
  BY <1>1, <1>2, <1>3, Zenon

\* Settings are no rejection.
LEMMA NotRejected ==
  ASSUME NEW r, r = [f \in Fields |-> r[f]]
  PROVE  r # Rejected
<1>1. "street_weights" \in Fields
  BY FieldsAre
<1>2. "street_weights" \in DOMAIN r /\ "street_weights" \notin DOMAIN Rejected
  BY <1>1 DEF Rejected
<1>. QED
  BY <1>2

\* What encode_settings writes, decode_settings reads back: every field, the name too.
LEMMA RoundTrip ==
  ASSUME NEW s, Choosable(s)
  PROVE  ReadPersisted(EncodeSettings(s)) = s
<1>. DEFINE b == EncodeSettings(s)
            r == [f \in Fields |-> IF f = "current_music_genre" THEN DecodeGenre(s[f], 2)
                                   ELSE IF f = "music_playback_order" /\ 2 = 1 THEN 0 ELSE s[f]]
<1>1. b.magic = "PTS1" /\ b.version = 2 /\ b.cells = FlattenSeq([i \in 1 .. 30 |-> Bytes(2, s, Layout[i])])
  <2>1. b.cells = FlattenSeq([i \in DOMAIN Layout |-> FieldBytes(s, Layout[i])])
    BY DEF EncodeSettings
  <2>2. \A f : Bytes(2, s, f) = FieldBytes(s, f)
    BY DEF Bytes
  <2>3. [i \in DOMAIN Layout |-> FieldBytes(s, Layout[i])] = [i \in 1 .. 30 |-> Bytes(2, s, Layout[i])]
    BY <2>2, OrderIs
  <2>. QED
    BY <2>1, <2>3 DEF EncodeSettings
<1>2. DecodeSettings(b) = r
  <2>. HIDE DEF b
  <2>. QED
    BY <1>1, Decoded, Zenon
<1>3. DecodeGenre(s["current_music_genre"], 2) = s["current_music_genre"]
  <2>1. s["current_music_genre"] \in 0 .. 4
    BY ChosenFields, Zenon
  <2>. QED
    BY <2>1 DEF DecodeGenre, kGenreCount
<1>4. r = [f \in Fields |-> s[f]]
  BY <1>3
<1>5. s = [f \in Fields |-> s[f]]
  BY ChosenFields, Zenon
<1>6. s # Rejected
  BY <1>5, NotRejected, Zenon
<1>. HIDE DEF b, r
<1>7. DecodeSettings(b) = s
  BY <1>2, <1>4, <1>5, Zenon
<1>. QED
  BY <1>6, <1>7, Zenon DEF ReadPersisted, b

\* A blob of any release reads back as what the player had chosen when it was written.
THEOREM BlobsReadBack ==
  ASSUME NEW b, NEW m, Written(b, m)
  PROVE  ReadPersisted(b) = m
<1>1. Choosable(m)
  BY DEF Written
<1>2. CASE b = EncodeSettings(m)
  BY <1>1, <1>2, RoundTrip
<1>3. CASE b = EncodedBefore(m) /\ m.current_music_genre > 0 /\ m.music_playback_order = 0
  <2>. DEFINE t == [m EXCEPT !.current_music_genre = @ - 1]
              g == "current_music_genre"
              r == [f \in Fields |-> IF f = g THEN DecodeGenre(t[f], 1)
                                     ELSE IF f = "music_playback_order" /\ 1 = 1 THEN 0 ELSE t[f]]
  <2>1. m = [f \in Fields |-> m[f]] /\ m[g] \in 1 .. 4 /\ g \in Fields
    BY <1>1, <1>3, ChosenFields, FieldsAre
  <2>2. t = [f \in Fields |-> t[f]] /\ t[g] = m[g] - 1 /\ \A f \in Fields : f # g => t[f] = m[f]
    BY <2>1
  <2>3. t[g] \in 0 .. kGenreCount
    BY <2>1, <2>2 DEF kGenreCount
  <2>4. \A f \in Fields : Right(f, m[f])
    BY <1>1, FieldByField, Zenon
  <2>. HIDE DEF t
  <2>5. Right(g, t[g])
    BY <2>3, KindsAre DEF Right, Plain
  <2>6. Choosable(t)
    <3>1. \A f \in Fields : Right(f, t[f])
      BY <2>2, <2>4, <2>5, Zenon
    <3>. QED
      BY <2>2, <3>1, FieldByField, Zenon
  <2>7. b.magic = "PTS1" /\ b.version = 1 /\ b.cells = FlattenSeq([i \in 1 .. 30 |-> Bytes(1, t, Layout[i])])
    <3>. DEFINE bytes == [i \in DOMAIN Layout |->
                            IF Layout[i] = "music_playback_order" THEN <<>> ELSE FieldBytes(t, Layout[i])]
    <3>1. b.magic = "PTS1" /\ b.version = 1 /\ b.cells = FlattenSeq(bytes)
      BY <1>3 DEF EncodedBefore, t
    <3>2. bytes = [i \in 1 .. 30 |-> Bytes(1, t, Layout[i])]
      BY OrderIs DEF Bytes
    <3>. HIDE DEF bytes
    <3>. QED
      BY <3>1, <3>2
  <2>8. DecodeSettings(b) = r
    BY <2>6, <2>7, Decoded, Zenon
  <2>9. r = m
    <3>1. DecodeGenre(t[g], 1) = m[g]
      BY <2>1, <2>2 DEF DecodeGenre, kGenreCount
    <3>2. m["music_playback_order"] = 0
      BY <1>3
    <3>3. \A f \in Fields : r[f] = m[f]
      BY <2>2, <3>1, <3>2
    <3>. QED
      BY <2>1, <3>3
  <2>10. m # Rejected
    BY <2>1, NotRejected, Zenon
  <2>. HIDE DEF r
  <2>. QED
    BY <2>8, <2>9, <2>10, Zenon DEF ReadPersisted
<1>4. ASSUME NEW theme \in 0 .. kThemeIdCount - 1, NEW aggressor \in 0 .. 100,
             b = EncodeInterim(theme, <<aggressor, 100 - aggressor>>),
             m = [Defaults EXCEPT !.active_theme_id = theme, !.custom_weights = <<aggressor, 100 - aggressor>>]
      PROVE  ReadPersisted(b) = m
  <2>1. b.magic = "PTS0" /\ b.cells = <<theme, aggressor, 100 - aggressor>>
    BY <1>4 DEF EncodeInterim
  <2>2. DecodeSettings(b) = Rejected
    BY <2>1 DEF DecodeSettings
  <2>3. b.cells[1] = theme /\ b.cells[2] = aggressor /\ b.cells[3] = 100 - aggressor
    BY <2>1
  <2>4. ReadPersisted(b) = [Defaults EXCEPT !.active_theme_id = b.cells[1], !.custom_weights = <<b.cells[2], b.cells[3]>>]
    BY <2>1, <2>2, Zenon DEF ReadPersisted
  <2>. QED
    BY <1>4, <2>3, <2>4
<1>5. CASE b = NoBlob /\ m = Defaults
  <2>1. b.magic = "none"
    BY <1>5 DEF NoBlob
  <2>2. DecodeSettings(b) = Rejected
    BY <2>1 DEF DecodeSettings
  <2>. QED
    BY <1>5, <2>1, <2>2 DEF ReadPersisted
<1>. QED
  BY <1>2, <1>3, <1>4, <1>5 DEF Written

(* -------------------------- the live settings ---------------------------- *)

LEMMA DefaultsChoosable == Choosable(Defaults)
<1>1. Defaults = [f \in Fields |-> Defaults[f]]
  <2>1. DOMAIN Defaults = Fields
    BY FieldsAre DEF Defaults
  <2>2. Defaults = [f \in DOMAIN Defaults |-> Defaults[f]]
    BY DEF Defaults
  <2>. QED
    BY <2>1, <2>2
<1>2. ASSUME NEW f \in Toggles PROVE Defaults[f] \in BOOLEAN
  <2>1. f \in {"bet_sizing_engine_enabled", "time_pressure_custom_enabled", "delta_timer_enabled",
               "show_hud", "show_countdown", "cash_mode", "reduce_motion",
               "background_atmospheric_movement", "particle_drift", "hover_tilt", "mute_all",
               "mute_sfx", "mute_music", "dealer_arrival_animation", "transitions_enabled",
               "shop_button_visible", "leaderboard_opt_in", "confirm_before_leaving_site"}
    BY FieldsAre, Zenon DEF Toggles
  <2>2. /\ Defaults.bet_sizing_engine_enabled \in BOOLEAN /\ Defaults.time_pressure_custom_enabled \in BOOLEAN
        /\ Defaults.delta_timer_enabled \in BOOLEAN /\ Defaults.show_hud \in BOOLEAN
        /\ Defaults.show_countdown \in BOOLEAN /\ Defaults.cash_mode \in BOOLEAN
        /\ Defaults.reduce_motion \in BOOLEAN /\ Defaults.background_atmospheric_movement \in BOOLEAN
        /\ Defaults.particle_drift \in BOOLEAN /\ Defaults.hover_tilt \in BOOLEAN
        /\ Defaults.mute_all \in BOOLEAN /\ Defaults.mute_sfx \in BOOLEAN
        /\ Defaults.mute_music \in BOOLEAN /\ Defaults.dealer_arrival_animation \in BOOLEAN
        /\ Defaults.transitions_enabled \in BOOLEAN /\ Defaults.shop_button_visible \in BOOLEAN
        /\ Defaults.leaderboard_opt_in \in BOOLEAN /\ Defaults.confirm_before_leaving_site \in BOOLEAN
    BY DEF Defaults
  <2>. QED
    BY <2>1, <2>2, Zenon
<1>3. Defaults.street_weights = <<15, 35, 30, 20>> /\ Defaults.custom_weights = <<50, 50>> /\ Defaults.difficulty = <<20, 80>>
  BY DEF Defaults
<1>4. /\ <<15, 35, 30, 20>> \in [1 .. 4 -> 0 .. 100] /\ Total(<<15, 35, 30, 20>>) = 100
      /\ <<50, 50>> \in [1 .. 2 -> 0 .. 100] /\ <<20, 80>> \in [1 .. 2 -> 0 .. 100]
      /\ <<50, 50>>[1] + <<50, 50>>[2] = 100 /\ <<20, 80>>[1] <= <<20, 80>>[2]
  BY DEF Total
<1>5. /\ Defaults.time_pressure_custom_seconds = 30 /\ Defaults.side_pot_frequency = 10 /\ Defaults.volume = 50
      /\ Defaults.chip_denomination_mode = 0 /\ Defaults.default_aggressor_recap_tab = 0
      /\ Defaults.active_theme_id = 0 /\ Defaults.current_music_genre = 0 /\ Defaults.music_playback_order = 0
      /\ Defaults.display_name_override = <<>>
  BY DEF Defaults
<1>6. <<>> \in Seq(0 .. 255) /\ Len(<<>>) = 0
  OBVIOUS
<1>7. /\ Defaults.street_weights \in [1 .. 4 -> 0 .. 100] /\ Total(Defaults.street_weights) = 100
      /\ Defaults.custom_weights \in [1 .. 2 -> 0 .. 100]
      /\ Defaults.custom_weights[1] + Defaults.custom_weights[2] = 100
      /\ Defaults.difficulty \in [1 .. 2 -> 0 .. 100] /\ Defaults.difficulty[1] <= Defaults.difficulty[2]
  BY <1>3, <1>4, ZenonT(30)
<1>8. /\ Defaults.time_pressure_custom_seconds \in 1 .. 300
      /\ Defaults.side_pot_frequency \in 0 .. 100 /\ Defaults.volume \in 0 .. 100
      /\ Defaults.chip_denomination_mode \in {0, 1} /\ Defaults.default_aggressor_recap_tab \in {0, 1}
      /\ Defaults.active_theme_id \in 0 .. kThemeIdCount - 1
      /\ Defaults.current_music_genre \in 0 .. kGenreCount /\ Defaults.music_playback_order \in {0, 1}
  BY <1>5 DEF kThemeIdCount, kGenreCount
<1>9. /\ Defaults.display_name_override \in Seq(0 .. 255)
      /\ Len(Defaults.display_name_override) <= kMaxDisplayNameOverrideLength
  BY <1>5, <1>6 DEF kMaxDisplayNameOverrideLength
<1>. QED
  BY <1>1, <1>2, <1>7, <1>8, <1>9, Zenon DEF Choosable

LEMMA Changed ==
  ASSUME NEW s, Choosable(s), NEW f \in Fields, NEW v, Right(f, v)
  PROVE  LET t == [s EXCEPT ![f] = v]
         IN  Choosable(t) /\ t[f] = v /\ \A g \in Fields : g # f => t[g] = s[g]
<1>. DEFINE t == [s EXCEPT ![f] = v]
<1>1. s = [g \in Fields |-> s[g]] /\ \A g \in Fields : Right(g, s[g])
  BY FieldByField, Zenon
<1>2. t = [g \in Fields |-> t[g]] /\ t[f] = v /\ \A g \in Fields : g # f => t[g] = s[g]
  BY <1>1
<1>. HIDE DEF t
<1>3. \A g \in Fields : Right(g, t[g])
  BY <1>1, <1>2, Zenon
<1>. QED
  BY <1>2, <1>3, FieldByField, Zenon DEF t

\* Settings of the same audio section sound the same.
LEMMA SameAudio ==
  ASSUME NEW s, NEW t, \A g \in Fields : SectionOf[g] = "Audio" => t[g] = s[g]
  PROVE  ApplyAudio(t) = ApplyAudio(s)
<1>1. \A g \in {"volume", "current_music_genre", "music_playback_order", "mute_all", "mute_sfx", "mute_music"} :
        g \in Fields /\ SectionOf[g] = "Audio"
  BY DEF Fields, SectionOf
<1>2. /\ t.volume = s.volume /\ t.current_music_genre = s.current_music_genre
      /\ t.music_playback_order = s.music_playback_order
      /\ t.mute_all = s.mute_all /\ t.mute_sfx = s.mute_sfx /\ t.mute_music = s.mute_music
  BY <1>1
<1>. QED
  BY <1>2 DEF ApplyAudio

LEMMA Clamped ==
  ASSUME NEW v \in Int
  PROVE  ClampInt(v, 0, 100) \in 0 .. 100 /\ ClampInt(v, 1, 300) \in 1 .. 300
  BY DEF ClampInt

(* The invariant: the live settings are in range; the profile, the row and   *)
(* the queued snapshot read back in range and as what was chosen when they   *)
(* were written; live differs from the profile only where it drifted; and    *)
(* until a profile is replaced behind live, only the split drifts or is lost.*)
Means(b, m, r) ==
  /\ Choosable(ReadPersisted(b))
  /\ DOMAIN m \subseteq Fields
  /\ \A f \in DOMAIN m : ReadPersisted(b)[f] = m[f]
  /\ ~r => Fields \ DOMAIN m \subseteq {"custom_weights"}

Copies ==
  /\ row # NoRow => Means(row.blob, row.meant, replaced)
  /\ queued # NoSnapshot => Means(queued.blob, queued.meant, replaced)

Kept ==
  /\ Choosable(live)
  /\ Means(blob, chosen, replaced)
  /\ Copies
  /\ \A f \in Fields \ drift : live[f] = ReadPersisted(blob)[f]
  /\ ~replaced => drift \subseteq {"custom_weights"}

Staged ==
  /\ staged \in Weights /\ Total(staged) = 100
  /\ weights \in [1 .. 2 -> 0 .. 100] /\ weights[1] + weights[2] = 100

\* What was written for a choice means it.
LEMMA WrittenMeans ==
  ASSUME NEW b, NEW m, Written(b, m), NEW r
  PROVE  Means(b, m, r) /\ ReadPersisted(b) = m
<1>1. ReadPersisted(b) = m
  BY BlobsReadBack
<1>2. Choosable(m)
  BY Zenon DEF Written
<1>3. m = [f \in Fields |-> m[f]]
  BY <1>2, FieldByField, Zenon
<1>4. DOMAIN m = Fields
  BY <1>3
<1>. QED
  BY <1>1, <1>2, <1>4 DEF Means

\* The persist seam and its bookkeeping keep everything: the profile reads back
\* as what is live, and no choice is lost but those of drifted fields.
LEMMA Persisted ==
  ASSUME Kept, NEW s, Choosable(s), NEW set \in SUBSET Fields, \A f \in Fields \ set : s[f] = live[f],
         Chose(s, set), Persist(s), row' = row
  PROVE  Kept' /\ live' = s
<1>. DEFINE kept == {f \in DOMAIN chosen : f \in drift => s[f] = chosen[f]}
<1>1. /\ live' = s /\ blob' = EncodeSettings(s) /\ drift' = {} /\ replaced' = replaced
      /\ chosen' = [f \in set \cup kept |-> IF f \in set THEN s[f] ELSE chosen[f]]
  BY DEF Persist, Chose
<1>2. ReadPersisted(blob') = s
  BY <1>1, RoundTrip
<1>3. DOMAIN chosen' = set \cup kept /\ kept \subseteq Fields
  BY <1>1 DEF Kept, Means
<1>4. ASSUME NEW f \in set \cup kept
      PROVE  s[f] = chosen'[f]
  <2>1. CASE f \in set
    BY <1>1, <2>1
  <2>2. CASE f \notin set
    <3>1. f \in kept /\ f \in DOMAIN chosen /\ f \in Fields /\ s[f] = live[f] /\ chosen'[f] = chosen[f]
      BY <1>1, <1>3, <1>4, <2>2
    <3>2. CASE f \in drift
      BY <3>1, <3>2
    <3>3. CASE f \notin drift
      BY <3>1, <3>3 DEF Kept, Means
    <3>. QED
      BY <3>2, <3>3
  <2>. QED
    BY <2>1, <2>2
<1>5. ~replaced' => Fields \ DOMAIN chosen' \subseteq {"custom_weights"}
  BY <1>1, <1>3 DEF Kept, Means
<1>6. Means(blob', chosen', replaced')
  BY <1>2, <1>3, <1>4, <1>5 DEF Means
<1>7. Copies'
  <2>1. row' # NoRow => Means(row'.blob, row'.meant, replaced')
    BY <1>1 DEF Kept, Copies
  <2>2. queued' # NoSnapshot => Means(queued'.blob, queued'.meant, replaced')
    <3>1. CASE account = "open"
      <4>1. queued' = [blob |-> blob', meant |-> chosen']
        BY <3>1 DEF Persist
      <4>2. queued'.blob = blob' /\ queued'.meant = chosen'
        BY <4>1
      <4>. QED
        BY <1>6, <4>2
    <3>2. CASE account # "open"
      <4>1. queued' = queued
        BY <3>2 DEF Persist
      <4>. QED
        BY <1>1, <4>1 DEF Kept, Copies
    <3>. QED
      BY <3>1, <3>2
  <2>. QED
    BY <2>1, <2>2 DEF Copies
<1>. QED
  BY <1>1, <1>2, <1>6, <1>7 DEF Kept

\* A profile that reads back as what was chosen becomes the live settings.
LEMMA Surfaced ==
  ASSUME Surface(blob'), Means(blob', chosen', replaced'), Copies'
  PROVE  Kept' /\ ShownIsLive'
<1>1. live' = ReadPersisted(blob') /\ drift' = {}
  BY DEF Surface
<1>. QED
  BY <1>1 DEF Surface, Kept, ShownIsLive, Means

LEMMA NoBlobMeans ==
  ASSUME NEW r
  PROVE  Means(NoBlob, Defaults, r) /\ ReadPersisted(NoBlob) = Defaults
<1>1. Written(NoBlob, Defaults)
  BY DefaultsChoosable DEF Written
<1>. QED
  BY <1>1, WrittenMeans

\* What a session start makes of the profile and of the row, a profile replaced
\* behind live or not.
LEMMA SessionStart ==
  ASSUME Kept, NEW opted, Reconciled(opted) \/ NotReached \/ UNCHANGED <<blob, chosen, row>>,
         replaced' \in {replaced, TRUE}
  PROVE  /\ Means(blob', chosen', replaced')
         /\ row' # NoRow => Means(row'.blob, row'.meant, replaced')
<1>1. CASE NotReached \/ UNCHANGED <<blob, chosen, row>>
  BY <1>1 DEF NotReached, Kept, Copies, Means
<1>2. CASE Reconciled(opted)
  <2>1. CASE Adopted
    BY <2>1 DEF Adopted, Kept, Copies, Means
  <2>2. CASE Seeded(opted)
    <3>1. row' = SeedRow(opted) /\ blob' = blob /\ chosen' = chosen
      BY <2>2 DEF Seeded
    <3>2. row'.blob = NoBlob /\ row'.meant = Defaults
      BY <3>1 DEF SeedRow
    <3>3. Means(blob', chosen', replaced')
      BY <3>1 DEF Kept, Means
    <3>. QED
      BY <3>2, <3>3, NoBlobMeans
  <2>. QED
    BY <1>2, <2>1, <2>2 DEF Reconciled
<1>. QED
  BY <1>1, <1>2

\* A weight that was typed, dragged to, or stepped to is a number.
LEMMA EnteredIsANumber ==
  ASSUME NEW v \in Int, NEW x \in Entered(v)
  PROVE  x \in Int
  BY TypedAssumption DEF Entered

LEMMA PickedIsAnOption ==
  ASSUME NEW n \in Nat, n > 0, NEW v \in 0 .. n - 1, NEW x \in Picked(v, n)
  PROVE  x \in 0 .. n - 1
  BY DEF Picked, ClampInt

\* A row of Settings that sets a field within its range keeps everything.
LEMMA FieldSet ==
  ASSUME Kept, ShownIsLive, Staged, NEW f \in Fields, NEW v, Right(f, v), OnSettingChange(f, v)
  PROVE  Kept' /\ ShownIsLive' /\ Staged'
<1>. DEFINE t == [live EXCEPT ![f] = v]
<1>1. Choosable(t) /\ t[f] = v /\ \A g \in Fields : g # f => t[g] = live[g]
  BY Changed DEF Kept
<1>2. /\ Persist(t) /\ Chose(t, {f}) /\ row' = row /\ staged' = staged /\ weights' = weights
      /\ shown' = (IF f = "active_theme_id" THEN v ELSE shown)
      /\ heard' = IF SectionOf[f] = "Audio" THEN ApplyAudio(live') ELSE heard
  BY DEF OnSettingChange
<1>. HIDE DEF t
<1>3. Kept' /\ live' = t
  BY <1>1, <1>2, Persisted
<1>4. shown' = live'.active_theme_id
  <2>1. "active_theme_id" \in Fields
    BY FieldsAre
  <2>. QED
    BY <1>1, <1>2, <1>3, <2>1 DEF ShownIsLive
<1>5. heard' = ApplyAudio(live')
  <2>1. SectionOf[f] # "Audio" => ApplyAudio(t) = ApplyAudio(live)
    BY <1>1, SameAudio
  <2>. QED
    BY <1>2, <1>3, <2>1 DEF ShownIsLive
<1>6. stash' = live'.leaderboard_opt_in
  BY <1>2, <1>3 DEF Persist
<1>7. Staged'
  BY <1>2 DEF Staged
<1>. QED
  BY <1>3, <1>4, <1>5, <1>6, <1>7 DEF ShownIsLive

\* A reset of sections keeps everything.
LEMMA SectionsReset ==
  ASSUME Kept, ShownIsLive, Staged, ResetSections
  PROVE  Kept' /\ ShownIsLive' /\ Staged'
<1>. PICK selected \in Selections :
       /\ Persist(ResetOf(selected)) /\ Chose(ResetOf(selected), FieldsOf(selected))
       /\ staged' = (IF "Gameplay" \in selected THEN live'.street_weights ELSE staged)
       /\ shown' = (IF "Display" \in selected THEN live'.active_theme_id ELSE shown)
       /\ heard' = (IF "Audio" \in selected THEN ApplyAudio(live') ELSE heard)
       /\ row' = row /\ weights' = weights
  BY DEF ResetSections
<1>. DEFINE t == ResetOf(selected)
<1>1. t = [f \in Fields |-> t[f]] /\ \A f \in Fields : t[f] = IF SectionOf[f] \in selected THEN Defaults[f] ELSE live[f]
  BY DEF ResetOf, FieldsOf
<1>0. FieldsOf(selected) \in SUBSET Fields /\ \A f \in Fields \ FieldsOf(selected) : t[f] = live[f]
  BY DEF ResetOf, FieldsOf
<1>. HIDE DEF t
<1>2. Choosable(t)
  <2>1. \A f \in Fields : Right(f, Defaults[f]) /\ Right(f, live[f])
    BY DefaultsChoosable, FieldByField, Zenon DEF Kept
  <2>2. \A f \in Fields : Right(f, t[f])
    BY <1>1, <2>1, Zenon
  <2>. QED
    BY <1>1, <2>2, FieldByField, Zenon
<1>3. Kept' /\ live' = t
  BY <1>0, <1>2, Persisted DEF t
<1>4. /\ "active_theme_id" \in Fields /\ SectionOf["active_theme_id"] = "Display"
  BY DEF Fields, SectionOf
<1>5. shown' = live'.active_theme_id
  BY <1>1, <1>3, <1>4 DEF ShownIsLive
<1>6. heard' = ApplyAudio(live')
  <2>1. "Audio" \notin selected => ApplyAudio(t) = ApplyAudio(live)
    BY <1>1, SameAudio
  <2>. QED
    BY <1>3, <2>1 DEF ShownIsLive
<1>7. stash' = live'.leaderboard_opt_in
  BY <1>3 DEF Persist, t
<1>8. Staged'
  <2>1. live'.street_weights \in Weights /\ Total(live'.street_weights) = 100
    BY <1>2, <1>3, Zenon DEF Choosable, Weights
  <2>. QED
    BY <2>1 DEF Staged
<1>. QED
  BY <1>3, <1>5, <1>6, <1>7, <1>8 DEF ShownIsLive

\* The first boot.
LEMMA InitKept ==
  ASSUME Init
  PROVE  Kept /\ ShownIsLive /\ Staged
<1>. PICK start \in Starts : blob = start.profile.blob /\ chosen = start.profile.meant /\ row = start.row
  BY DEF Init
<1>1. Written(blob, chosen) /\ (row = NoRow \/ Written(row.blob, row.meant))
  BY StartsAssumption
<1>2. live = ReadPersisted(blob) /\ drift = {} /\ queued = NoSnapshot
  BY DEF Init
<1>3. Means(blob, chosen, replaced)
  BY <1>1, WrittenMeans
<1>4. row # NoRow => Means(row.blob, row.meant, replaced)
  BY <1>1, WrittenMeans
<1>5. Kept
  BY <1>2, <1>3, <1>4 DEF Kept, Copies, Means
<1>6. ShownIsLive
  BY DEF Init, ShownIsLive
<1>8. Staged
  <2>1. staged = <<15, 35, 30, 20>> /\ weights = <<50, 50>>
    BY DEF Init
  <2>2. <<15, 35, 30, 20>> \in [1 .. 4 -> 0 .. 100] /\ Total(<<15, 35, 30, 20>>) = 100
    BY DEF Total
  <2>3. <<50, 50>> \in [1 .. 2 -> 0 .. 100] /\ <<50, 50>>[1] + <<50, 50>>[2] = 100
    OBVIOUS
  <2>. QED
    BY <2>1, <2>2, <2>3, Zenon DEF Staged, Weights
<1>. QED
  BY <1>5, <1>6, <1>8

\* What the staged weights and the popup are filled from shares out 100.
LEMMA FilledFrom ==
  ASSUME NEW s, Choosable(s)
  PROVE  /\ s.street_weights \in Weights /\ Total(s.street_weights) = 100
         /\ s.custom_weights \in [1 .. 2 -> 0 .. 100] /\ s.custom_weights[1] + s.custom_weights[2] = 100
  BY Zenon DEF Choosable, Weights

\* No step breaks the invariant.
LEMMA StepKept ==
  ASSUME Kept, ShownIsLive, Staged, [Next]_vars
  PROVE  Kept' /\ ShownIsLive' /\ Staged'
<1>. DEFINE stored == ReadPersisted(blob)
<1>0. /\ Choosable(live) /\ Choosable(stored)
      /\ live = [f \in Fields |-> live[f]] /\ \A f \in Fields : Right(f, live[f])
  BY FieldByField, Zenon DEF Kept, Means
<1>. HIDE DEF stored
<1>1. CASE OpenSettings
  <2>1. live.street_weights \in Weights /\ Total(live.street_weights) = 100
    BY <1>0, FilledFrom
  <2>. QED
    BY <1>1, <2>1 DEF OpenSettings, Kept, Copies, ShownIsLive, Staged
<1>2. CASE ClosePanel
  <2>1. /\ Defaults.street_weights \in Weights /\ Total(Defaults.street_weights) = 100
        /\ Defaults.custom_weights \in [1 .. 2 -> 0 .. 100]
        /\ Defaults.custom_weights[1] + Defaults.custom_weights[2] = 100
    BY DefaultsChoosable, FilledFrom
  <2>. QED
    BY <1>2, <2>1 DEF ClosePanel, Discarded, Kept, Copies, ShownIsLive, Staged
<1>3. CASE ToggleSetting
  <2>. DEFINE V(f) == IF f = "chip_denomination_mode" THEN 1 - live[f] ELSE ~live[f]
  <2>1. PICK f \in Edited \cap Checkboxes : OnSettingChange(f, V(f))
    BY <1>3 DEF ToggleSetting, SetField
  <2>2. f \in Fields /\ (f \in Toggles \/ f = "chip_denomination_mode")
    BY KindsAre DEF Checkboxes, Plain
  <2>3. Right(f, V(f))
    <3>1. CASE f = "chip_denomination_mode"
      <4>1. live[f] \in {0, 1}
        BY <1>0, <2>2, <3>1 DEF Right
      <4>2. V(f) \in {0, 1}
        BY <3>1, <4>1
      <4>3. f \notin Toggles
        BY <3>1, KindsAre DEF Plain
      <4>. HIDE DEF V
      <4>. QED
        BY <3>1, <4>2, <4>3 DEF Right
    <3>2. CASE f # "chip_denomination_mode"
      <4>1. V(f) \in BOOLEAN
        BY <3>2
      <4>2. f \in Toggles /\ f \notin Plain
        BY <2>2, <3>2, KindsAre DEF Plain
      <4>. HIDE DEF V
      <4>. QED
        BY <4>1, <4>2, KindsAre DEF Right, Plain
    <3>. QED
      BY <3>1, <3>2
  <2>. HIDE DEF V
  <2>. QED
    BY <2>1, <2>2, <2>3, FieldSet
<1>4. CASE SetVolume
  <2>1. PICK v \in Entered(live.volume) : OnSettingChange("volume", ClampInt(v, 0, 100))
    BY <1>4 DEF SetVolume, SetField
  <2>2. live.volume \in Int
    BY <1>0, ChosenFields DEF Plain
  <2>3. ClampInt(v, 0, 100) \in 0 .. 100
    <3>1. v \in Int
      BY <2>2, EnteredIsANumber
    <3>. QED
      BY <3>1, Clamped
  <2>4. "volume" \in Fields /\ Right("volume", ClampInt(v, 0, 100))
    BY <2>3, KindsAre DEF Right, Plain
  <2>. QED
    BY <2>1, <2>4, FieldSet
<1>5. CASE SetCustomTime
  <2>1. PICK v \in Entered(live.time_pressure_custom_seconds) :
          OnSettingChange("time_pressure_custom_seconds", ClampInt(v, 1, 300))
    BY <1>5 DEF SetCustomTime, SetField
  <2>2. live.time_pressure_custom_seconds \in Int
    <3>1. live.time_pressure_custom_seconds \in 1 .. 300
      BY <1>0, Zenon DEF Choosable
    <3>. QED
      BY <3>1
  <2>3. ClampInt(v, 1, 300) \in 1 .. 300
    <3>1. v \in Int
      BY <2>2, EnteredIsANumber
    <3>. QED
      BY <3>1, Clamped
  <2>4. "time_pressure_custom_seconds" \in Fields
        /\ Right("time_pressure_custom_seconds", ClampInt(v, 1, 300))
    BY <2>3, KindsAre DEF Right, Plain
  <2>. QED
    BY <2>1, <2>4, FieldSet
<1>6. CASE SetTheme
  <2>1. PICK v \in Picked(live.active_theme_id, kThemeIdCount) : OnSettingChange("active_theme_id", v)
    BY <1>6 DEF SetTheme, SetField
  <2>2. live.active_theme_id \in 0 .. kThemeIdCount - 1
    BY <1>0, Zenon DEF Choosable
  <2>3. v \in 0 .. kThemeIdCount - 1
    BY <2>2, PickedIsAnOption DEF kThemeIdCount
  <2>4. "active_theme_id" \in Fields /\ Right("active_theme_id", v)
    BY <2>3, KindsAre DEF Right, Plain
  <2>. QED
    BY <2>1, <2>4, FieldSet
<1>7. CASE SetMusicGenre
  <2>1. PICK v \in Picked(live.current_music_genre, kGenreCount + 1) : OnSettingChange("current_music_genre", v)
    BY <1>7 DEF SetMusicGenre, SetField
  <2>2. live.current_music_genre \in 0 .. kGenreCount
    BY <1>0, Zenon DEF Choosable
  <2>3. v \in 0 .. kGenreCount
    BY <2>2, PickedIsAnOption DEF kGenreCount
  <2>4. "current_music_genre" \in Fields /\ Right("current_music_genre", v)
    BY <2>3, KindsAre DEF Right, Plain
  <2>. QED
    BY <2>1, <2>4, FieldSet
<1>8. CASE SetOneOfTwo
  <2>1. PICK f \in {"music_playback_order", "default_aggressor_recap_tab"} :
          \E i \in {0, 1, live[f] - 1, live[f] + 1} : OnSettingChange(f, IF i = 1 THEN 1 ELSE 0)
    BY <1>8 DEF SetOneOfTwo, SetField
  <2>. PICK i \in {0, 1, live[f] - 1, live[f] + 1} : OnSettingChange(f, IF i = 1 THEN 1 ELSE 0)
    BY <2>1
  <2>. DEFINE v == IF i = 1 THEN 1 ELSE 0
  <2>2. v \in {0, 1}
    OBVIOUS
  <2>. HIDE DEF v
  <2>3. f \in Fields /\ Right(f, v)
    BY <2>2, KindsAre DEF Right, Plain
  <2>. QED
    BY <2>3, FieldSet DEF v
<1>9. CASE EnableOptIn
  <2>1. OnSettingChange("leaderboard_opt_in", TRUE)
    BY <1>9 DEF EnableOptIn
  <2>2. "leaderboard_opt_in" \in Fields /\ Right("leaderboard_opt_in", TRUE)
    BY FieldsAre DEF Right
  <2>. QED
    BY <2>1, <2>2, FieldSet
<1>10. CASE StreetTouch
  <2>0. PICK i \in 1 .. 4 : \E v \in Entered(staged[i]) : staged' = RedistributeStreetWeights(staged, i, v)
    BY <1>10 DEF StreetTouch
  <2>1. PICK v \in Entered(staged[i]) : staged' = RedistributeStreetWeights(staged, i, v)
    BY <2>0
  <2>2. staged \in Weights /\ Total(staged) = 100 /\ staged[i] \in Int
    BY DEF Staged, Weights
  <2>3. v \in Int
    BY <2>2, EnteredIsANumber
  <2>4. staged' \in Weights /\ Total(staged') = 100
    BY <2>1, <2>2, <2>3, WeightsShareOutAHundred
  <2>. QED
    BY <1>10, <2>4 DEF StreetTouch, Kept, Copies, ShownIsLive, Staged
<1>11. CASE StreetSave
  <2>. DEFINE t == [live EXCEPT !.street_weights = staged]
  <2>1. Persist(t) /\ Chose(t, {"street_weights"}) /\ UNCHANGED <<row, account, shown, heard, panel, staged, weights>>
    BY <1>11 DEF StreetSave
  <2>2. "street_weights" \in Fields /\ Right("street_weights", staged)
    BY KindsAre DEF Right, Plain, Staged, Weights
  <2>3. Choosable(t) /\ \A g \in Fields : g # "street_weights" => t[g] = live[g]
    BY <1>0, <2>2, Changed, Zenon
  <2>. HIDE DEF t
  <2>4. Kept' /\ live' = t
    BY <2>1, <2>2, <2>3, Persisted
  <2>5. "active_theme_id" \in Fields /\ SectionOf["street_weights"] = "Gameplay"
    BY DEF Fields, SectionOf
  <2>6. ApplyAudio(t) = ApplyAudio(live)
    BY <2>3, <2>5, SameAudio
  <2>7. ShownIsLive'
    BY <2>1, <2>3, <2>4, <2>5, <2>6 DEF ShownIsLive, Persist
  <2>. QED
    BY <2>1, <2>4, <2>7 DEF Staged
<1>12. CASE StreetReset
  <2>1. live.street_weights \in Weights /\ Total(live.street_weights) = 100
    BY <1>0, FilledFrom
  <2>. QED
    BY <1>12, <2>1 DEF StreetReset, Kept, Copies, ShownIsLive, Staged
<1>13. CASE ResetSections
  BY <1>13, SectionsReset
<1>14. CASE ResetAll
  <2>1. /\ Persist(Defaults) /\ Chose(Defaults, Fields) /\ row' = row
        /\ staged' = Defaults.street_weights /\ weights' = weights
        /\ shown' = Defaults.active_theme_id /\ heard' = ApplyAudio(Defaults)
    BY <1>14 DEF ResetAll
  <2>2. Kept' /\ live' = Defaults
    BY <2>1, DefaultsChoosable, Persisted
  <2>3. Defaults.street_weights \in Weights /\ Total(Defaults.street_weights) = 100
    BY DefaultsChoosable, FilledFrom
  <2>. QED
    BY <2>1, <2>2, <2>3 DEF Persist, ShownIsLive, Staged
<1>15. CASE OpenPopup
  <2>1. weights' = stored.custom_weights
    BY <1>15 DEF OpenPopup, SavedSplit, stored
  <2>2. stored.custom_weights \in [1 .. 2 -> 0 .. 100]
        /\ stored.custom_weights[1] + stored.custom_weights[2] = 100
    BY <1>0, FilledFrom
  <2>. QED
    BY <1>15, <2>1, <2>2 DEF OpenPopup, Kept, Copies, ShownIsLive, Staged
<1>16. CASE PopupEdit
  <2>0. PICK side \in {1, 2} : \E v \in Entered(weights[side]) : weights' = SolveFrom(side, v)
    BY <1>16 DEF PopupEdit
  <2>1. PICK v \in Entered(weights[side]) : weights' = SolveFrom(side, v)
    BY <2>0
  <2>2. v \in Int
    <3>1. weights[side] \in Int
      BY DEF Staged
    <3>. QED
      BY <3>1, EnteredIsANumber
  <2>. DEFINE held == ClampInt(v, 0, 100)
  <2>3. held \in 0 .. 100
    BY <2>2, Clamped
  <2>. HIDE DEF held
  <2>4. weights' = [i \in 1 .. 2 |-> IF i = side THEN held ELSE 100 - held]
    BY <2>1 DEF SolveFrom, held
  <2>5. weights' \in [1 .. 2 -> 0 .. 100] /\ weights'[1] + weights'[2] = 100
    <3>1. side = 1 \/ side = 2
      OBVIOUS
    <3>2. 100 - held \in 0 .. 100
      BY <2>3
    <3>3. weights'[1] + weights'[2] = 100
      BY <2>3, <2>4, <3>1
    <3>. QED
      BY <2>3, <2>4, <3>2, <3>3
  <2>. QED
    BY <1>16, <2>5 DEF PopupEdit, Kept, Copies, ShownIsLive, Staged
<1>17. CASE PopupSave
  <2>. DEFINE t == [stored EXCEPT !.custom_weights = weights]
              set == DOMAIN chosen \cup {"custom_weights"}
  <2>1. /\ blob' = EncodeSettings(t) /\ drift' = drift \cup {"custom_weights"}
        /\ chosen' = [f \in set |-> IF f = "custom_weights" THEN weights ELSE chosen[f]]
        /\ UNCHANGED <<replaced, live, row, account, queued, stash, shown, heard, panel, staged, weights>>
    BY <1>17 DEF PopupSave, SavedOver, stored
  <2>2. "custom_weights" \in Fields /\ Right("custom_weights", weights)
    BY KindsAre DEF Right, Plain, Staged
  <2>3. Choosable(t) /\ t["custom_weights"] = weights
        /\ \A g \in Fields : g # "custom_weights" => t[g] = stored[g]
    <3>. DEFINE f == "custom_weights"
                c == stored
                w == weights
    <3>1. Choosable(c) /\ f \in Fields /\ Right(f, w)
      BY <1>0, <2>2
    <3>. HIDE DEF f, c, w
    <3>2. /\ Choosable([c EXCEPT ![f] = w]) /\ [c EXCEPT ![f] = w][f] = w
          /\ \A g \in Fields : g # f => [c EXCEPT ![f] = w][g] = c[g]
      BY <3>1, Changed
    <3>. QED
      BY <3>2, Zenon DEF f, c, w
  <2>. HIDE DEF t
  <2>4. ReadPersisted(blob') = t
    BY <2>1, <2>3, RoundTrip
  <2>5. DOMAIN chosen' = set /\ set \subseteq Fields
    BY <2>1, <2>2 DEF Kept, Means
  <2>6. ASSUME NEW f \in set
        PROVE  t[f] = chosen'[f]
    BY <2>1, <2>3, <2>5 DEF Kept, Means, stored
  <2>7. Means(blob', chosen', replaced')
    BY <2>1, <2>3, <2>4, <2>5, <2>6 DEF Kept, Means
  <2>8. Kept'
    BY <2>1, <2>3, <2>4, <2>7 DEF Kept, Copies, stored
  <2>. QED
    BY <2>1, <2>8 DEF ShownIsLive, Staged
<1>18. CASE PopupReset
  <2>1. weights' = stored.custom_weights
    BY <1>18 DEF PopupReset, SavedSplit, stored
  <2>2. stored.custom_weights \in [1 .. 2 -> 0 .. 100]
        /\ stored.custom_weights[1] + stored.custom_weights[2] = 100
    BY <1>0, FilledFrom
  <2>. QED
    BY <1>18, <2>1, <2>2 DEF PopupReset, Kept, Copies, ShownIsLive, Staged
<1>19. CASE Boot
  <2>1. /\ Reconciled(FALSE) \/ NotReached \/ UNCHANGED <<blob, chosen, row>>
        /\ Surface(blob') /\ Discarded /\ queued' = NoSnapshot /\ replaced' = replaced
    BY <1>19 DEF Boot
  <2>2. /\ Means(blob', chosen', replaced')
        /\ row' # NoRow => Means(row'.blob, row'.meant, replaced')
    BY <2>1, SessionStart
  <2>3. Copies'
    BY <2>1, <2>2 DEF Kept, Copies
  <2>5. Kept' /\ ShownIsLive'
    BY <2>1, <2>2, <2>3, Surfaced
  <2>4. /\ Defaults.street_weights \in Weights /\ Total(Defaults.street_weights) = 100
        /\ Defaults.custom_weights \in [1 .. 2 -> 0 .. 100]
        /\ Defaults.custom_weights[1] + Defaults.custom_weights[2] = 100
    BY DefaultsChoosable, FilledFrom
  <2>. QED
    BY <2>1, <2>4, <2>5 DEF Discarded, Staged
<1>20. CASE SignIn
  <2>1. /\ Reconciled(stash) \/ NotReached
        /\ Surface(blob') /\ weights' = weights /\ queued' = queued /\ replaced' = replaced
        /\ staged' = IF panel = "settings" THEN live'.street_weights ELSE staged
    BY <1>20 DEF SignIn
  <2>2. /\ Means(blob', chosen', replaced')
        /\ row' # NoRow => Means(row'.blob, row'.meant, replaced')
    BY <2>1, SessionStart
  <2>3. Copies'
    BY <2>1, <2>2 DEF Kept, Copies
  <2>5. Kept' /\ ShownIsLive'
    BY <2>1, <2>2, <2>3, Surfaced
  <2>4. live'.street_weights \in Weights /\ Total(live'.street_weights) = 100
    BY <2>5, FilledFrom DEF Kept
  <2>. QED
    BY <2>1, <2>4, <2>5 DEF Staged
<1>21. CASE SignOut
  <2>1. live.street_weights \in Weights /\ Total(live.street_weights) = 100
    BY <1>0, FilledFrom
  <2>. QED
    BY <1>21, <2>1 DEF SignOut, Kept, Copies, ShownIsLive, Staged
<1>22. CASE DeleteAccount
  <2>1. live.street_weights \in Weights /\ Total(live.street_weights) = 100
    BY <1>0, FilledFrom
  <2>2. /\ blob' = NoBlob /\ chosen' = Defaults /\ drift' = Fields /\ replaced' = TRUE
        /\ queued' = NoSnapshot /\ row' \in {row, NoRow} /\ live' = live
    BY <1>22 DEF DeleteAccount
  <2>3. Means(blob', chosen', replaced')
    BY <2>2, NoBlobMeans
  <2>4. Copies'
    BY <2>2 DEF Kept, Copies, Means
  <2>5. Kept'
    BY <2>2, <2>3, <2>4 DEF Kept
  <2>. QED
    BY <1>22, <2>1, <2>5 DEF DeleteAccount, ShownIsLive, Staged
<1>23. CASE LateReconcile
  <2>1. /\ \/ Adopted /\ drift' = Fields /\ replaced' = TRUE
           \/ Seeded(stash) /\ UNCHANGED <<drift, replaced>>
        /\ account' = "open"
        /\ UNCHANGED <<live, queued, stash, shown, heard, panel, staged, weights>>
    BY <1>23 DEF LateReconcile
  <2>2. /\ Means(blob', chosen', replaced')
        /\ row' # NoRow => Means(row'.blob, row'.meant, replaced')
    <3>1. Reconciled(stash) /\ replaced' \in {replaced, TRUE}
      BY <2>1 DEF Reconciled
    <3>. QED
      BY <3>1, SessionStart
  <2>3. Copies'
    BY <2>1, <2>2 DEF Kept, Copies, Means
  <2>4. /\ \A f \in Fields \ drift' : live'[f] = ReadPersisted(blob')[f]
        /\ ~replaced' => drift' \subseteq {"custom_weights"}
    BY <2>1 DEF Seeded, Kept
  <2>. QED
    BY <1>0, <2>1, <2>2, <2>3, <2>4 DEF Kept, ShownIsLive, Staged
<1>24. CASE SaveElsewhere
  <2>1. /\ queued' = [blob |-> blob, meant |-> chosen]
        /\ UNCHANGED <<live, blob, row, account, stash, shown, heard, panel, staged, weights, chosen, drift, replaced>>
    BY <1>24 DEF SaveElsewhere
  <2>2. queued'.blob = blob /\ queued'.meant = chosen
    BY <2>1
  <2>. QED
    BY <2>1, <2>2 DEF Kept, Copies, ShownIsLive, Staged
<1>25. CASE Push
  <2>1. /\ row' = [blob |-> queued.blob, opted |-> stash, meant |-> queued.meant]
        /\ queued # NoSnapshot /\ queued' = NoSnapshot
        /\ UNCHANGED <<live, blob, account, stash, shown, heard, panel, staged, weights, chosen, drift, replaced>>
    BY <1>25 DEF Push
  <2>2. row'.blob = queued.blob /\ row'.meant = queued.meant
    BY <2>1
  <2>. QED
    BY <2>1, <2>2 DEF Kept, Copies, ShownIsLive, Staged
<1>26. CASE UNCHANGED vars
  BY <1>26 DEF vars, Kept, Copies, ShownIsLive, Staged
<1>. QED
  BY <1>1, <1>2, <1>3, <1>4, <1>5, <1>6, <1>7, <1>8, <1>9, <1>10, <1>11, <1>12, <1>13, <1>14,
     <1>15, <1>16, <1>17, <1>18, <1>19, <1>20, <1>21, <1>22, <1>23, <1>24, <1>25, <1>26, Zenon DEF Next

Invariant == Kept /\ ShownIsLive /\ Staged

\* The choices, the profile, the row, the screen and the staged numbers stay in
\* step through every edit, save, boot, sign-in, adoption and push.
THEOREM SettingsInvariant == Spec => []Invariant
<1>1. Init => Invariant
  BY InitKept DEF Invariant
<1>2. Invariant /\ [Next]_vars => Invariant'
  BY StepKept DEF Invariant
<1>. QED
  BY <1>1, <1>2, PTL DEF Spec

LEMMA InvariantValid ==
  ASSUME Invariant
  PROVE  SettingsStayValid
<1>1. Choosable(live) /\ Staged
  BY DEF Invariant, Kept
<1>2. Valid(live)
  <2>1. Total(live.street_weights) = 100 /\ live.custom_weights[1] + live.custom_weights[2] = 100
    BY <1>1, Zenon DEF Choosable
  <2>2. live.side_pot_frequency \in 0 .. 100
    BY <1>1, Zenon DEF Choosable
  <2>3. live.difficulty \in [1 .. 2 -> 0 .. 100] /\ live.difficulty[1] <= live.difficulty[2]
    BY <1>1, Zenon DEF Choosable
  <2>4. 0 <= live.difficulty[1] /\ live.difficulty[2] <= 100
    <3>. DEFINE d == live.difficulty
    <3>1. d \in [1 .. 2 -> 0 .. 100]
      BY <2>3
    <3>. HIDE DEF d
    <3>2. d[1] \in 0 .. 100 /\ d[2] \in 0 .. 100
      BY <3>1
    <3>3. 0 <= d[1] /\ d[2] <= 100
      BY <3>2
    <3>. QED
      BY <3>3 DEF d
  <2>5. live.time_pressure_custom_seconds \in 1 .. 300
    <3>1. "time_pressure_custom_seconds" \in Fields
      BY FieldsAre
    <3>2. Right("time_pressure_custom_seconds", live["time_pressure_custom_seconds"])
      BY <1>1, <3>1, FieldByField, Zenon
    <3>. QED
      BY <3>2, SMT DEF Right
  <2>6. live.volume \in 0 .. 100
    BY <1>1, Zenon DEF Choosable
  <2>7. live.volume <= 100
    BY <2>6
  <2>8. Len(live.display_name_override) <= kMaxDisplayNameOverrideLength
    BY <1>1, Zenon DEF Choosable
  <2>. QED
    BY <2>1, <2>2, <2>3, <2>4, <2>5, <2>7, <2>8 DEF Valid
<1>3. live.volume >= 0
  <2>1. live.volume \in 0 .. 100
    BY <1>1, Zenon DEF Choosable
  <2>. QED
    BY <2>1
<1>4. live.active_theme_id \in 0 .. kThemeIdCount - 1 /\ live.current_music_genre \in 0 .. kGenreCount
  BY <1>1, Zenon DEF Choosable
<1>5. Total(staged) = 100 /\ \A i \in 1 .. 4 : staged[i] \in 0 .. 100
  BY <1>1 DEF Staged, Weights
<1>6. weights[1] + weights[2] = 100 /\ \A i \in 1 .. 2 : weights[i] \in 0 .. 100
  BY <1>1 DEF Staged
<1>. QED
  BY <1>2, <1>3, <1>4, <1>5, <1>6, Zenon DEF SettingsStayValid

\* No order of edits, resets, reloads and adoptions takes a live setting out of its
\* range or breaks a sum, whatever is typed (settings_modal.cpp, validate).
THEOREM SettingsValid == Spec => []SettingsStayValid
<1>1. Invariant => SettingsStayValid
  BY InvariantValid
<1>. QED
  BY <1>1, SettingsInvariant, PTL

\* The profile blob, whatever release wrote it and whoever rewrote it, means what the
\* player last chose for each field, but where a save of live overwrote a field that the
\* profile had newer: the popup's split, and, once a profile was replaced behind live by
\* a late reconcile or a deletion, any field (settings_persistence.cpp, boot.cpp).
THEOREM ChoicesKept == Spec => []ChoicesSurvive
<1>1. Invariant => ChoicesSurvive
  BY DEF Invariant, Kept, Means, ChoicesSurvive
<1>. QED
  BY <1>1, SettingsInvariant, PTL

\* The theme on screen, the engine's audio settings and the opt-in that a push
\* publishes follow the live settings (on_setting_change, apply_audio).
THEOREM ScreenFollows == Spec => []ShownIsLive
<1>1. Invariant => ShownIsLive
  BY DEF Invariant
<1>. QED
  BY <1>1, SettingsInvariant, PTL
====
