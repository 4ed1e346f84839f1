--------------------------- MODULE JukeboxProofs ---------------------------
(***************************************************************************)
(* Proofs about Music and Jukebox, for any catalogue, any prices and any   *)
(* rows of the server.                                                     *)
(*                                                                         *)
(* The engine's invariant has three parts: the rotation with its shuffle   *)
(* pool, the wiring of the transport to its two slots, and that what       *)
(* sounds is in the scope.  A call may break the last for a moment (the    *)
(* sounding track is erased, then playback advances); the lemmas say which *)
(* part each call keeps.                                                   *)
(***************************************************************************)
EXTENDS Jukebox, FiniteSetTheorems, SequenceTheorems, WellFoundedInduction, TLAPS

\* The rotation and its shuffle pool.
Rotation(m) ==
  /\ m \in Engine
  /\ \A i, j \in DOMAIN m.tracks : m.tracks[i] = m.tracks[j] => i = j
  /\ m.tracks # <<>> => m.cursor < Len(m.tracks)
  /\ m.tracks = <<>> => m.cursor = 0
  /\ m.members = Scope(m)
  /\ m.rest \subseteq m.members
  /\ m.last \in m.members \union {NoTrack}

\* The transport and its two slots.
Wired(m) ==
  /\ m.crossfading <=> m.incoming # NoTrack
  /\ m.sounding <=> m.playing # NoTrack
  /\ m.crossfading => m.sounding
  /\ m.slot[m.front].track = m.playing
  /\ m.slot[Back(m)].track = m.incoming
  /\ \A i \in Slots : m.slot[i].state = "quiet" <=> m.slot[i].track = NoTrack

InScope(m) ==
  /\ m.sounding => m.playing \in Scope(m)
  /\ m.incoming # NoTrack => m.incoming \in Scope(m)

EngineInv(m) == Rotation(m) /\ Wired(m) /\ InScope(m)

RotationOf(m) == <<m.tracks, m.cursor, m.filter, m.order, m.members, m.rest, m.last>>

TransportOf(m) == <<m.gesture, m.sounding, m.crossfading, m.front, m.playing, m.incoming, m.slot>>

\* What the invariant of the page sees of the engine's rotation.
Setup(m) == <<m.tracks, m.filter, m.order>>

----------------------------------------------------------------------------
(* The rotation. *)

\* A non-empty set of natural numbers has a least member.
LEMMA LeastMember ==
  ASSUME NEW S \in SUBSET Nat, S # {}
  PROVE  \E n \in S : \A k \in S : n <= k
<1>. DEFINE Less == {p \in Nat \X Nat : p[1] < p[2]}
<1>1. IsWellFoundedOn(Less, Nat)
  BY NatLessThanWellFounded, Zenon DEF OpToRel
<1>2. \A j, k \in Nat : <<j, k>> \in Less <=> j < k
  OBVIOUS
<1>. HIDE DEF Less
<1>3. PICK n \in S : \A k \in S : <<k, n>> \notin Less
  BY <1>1, WFMin, Zenon
<1>4. ASSUME NEW k \in S PROVE n <= k
  <2>1. k \in Nat /\ n \in Nat /\ <<k, n>> \notin Less
    BY <1>3
  <2>2. ~(k < n)
    BY <1>2, <2>1
  <2>. QED
    BY <2>1, <2>2
<1>. QED
  BY <1>4

\* A remainder is below the divisor.
LEMMA Remainder ==
  ASSUME NEW a \in Nat, NEW k \in Nat \ {0}
  PROVE  a % k \in Nat /\ a % k < k
  OBVIOUS

\* Going round once comes back to the same place.
LEMMA Around ==
  ASSUME NEW k \in Nat \ {0}, NEW a \in 0 .. k - 1
  PROVE  a % k = a /\ (a + k) % k = a
  OBVIOUS

\* The invariant of the rotation reads the rotation's fields only.
LEMMA RotationFields ==
  ASSUME NEW m, NEW n \in Engine, Rotation(m), RotationOf(n) = RotationOf(m)
  PROVE  Rotation(n) /\ Scope(n) = Scope(m)
<1>1. Scope(n) = Scope(m)
  BY DEF RotationOf, Scope, InRotation, Passes
<1>. QED
  BY <1>1 DEF Rotation, RotationOf

\* The wiring reads the transport's fields only.
LEMMA WiredFields ==
  ASSUME NEW m, NEW n, Wired(m), TransportOf(n) = TransportOf(m)
  PROVE  Wired(n)
  BY DEF Wired, TransportOf, Back

\* A track is added at the end, and to the scope if it passes the filter.
LEMMA AddRotation ==
  ASSUME NEW m, Rotation(m), NEW t \in Tracks
  PROVE  /\ Rotation(Add(m, t))
         /\ Scope(m) \subseteq Scope(Add(m, t))
         /\ TransportOf(Add(m, t)) = TransportOf(m)
<1>. DEFINE n == Add(m, t)
<1>1. CASE InRotation(m, t)
  BY <1>1 DEF Add
<1>2. CASE ~InRotation(m, t)
  <2>1. m.tracks \in Seq(Tracks) /\ Len(m.tracks) \in Nat /\ m.members \subseteq Tracks
    BY DEF Rotation, Engine
  <2>2. n = [m EXCEPT !.tracks = Append(m.tracks, t),
                      !.members = IF Passes(m, t) THEN m.members \union {t} ELSE m.members]
    BY <1>2 DEF Add
  <2>3. Append(m.tracks, t) \in Seq(Tracks)
    BY <2>1
  <2>4. n \in Engine /\ TransportOf(n) = TransportOf(m) /\ n.cursor = m.cursor
        /\ n.tracks = Append(m.tracks, t) /\ n.filter = m.filter /\ n.rest = m.rest
        /\ n.last = m.last
        /\ n.members = IF Passes(m, t) THEN m.members \union {t} ELSE m.members
    <3>. HIDE DEF n
    <3>. QED
      BY <2>1, <2>2, <2>3 DEF Rotation, Engine, TransportOf
  <2>. HIDE DEF n
  <2>5. \A x \in Tracks : InRotation(n, x) <=> InRotation(m, x) \/ x = t
    BY <2>1, <2>4, SMTT(30) DEF InRotation
  <2>6. \A x \in Tracks : Passes(n, x) <=> Passes(m, x)
    BY <2>4 DEF Passes
  <2>7. Scope(n) = IF Passes(m, t) THEN Scope(m) \union {t} ELSE Scope(m)
    BY <2>5, <2>6 DEF Scope
  <2>8. \A i, j \in DOMAIN n.tracks : n.tracks[i] = n.tracks[j] => i = j
    BY <1>2, <2>1, <2>4 DEF Rotation, InRotation
  <2>9. n.tracks # <<>> /\ n.cursor < Len(n.tracks)
    <3>1. Len(n.tracks) = Len(m.tracks) + 1 /\ m.cursor \in Nat
      BY <2>1, <2>4 DEF Rotation, Engine
    <3>2. m.cursor <= Len(m.tracks)
      BY <2>1, <3>1 DEF Rotation
    <3>. QED
      BY <2>1, <2>4, <3>1, <3>2
  <2>10. Rotation(n)
    BY <2>4, <2>7, <2>8, <2>9 DEF Rotation
  <2>. QED
    BY <2>4, <2>7, <2>10 DEF n
<1>. QED
  BY <1>1, <1>2

\* An erase takes one track out of the sequence, the pool and the scope, and
\* keeps the Loop cursor within the sequence.
LEMMA EraseRotation ==
  ASSUME NEW m, Rotation(m), NEW t \in Tracks
  PROVE  /\ Rotation(Erase(m, t))
         /\ Scope(Erase(m, t)) = Scope(m) \ {t}
         /\ TransportOf(Erase(m, t)) = TransportOf(m)
         /\ Erase(m, t).filter = m.filter /\ Erase(m, t).order = m.order
<1>. DEFINE e == Erase(m, t)
            p == Position(m, t)
            n == Len(m.tracks)
            left == [i \in 1 .. n - 1 |-> IF i < p THEN m.tracks[i] ELSE m.tracks[i + 1]]
            c == CursorAfterErase(m, p)
<1>1. CASE ~InRotation(m, t)
  BY <1>1 DEF Erase, Scope
<1>2. CASE InRotation(m, t)
  <2>1. m.tracks \in Seq(Tracks) /\ n \in Nat /\ DOMAIN m.tracks = 1 .. n /\ m.cursor \in Nat
    BY DEF Rotation, Engine
  <2>2. p \in 1 .. n /\ m.tracks[p] = t
    BY <1>2, <2>1 DEF InRotation, Position
  <2>3. left \in Seq(Tracks) /\ Len(left) = n - 1 /\ DOMAIN left = 1 .. n - 1
    BY <2>1, <2>2
  <2>4. c \in Nat /\ (n = 1 => c = 0) /\ (n # 1 => c < n - 1)
    <3>1. m.cursor < n
      BY <2>1, <2>2 DEF Rotation
    <3>. DEFINE q == IF p - 1 < m.cursor THEN m.cursor - 1 ELSE m.cursor
    <3>2. q \in Nat /\ c = IF n = 1 THEN 0 ELSE q % (n - 1)
      BY <2>1, <2>2, <3>1 DEF CursorAfterErase
    <3>3. CASE n # 1
      <4>1. n - 1 \in Nat \ {0}
        BY <2>1, <2>2, <3>3
      <4>2. q % (n - 1) \in Nat /\ q % (n - 1) < n - 1
        BY <3>2, <4>1, Remainder
      <4>. QED
        BY <3>2, <3>3, <4>2
    <3>4. CASE n = 1
      BY <3>2, <3>4
    <3>. QED
      BY <3>3, <3>4
  <2>5. e = [m EXCEPT !.members = m.members \ {t}, !.rest = m.rest \ {t},
                      !.last = IF m.last = t THEN NoTrack ELSE m.last,
                      !.tracks = left, !.cursor = c]
    BY <1>2 DEF Erase, PoolRemove, Rotation, Engine
  <2>. HIDE DEF left, c
  <2>6. e \in Engine /\ TransportOf(e) = TransportOf(m) /\ e.cursor = c /\ e.tracks = left
        /\ e.filter = m.filter /\ e.order = m.order
        /\ e.members = m.members \ {t} /\ e.rest = m.rest \ {t}
        /\ e.last = IF m.last = t THEN NoTrack ELSE m.last
    <3>. HIDE DEF e
    <3>. QED
      BY <2>3, <2>4, <2>5 DEF Rotation, Engine, TransportOf, MaybeTrack
  <2>. HIDE DEF e
  <2>7. \A i, j \in 1 .. n : m.tracks[i] = m.tracks[j] => i = j
    BY <2>1 DEF Rotation
  <2>8. \A i \in 1 .. n - 1 : left[i] = IF i < p THEN m.tracks[i] ELSE m.tracks[i + 1]
    BY DEF left
  <2>9. \A i, j \in 1 .. n - 1 : left[i] = left[j] => i = j
    BY <2>1, <2>2, <2>7, <2>8
  <2>10. \A x \in Tracks : InRotation(e, x) <=> InRotation(m, x) /\ x # t
    <3>1. ASSUME NEW x \in Tracks, InRotation(e, x) PROVE InRotation(m, x) /\ x # t
      <4>1. PICK i \in 1 .. n - 1 : left[i] = x
        <5>1. PICK i \in DOMAIN e.tracks : e.tracks[i] = x
          BY <3>1 DEF InRotation
        <5>. QED
          BY <2>3, <2>6, <5>1
      <4>2. CASE i < p
        BY <2>1, <2>2, <2>7, <2>8, <4>1, <4>2 DEF InRotation
      <4>3. CASE ~(i < p)
        <5>1. i + 1 \in 1 .. n /\ m.tracks[i + 1] = x /\ i + 1 # p
          BY <2>1, <2>2, <2>8, <4>1, <4>3
        <5>. QED
          BY <2>1, <2>2, <2>7, <5>1 DEF InRotation
      <4>. QED
        BY <4>2, <4>3
    <3>2. ASSUME NEW x \in Tracks, InRotation(m, x), x # t PROVE InRotation(e, x)
      <4>1. PICK i \in 1 .. n : m.tracks[i] = x
        BY <2>1, <3>2 DEF InRotation
      <4>2. CASE i < p
        <5>1. i \in 1 .. n - 1 /\ left[i] = x
          BY <2>1, <2>2, <2>8, <4>1, <4>2
        <5>. QED
          BY <2>3, <2>6, <5>1 DEF InRotation
      <4>3. CASE i > p
        <5>1. i - 1 \in 1 .. n - 1 /\ left[i - 1] = x
          BY <2>1, <2>2, <2>8, <4>1, <4>3
        <5>. QED
          BY <2>3, <2>6, <5>1 DEF InRotation
      <4>. QED
        BY <2>1, <2>2, <3>2, <4>1, <4>2, <4>3
    <3>. QED
      BY <3>1, <3>2
  <2>11. Scope(e) = Scope(m) \ {t}
    BY <2>6, <2>10 DEF Scope, Passes
  <2>12. (e.tracks # <<>> => e.cursor < Len(e.tracks)) /\ (e.tracks = <<>> => e.cursor = 0)
    BY <2>1, <2>3, <2>4, <2>6
  <2>13. Rotation(e)
    BY <2>3, <2>6, <2>9, <2>11, <2>12 DEF Rotation
  <2>. QED
    BY <2>6, <2>11, <2>13 DEF e
<1>. QED
  BY <1>1, <1>2

\* A new filter keeps the sequence and makes the pool that of the new scope.
LEMMA FilterRotation ==
  ASSUME NEW m, Rotation(m), NEW g \in Genres \union {All}
  PROVE  /\ Rotation(SetFilter(m, g))
         /\ TransportOf(SetFilter(m, g)) = TransportOf(m)
         /\ SetFilter(m, g).tracks = m.tracks /\ SetFilter(m, g).order = m.order
<1>. DEFINE n == [m EXCEPT !.filter = g]
            f == SetFilter(m, g)
<1>1. /\ n \in Engine /\ n.tracks = m.tracks /\ n.cursor = m.cursor /\ n.order = m.order
      /\ n.filter = g /\ n.rest = m.rest /\ n.last = m.last /\ TransportOf(n) = TransportOf(m)
  BY DEF Rotation, Engine, TransportOf
<1>2. Scope(n) \subseteq Tracks
  BY DEF Scope
<1>3. f = [n EXCEPT !.members = Scope(n), !.rest = n.rest \intersect Scope(n),
                    !.last = IF n.last \in m.members \ Scope(n) THEN NoTrack ELSE n.last]
  BY DEF SetFilter
<1>. HIDE DEF n, f
<1>4. /\ f \in Engine /\ f.tracks = n.tracks /\ f.cursor = n.cursor /\ f.filter = n.filter
      /\ f.order = n.order /\ f.members = Scope(n) /\ f.rest = n.rest \intersect Scope(n)
      /\ f.last = (IF n.last \in m.members \ Scope(n) THEN NoTrack ELSE n.last)
      /\ TransportOf(f) = TransportOf(n)
  BY <1>1, <1>2, <1>3 DEF Engine, TransportOf, MaybeTrack
<1>5. Scope(f) = Scope(n)
  BY <1>4 DEF Scope, InRotation, Passes
<1>6. Rotation(f)
  BY <1>1, <1>4, <1>5 DEF Rotation
<1>. QED
  BY <1>1, <1>4, <1>6 DEF f

\* What a draw comes to: the transport and the user's choices stay, and there
\* is a track exactly when the scope has one.
Drawn(m, d) ==
  /\ Rotation(d.engine) /\ Scope(d.engine) = Scope(m)
  /\ TransportOf(d.engine) = TransportOf(m) /\ Setup(d.engine) = Setup(m)
  /\ d.track \in Scope(m) \union {NoTrack}
  /\ d.track = NoTrack <=> Scope(m) = {}

\* A draw from the shuffle pool.
LEMMA PoolDrawn ==
  ASSUME NEW m, Rotation(m), NEW d \in PoolDraws(m)
  PROVE  Drawn(m, d)
<1>. DEFINE left == IF m.rest = {} THEN m.members ELSE m.rest
<1>0. m.members \subseteq Tracks /\ left \subseteq m.members /\ NoTrack \notin Tracks
  BY MusicAssumption DEF Rotation, Engine
<1>1. CASE m.members = {}
  <2>1. d.track = NoTrack /\ d.engine = [m EXCEPT !.rest = {}]
    BY <1>1 DEF PoolDraws
  <2>2. d.engine \in Engine /\ TransportOf(d.engine) = TransportOf(m)
        /\ RotationOf(d.engine) = RotationOf(m) /\ Setup(d.engine) = Setup(m)
    BY <1>1, <2>1 DEF Rotation, Engine, TransportOf, RotationOf, Setup
  <2>. QED
    BY <1>1, <2>1, <2>2, RotationFields DEF Drawn, Rotation
<1>2. CASE m.members # {}
  <2>1. d.track \in m.members /\ d.engine = [m EXCEPT !.rest = left \ {d.track}, !.last = d.track]
    <3>. DEFINE fresh == IF m.members \ {m.last} = {} THEN m.members ELSE m.members \ {m.last}
                from == IF m.rest = {} THEN fresh ELSE m.rest
    <3>1. PoolDraws(m) = {[track |-> t, engine |-> [m EXCEPT !.rest = left \ {t}, !.last = t]] :
                            t \in from}
      BY <1>2 DEF PoolDraws
    <3>2. from \subseteq m.members
      BY DEF Rotation
    <3>. HIDE DEF from, left
    <3>3. PICK t \in from :
            d = [track |-> t, engine |-> [m EXCEPT !.rest = left \ {t}, !.last = t]]
      BY <3>1
    <3>4. d.track = t /\ d.engine = [m EXCEPT !.rest = left \ {t}, !.last = t]
      BY <3>3
    <3>. QED
      BY <3>2, <3>4
  <2>. DEFINE n == d.engine
              x == d.track
              r == left \ {x}
  <2>. HIDE DEF left
  <2>a. r \in SUBSET Tracks /\ x \in MaybeTrack /\ n = [m EXCEPT !.rest = r, !.last = x]
    BY <1>0, <2>1 DEF MaybeTrack
  <2>2. /\ n \in Engine /\ TransportOf(n) = TransportOf(m) /\ Setup(n) = Setup(m)
        /\ n.tracks = m.tracks /\ n.cursor = m.cursor /\ n.filter = m.filter
        /\ n.members = m.members /\ n.rest = left \ {x} /\ n.last = x
    <3>. HIDE DEF n, x, r
    <3>1. /\ n \in Engine /\ TransportOf(n) = TransportOf(m) /\ Setup(n) = Setup(m)
          /\ n.tracks = m.tracks /\ n.cursor = m.cursor /\ n.filter = m.filter
          /\ n.members = m.members /\ n.rest = r /\ n.last = x
      BY <2>a DEF Rotation, Engine, TransportOf, Setup
    <3>. QED
      BY <3>1 DEF r
  <2>3. Scope(n) = Scope(m)
    BY <2>2 DEF Scope, InRotation, Passes
  <2>4. Rotation(n)
    BY <1>0, <2>1, <2>2, <2>3 DEF Rotation
  <2>. QED
    BY <1>0, <1>2, <2>1, <2>2, <2>3, <2>4 DEF Drawn, Rotation
<1>. QED
  BY <1>1, <1>2

\* A draw in Loop order: looking once round the sequence finds a track if there
\* is one.
LEMMA LoopDrawn ==
  ASSUME NEW m, Rotation(m)
  PROVE  Drawn(m, LoopDraw(m))
<1>. DEFINE count == Len(m.tracks)
            At(k) == (m.cursor + k) % count
            hits == {k \in 0 .. count - 1 : Passes(m, m.tracks[At(k) + 1])}
            step == CHOOSE k \in hits : \A j \in hits : k <= j
<1>1. /\ m.tracks \in Seq(Tracks) /\ count \in Nat /\ DOMAIN m.tracks = 1 .. count
      /\ m.cursor \in Nat /\ (count # 0 => m.cursor < count) /\ NoTrack \notin Tracks
  BY MusicAssumption DEF Rotation, Engine
<1>2. ASSUME NEW k \in 0 .. count - 1
      PROVE  At(k) \in 0 .. count - 1 /\ m.tracks[At(k) + 1] \in Tracks
  <2>1. m.cursor + k \in Nat /\ count \in Nat \ {0}
    BY <1>1
  <2>2. At(k) \in Nat /\ At(k) < count
    BY <2>1, Remainder
  <2>. QED
    BY <1>1, <2>2
<1>3. CASE hits = {}
  <2>1. ASSUME NEW t \in Scope(m) PROVE FALSE
    <3>1. PICK i \in 1 .. count : m.tracks[i] = t
      BY <1>1 DEF Scope, InRotation
    <3>2. Passes(m, m.tracks[i])
      BY <3>1 DEF Scope
    <3>3. count \in Nat \ {0} /\ i - 1 \in 0 .. count - 1
      BY <1>1
    <3>4. CASE m.cursor <= i - 1
      <4>1. i - 1 - m.cursor \in 0 .. count - 1 /\ m.cursor + (i - 1 - m.cursor) = i - 1
        BY <1>1, <3>3, <3>4
      <4>2. At(i - 1 - m.cursor) = i - 1
        BY <3>3, <4>1, Around
      <4>. QED
        BY <1>3, <3>2, <3>3, <4>1, <4>2, SMTT(30)
    <3>5. CASE m.cursor > i - 1
      <4>1. /\ i - 1 - m.cursor + count \in 0 .. count - 1
            /\ m.cursor + (i - 1 - m.cursor + count) = i - 1 + count
        BY <1>1, <3>3, <3>5
      <4>2. At(i - 1 - m.cursor + count) = i - 1
        BY <3>3, <4>1, Around
      <4>. QED
        BY <1>3, <3>2, <3>3, <4>1, <4>2
    <3>. QED
      BY <1>1, <3>3, <3>4, <3>5
  <2>2. LoopDraw(m) = [track |-> NoTrack, engine |-> m]
    BY <1>3 DEF LoopDraw
  <2>. QED
    BY <2>1, <2>2 DEF Drawn
<1>4. CASE hits # {}
  <2>1. hits \in SUBSET Nat
    BY <1>1
  <2>2. step \in hits
    <3>. HIDE DEF hits
    <3>1. \E k \in hits : \A j \in hits : k <= j
      BY <1>4, <2>1, LeastMember
    <3>. QED
      BY <3>1
  <2>. DEFINE t == m.tracks[At(step) + 1]
              c == (At(step) + 1) % count
              n == [m EXCEPT !.cursor = c]
  <2>3. LoopDraw(m) = [track |-> t, engine |-> n]
    BY <1>4 DEF LoopDraw
  <2>4. At(step) \in 0 .. count - 1 /\ t \in Tracks /\ Passes(m, t)
    BY <1>2, <2>2
  <2>5. c \in Nat /\ c < count /\ count \in Nat \ {0}
    <3>. DEFINE a == At(step)
    <3>1. a \in 0 .. count - 1 /\ c = (a + 1) % count
      BY <2>4
    <3>. HIDE DEF a, c, step
    <3>2. a + 1 \in Nat /\ count \in Nat \ {0}
      BY <1>1, <3>1
    <3>. QED
      BY <3>1, <3>2, Remainder
  <2>6. t \in Scope(m)
    <3>. DEFINE a == At(step)
    <3>1. a \in 0 .. count - 1 /\ t = m.tracks[a + 1]
      BY <2>4
    <3>. HIDE DEF a, t, step
    <3>2. a + 1 \in DOMAIN m.tracks
      BY <1>1, <3>1
    <3>. QED
      BY <2>4, <3>1, <3>2 DEF Scope, InRotation
  <2>. HIDE DEF t, c
  <2>7. /\ n \in Engine /\ TransportOf(n) = TransportOf(m) /\ Setup(n) = Setup(m)
        /\ n.tracks = m.tracks /\ n.cursor = c /\ n.filter = m.filter
        /\ n.members = m.members /\ n.rest = m.rest /\ n.last = m.last
    BY <2>5 DEF Rotation, Engine, TransportOf, Setup
  <2>. HIDE DEF n
  <2>8. Scope(n) = Scope(m)
    BY <2>7 DEF Scope, InRotation, Passes
  <2>9. n.tracks # <<>>
    BY <1>1, <2>5, <2>7
  <2>10. Rotation(n)
    BY <2>5, <2>7, <2>8, <2>9 DEF Rotation
  <2>. QED
    BY <1>1, <2>3, <2>4, <2>6, <2>7, <2>8, <2>10 DEF Drawn
<1>. QED
  BY <1>3, <1>4

\* A draw in either order.
LEMMA DrawsDrawn ==
  ASSUME NEW m, Rotation(m), NEW d \in Draws(m)
  PROVE  Drawn(m, d)
  BY PoolDrawn, LoopDrawn DEF Draws

----------------------------------------------------------------------------
(* The transport. *)

\* A track of the scope starts in front, and nothing else sounds.
LEMMA StartSound ==
  ASSUME NEW m, Rotation(m), Wired(m), NEW t \in Scope(m)
  PROVE  /\ EngineInv(StartTrack(m, t)) /\ Setup(StartTrack(m, t)) = Setup(m)
         /\ StartTrack(m, t).gesture = m.gesture
<1>. DEFINE s == IF m.crossfading THEN Stop(m, Back(m)) ELSE m
            n == StartTrack(m, t)
<1>1. m \in Engine /\ m.front \in Slots /\ Back(m) \in Slots /\ Back(m) # m.front
      /\ t \in Tracks /\ NoTrack \notin Tracks
  BY MusicAssumption DEF Rotation, Engine, Back, Slots, Scope
<1>2. /\ s \in Engine /\ s.front = m.front /\ RotationOf(s) = RotationOf(m)
      /\ s.gesture = m.gesture
      /\ s.slot[Back(m)].track = NoTrack /\ s.slot[Back(m)].state = "quiet"
  <2>1. CASE m.crossfading
    BY <1>1, <2>1 DEF Stop, Quiet, Engine, MaybeTrack, RotationOf
  <2>2. CASE ~m.crossfading
    BY <1>1, <2>2 DEF Wired
  <2>. QED
    BY <2>1, <2>2
<1>. DEFINE on == [track |-> t, state |-> "on"]
<1>3. n = [s EXCEPT !.slot = [s.slot EXCEPT ![s.front] = on], !.sounding = TRUE,
                    !.crossfading = FALSE, !.playing = t, !.incoming = NoTrack]
  BY DEF StartTrack, StartInFront
<1>. HIDE DEF s, n
<1>4. [s.slot EXCEPT ![s.front] = on] \in
        [Slots -> [track : MaybeTrack, state : {"quiet", "on", "near", "over"}]]
  BY <1>1, <1>2 DEF Engine, MaybeTrack
<1>5. /\ n \in Engine /\ RotationOf(n) = RotationOf(m) /\ n.gesture = m.gesture
      /\ n.front = m.front
      /\ n.sounding /\ ~n.crossfading /\ n.playing = t /\ n.incoming = NoTrack
      /\ n.slot = [s.slot EXCEPT ![m.front] = on]
  <2>1. n \in Engine
    <3>. DEFINE slot == [s.slot EXCEPT ![s.front] = on]
    <3>1. t \in MaybeTrack /\ NoTrack \in MaybeTrack
      BY <1>1 DEF MaybeTrack
    <3>. HIDE DEF slot
    <3>. QED
      BY <1>2, <1>3, <1>4, <3>1 DEF Engine, slot
  <2>2. /\ RotationOf(n) = RotationOf(s) /\ n.gesture = s.gesture /\ n.front = s.front
        /\ n.sounding /\ ~n.crossfading /\ n.playing = t /\ n.incoming = NoTrack
        /\ n.slot = [s.slot EXCEPT ![s.front] = on]
    <3>. HIDE DEF on
    <3>. QED
      BY <1>2, <1>3 DEF Engine, RotationOf
  <2>. QED
    BY <1>2, <2>1, <2>2
<1>6. Rotation(n) /\ Scope(n) = Scope(m)
  BY <1>5, RotationFields
<1>7. /\ n.slot[m.front].track = t /\ n.slot[m.front].state = "on"
      /\ n.slot[Back(m)].track = NoTrack /\ n.slot[Back(m)].state = "quiet"
      /\ \A i \in Slots : i = m.front \/ i = Back(m)
  BY <1>1, <1>2, <1>5 DEF Engine, Slots, Back
<1>8. Wired(n)
  BY <1>1, <1>5, <1>7 DEF Wired, Back
<1>. QED
  BY <1>1, <1>5, <1>6, <1>8 DEF EngineInv, InScope, RotationOf, Setup, n

\* Nothing sounds after a halt.
LEMMA HaltSound ==
  ASSUME NEW m, Rotation(m)
  PROVE  /\ EngineInv(Halt(m)) /\ Setup(Halt(m)) = Setup(m) /\ Halt(m).gesture = m.gesture
         /\ RotationOf(Halt(m)) = RotationOf(m)
         /\ ~Halt(m).sounding /\ Halt(m).incoming = NoTrack
<1>. DEFINE n == Halt(m)
<1>1. [i \in Slots |-> Quiet] \in
        [Slots -> [track : MaybeTrack, state : {"quiet", "on", "near", "over"}]]
  BY DEF Quiet, MaybeTrack
<1>2. /\ n \in Engine /\ RotationOf(n) = RotationOf(m) /\ n.gesture = m.gesture
      /\ ~n.sounding /\ ~n.crossfading /\ n.front = 0 /\ n.playing = NoTrack
      /\ n.incoming = NoTrack /\ n.slot = [i \in Slots |-> Quiet]
  BY <1>1 DEF Halt, Rotation, Engine, MaybeTrack, RotationOf, Slots
<1>. HIDE DEF n
<1>3. Rotation(n)
  BY <1>2, RotationFields
<1>4. Wired(n)
  BY <1>2 DEF Wired, Back, Quiet, Slots
<1>. QED
  BY <1>2, <1>3, <1>4 DEF EngineInv, InScope, RotationOf, Setup, n

\* The track that was fading in is gone, what sounds goes on.
LEMMA CancelWired ==
  ASSUME NEW m, Rotation(m), Wired(m)
  PROVE  /\ CancelIncoming(m) \in Engine /\ Wired(CancelIncoming(m))
         /\ Rotation(CancelIncoming(m)) /\ Scope(CancelIncoming(m)) = Scope(m)
         /\ RotationOf(CancelIncoming(m)) = RotationOf(m)
         /\ CancelIncoming(m).gesture = m.gesture
         /\ CancelIncoming(m).incoming = NoTrack
         /\ CancelIncoming(m).playing = m.playing /\ CancelIncoming(m).sounding = m.sounding
<1>. DEFINE s == IF m.crossfading THEN Stop(m, Back(m)) ELSE m
            n == CancelIncoming(m)
<1>1. m \in Engine /\ m.front \in Slots /\ Back(m) \in Slots /\ Back(m) # m.front
  BY DEF Rotation, Engine, Back, Slots
<1>2. /\ s \in Engine /\ RotationOf(s) = RotationOf(m)
      /\ s.gesture = m.gesture /\ s.front = m.front /\ s.playing = m.playing
      /\ s.sounding = m.sounding
      /\ s.slot[Back(m)].track = NoTrack /\ s.slot[Back(m)].state = "quiet"
      /\ s.slot[m.front] = m.slot[m.front]
  <2>1. CASE m.crossfading
    BY <1>1, <2>1 DEF Stop, Quiet, Engine, MaybeTrack, RotationOf
  <2>2. CASE ~m.crossfading
    BY <1>1, <2>2 DEF Wired
  <2>. QED
    BY <2>1, <2>2
<1>3. n = [s EXCEPT !.crossfading = FALSE, !.incoming = NoTrack]
  BY DEF CancelIncoming
<1>. HIDE DEF s, n
<1>4. /\ n \in Engine /\ RotationOf(n) = RotationOf(m) /\ n.gesture = m.gesture
      /\ n.front = m.front /\ n.playing = m.playing /\ n.sounding = m.sounding
      /\ ~n.crossfading /\ n.incoming = NoTrack /\ n.slot = s.slot
  BY <1>2, <1>3, ZenonT(40) DEF Engine, MaybeTrack, RotationOf
<1>5. Rotation(n) /\ Scope(n) = Scope(m)
  BY <1>4, RotationFields
<1>6. \A i \in Slots : i = m.front \/ i = Back(m)
  BY <1>1 DEF Slots, Back
<1>7. Wired(n)
  BY <1>1, <1>2, <1>4, <1>6 DEF Wired, Back
<1>. QED
  BY <1>4, <1>5, <1>7 DEF n

\* Playback advances to a track of the scope, or stops.
LEMMA AdvanceSound ==
  ASSUME NEW m, Rotation(m), Wired(m), NEW n \in AdvanceOrHalt(m)
  PROVE  EngineInv(n) /\ Setup(n) = Setup(m) /\ n.gesture = m.gesture
<1>1. PICK d \in Draws(m) :
        n = IF d.track = NoTrack THEN Halt(d.engine) ELSE StartTrack(d.engine, d.track)
  BY DEF AdvanceOrHalt
<1>2. Drawn(m, d)
  BY DrawsDrawn
<1>3. Rotation(d.engine) /\ Wired(d.engine) /\ Setup(d.engine) = Setup(m)
      /\ d.engine.gesture = m.gesture
  BY <1>2, WiredFields DEF Drawn, TransportOf
<1>4. CASE d.track = NoTrack
  BY <1>1, <1>3, <1>4, HaltSound
<1>5. CASE d.track # NoTrack
  <2>1. d.track \in Scope(d.engine)
    BY <1>2, <1>5 DEF Drawn
  <2>. QED
    BY <1>1, <1>3, <1>5, <2>1, StartSound
<1>. QED
  BY <1>4, <1>5

\* The first track after silence sounds in front (music_update's own start, which
\* does not look for a crossfade to cut short).
LEMMA StartInFrontSound ==
  ASSUME NEW m, Rotation(m), Wired(m), ~m.crossfading, NEW t \in Scope(m)
  PROVE  /\ EngineInv(StartInFront(m, t)) /\ Setup(StartInFront(m, t)) = Setup(m)
         /\ StartInFront(m, t).gesture = m.gesture
<1>1. StartInFront(m, t) = StartTrack(m, t)
  BY DEF StartTrack
<1>. QED
  BY <1>1, StartSound

\* A removed track neither sounds nor fades in any more.
LEMMA RemoveTrackSound ==
  ASSUME NEW m, EngineInv(m), NEW t \in Tracks, NEW n \in RemoveTrack(m, t)
  PROVE  /\ EngineInv(n) /\ n.gesture = m.gesture
         /\ Setup(n) = Setup(Erase(m, t))
<1>. DEFINE e == Erase(m, t)
            wasPlaying == m.sounding /\ m.playing = t
            wasIncoming == m.sounding /\ m.incoming = t
            erased == IF wasIncoming THEN CancelIncoming(e) ELSE e
<1>1. Rotation(m) /\ Wired(m) /\ InScope(m) /\ NoTrack \notin Tracks
  BY MusicAssumption DEF EngineInv
<1>2. Rotation(e) /\ Scope(e) = Scope(m) \ {t} /\ TransportOf(e) = TransportOf(m)
  BY <1>1, EraseRotation
<1>3. Wired(e)
  BY <1>1, <1>2, WiredFields
<1>. HIDE DEF e
<1>4. /\ Rotation(erased) /\ Wired(erased) /\ Scope(erased) = Scope(m) \ {t}
      /\ Setup(erased) = Setup(e) /\ erased.gesture = m.gesture
      /\ erased.playing = m.playing /\ erased.sounding = m.sounding
      /\ erased.incoming = IF wasIncoming THEN NoTrack ELSE m.incoming
  <2>1. CASE wasIncoming
    BY <1>2, <1>3, <2>1, CancelWired DEF TransportOf, RotationOf, Setup
  <2>2. CASE ~wasIncoming
    BY <1>2, <1>3, <2>2 DEF TransportOf
  <2>. QED
    BY <2>1, <2>2
<1>. HIDE DEF erased
<1>5. CASE wasPlaying
  <2>1. n \in AdvanceOrHalt(erased)
    BY <1>5 DEF RemoveTrack, erased, e
  <2>. QED
    BY <1>4, <2>1, AdvanceSound DEF e
<1>6. CASE ~wasPlaying
  <2>1. n = erased
    BY <1>6 DEF RemoveTrack, erased, e
  <2>2. erased.sounding => erased.playing \in Scope(erased)
    BY <1>1, <1>4, <1>6 DEF InScope
  <2>3. erased.incoming # NoTrack => erased.incoming \in Scope(erased)
    BY <1>1, <1>4 DEF InScope, Wired
  <2>. QED
    BY <1>4, <2>1, <2>2, <2>3 DEF EngineInv, InScope, e
<1>. QED
  BY <1>5, <1>6

\* A new filter silences what it shuts out.
LEMMA ApplyFilterSound ==
  ASSUME NEW m, EngineInv(m), NEW g \in Genres \union {All}, NEW n \in ApplyFilter(m, g)
  PROVE  EngineInv(n) /\ n.gesture = m.gesture /\ n.tracks = m.tracks
<1>. DEFINE f == SetFilter(m, g)
            shut == f.incoming # NoTrack /\ f.incoming \notin Scope(f)
            c == IF shut THEN CancelIncoming(f) ELSE f
<1>1. Rotation(m) /\ Wired(m) /\ InScope(m)
  BY DEF EngineInv
<1>2. Rotation(f) /\ TransportOf(f) = TransportOf(m) /\ f.tracks = m.tracks
  BY <1>1, FilterRotation
<1>3. Wired(f)
  BY <1>1, <1>2, WiredFields
<1>. HIDE DEF f
<1>4. /\ Rotation(c) /\ Wired(c) /\ Scope(c) = Scope(f) /\ c.tracks = m.tracks
      /\ c.gesture = m.gesture /\ c.playing = m.playing /\ c.sounding = m.sounding
      /\ c.incoming # NoTrack => c.incoming \in Scope(c)
  <2>1. CASE shut
    BY <1>2, <1>3, <2>1, CancelWired DEF TransportOf, RotationOf
  <2>2. CASE ~shut
    BY <1>2, <1>3, <2>2 DEF TransportOf
  <2>. QED
    BY <2>1, <2>2
<1>5. f.sounding = m.sounding
  BY <1>2 DEF TransportOf
<1>6. \/ m.filter = g /\ n = m
      \/ ~f.sounding /\ n = f
      \/ c.playing \in Scope(c) /\ n = c
      \/ n \in AdvanceOrHalt(c)
  BY DEF ApplyFilter, f
<1>. HIDE DEF c
<1>7. CASE m.filter = g /\ n = m
  BY <1>7
<1>8. CASE ~f.sounding /\ n = f
  <2>1. f.incoming = NoTrack
    BY <1>3, <1>8 DEF Wired
  <2>. QED
    BY <1>2, <1>3, <1>8, <2>1 DEF EngineInv, InScope, TransportOf
<1>9. CASE c.playing \in Scope(c) /\ n = c
  BY <1>4, <1>9 DEF EngineInv, InScope
<1>10. CASE n \in AdvanceOrHalt(c)
  BY <1>4, <1>10, AdvanceSound DEF Setup
<1>. QED
  BY <1>6, <1>7, <1>8, <1>9, <1>10

\* A rotation without repetitions takes the place of the one that was.
LEMMA RebuildSound ==
  ASSUME NEW m, EngineInv(m), NEW ts \in Seq(Tracks),
         \A i, j \in DOMAIN ts : ts[i] = ts[j] => i = j
  PROVE  EngineInv(Rebuild(m, ts)) /\ Rebuild(m, ts).tracks = ts
<1>1. CASE m.tracks = ts
  BY <1>1 DEF Rebuild
<1>2. CASE m.tracks # ts
  <2>. DEFINE h == Halt(m)
              all == {t \in Tracks : (\E i \in DOMAIN ts : ts[i] = t) /\ Passes(m, t)}
              n == Rebuild(m, ts)
  <2>1. EngineInv(h) /\ RotationOf(h) = RotationOf(m) /\ ~h.sounding /\ h.incoming = NoTrack
    BY HaltSound DEF EngineInv
  <2>2. n = [h EXCEPT !.tracks = ts, !.cursor = 0, !.members = all, !.rest = {}, !.last = NoTrack]
    BY <1>2 DEF Rebuild, Clear
  <2>3. all \subseteq Tracks
    OBVIOUS
  <2>. HIDE DEF h, n, all
  <2>4. /\ n \in Engine /\ TransportOf(n) = TransportOf(h) /\ n.tracks = ts /\ n.cursor = 0
        /\ n.filter = m.filter /\ n.members = all /\ n.rest = {} /\ n.last = NoTrack
    BY <2>1, <2>2, <2>3, ZenonT(40) DEF EngineInv, Rotation, Engine, TransportOf, RotationOf, MaybeTrack
  <2>5. Scope(n) = all
    BY <2>4 DEF Scope, InRotation, Passes, all
  <2>6. ts # <<>> => 0 < Len(ts)
    OBVIOUS
  <2>7. Rotation(n)
    BY <2>4, <2>5, <2>6 DEF Rotation
  <2>8. Wired(n)
    BY <2>1, <2>4, WiredFields DEF EngineInv
  <2>9. InScope(n)
    BY <2>1, <2>4 DEF InScope, TransportOf
  <2>. QED
    BY <2>4, <2>7, <2>8, <2>9 DEF EngineInv, n
<1>. QED
  BY <1>1, <1>2

----------------------------------------------------------------------------
(* The engine's own steps. *)

\* The engine before the profile is known.
LEMMA NewEngineSound ==
  EngineInv(NewEngine)
<1>. DEFINE n == NewEngine
            all == {t \in Tracks : \E i \in DOMAIN Starters : Starters[i] = t}
<1>1. /\ [i \in Slots |-> Quiet] \in
           [Slots -> [track : MaybeTrack, state : {"quiet", "on", "near", "over"}]]
      /\ all \in SUBSET Tracks /\ Starters \in Seq(Tracks)
      /\ Starters # <<>> => 0 < Len(Starters)
      /\ \A i, j \in DOMAIN Starters : Starters[i] = Starters[j] => i = j
  BY MusicAssumption DEF Quiet, MaybeTrack
<1>2. /\ n \in Engine /\ n.tracks = Starters /\ n.cursor = 0 /\ n.filter = All
      /\ n.members = all /\ n.rest = {} /\ n.last = NoTrack
      /\ ~n.sounding /\ ~n.crossfading /\ n.front = 0 /\ n.playing = NoTrack
      /\ n.incoming = NoTrack /\ n.slot = [i \in Slots |-> Quiet]
  <2>. HIDE DEF all
  <2>1. n = [tracks |-> Starters, cursor |-> 0, filter |-> All, order |-> "Loop",
             members |-> all,
             rest |-> {}, last |-> NoTrack, gesture |-> FALSE, sounding |-> FALSE,
             crossfading |-> FALSE, front |-> 0, playing |-> NoTrack, incoming |-> NoTrack,
             slot |-> [i \in Slots |-> Quiet]]
    BY DEF NewEngine, all
  <2>. HIDE DEF n
  <2>. QED
    BY <1>1, <2>1 DEF Engine, MaybeTrack, Orders, Slots
<1>. HIDE DEF n
<1>3. Scope(n) = all
  BY <1>2 DEF Scope, InRotation, Passes
<1>. HIDE DEF all
<1>4. Rotation(n)
  BY <1>1, <1>2, <1>3 DEF Rotation
<1>5. Wired(n)
  BY <1>2 DEF Wired, Back, Quiet, Slots
<1>6. InScope(n)
  BY <1>2 DEF InScope
<1>. QED
  BY <1>4, <1>5, <1>6 DEF EngineInv, n

\* The gesture that lets the page play.
LEMMA FirstGestureSound ==
  ASSUME EngineInv(engine), FirstGesture
  PROVE  EngineInv(engine') /\ Setup(engine') = Setup(engine)
<1>. DEFINE m == [engine EXCEPT !.gesture = TRUE]
<1>1. PICK d \in Draws(m) :
        engine' = IF d.track = NoTrack THEN d.engine ELSE StartTrack(d.engine, d.track)
  BY DEF FirstGesture
<1>2. /\ m \in Engine /\ RotationOf(m) = RotationOf(engine) /\ m.sounding = engine.sounding
      /\ m.crossfading = engine.crossfading /\ m.front = engine.front
      /\ m.playing = engine.playing /\ m.incoming = engine.incoming /\ m.slot = engine.slot
  BY DEF EngineInv, Rotation, Engine, RotationOf
<1>. HIDE DEF m
<1>3. Rotation(m) /\ Scope(m) = Scope(engine) /\ Setup(m) = Setup(engine)
  BY <1>2, RotationFields DEF EngineInv, Setup, RotationOf
<1>4. Wired(m) /\ InScope(m)
  BY <1>2, <1>3 DEF EngineInv, Wired, InScope, Back
<1>5. Drawn(m, d)
  BY <1>3, DrawsDrawn
<1>6. Rotation(d.engine) /\ Wired(d.engine) /\ InScope(d.engine)
  BY <1>4, <1>5, WiredFields DEF Drawn, InScope, TransportOf
<1>7. CASE d.track = NoTrack
  BY <1>1, <1>3, <1>5, <1>6, <1>7 DEF Drawn, EngineInv
<1>8. CASE d.track # NoTrack
  <2>1. d.track \in Scope(d.engine)
    BY <1>5, <1>8 DEF Drawn
  <2>. QED
    BY <1>1, <1>3, <1>5, <1>6, <1>8, <2>1, StartSound DEF Drawn
<1>. QED
  BY <1>7, <1>8

\* The track that fades in is one of the scope.
LEMMA CrossfadeSound ==
  ASSUME NEW m, EngineInv(m), m.sounding, NEW t \in Scope(m)
  PROVE  EngineInv(BeginCrossfade(m, t)) /\ Setup(BeginCrossfade(m, t)) = Setup(m)
<1>. DEFINE n == BeginCrossfade(m, t)
            on == [track |-> t, state |-> "on"]
            sl == [m.slot EXCEPT ![Back(m)] = on]
<1>1. /\ m \in Engine /\ m.front \in Slots /\ Back(m) \in Slots /\ Back(m) # m.front
      /\ t \in Tracks /\ NoTrack \notin Tracks /\ \A i \in Slots : i = m.front \/ i = Back(m)
  BY MusicAssumption DEF EngineInv, Rotation, Engine, Back, Slots, Scope
<1>2. n = [m EXCEPT !.slot = sl, !.crossfading = TRUE, !.incoming = t]
  BY DEF BeginCrossfade
<1>3. sl \in [Slots -> [track : MaybeTrack, state : {"quiet", "on", "near", "over"}]]
  BY <1>1 DEF Engine, MaybeTrack
<1>4. sl[Back(m)] = on /\ sl[m.front] = m.slot[m.front]
  BY <1>1 DEF Engine
<1>. HIDE DEF n, sl
<1>5. /\ n \in Engine /\ RotationOf(n) = RotationOf(m) /\ n.front = m.front
      /\ n.sounding /\ n.crossfading /\ n.playing = m.playing /\ n.incoming = t /\ n.slot = sl
  BY <1>1, <1>2, <1>3 DEF Engine, MaybeTrack, RotationOf
<1>6. Rotation(n) /\ Scope(n) = Scope(m) /\ Setup(n) = Setup(m)
  BY <1>5, RotationFields DEF EngineInv, RotationOf, Setup
<1>7. Wired(n)
  BY <1>1, <1>4, <1>5 DEF EngineInv, Wired, Back
<1>8. InScope(n)
  BY <1>5, <1>6 DEF EngineInv, InScope
<1>. QED
  BY <1>6, <1>7, <1>8 DEF EngineInv, n

\* A frame of the engine.
LEMMA UpdateSound ==
  ASSUME EngineInv(engine), Update
  PROVE  EngineInv(engine') /\ Setup(engine') = Setup(engine)
<1>. DEFINE m == engine
<1>1. Rotation(m) /\ Wired(m) /\ engine' \in Updated(m)
  BY DEF EngineInv, Update
<1>2. CASE Scope(m) = {}
  <2>1. engine' = IF m.sounding THEN Halt(m) ELSE m
    BY <1>1, <1>2 DEF Updated
  <2>. QED
    BY <1>1, <2>1, HaltSound
<1>3. CASE Scope(m) # {}
  <2>1. ~m.crossfading
    BY <1>3 DEF Update
  <2>2. ASSUME NEW d \in Draws(m)
        PROVE  /\ Rotation(d.engine) /\ Wired(d.engine) /\ Scope(d.engine) = Scope(m)
               /\ TransportOf(d.engine) = TransportOf(m) /\ Setup(d.engine) = Setup(m)
               /\ d.track \in Scope(d.engine) /\ ~d.engine.crossfading
    <3>1. Drawn(m, d)
      BY <1>1, DrawsDrawn
    <3>. QED
      BY <1>1, <1>3, <2>1, <3>1, WiredFields DEF Drawn, TransportOf
  <2>3. CASE \E d \in Draws(m) : engine' = StartInFront(d.engine, d.track)
    <3>1. PICK d \in Draws(m) : engine' = StartInFront(d.engine, d.track)
      BY <2>3
    <3>. QED
      BY <2>2, <3>1, StartInFrontSound
  <2>4. CASE m.sounding /\ \E d \in Draws(m) : engine' = BeginCrossfade(d.engine, d.track)
    <3>1. PICK d \in Draws(m) : engine' = BeginCrossfade(d.engine, d.track)
      BY <2>4
    <3>2. EngineInv(d.engine) /\ d.engine.sounding
      BY <2>2, <2>4 DEF EngineInv, InScope, TransportOf
    <3>. QED
      BY <2>2, <3>1, <3>2, CrossfadeSound
  <2>5. CASE engine' = m
    BY <2>5
  <2>. QED
    BY <1>1, <1>3, <2>3, <2>4, <2>5 DEF Updated, Continue
<1>. QED
  BY <1>2, <1>3

\* The end of a crossfade.
LEMMA FinishSound ==
  ASSUME EngineInv(engine), FinishCrossfade
  PROVE  EngineInv(engine') /\ Setup(engine') = Setup(engine)
<1>. DEFINE m == engine
            n == engine'
            sl == [m.slot EXCEPT ![m.front] = Quiet]
<1>1. /\ m \in Engine /\ m.front \in Slots /\ Back(m) \in Slots /\ Back(m) # m.front
      /\ 1 - Back(m) = m.front /\ \A i \in Slots : i = m.front \/ i = Back(m)
  BY DEF EngineInv, Rotation, Engine, Back, Slots
<1>2. m.crossfading /\ n = [m EXCEPT !.slot = sl, !.front = Back(m), !.playing = m.incoming,
                                     !.incoming = NoTrack, !.crossfading = FALSE]
  BY DEF FinishCrossfade, Stop
<1>3. sl \in [Slots -> [track : MaybeTrack, state : {"quiet", "on", "near", "over"}]]
  BY <1>1 DEF Engine, MaybeTrack, Quiet
<1>4. sl[m.front] = Quiet /\ sl[Back(m)] = m.slot[Back(m)]
  BY <1>1 DEF Engine
<1>. HIDE DEF m, n, sl
<1>5. /\ n \in Engine /\ RotationOf(n) = RotationOf(m) /\ n.front = Back(m)
      /\ n.sounding = m.sounding /\ ~n.crossfading /\ n.playing = m.incoming
      /\ n.incoming = NoTrack /\ n.slot = sl
  BY <1>1, <1>2, <1>3 DEF Engine, MaybeTrack, RotationOf
<1>6. EngineInv(m)
  BY DEF m
<1>7. Rotation(n) /\ Scope(n) = Scope(m) /\ Setup(n) = Setup(m)
  BY <1>5, <1>6, RotationFields DEF EngineInv, RotationOf, Setup
<1>8. Wired(n)
  BY <1>1, <1>2, <1>4, <1>5, <1>6 DEF EngineInv, Wired, Back, Quiet
<1>9. InScope(n)
  BY <1>2, <1>5, <1>6, <1>7 DEF EngineInv, InScope, Wired
<1>. QED
  BY <1>7, <1>8, <1>9 DEF EngineInv, m, n

\* A track comes to its end.
LEMMA PlaysSound ==
  ASSUME EngineInv(engine), AudioPlays
  PROVE  EngineInv(engine') /\ Setup(engine') = Setup(engine)
<1>. DEFINE m == engine
            n == engine'
<1>1. PICK i \in Slots : \E x \in {"near", "over"} :
        m.slot[i].state = "on" /\ n = [m EXCEPT !.slot[i].state = x]
  BY DEF AudioPlays
<1>2. PICK x \in {"near", "over"} :
        m.slot[i].state = "on" /\ n = [m EXCEPT !.slot[i].state = x]
  BY <1>1
<1>. DEFINE sl == [m.slot EXCEPT ![i] = [m.slot[i] EXCEPT !.state = x]]
<1>3. m \in Engine /\ m.front \in Slots /\ Back(m) \in Slots
  BY DEF EngineInv, Rotation, Engine, Back, Slots
<1>4. n = [m EXCEPT !.slot = sl]
  BY <1>2
<1>5. sl \in [Slots -> [track : MaybeTrack, state : {"quiet", "on", "near", "over"}]]
  BY <1>3 DEF Engine, MaybeTrack
<1>6. \A j \in Slots : /\ sl[j].track = m.slot[j].track
                       /\ sl[j].state = "quiet" <=> m.slot[j].state = "quiet"
  BY <1>2, <1>3 DEF Engine
<1>7. EngineInv(m)
  BY DEF m
<1>. HIDE DEF m, n, sl
<1>8. /\ n \in Engine /\ RotationOf(n) = RotationOf(m) /\ n.front = m.front
      /\ n.sounding = m.sounding /\ n.crossfading = m.crossfading /\ n.playing = m.playing
      /\ n.incoming = m.incoming /\ n.slot = sl
  BY <1>3, <1>4, <1>5 DEF Engine, RotationOf
<1>9. Rotation(n) /\ Scope(n) = Scope(m) /\ Setup(n) = Setup(m)
  BY <1>7, <1>8, RotationFields DEF EngineInv, RotationOf, Setup
<1>10. Wired(n)
  BY <1>3, <1>6, <1>7, <1>8 DEF EngineInv, Wired, Back
<1>11. InScope(n)
  BY <1>7, <1>8, <1>9 DEF EngineInv, InScope
<1>. QED
  BY <1>9, <1>10, <1>11 DEF EngineInv, m, n

----------------------------------------------------------------------------
(* The rotation of the engine beside the one that is persisted. *)

\* The track is in the engine's rotation when it is one of the sequence.
LEMMA RotationMembers ==
  ASSUME NEW m, NEW t
  PROVE  InRotation(m, t) <=> t \in ToSet(m.tracks)
  BY DEF InRotation, ToSet

\* A sequence that has a track once, at position p, without its first occurrence.
LEMMA RemoveFirstOnce ==
  ASSUME NEW s \in Seq(Tracks), \A i, j \in DOMAIN s : s[i] = s[j] => i = j,
         NEW p \in 1 .. Len(s)
  PROVE  RemoveFirst(s, s[p]) = [i \in 1 .. Len(s) - 1 |-> IF i < p THEN s[i] ELSE s[i + 1]]
<1>. DEFINE n == Len(s)
            t == s[p]
            I == {i \in 1 .. n : s[i] = t}
            left == [i \in 1 .. n - 1 |-> IF i < p THEN s[i] ELSE s[i + 1]]
            lo == SubSeq(s, 1, p - 1)
            hi == SubSeq(s, p + 1, n)
<1>1. n \in Nat /\ DOMAIN s = 1 .. n /\ I = {p}
  OBVIOUS
<1>2. SelectInSeq(s, LAMBDA v : v = t) = p
  <2>1. SelectInSeq(s, LAMBDA v : v = t) = IF I # {} THEN Min(I) ELSE 0
    BY DEF SelectInSeq
  <2>2. Min({p}) = p
    BY DEF Min
  <2>. QED
    BY <1>1, <2>1, <2>2
<1>3. RemoveFirst(s, t) = lo \o hi
  BY <1>2 DEF RemoveFirst, RemoveAt
<1>4. left \in Seq(Tracks) /\ Len(left) = n - 1
      /\ \A i \in 1 .. n - 1 : left[i] = IF i < p THEN s[i] ELSE s[i + 1]
  BY <1>1
<1>5. /\ lo \in Seq(Tracks) /\ Len(lo) = p - 1 /\ \A i \in 1 .. p - 1 : lo[i] = s[i]
      /\ hi \in Seq(Tracks) /\ Len(hi) = n - p /\ \A i \in 1 .. n - p : hi[i] = s[p + i]
  <2>1. p \in Int /\ n \in Int /\ 1 <= p /\ p <= n /\ \A i \in 1 .. n : s[i] \in Tracks
    BY <1>1
  <2>2. /\ lo \in Seq(Tracks) /\ Len(lo) = IF 1 <= p - 1 THEN (p - 1) - 1 + 1 ELSE 0
        /\ \A i \in 1 .. (p - 1) - 1 + 1 : lo[i] = s[1 + i - 1]
    BY <2>1, SubSeqProperties
  <2>3. /\ hi \in Seq(Tracks) /\ Len(hi) = IF p + 1 <= n THEN n - (p + 1) + 1 ELSE 0
        /\ \A i \in 1 .. n - (p + 1) + 1 : hi[i] = s[(p + 1) + i - 1]
    BY <2>1, SubSeqProperties
  <2>. HIDE DEF lo, hi, n
  <2>4. Len(lo) = p - 1 /\ \A i \in 1 .. p - 1 : lo[i] = s[i]
    BY <2>1, <2>2
  <2>5. Len(hi) = n - p /\ \A i \in 1 .. n - p : hi[i] = s[p + i]
    <3>1. n - (p + 1) + 1 = n - p /\ \A i \in 1 .. n - p : (p + 1) + i - 1 = p + i
      BY <2>1
    <3>. QED
      BY <2>1, <2>3, <3>1
  <2>. QED
    BY <2>2, <2>3, <2>4, <2>5
<1>. HIDE DEF lo, hi, left
<1>6. /\ lo \o hi \in Seq(Tracks) /\ Len(lo \o hi) = n - 1
      /\ \A i \in 1 .. n - 1 : (lo \o hi)[i] = IF i <= p - 1 THEN lo[i] ELSE hi[i - (p - 1)]
  <2>1. Len(lo) + Len(hi) = n - 1
    BY <1>1, <1>5
  <2>2. /\ lo \o hi \in Seq(Tracks) /\ Len(lo \o hi) = Len(lo) + Len(hi)
        /\ \A i \in 1 .. Len(lo) + Len(hi) :
             (lo \o hi)[i] = IF i <= Len(lo) THEN lo[i] ELSE hi[i - Len(lo)]
    BY <1>5, ConcatProperties, ZenonT(40)
  <2>3. Len(lo) = p - 1
    BY <1>5
  <2>4. 1 .. n - 1 = 1 .. Len(lo) + Len(hi)
    BY <2>1, Zenon
  <2>. HIDE DEF n
  <2>5. ASSUME NEW i \in 1 .. n - 1
        PROVE  (lo \o hi)[i] = IF i <= p - 1 THEN lo[i] ELSE hi[i - (p - 1)]
    <3>1. (lo \o hi)[i] = IF i <= Len(lo) THEN lo[i] ELSE hi[i - Len(lo)]
      BY <2>2, <2>4, Zenon
    <3>. QED
      BY <2>3, <3>1
  <2>. QED
    BY <2>1, <2>2, <2>5, Zenon
<1>7. ASSUME NEW i \in 1 .. n - 1 PROVE (lo \o hi)[i] = left[i]
  <2>1. CASE i < p
    BY <1>1, <1>4, <1>5, <1>6, <2>1
  <2>2. CASE ~(i < p)
    <3>. DEFINE k == i - (p - 1)
    <3>1. k \in 1 .. n - p /\ p + k = i + 1 /\ ~(i <= p - 1)
      BY <1>1, <2>2
    <3>2. (lo \o hi)[i] = hi[k]
      BY <1>6, <3>1
    <3>3. left[i] = s[i + 1]
      BY <1>4, <2>2
    <3>. HIDE DEF k
    <3>4. hi[k] = s[p + k]
      BY <1>5, <3>1
    <3>. QED
      BY <3>1, <3>2, <3>3, <3>4
  <2>. QED
    BY <2>1, <2>2
<1>8. lo \o hi = left
  BY <1>4, <1>6, <1>7, SeqEqual
<1>. QED
  BY <1>3, <1>8 DEF left

\* No other track is lost, and none comes in twice.
LEMMA RemoveFirstKeeps ==
  ASSUME NEW s \in Seq(Tracks), \A i, j \in DOMAIN s : s[i] = s[j] => i = j, NEW t
  PROVE  /\ RemoveFirst(s, t) \in Seq(Tracks)
         /\ ToSet(RemoveFirst(s, t)) \subseteq ToSet(s)
         /\ \A i, j \in DOMAIN RemoveFirst(s, t) :
              RemoveFirst(s, t)[i] = RemoveFirst(s, t)[j] => i = j
<1>1. CASE \E p \in 1 .. Len(s) : s[p] = t
  <2>. DEFINE n == Len(s)
  <2>1. PICK p \in 1 .. n : s[p] = t
    BY <1>1
  <2>. DEFINE left == [i \in 1 .. n - 1 |-> IF i < p THEN s[i] ELSE s[i + 1]]
  <2>2. RemoveFirst(s, t) = left
    BY <2>1, RemoveFirstOnce
  <2>3. n \in Nat /\ DOMAIN s = 1 .. n
    OBVIOUS
  <2>4. left \in Seq(Tracks) /\ DOMAIN left = 1 .. n - 1
        /\ \A i \in 1 .. n - 1 : left[i] = IF i < p THEN s[i] ELSE s[i + 1]
    BY <2>3
  <2>. HIDE DEF left
  <2>5. \A i \in 1 .. n - 1 : left[i] \in ToSet(s)
    BY <2>3, <2>4 DEF ToSet
  <2>6. \A i, j \in 1 .. n - 1 : left[i] = left[j] => i = j
    <3>1. \A i, j \in 1 .. n : s[i] = s[j] => i = j
      BY <2>3
    <3>. HIDE DEF n
    <3>. QED
      BY <2>1, <2>3, <2>4, <3>1
  <2>. QED
    BY <2>2, <2>4, <2>5, <2>6 DEF ToSet
<1>2. CASE ~ \E p \in 1 .. Len(s) : s[p] = t
  BY <1>2 DEF RemoveFirst
<1>. QED
  BY <1>1, <1>2

\* The engine takes a track out by its position, the profile by its first
\* occurrence: the sequences that are left are the same.
LEMMA EraseIsRemoveFirst ==
  ASSUME NEW m, Rotation(m), NEW t \in Tracks
  PROVE  Erase(m, t).tracks = RemoveFirst(m.tracks, t)
<1>. DEFINE p == Position(m, t)
<1>1. m.tracks \in Seq(Tracks) /\ DOMAIN m.tracks = 1 .. Len(m.tracks)
      /\ \A i, j \in DOMAIN m.tracks : m.tracks[i] = m.tracks[j] => i = j
  BY DEF Rotation, Engine
<1>2. CASE ~InRotation(m, t)
  BY <1>1, <1>2 DEF Erase, InRotation, RemoveFirst
<1>3. CASE InRotation(m, t)
  <2>1. p \in 1 .. Len(m.tracks) /\ m.tracks[p] = t
    BY <1>1, <1>3 DEF InRotation, Position
  <2>2. Erase(m, t).tracks =
          [i \in 1 .. Len(m.tracks) - 1 |-> IF i < p THEN m.tracks[i] ELSE m.tracks[i + 1]]
    BY <1>3 DEF Erase, PoolRemove, Rotation, Engine
  <2>. HIDE DEF p
  <2>. QED
    BY <1>1, <2>1, <2>2, RemoveFirstOnce
<1>. QED
  BY <1>2, <1>3

\* A purchase pays the price of the track it unlocks, or does nothing.
LEMMA PurchaseAccounts ==
  ASSUME NEW p \in Profile, NEW t \in Tracks
  PROVE  LET q == Purchased(p, t)
         IN  /\ q \in Profile /\ q.pool = p.pool /\ p.unlocked \subseteq q.unlocked
             /\ \/ q = p
                \/ /\ t \notin p.unlocked /\ q.unlocked = p.unlocked \union {t}
                   /\ Spent(q) = Spent(p) + Price[t]
<1>. DEFINE q == Purchased(p, t)
<1>1. CASE t \in Owned(p) \/ p.spendable < Price[t]
  BY <1>1 DEF Purchased
<1>2. CASE ~(t \in Owned(p) \/ p.spendable < Price[t])
  <2>. DEFINE rest == p.spendable - Price[t]
              more == p.unlocked \union {t}
  <2>1. q = [p EXCEPT !.spendable = rest, !.unlocked = more]
    BY <1>2 DEF Purchased
  <2>2. Price[t] \in Nat /\ p.spendable \in Nat /\ p.lifetime \in Nat /\ rest \in Nat
        /\ more \subseteq Tracks /\ t \notin p.unlocked
    BY <1>2, JukeboxAssumption DEF Profile, Owned
  <2>. HIDE DEF q, rest, more
  <2>3. q \in Profile /\ q.pool = p.pool /\ q.unlocked = more /\ q.spendable = rest
        /\ q.lifetime = p.lifetime
    BY <2>1, <2>2 DEF Profile
  <2>. QED
    BY <2>2, <2>3 DEF Spent, q, rest, more
<1>. QED
  BY <1>1, <1>2

\* The rows that do something are those that are owned or can be afforded.
LEMMA FocusListRows ==
  ASSUME NEW p
  PROVE  ShopFocusList(p) = {t \in Tracks : t \in Owned(p) \/ ~(p.spendable < Price[t])}
  BY DEF ShopFocusList, ButtonKind

\* A profile keeps a sound rotation when its purchases grow.
LEMMA SoundPoolGrows ==
  ASSUME NEW p, NEW q, SoundPool(p), q.pool = p.pool, p.unlocked \subseteq q.unlocked
  PROVE  SoundPool(q)
  BY DEF SoundPool, Owned

\* What the boot and a sign-in seed an empty rotation with is sound.
LEMMA SeededSound ==
  ASSUME NEW p \in Profile, SoundPool(p)
  PROVE  /\ Seeded(p) \in Profile /\ SoundPool(Seeded(p))
         /\ Seeded(p).unlocked = p.unlocked /\ Seeded(p).spendable = p.spendable
         /\ Seeded(p).lifetime = p.lifetime
<1>1. CASE p.pool = <<>>
  <2>1. Seeded(p) = [p EXCEPT !.pool = Starters]
    BY <1>1 DEF Seeded
  <2>2. Seeded(p) \in Profile /\ Seeded(p).pool = Starters /\ Seeded(p).unlocked = p.unlocked
        /\ Seeded(p).spendable = p.spendable /\ Seeded(p).lifetime = p.lifetime
    BY <2>1, MusicAssumption DEF Profile
  <2>. QED
    BY <2>2, MusicAssumption DEF SoundPool, Owned
<1>2. CASE p.pool # <<>>
  BY <1>2 DEF Seeded
<1>. QED
  BY <1>1, <1>2

\* The engine after the audio settings are applied.
LEMMA ApplyAudioSound ==
  ASSUME NEW m, EngineInv(m), NEW g \in Filters, NEW o \in Orders, NEW n \in ApplyAudio(m, g, o)
  PROVE  EngineInv(n) /\ n.tracks = m.tracks
<1>1. PICK f \in ApplyFilter(m, g) : n = [f EXCEPT !.order = o]
  BY DEF ApplyAudio
<1>2. EngineInv(f) /\ f.tracks = m.tracks
  BY ApplyFilterSound, JukeboxAssumption
<1>3. /\ n \in Engine /\ TransportOf(n) = TransportOf(f) /\ n.tracks = f.tracks
      /\ n.cursor = f.cursor /\ n.filter = f.filter /\ n.members = f.members
      /\ n.rest = f.rest /\ n.last = f.last
  BY <1>1, <1>2 DEF EngineInv, Rotation, Engine, TransportOf
<1>4. Scope(n) = Scope(f)
  BY <1>3 DEF Scope, InRotation, Passes
<1>5. Rotation(n)
  BY <1>2, <1>3, <1>4 DEF EngineInv, Rotation
<1>6. Wired(n)
  BY <1>2, <1>3, WiredFields DEF EngineInv
<1>7. InScope(n)
  BY <1>2, <1>3, <1>4 DEF EngineInv, InScope, TransportOf
<1>. QED
  BY <1>2, <1>3, <1>5, <1>6, <1>7 DEF EngineInv

----------------------------------------------------------------------------
(* The page. *)

\* What the theorems rest on: whatever the rows hold, the persisted rotation stays
\* sound, and while it was not replaced behind the engine's back, by a late
\* reconcile or a deletion, the engine's is the same sequence.
JukeboxInv ==
  /\ EngineInv(engine)
  /\ profile \in Profile /\ SoundPool(profile)
  /\ booted \in BOOLEAN /\ shop \in BOOLEAN /\ behind \in 0 .. MaxLate + 1
  /\ armed \in MaybeTrack /\ stops \subseteq Tracks
  /\ settled \subseteq profile.unlocked /\ spent \in Int
  /\ shop => booted
  /\ booted /\ behind = 0 => engine.tracks = profile.pool
  /\ StopsAreTheLiveRows

\* The boot, and a sign-in, make the engine's rotation the profile's.
LEMMA TakeProfileSound ==
  ASSUME EngineInv(engine), NEW p \in Profile, SoundPool(p), TakeProfile(p)
  PROVE  /\ EngineInv(engine') /\ profile' \in Profile /\ SoundPool(profile')
         /\ engine'.tracks = profile'.pool /\ behind' = 0
         /\ profile'.unlocked = p.unlocked /\ profile'.spendable = p.spendable
         /\ profile'.lifetime = p.lifetime
<1>. DEFINE q == Seeded(p)
<1>1. PICK g \in Filters : \E o \in Orders : engine' \in ApplyAudio(Restored(engine, q), g, o)
  BY DEF TakeProfile
<1>2. PICK o \in Orders : engine' \in ApplyAudio(Restored(engine, q), g, o)
  BY <1>1
<1>3. profile' = q /\ q \in Profile /\ SoundPool(q) /\ behind' = 0
      /\ q.unlocked = p.unlocked /\ q.spendable = p.spendable /\ q.lifetime = p.lifetime
  BY SeededSound DEF TakeProfile
<1>. HIDE DEF q
<1>4. EngineInv(Restored(engine, q)) /\ Restored(engine, q).tracks = q.pool
  BY <1>3, RebuildSound DEF Restored, Profile, SoundPool
<1>5. EngineInv(engine') /\ engine'.tracks = q.pool
  BY <1>2, <1>4, ApplyAudioSound
<1>. QED
  BY <1>3, <1>5

\* Nothing was adopted yet.
LEMMA InitJukeboxInv ==
  JukeboxInit => JukeboxInv
<1>. SUFFICES ASSUME JukeboxInit PROVE JukeboxInv
  OBVIOUS
<1>1. Fresh \in Profile /\ SoundPool(Fresh)
  BY DEF Fresh, Profile, SoundPool, ToSet
<1>2. profile \in Profile /\ SoundPool(profile)
  BY <1>1, JukeboxAssumption DEF JukeboxInit
<1>3. EngineInv(engine)
  BY NewEngineSound DEF JukeboxInit
<1>4. Spent(profile) \in Int
  BY <1>2 DEF Spent, Profile
<1>5. 0 \in 0 .. MaxLate + 1
  BY JukeboxAssumption
<1>. QED
  BY <1>2, <1>3, <1>4, <1>5 DEF JukeboxInit, JukeboxInv, MaybeTrack, StopsAreTheLiveRows

\* The steps that leave the engine's rotation and the Shop's rows where they are.
LEMMA QuietSteps ==
  ASSUME JukeboxInv,
         \/ Reload \/ Award \/ ResetTomatoes \/ ChangeAudio \/ OpenShop \/ CloseShop
         \/ EngineStep \/ DeleteAccount \/ \E row \in Rows : PumpAdopts(row)
  PROVE  JukeboxInv'
<1>. USE DEF JukeboxInv, StopsAreTheLiveRows
<1>0. Spent(profile) \in Int /\ 0 \in 0 .. MaxLate + 1 /\ 1 \in 0 .. MaxLate + 1
  BY JukeboxAssumption DEF Spent, Profile
<1>1. CASE Reload
  BY <1>0, <1>1, NewEngineSound DEF Reload, MaybeTrack
<1>2. CASE Award
  <2>. DEFINE p == profile
              q == profile'
              spendable == p.spendable + 1
              lifetime == p.lifetime + 1
  <2>0. p \in Profile /\ spendable \in Nat /\ lifetime \in Nat
        /\ q = [p EXCEPT !.spendable = spendable, !.lifetime = lifetime]
    BY <1>2 DEF Award, Profile
  <2>1. q \in Profile /\ q.pool = p.pool /\ q.unlocked = p.unlocked
    <3>. HIDE DEF p, q, spendable, lifetime
    <3>. QED
      BY <2>0 DEF Profile
  <2>2. SoundPool(profile')
    BY <2>1, SoundPoolGrows
  <2>. QED
    BY <1>2, <2>1, <2>2 DEF Award
<1>3. CASE ResetTomatoes
  <2>1. profile' \in Profile /\ profile'.pool = profile.pool /\ profile'.unlocked = profile.unlocked
    BY <1>3 DEF ResetTomatoes, Profile
  <2>2. SoundPool(profile') /\ Spent(profile') \in Int
    BY <2>1, SoundPoolGrows DEF Spent, Profile
  <2>. QED
    BY <1>3, <2>1, <2>2 DEF ResetTomatoes, WalletReplaced
<1>4. CASE ChangeAudio
  <2>1. PICK g \in Filters : \E o \in Orders : engine' \in ApplyAudio(engine, g, o)
    BY <1>4 DEF ChangeAudio
  <2>2. EngineInv(engine') /\ engine'.tracks = engine.tracks
    BY <2>1, ApplyAudioSound
  <2>. QED
    BY <1>4, <2>2 DEF ChangeAudio
<1>5. CASE OpenShop
  BY <1>5 DEF OpenShop, MaybeTrack, ShopFocusList
<1>6. CASE CloseShop
  BY <1>6 DEF CloseShop
<1>7. CASE EngineStep
  <2>1. EngineInv(engine') /\ Setup(engine') = Setup(engine)
    BY <1>7, FirstGestureSound, PlaysSound, UpdateSound, FinishSound DEF EngineStep
  <2>. QED
    BY <1>7, <2>1 DEF EngineStep, Setup
<1>8. CASE \E row \in Rows : PumpAdopts(row)
  <2>1. PICK row \in Rows : PumpAdopts(row)
    BY <1>8
  <2>2. profile' \in Profile /\ SoundPool(profile') /\ behind' = 1
    BY <2>1, JukeboxAssumption DEF PumpAdopts
  <2>3. Spent(profile') \in Int
    BY <2>2 DEF Spent, Profile
  <2>. QED
    BY <1>0, <2>1, <2>2, <2>3 DEF PumpAdopts, WalletReplaced
<1>9. CASE DeleteAccount
  <2>1. Fresh \in Profile /\ SoundPool(Fresh) /\ Spent(Fresh) \in Int
    BY DEF Fresh, Profile, SoundPool, ToSet, Spent
  <2>. QED
    BY <1>0, <1>9, <2>1 DEF DeleteAccount, WalletReplaced
<1>. QED
  BY <1>1, <1>2, <1>3, <1>4, <1>5, <1>6, <1>7, <1>8, <1>9

\* The boot and the sign-in.
LEMMA ReloadingSteps ==
  ASSUME JukeboxInv, FinishBoot \/ \E p \in Rows \union {profile} : SignIn(p)
  PROVE  JukeboxInv'
<1>. USE DEF JukeboxInv, StopsAreTheLiveRows
<1>0. 0 \in 0 .. MaxLate + 1
  BY JukeboxAssumption
<1>1. CASE FinishBoot
  <2>1. TakeProfile(profile)
    BY <1>1 DEF FinishBoot
  <2>. QED
    BY <1>0, <1>1, <2>1, TakeProfileSound DEF FinishBoot
<1>2. CASE \E p \in Rows \union {profile} : SignIn(p)
  <2>1. PICK p \in Rows \union {profile} : SignIn(p)
    BY <1>2
  <2>2. p \in Profile /\ SoundPool(p) /\ TakeProfile(p)
    BY <2>1, JukeboxAssumption DEF SignIn
  <2>3. /\ EngineInv(engine') /\ profile' \in Profile /\ SoundPool(profile')
        /\ engine'.tracks = profile'.pool /\ behind' = 0 /\ profile'.unlocked = p.unlocked
    BY <2>2, TakeProfileSound
  <2>4. Spent(profile') \in Int
    BY <2>3 DEF Spent, Profile
  <2>5. settled' \subseteq profile'.unlocked /\ spent' \in Int
    BY <2>1, <2>3, <2>4 DEF SignIn, WalletReplaced
  <2>. QED
    BY <1>0, <2>1, <2>3, <2>5 DEF SignIn
<1>. QED
  BY <1>1, <1>2

\* The three buttons of the Shop.
LEMMA ShopSteps ==
  ASSUME JukeboxInv, NEW t \in Tracks,
         ActivateBuy(t) \/ ActivateAdd(t) \/ ActivateRemove(t)
  PROVE  JukeboxInv'
<1>. USE DEF JukeboxInv
<1>0. t \in MaybeTrack /\ NoTrack \in MaybeTrack
  BY DEF MaybeTrack
<1>1. CASE ActivateBuy(t)
  <2>1. CASE armed' = t /\ UNCHANGED <<profile, stops>>
    BY <1>0, <1>1, <2>1 DEF ActivateBuy, StopsAreTheLiveRows
  <2>2. CASE armed' = NoTrack /\ profile' = Purchased(profile, t)
             /\ stops' = RebuildShopFocus(stops, profile')
    <3>1. /\ profile' \in Profile /\ profile'.pool = profile.pool
          /\ profile.unlocked \subseteq profile'.unlocked
      BY <2>2, PurchaseAccounts
    <3>2. SoundPool(profile')
      BY <3>1, SoundPoolGrows
    <3>3. stops' = ShopFocusList(profile') /\ stops' \subseteq Tracks
      BY <2>2 DEF RebuildShopFocus, ShopFocusList
    <3>. QED
      BY <1>0, <1>1, <2>2, <3>1, <3>2, <3>3 DEF ActivateBuy, StopsAreTheLiveRows
  <2>. QED
    BY <1>1, <2>1, <2>2 DEF ActivateBuy
<1>2. ASSUME NEW q \in Seq(Tracks), profile' = [profile EXCEPT !.pool = q],
             ToSet(q) \subseteq Owned(profile), EngineInv(engine'),
             \A i, j \in DOMAIN q : q[i] = q[j] => i = j,
             behind = 0 => engine'.tracks = q,
             shop, Edits, armed' = NoTrack, UNCHANGED <<booted, shop, stops, settled, spent>>
      PROVE  JukeboxInv'
  <2>1. /\ profile' \in Profile /\ profile'.pool = q /\ profile'.unlocked = profile.unlocked
        /\ profile'.spendable = profile.spendable
    BY <1>2 DEF Profile
  <2>2. Owned(profile') = Owned(profile)
    BY <2>1 DEF Owned
  <2>3. SoundPool(profile') /\ ShopFocusList(profile') = ShopFocusList(profile)
    <3>1. SoundPool(profile')
      BY <1>2, <2>1, <2>2 DEF SoundPool
    <3>2. ShopFocusList(profile') = ShopFocusList(profile)
      BY <2>1, <2>2, FocusListRows
    <3>. QED
      BY <3>1, <3>2
  <2>4. behind' \in 0 .. MaxLate + 1 /\ (behind' = 0 => behind = 0)
    BY <1>2, JukeboxAssumption DEF Edits
  <2>. QED
    <3>1. booted' /\ shop' /\ (behind' = 0 => engine'.tracks = profile'.pool)
      BY <1>2, <2>1, <2>4
    <3>2. behind' = 0 => stops' = ShopFocusList(profile')
      BY <1>2, <2>3, <2>4 DEF StopsAreTheLiveRows
    <3>3. settled' \subseteq profile'.unlocked /\ spent' \in Int /\ stops' \subseteq Tracks
      BY <1>2, <2>1
    <3>4. booted' \in BOOLEAN /\ shop' \in BOOLEAN /\ armed' \in MaybeTrack
      BY <1>0, <1>2
    <3>. QED
      BY <1>2, <2>1, <2>3, <2>4, <3>1, <3>2, <3>3, <3>4 DEF StopsAreTheLiveRows
<1>3. CASE ActivateAdd(t)
  <2>1. t \in Owned(profile) /\ t \notin ToSet(profile.pool)
    BY <1>3 DEF ActivateAdd, ButtonKind
  <2>. DEFINE q == Append(profile.pool, t)
  <2>2. profile' = [profile EXCEPT !.pool = q] /\ profile.pool \in Seq(Tracks)
    BY <1>3, <2>1 DEF ActivateAdd, AddToPool, Profile
  <2>3. q \in Seq(Tracks) /\ ToSet(q) \subseteq Owned(profile)
        /\ \A i, j \in DOMAIN q : q[i] = q[j] => i = j
    BY <2>1, <2>2 DEF SoundPool, ToSet
  <2>4. EngineInv(engine') /\ (engine.tracks = profile.pool => engine'.tracks = q)
    <3>. DEFINE n == Add(engine, t)
    <3>1. Rotation(n) /\ Scope(engine) \subseteq Scope(n) /\ TransportOf(n) = TransportOf(engine)
      BY AddRotation DEF EngineInv
    <3>2. engine.tracks = profile.pool => n.tracks = q
      BY <2>1, RotationMembers DEF Add, EngineInv, Rotation, Engine
    <3>3. engine' = n
      BY <1>3 DEF ActivateAdd
    <3>. HIDE DEF n
    <3>4. Wired(n) /\ InScope(n)
      BY <3>1, WiredFields DEF EngineInv, InScope, TransportOf
    <3>. QED
      BY <3>1, <3>2, <3>3, <3>4 DEF EngineInv
  <2>. HIDE DEF q
  <2>. QED
    BY <1>2, <1>3, <2>2, <2>3, <2>4 DEF ActivateAdd
<1>4. CASE ActivateRemove(t)
  <2>1. EngineInv(engine') /\ engine'.tracks = Erase(engine, t).tracks
    BY <1>4, RemoveTrackSound DEF ActivateRemove, Setup
  <2>. DEFINE q == RemoveFirst(profile.pool, t)
  <2>2. profile' = [profile EXCEPT !.pool = q]
    BY <1>4 DEF ActivateRemove, RemoveFromPool
  <2>3. behind = 0 => engine'.tracks = q
    <3>1. Rotation(engine) /\ (behind = 0 => engine.tracks = profile.pool)
      BY <1>4 DEF EngineInv, ActivateRemove
    <3>. QED
      BY <2>1, <3>1, EraseIsRemoveFirst
  <2>4. q \in Seq(Tracks) /\ ToSet(q) \subseteq Owned(profile)
        /\ \A i, j \in DOMAIN q : q[i] = q[j] => i = j
    BY RemoveFirstKeeps DEF SoundPool, Profile
  <2>. HIDE DEF q
  <2>. QED
    BY <1>2, <1>4, <2>1, <2>2, <2>3, <2>4 DEF ActivateRemove
<1>. QED
  BY <1>1, <1>3, <1>4

----------------------------------------------------------------------------
(* The price of a set of tracks. *)

\* One step of the sum: a track is put aside, the rest is summed.
SumStep(h, s) ==
  IF s = {} THEN 0
  ELSE Price[CHOOSE x \in s : TRUE] + h[s \ {CHOOSE x \in s : TRUE}]

\* h gives every subset of D its price.
Sums(h, D) == h = [s \in SUBSET D |-> SumStep(h, s)]

\* A set of finite sets has a smallest one.
LEMMA SmallestSet ==
  ASSUME NEW B \in SUBSET SUBSET Tracks, B # {}
  PROVE  \E s \in B : \A r \in B : Cardinality(s) <= Cardinality(r)
<1>. DEFINE S == {Cardinality(s) : s \in B}
<1>1. \A s \in B : Cardinality(s) \in Nat
  BY FS_Subset, FS_CardinalityType, JukeboxAssumption
<1>2. S \in SUBSET Nat /\ S # {}
  BY <1>1
<1>3. PICK n \in S : \A k \in S : n <= k
  <2>. HIDE DEF S
  <2>. QED
    BY <1>2, LeastMember
<1>4. PICK s \in B : n = Cardinality(s)
  BY <1>3
<1>. QED
  BY <1>3, <1>4

\* Without one of its tracks a set is smaller.
LEMMA SmallerSet ==
  ASSUME NEW s \in SUBSET Tracks, NEW x \in s
  PROVE  /\ s \ {x} \in SUBSET Tracks /\ Cardinality(s \ {x}) \in Nat
         /\ Cardinality(s) \in Nat /\ Cardinality(s) = Cardinality(s \ {x}) + 1
<1>1. IsFiniteSet(s)
  BY FS_Subset, JukeboxAssumption
<1>2. IsFiniteSet(s \ {x}) /\ Cardinality(s \ {x}) = Cardinality(s) - 1
  BY <1>1, FS_RemoveElement
<1>3. Cardinality(s) \in Nat /\ Cardinality(s \ {x}) \in Nat
  BY <1>1, <1>2, FS_CardinalityType
<1>. QED
  BY <1>2, <1>3

\* The sum, up to a size of set.
Small(n) == {s \in SUBSET Tracks : Cardinality(s) <= n}

PartialSum(n) == {h \in [Small(n) -> Nat] : \A s \in Small(n) : h[s] = SumStep(h, s)}

\* Every set of tracks is of some size.
LEMMA SizeOfSet ==
  \A s \in SUBSET Tracks : Cardinality(s) \in Nat /\ (Cardinality(s) = 0 <=> s = {})
  BY FS_Subset, FS_CardinalityType, FS_EmptySet, JukeboxAssumption

\* A sum up to one size extends to the next.
LEMMA SumExtends ==
  ASSUME NEW n \in Nat, NEW h \in PartialSum(n)
  PROVE  PartialSum(n + 1) # {}
<1>. DEFINE g == [s \in Small(n + 1) |-> SumStep(h, s)]
<1>1. ASSUME NEW s \in Small(n + 1), NEW x \in s
      PROVE  s \ {x} \in Small(n) /\ s \ {x} \in Small(n + 1) /\ x \in Tracks
  <2>1. s \in SUBSET Tracks /\ Cardinality(s) <= n + 1
    BY DEF Small
  <2>. DEFINE r == s \ {x}
              k == Cardinality(r)
  <2>2. r \in SUBSET Tracks /\ k \in Nat /\ Cardinality(s) = k + 1
    BY <2>1, SmallerSet
  <2>. HIDE DEF k, r
  <2>3. k <= n /\ k <= n + 1
    BY <2>1, <2>2
  <2>. QED
    BY <2>1, <2>2, <2>3 DEF Small, k, r
<1>2. ASSUME NEW s \in Small(n + 1) PROVE g[s] \in Nat /\ g[s] = SumStep(g, s)
  <2>0. g[s] = SumStep(h, s)
    OBVIOUS
  <2>1. CASE s = {}
    BY <2>0, <2>1 DEF SumStep
  <2>2. CASE s # {}
    <3>. DEFINE x == CHOOSE x \in s : TRUE
                r == s \ {x}
    <3>1. x \in s
      BY <2>2
    <3>2. r \in Small(n) /\ r \in Small(n + 1) /\ x \in Tracks
      BY <1>1, <3>1
    <3>3. h[r] = SumStep(h, r) /\ h[r] \in Nat
      BY <3>2 DEF PartialSum
    <3>4. g[r] = h[r]
      BY <3>2, <3>3
    <3>5. SumStep(h, s) = Price[x] + h[r] /\ SumStep(g, s) = Price[x] + g[r]
      BY <2>2 DEF SumStep
    <3>6. Price[x] \in Nat
      BY <3>2, JukeboxAssumption
    <3>. HIDE DEF x, r, g
    <3>. QED
      BY <2>0, <3>3, <3>4, <3>5, <3>6
  <2>. QED
    BY <2>1, <2>2
<1>3. g \in [Small(n + 1) -> Nat]
  BY <1>2
<1>. QED
  BY <1>2, <1>3 DEF PartialSum

\* The sum is defined: it exists up to every size of set.
LEMMA SumExists ==
  \E h \in [SUBSET Tracks -> Nat] : Sums(h, Tracks)
<1>. DEFINE Missing == {n \in Nat : PartialSum(n) = {}}
<1>1. 0 \notin Missing
  <2>. DEFINE h == [s \in Small(0) |-> 0]
  <2>1. \A s \in Small(0) : s = {}
    <3>1. ASSUME NEW s \in Small(0) PROVE Cardinality(s) = 0 /\ s \in SUBSET Tracks
      BY SizeOfSet DEF Small
    <3>. QED
      BY <3>1, SizeOfSet
  <2>2. h \in PartialSum(0)
    BY <2>1 DEF SumStep, PartialSum
  <2>. QED
    BY <2>2
<1>2. ASSUME NEW n \in Missing, \A k \in Missing : n <= k PROVE FALSE
  <2>1. n \in Nat /\ n # 0
    BY <1>1
  <2>. DEFINE k == n - 1
  <2>2. k \in Nat /\ n = k + 1 /\ ~(n <= k)
    BY <2>1
  <2>3. k \notin Missing
    BY <1>2, <2>2
  <2>. HIDE DEF k
  <2>4. PICK h : h \in PartialSum(k)
    BY <2>2, <2>3
  <2>. QED
    BY <2>2, <2>4, SumExtends
<1>3. Missing = {}
  <2>1. Missing \in SUBSET Nat
    OBVIOUS
  <2>. HIDE DEF Missing
  <2>. QED
    BY <1>2, <2>1, LeastMember
<1>. DEFINE n == Cardinality(Tracks)
<1>4. n \in Nat /\ Small(n) = SUBSET Tracks
  BY SizeOfSet, FS_Subset, JukeboxAssumption DEF Small
<1>. HIDE DEF n
<1>5. PICK h : h \in PartialSum(n)
  BY <1>3, <1>4
<1>6. h \in [SUBSET Tracks -> Nat] /\ \A s \in SUBSET Tracks : h[s] = SumStep(h, s)
  BY <1>4, <1>5 DEF PartialSum
<1>. QED
  BY <1>6 DEF Sums

\* There is one sum only, on whatever domain it is taken.
LEMMA SumUnique ==
  ASSUME NEW h, Sums(h, Tracks), NEW D \in SUBSET Tracks, NEW g, Sums(g, D),
         NEW S \in SUBSET D
  PROVE  g[S] = h[S]
<1>. DEFINE Bad == {s \in SUBSET D : g[s] # h[s]}
<1>1. ASSUME NEW s \in Bad, \A r \in Bad : Cardinality(s) <= Cardinality(r) PROVE FALSE
  <2>1. s \in SUBSET D /\ s \in SUBSET Tracks /\ g[s] # h[s]
    BY <1>1
  <2>2. g[s] = SumStep(g, s) /\ h[s] = SumStep(h, s)
    <3>1. g = [r \in SUBSET D |-> SumStep(g, r)] /\ h = [r \in SUBSET Tracks |-> SumStep(h, r)]
      BY DEF Sums
    <3>. QED
      BY <2>1, <3>1, Zenon
  <2>3. s # {}
    BY <2>1, <2>2 DEF SumStep
  <2>. DEFINE x == CHOOSE x \in s : TRUE
  <2>4. x \in s
    BY <2>3
  <2>5. g[s \ {x}] # h[s \ {x}]
    BY <2>1, <2>2, <2>3 DEF SumStep
  <2>. DEFINE r == s \ {x}
  <2>6. r \in Bad
    BY <2>1, <2>5
  <2>7. Cardinality(r) \in Nat /\ Cardinality(s) = Cardinality(r) + 1
    BY <2>1, <2>4, SmallerSet
  <2>. HIDE DEF Bad, r
  <2>8. Cardinality(s) <= Cardinality(r)
    BY <1>1, <2>6
  <2>. QED
    BY <2>7, <2>8
<1>2. Bad \in SUBSET SUBSET Tracks
  OBVIOUS
<1>3. Bad = {}
  <2>. HIDE DEF Bad
  <2>. QED
    BY <1>1, <1>2, SmallestSet
<1>. QED
  BY <1>3

\* The order in which the tracks are put aside makes no difference.
LEMMA SumAdds ==
  ASSUME NEW h \in [SUBSET Tracks -> Nat], Sums(h, Tracks), NEW S \in SUBSET Tracks,
         NEW t \in Tracks \ S
  PROVE  h[S \union {t}] = h[S] + Price[t]
<1>. DEFINE Bad == {s \in SUBSET Tracks : \E x \in Tracks \ s : h[s \union {x}] # h[s] + Price[x]}
<1>0. /\ \A s \in SUBSET Tracks : h[s] = SumStep(h, s) /\ h[s] \in Nat
      /\ \A x \in Tracks : Price[x] \in Nat
  <2>1. h = [r \in SUBSET Tracks |-> SumStep(h, r)]
    BY DEF Sums
  <2>2. \A s \in SUBSET Tracks : h[s] = SumStep(h, s)
    BY <2>1, Zenon
  <2>. QED
    BY <2>2, JukeboxAssumption
<1>1. ASSUME NEW s \in Bad, \A r \in Bad : Cardinality(s) <= Cardinality(r) PROVE FALSE
  <2>1. s \in SUBSET Tracks
    OBVIOUS
  <2>2. PICK y \in Tracks \ s : h[s \union {y}] # h[s] + Price[y]
    OBVIOUS
  <2>. DEFINE u == s \union {y}
              x == CHOOSE x \in u : TRUE
  <2>3. x \in u /\ u # {} /\ u \in SUBSET Tracks
    BY <2>1, <2>2
  <2>4. h[u] = Price[x] + h[u \ {x}]
    BY <1>0, <2>3 DEF SumStep
  <2>. HIDE DEF x
  <2>5. CASE x = y
    <3>1. u \ {x} = s
      BY <2>2, <2>5
    <3>2. h[u] = Price[y] + h[s] /\ Price[y] \in Nat /\ h[s] \in Nat
      BY <1>0, <2>1, <2>2, <2>4, <2>5, <3>1
    <3>3. h[u] = h[s] + Price[y]
      <4>. HIDE DEF u
      <4>. QED
        BY <3>2
    <3>. QED
      BY <2>2, <3>3
  <2>6. CASE x # y
    <3>. DEFINE r == s \ {x}
    <3>1. x \in s /\ x \in Tracks /\ r \in SUBSET Tracks
      BY <2>1, <2>3, <2>6
    <3>2. r \notin Bad
      <4>1. Cardinality(r) \in Nat /\ Cardinality(s) = Cardinality(r) + 1
        BY <2>1, <3>1, SmallerSet
      <4>. HIDE DEF Bad, r
      <4>2. r \in Bad => Cardinality(s) <= Cardinality(r)
        BY <1>1
      <4>. QED
        BY <4>1, <4>2
    <3>3. \A z \in Tracks \ r : h[r \union {z}] = h[r] + Price[z]
      BY <3>1, <3>2
    <3>4. u \ {x} = r \union {y} /\ s = r \union {x} /\ x \notin r /\ y \notin r
      BY <2>2, <2>6, <3>1
    <3>5. h[r \union {y}] = h[r] + Price[y] /\ h[r \union {x}] = h[r] + Price[x]
      BY <2>2, <3>1, <3>3, <3>4
    <3>6. h[u] = Price[x] + (h[r] + Price[y]) /\ h[s] = h[r] + Price[x]
      BY <2>4, <3>4, <3>5
    <3>7. h[r] \in Nat /\ Price[x] \in Nat /\ Price[y] \in Nat
      BY <1>0, <2>2, <3>1
    <3>. QED
      BY <2>2, <3>6, <3>7
  <2>. QED
    BY <2>5, <2>6
<1>2. Bad \in SUBSET SUBSET Tracks
  OBVIOUS
<1>3. Bad = {}
  <2>. HIDE DEF Bad
  <2>. QED
    BY <1>1, <1>2, SmallestSet
<1>. QED
  BY <1>3

\* The total price: nothing for no track, and each track adds its price.
LEMMA TotalAdds ==
  /\ Total({}) = 0
  /\ \A S \in SUBSET Tracks : Total(S) \in Nat
  /\ \A S \in SUBSET Tracks : \A t \in Tracks \ S : Total(S \union {t}) = Total(S) + Price[t]
<1>1. PICK h \in [SUBSET Tracks -> Nat] : Sums(h, Tracks)
  BY SumExists
<1>2. ASSUME NEW S \in SUBSET Tracks PROVE Total(S) = h[S]
  <2>. DEFINE k == [s \in SUBSET S |-> h[s]]
  <2>1. Sums(k, S)
    <3>1. ASSUME NEW s \in SUBSET S PROVE h[s] = SumStep(k, s)
      <4>1. h = [r \in SUBSET Tracks |-> SumStep(h, r)] /\ s \in SUBSET Tracks
        BY <1>1 DEF Sums
      <4>2. h[s] = SumStep(h, s)
        BY <4>1, Zenon
      <4>3. SumStep(k, s) = SumStep(h, s)
        BY DEF SumStep
      <4>. QED
        BY <4>2, <4>3
    <3>. QED
      BY <3>1 DEF Sums
  <2>. HIDE DEF k
  <2>2. k = [s \in SUBSET S |-> SumStep(k, s)]
    BY <2>1 DEF Sums
  <2>3. \E g : g = [s \in SUBSET S |-> SumStep(g, s)] /\ Total(S) = g[S]
    BY <2>2, ZenonT(40) DEF Total, MapThenSumSet, MapThenFoldSet, SumStep
  <2>4. PICK g : Sums(g, S) /\ Total(S) = g[S]
    BY <2>3 DEF Sums
  <2>. QED
    BY <1>1, <2>4, SumUnique
<1>3. h[{}] = 0
  <2>1. h = [r \in SUBSET Tracks |-> SumStep(h, r)]
    BY <1>1 DEF Sums
  <2>2. h[{}] = SumStep(h, {})
    BY <2>1, Zenon
  <2>. QED
    BY <2>2 DEF SumStep
<1>4. \A S \in SUBSET Tracks : \A t \in Tracks \ S : Total(S \union {t}) = Total(S) + Price[t]
  <2>1. ASSUME NEW S \in SUBSET Tracks, NEW t \in Tracks \ S
        PROVE  Total(S \union {t}) = Total(S) + Price[t]
    <3>1. S \union {t} \in SUBSET Tracks
      OBVIOUS
    <3>2. h[S \union {t}] = h[S] + Price[t]
      BY <1>1, SumAdds
    <3>. QED
      BY <1>2, <3>1, <3>2
  <2>. QED
    BY <2>1
<1>. QED
  BY <1>1, <1>2, <1>3, <1>4

----------------------------------------------------------------------------
(* The theorems. *)

\* Every step keeps what the theorems rest on.
LEMMA StepKeepsJukeboxInv ==
  JukeboxInv /\ [JukeboxNext]_jukeboxVars => JukeboxInv'
<1>. SUFFICES ASSUME JukeboxInv, [JukeboxNext]_jukeboxVars PROVE JukeboxInv'
  OBVIOUS
<1>1. CASE UNCHANGED jukeboxVars
  BY <1>1 DEF jukeboxVars, JukeboxInv, StopsAreTheLiveRows, EngineInv, Rotation, Wired, InScope
<1>2. CASE JukeboxNext
  BY <1>2, QuietSteps, ReloadingSteps, ShopSteps DEF JukeboxNext
<1>. QED
  BY <1>1, <1>2

\* Whatever the page, the Shop, the settings and the server do to the engine and
\* to the profile, JukeboxInv holds.
THEOREM JukeboxInvariant == JukeboxSpec => []JukeboxInv
  BY InitJukeboxInv, StepKeepsJukeboxInv, PTL DEF JukeboxSpec

\* What sounds, what fades in and what the shuffle pool can draw are tracks of the
\* rotation that pass the filter, and the two <audio> slots hold exactly what the
\* transport knows of: for any catalogue, genres and rotations.
THEOREM EnginePlaysItsScope == JukeboxSpec => []PlaysOnlyItsScope
<1>1. JukeboxInv => PlaysOnlyItsScope
  BY DEF JukeboxInv, EngineInv, Rotation, Wired, InScope, PlaysOnlyItsScope
<1>. QED
  BY <1>1, JukeboxInvariant, PTL

\* The engine plays from the rotation that is persisted, and every track of it is
\* owned, unless a late reconcile or a deletion replaced the profile and nothing
\* was loaded again since.
THEOREM RotationIsPersisted == JukeboxSpec => []RotationIsThePersistedOne
<1>1. JukeboxInv => RotationIsThePersistedOne
  BY DEF JukeboxInv, EngineInv, Rotation, RotationIsThePersistedOne, JukeboxTypeOK,
         EngineTypeOK, SoundPool
<1>. QED
  BY <1>1, JukeboxInvariant, PTL

\* The keyboard reaches the rows of an open Shop that do something, and no other.
THEOREM StopsAreLive == JukeboxSpec => []StopsAreTheLiveRows
<1>1. JukeboxInv => StopsAreTheLiveRows
  BY DEF JukeboxInv
<1>. QED
  BY <1>1, JukeboxInvariant, PTL

\* The wallet's account agrees at the start.
LEMMA InitAccounts ==
  JukeboxInit => WalletAccountsForUnlocks
<1>. SUFFICES ASSUME JukeboxInit PROVE WalletAccountsForUnlocks
  OBVIOUS
<1>1. spent = Spent(profile) /\ profile.unlocked \ settled = {}
  BY DEF JukeboxInit
<1>2. Spent(profile) \in Int
  BY InitJukeboxInv DEF JukeboxInv, Spent, Profile
<1>. QED
  BY <1>1, <1>2, TotalAdds DEF WalletAccountsForUnlocks

\* A step keeps the wallet's account, or opens a new one.
LEMMA StepAccounts ==
  JukeboxInv /\ WalletAccountsForUnlocks /\ [JukeboxNext]_jukeboxVars => WalletAccountsForUnlocks'
<1>. SUFFICES ASSUME JukeboxInv, WalletAccountsForUnlocks, [JukeboxNext]_jukeboxVars
              PROVE  WalletAccountsForUnlocks'
  OBVIOUS
<1>0. /\ profile \in Profile /\ profile' \in Profile /\ settled \subseteq profile.unlocked
      /\ spent \in Int /\ Spent(profile) \in Int /\ Spent(profile') \in Int
      /\ profile.unlocked \subseteq Tracks
  <2>1. JukeboxInv'
    BY StepKeepsJukeboxInv
  <2>2. profile \in Profile /\ profile' \in Profile /\ settled \subseteq profile.unlocked /\ spent \in Int
    BY <2>1 DEF JukeboxInv
  <2>. QED
    BY <2>2 DEF Spent, Profile
<1>1. CASE WalletReplaced
  <2>1. profile'.unlocked \ settled' = {} /\ spent' = Spent(profile')
    BY <1>1 DEF WalletReplaced
  <2>2. Spent(profile') = spent' + 0
    BY <1>0, <2>1
  <2>. QED
    BY <2>1, <2>2, TotalAdds DEF WalletAccountsForUnlocks
<1>2. CASE /\ UNCHANGED <<settled, spent>> /\ profile'.unlocked = profile.unlocked
           /\ Spent(profile') = Spent(profile)
  BY <1>2 DEF WalletAccountsForUnlocks
<1>3. ASSUME NEW t \in Tracks, ActivateBuy(t) PROVE WalletAccountsForUnlocks'
  <2>1. UNCHANGED <<settled, spent>>
    BY <1>3 DEF ActivateBuy
  <2>2. CASE profile' = profile
    BY <1>2, <2>1, <2>2
  <2>3. CASE /\ t \notin profile.unlocked /\ profile'.unlocked = profile.unlocked \union {t}
             /\ Spent(profile') = Spent(profile) + Price[t]
    <3>. DEFINE S == profile.unlocked \ settled
    <3>1. profile'.unlocked \ settled' = S \union {t} /\ S \in SUBSET Tracks /\ t \in Tracks \ S
      BY <1>0, <2>1, <2>3
    <3>. HIDE DEF S
    <3>2. Total(S \union {t}) = Total(S) + Price[t] /\ Total(S) \in Nat /\ Price[t] \in Nat
      BY <3>1, TotalAdds, JukeboxAssumption
    <3>3. Spent(profile) = spent + Total(S)
      BY DEF WalletAccountsForUnlocks, S
    <3>4. Spent(profile') = spent + Total(S \union {t})
      BY <1>0, <2>3, <3>2, <3>3
    <3>. QED
      BY <2>1, <3>1, <3>4 DEF WalletAccountsForUnlocks
  <2>4. \/ profile' = profile
        \/ profile' = Purchased(profile, t)
    BY <1>3 DEF ActivateBuy
  <2>. QED
    BY <1>0, <2>2, <2>3, <2>4, PurchaseAccounts
<1>4. ASSUME NEW p \in Profile, SoundPool(p), TakeProfile(p),
             IF p = profile THEN UNCHANGED <<settled, spent>> ELSE WalletReplaced
      PROVE  WalletAccountsForUnlocks'
  <2>1. CASE p = profile
    <3>1. profile'.unlocked = profile.unlocked /\ Spent(profile') = Spent(profile)
      BY <1>4, <2>1, TakeProfileSound DEF JukeboxInv, Spent
    <3>. QED
      BY <1>2, <1>4, <2>1, <3>1
  <2>2. CASE p # profile
    BY <1>1, <1>4, <2>2
  <2>. QED
    BY <2>1, <2>2
<1>5. CASE FinishBoot
  BY <1>0, <1>4, <1>5 DEF FinishBoot, JukeboxInv
<1>6. CASE \E p \in Rows \union {profile} : SignIn(p)
  <2>1. PICK p \in Rows \union {profile} : SignIn(p)
    BY <1>6
  <2>2. p \in Profile /\ SoundPool(p)
    BY JukeboxAssumption DEF JukeboxInv
  <2>. QED
    BY <1>4, <2>1, <2>2 DEF SignIn
<1>7. CASE Award
  <2>. DEFINE spendable == profile.spendable + 1
              lifetime == profile.lifetime + 1
  <2>1. profile' = [profile EXCEPT !.spendable = spendable, !.lifetime = lifetime]
    BY <1>7 DEF Award
  <2>2. profile'.unlocked = profile.unlocked /\ profile'.spendable = spendable
        /\ profile'.lifetime = lifetime
    <3>. HIDE DEF spendable, lifetime
    <3>. QED
      BY <1>0, <2>1 DEF Profile
  <2>3. profile.spendable \in Nat /\ profile.lifetime \in Nat
    BY <1>0 DEF Profile
  <2>4. Spent(profile') = Spent(profile)
    BY <2>2, <2>3 DEF Spent
  <2>. QED
    BY <1>2, <1>7, <2>2, <2>4 DEF Award
<1>8. CASE \E t \in Tracks : ActivateAdd(t) \/ ActivateRemove(t)
  <2>1. PICK t \in Tracks : ActivateAdd(t) \/ ActivateRemove(t)
    BY <1>8
  <2>2. profile' = profile \/ \E q : profile' = [profile EXCEPT !.pool = q]
    BY <2>1 DEF ActivateAdd, ActivateRemove, AddToPool, RemoveFromPool
  <2>3. profile'.unlocked = profile.unlocked /\ profile'.spendable = profile.spendable
        /\ profile'.lifetime = profile.lifetime
    BY <1>0, <2>2 DEF Profile
  <2>. QED
    BY <1>2, <2>1, <2>3 DEF ActivateAdd, ActivateRemove, Spent
<1>9. CASE ResetTomatoes \/ DeleteAccount \/ \E row \in Rows : PumpAdopts(row)
  BY <1>1, <1>9 DEF ResetTomatoes, DeleteAccount, PumpAdopts
<1>10. CASE Reload \/ ChangeAudio \/ OpenShop \/ CloseShop \/ EngineStep \/ UNCHANGED jukeboxVars
  BY <1>2, <1>10 DEF Reload, ChangeAudio, OpenShop, CloseShop, EngineStep, jukeboxVars
<1>. QED
  BY <1>3, <1>5, <1>6, <1>7, <1>8, <1>9, <1>10 DEF JukeboxNext

\* However many tracks are bought, in whatever order, with a boot, a sign-in, a
\* reset or an adopted row in between: what was spent is the price of what was
\* unlocked, whatever the prices are.
THEOREM WalletAccounts == JukeboxSpec => []WalletAccountsForUnlocks
  BY InitAccounts, StepAccounts, JukeboxInvariant, PTL DEF JukeboxSpec
=============================================================================
