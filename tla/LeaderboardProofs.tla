-------------------------- MODULE LeaderboardProofs --------------------------
(***************************************************************************)
(* Proofs about Leaderboard and the banner above it, for any players,      *)
(* answers, filters, digits and lengths of the timers.                     *)
(*                                                                         *)
(* The view is one record and every handler a function of it, so there is  *)
(* one lemma for each of those: Sound views go to sound ones, and Aimed    *)
(* (whom the popup and the panel are about) and InStep (the number being   *)
(* typed) are kept.  The steps of the specification only put them          *)
(* together.                                                               *)
(***************************************************************************)
EXTENDS Leaderboard, WellFoundedInduction, TLAPS

(* ------------------------- the ends of the board ------------------------- *)

\* A set of numbers has a least element.
LEMMA Least ==
  ASSUME NEW S \in SUBSET Nat, S # {}
  PROVE  \E n \in S : \A k \in S : n <= k
<1>. DEFINE Less == OpToRel(<, Nat)
<1>1. IsWellFoundedOn(Less, Nat)
  BY NatLessThanWellFounded
<1>2. ASSUME NEW a \in Nat, NEW b \in Nat, a < b PROVE <<a, b>> \in Less
  BY <1>2, Zenon DEF OpToRel
<1>. HIDE DEF Less
<1>3. PICK n \in S : \A k \in S : <<k, n>> \notin Less
  BY <1>1, WFMin, Zenon
<1>4. ASSUME NEW k \in S PROVE n <= k
  <2>1. k \in Nat /\ n \in Nat /\ ~(k < n)
    BY <1>2, <1>3
  <2>. QED
    BY <2>1
<1>. QED
  BY <1>4

\* The first and the last row of a board.
LEMMA Ends ==
  ASSUME NEW S \in SUBSET (1 .. 100), S # {}
  PROVE  Min(S) \in S /\ Max(S) \in S /\ \A r \in S : Min(S) <= r /\ r <= Max(S)
<1>1. PICK n \in S : \A k \in S : n <= k
  BY Least
<1>2. PICK m \in S : \A k \in S : k <= m
  <2>. DEFINE D == {100 - k : k \in S}
  <2>1. D \in SUBSET Nat /\ D # {}
    OBVIOUS
  <2>2. PICK d \in D : \A e \in D : d <= e
    BY <2>1, Least
  <2>3. PICK m \in S : d = 100 - m
    BY <2>2
  <2>4. ASSUME NEW k \in S PROVE k <= m
    <3>1. 100 - k \in D
      OBVIOUS
    <3>2. k \in Int /\ m \in Int /\ 100 - m <= 100 - k
      <4>1. d <= 100 - k
        BY <2>2, <3>1, Zenon
      <4>. QED
        BY <2>3, <4>1
    <3>. QED
      BY <3>2
  <2>. QED
    BY <2>4
<1>3. Min(S) \in S /\ \A r \in S : Min(S) <= r
  BY <1>1 DEF Min
<1>4. Max(S) \in S /\ \A r \in S : Max(S) >= r
  BY <1>2 DEF Max
<1>. QED
  BY <1>3, <1>4

(* ------------------------------ the banner ------------------------------- *)

Banners ==
  [phase : BannerPhases, age : 0 .. Hold, up : 0 .. Hold, clicked : BOOLEAN]

\* A message is up for as long as its phase, as long as it has held; and it goes only
\* when it held out or was clicked.
Held(b) ==
  /\ b \in Banners
  /\ b.phase \in {"SlidingIn", "Holding"} => b.age <= b.up
  /\ b.phase = "SlidingOut" /\ ~b.clicked => b.up >= Hold

\* What In leaves of a message.
LEMMA InFields ==
  ASSUME NEW b \in Banners, NEW phase \in BannerPhases
  PROVE  /\ In(b, phase) \in Banners /\ In(b, phase).phase = phase /\ In(b, phase).age = 0
         /\ In(b, phase).up = b.up /\ In(b, phase).clicked = b.clicked
<1>1. 0 \in 0 .. Hold
  BY BannerAssumption
<1>. DEFINE c == [b EXCEPT !.phase = phase]
            n == [c EXCEPT !.age = 0]
<1>2. c \in Banners /\ c.phase = phase /\ c.up = b.up /\ c.clicked = b.clicked
  BY DEF Banners
<1>3. In(b, phase) = n
  BY DEF In
<1>. HIDE DEF c
<1>4. n \in Banners /\ n.phase = c.phase /\ n.age = 0 /\ n.up = c.up /\ n.clicked = c.clicked
  BY <1>1, <1>2 DEF Banners
<1>. QED
  BY <1>2, <1>3, <1>4

LEMMA BannerOperators ==
  ASSUME NEW b, Held(b)
  PROVE  Held(Trigger(b)) /\ Held(Dismissed(b)) /\ Held(Advanced(b)) /\ Held(Older(b))
<1>0. Slide \in Nat /\ Hold \in Nat /\ Hold > 0 /\ b \in Banners /\ Hold \in 0 .. Hold /\ 0 \in 0 .. Hold
  BY BannerAssumption DEF Held
<1>1. Held(Trigger(b))
  <2>1. ASSUME NEW c \in Banners, c.phase \in {"SlidingIn", "Holding"}, c.age = 0
        PROVE  Held([c EXCEPT !.up = 0, !.clicked = FALSE])
    <3>. DEFINE n == [c EXCEPT !.up = 0, !.clicked = FALSE]
    <3>1. n \in Banners /\ n.phase = c.phase /\ n.age = c.age /\ n.up = 0
      BY <1>0, <2>1 DEF Banners
    <3>. HIDE DEF n
    <3>2. Held(n)
      BY <2>1, <3>1 DEF Held
    <3>. QED
      BY <3>2 DEF n
  <2>2. {"SlidingIn", "Holding"} \subseteq BannerPhases
    BY DEF BannerPhases
  <2>. QED
    BY <1>0, <2>1, <2>2, InFields DEF Trigger
<1>2. Held(Dismissed(b))
  <2>1. CASE b.phase \in {"SlidingIn", "Holding"}
    <3>. DEFINE c == In(b, "SlidingOut")
                n == [c EXCEPT !.clicked = TRUE]
    <3>1. c \in Banners /\ c.phase = "SlidingOut"
      BY <1>0, InFields DEF BannerPhases
    <3>. HIDE DEF c
    <3>2. n \in Banners /\ n.phase = "SlidingOut" /\ n.clicked
      BY <3>1 DEF Banners
    <3>3. Dismissed(b) = n
      BY <2>1 DEF Dismissed, c
    <3>. HIDE DEF n
    <3>. QED
      BY <3>2, <3>3 DEF Held
  <2>. QED
    BY <2>1 DEF Dismissed
<1>3. Held(NoBanner)
  BY <1>0 DEF Held, NoBanner, Banners, BannerPhases
<1>4. Held(Advanced(b))
  <2>1. CASE b.phase = "SlidingIn" /\ b.age >= Slide
    <3>1. /\ In(b, "Holding") \in Banners /\ In(b, "Holding").phase = "Holding"
          /\ In(b, "Holding").age = 0 /\ In(b, "Holding").up \in 0 .. Hold
      BY <1>0, InFields DEF BannerPhases, Banners
    <3>2. Advanced(b) = In(b, "Holding")
      BY <2>1 DEF Advanced
    <3>. QED
      BY <3>1, <3>2 DEF Held
  <2>2. CASE b.phase = "Holding" /\ b.age >= Hold
    <3>1. /\ In(b, "SlidingOut") \in Banners /\ In(b, "SlidingOut").phase = "SlidingOut"
          /\ In(b, "SlidingOut").up = b.up
      BY <1>0, InFields DEF BannerPhases
    <3>2. Advanced(b) = In(b, "SlidingOut")
      BY <2>2 DEF Advanced
    <3>3. b.age \in 0 .. Hold /\ b.up \in 0 .. Hold /\ b.age <= b.up
      BY <1>0, <2>2 DEF Held, Banners
    <3>. QED
      BY <1>0, <2>2, <3>1, <3>2, <3>3 DEF Held
  <2>3. CASE Advanced(b) = NoBanner
    BY <1>3, <2>3
  <2>4. CASE Advanced(b) = b
    BY <2>4
  <2>. QED
    BY <2>1, <2>2, <2>3, <2>4 DEF Advanced
<1>5. Held(Older(b))
  <2>1. CASE b.phase # "Hidden"
    <3>. DEFINE age == IF b.age < Hold THEN b.age + 1 ELSE b.age
                up == IF b.up < Hold THEN b.up + 1 ELSE b.up
                n == [b EXCEPT !.age = age, !.up = up]
    <3>1. b.age \in 0 .. Hold /\ b.up \in 0 .. Hold
      BY <1>0 DEF Banners
    <3>2. age \in 0 .. Hold /\ up \in 0 .. Hold /\ (b.age <= b.up => age <= up) /\ (b.up >= Hold => up >= Hold)
      BY <1>0, <3>1
    <3>3. Older(b) = n
      BY <2>1 DEF Older, BannerVisible
    <3>. HIDE DEF age, up
    <3>4. n \in Banners /\ n.age = age /\ n.up = up /\ n.phase = b.phase /\ n.clicked = b.clicked
      BY <1>0, <3>2 DEF Banners
    <3>. HIDE DEF n
    <3>. QED
      BY <3>2, <3>3, <3>4 DEF Held
  <2>. QED
    BY <2>1 DEF Older, BannerVisible
<1>. QED
  BY <1>1, <1>2, <1>4, <1>5

LEMMA RenderedHeld ==
  ASSUME NEW b, Held(b), NEW clicked \in BOOLEAN
  PROVE  Held(Rendered(b, clicked))
<1>1. Held(Advanced(b))
  BY BannerOperators
<1>. QED
  BY <1>1, BannerOperators DEF Rendered

\* Every step moves the banner by these operators, or not at all.
LEMMA BannerMoves ==
  ASSUME Next
  PROVE  \/ banner' \in {banner, Trigger(banner), Older(banner)}
         \/ \E clicked \in BOOLEAN :
              banner' \in {Rendered(banner, clicked), Rendered(Trigger(banner), clicked)}
<1>1. CASE Open \/ (\E reverse \in BOOLEAN : TabKey(reverse)) \/ (\E d \in Digits : DigitKey(d))
           \/ (\E by \in {1, -1} : ArrowKey(by)) \/ ReportKey \/ ActivateKey \/ PanelKey \/ EscapeKey
  BY <1>1 DEF Open, TabKey, DigitKey, ArrowKey, ReportKey, ActivateKey, PanelKey, EscapeKey, Stay
<1>2. CASE YourRowLink
  BY <1>2 DEF YourRowLink, SignInOrUp
<1>3. CASE Draw
  BY <1>3, ZenonT(40) DEF Draw, Frame
<1>4. CASE GuestLinkFrame
  BY <1>4 DEF GuestLinkFrame, SignInOrUp
<1>5. CASE OtherFrame \/ Pass \/ Elsewhere
  BY <1>5 DEF OtherFrame, Pass, Elsewhere
<1>. QED
  BY <1>1, <1>2, <1>3, <1>4, <1>5 DEF Next, Keys

BannerHeld == Held(banner)

LEMMA HeldInit ==
  ASSUME Init
  PROVE  BannerHeld
  BY BannerAssumption DEF Init, BannerInit, BannerHeld, Held, NoBanner, Banners, BannerPhases

LEMMA HeldNext ==
  ASSUME BannerHeld, [Next]_vars
  PROVE  BannerHeld'
<1>1. CASE UNCHANGED vars
  BY <1>1 DEF vars, BannerHeld
<1>2. CASE Next
  BY <1>2, BannerMoves, BannerOperators, RenderedHeld DEF BannerHeld
<1>. QED
  BY <1>1, <1>2

\* A message the user has not clicked away is up for its whole time before it goes
\* (outage_banner.cpp's banner_advance), for slides and holds of any length, however late
\* the frames are and however often a message replaces another.
THEOREM MessagesStay == Spec => []MessageStaysItsTime
<1>1. Init => BannerHeld
  BY HeldInit
<1>2. BannerHeld /\ [Next]_vars => BannerHeld'
  BY HeldNext
<1>3. BannerHeld => MessageStaysItsTime
  BY DEF BannerHeld, Held, MessageStaysItsTime
<1>. QED
  BY <1>1, <1>2, <1>3, PTL DEF Spec

(* --------------------------- what is sent -------------------------------- *)

LEMMA SentNext ==
  ASSUME [Next]_vars, SentAsAgreed
  PROVE  SentAsAgreed'
<1>1. CASE sent' = sent
  BY <1>1 DEF SentAsAgreed
<1>2. CASE sent' = NothingSent
  BY <1>2 DEF SentAsAgreed, NothingSent
<1>3. CASE \E v : Submits(v) /\ sent' = Report(v)
  <2>1. PICK v : Submits(v) /\ sent' = Report(v)
    BY <1>3
  <2>2. sent'.reasons = v.reasons /\ sent'.by = self
    BY <2>1 DEF Report
  <2>. QED
    BY <2>1, <2>2 DEF SentAsAgreed, Submits, SubmitEnabled
<1>4. CASE Next
  <2>1. CASE Draw
    <3>1. PICK board \in FetchedBoards, outcome \in ReportOutcomes : Frame(board, outcome)
      BY <2>1 DEF Draw
    <3>2. \E v : sent' = IF Submits(v) THEN Report(v) ELSE NothingSent
      BY <3>1 DEF Frame
    <3>. QED
      BY <1>2, <1>3, <3>2
  <2>2. CASE Open \/ (\E reverse \in BOOLEAN : TabKey(reverse)) \/ (\E d \in Digits : DigitKey(d))
             \/ (\E by \in {1, -1} : ArrowKey(by)) \/ ReportKey \/ ActivateKey \/ PanelKey \/ EscapeKey
             \/ YourRowLink \/ GuestLinkFrame \/ OtherFrame \/ Pass \/ Elsewhere
    <3>1. sent' = NothingSent
      BY <2>2 DEF Open, TabKey, DigitKey, ArrowKey, ReportKey, ActivateKey, PanelKey, EscapeKey, Stay,
                  YourRowLink, GuestLinkFrame, OtherFrame, Pass, Elsewhere
    <3>. QED
      BY <1>2, <3>1
  <2>. QED
    BY <1>4, <2>1, <2>2 DEF Next, Keys
<1>. QED
  BY <1>1, <1>4 DEF vars

\* No report leaves without a reason or from a guest (do_report_submit), whatever
\* happened to the panel or the account since the button was pressed.
THEOREM ReportsAgreed == Spec => []SentAsAgreed
<1>1. Init => SentAsAgreed
  BY DEF Init, SentAsAgreed, NothingSent
<1>2. SentAsAgreed /\ [Next]_vars => SentAsAgreed'
  BY SentNext
<1>. QED
  BY <1>1, <1>2, PTL DEF Spec

(* ------------------------------- the view -------------------------------- *)

Places == 0 .. 100 \cup {NoRank}
Boards == UNION {[S -> Names] : S \in SUBSET (1 .. 100)}
Searches == {<<>>} \cup {<<q>> : q \in Queries}
BoardNames == {"Shop", "Search", "List", "YourRow", "Close"}
ReportNames == {"UsernameReason", "CheatingReason", "Comment", "Submit", "ReportClose"}
Fields == TextFields \cup {"None"}

Views ==
  [open : BOOLEAN, loaded : BOOLEAN, ok : BOOLEAN, rows : Boards, search : Searches,
   highlight : Places, saved : Places, number : Nat \cup {NoRank}, age : 0 .. Window + 1,
   popup : Places, panel : BOOLEAN, reported : Names \cup {Nobody},
   reasons : SUBSET {"Username", "Cheating"}, closing : BOOLEAN, submitting : BOOLEAN,
   at : BoardNames \cup ReportNames, kbd : BOOLEAN, caret : Fields, synced : Fields]

\* A view whose focus is on a stop of what is up, and whose panel is about a player.
Sound(v) ==
  /\ v \in Views
  /\ v.at \in IF v.panel THEN ReportNames ELSE BoardNames
  /\ v.panel => v.open /\ v.popup = NoRank /\ v.reported \in Names

\* What a handler that has no business with the panel, or with the number, leaves alone.
SameTarget(v, w) == w.panel = v.panel /\ w.reported = v.reported /\ w.popup = v.popup /\ w.rows = v.rows
SameNumber(v, w) == w.number = v.number /\ w.age = v.age /\ w.rows = v.rows

\* The stops, as the ring and as a set.
LEMMA StopsAre ==
  ASSUME NEW v
  PROVE  /\ \A i \in 1 .. 5 : Stops(v)[i] \in IF v.panel THEN ReportNames ELSE BoardNames
         /\ \A s \in IF v.panel THEN ReportNames ELSE BoardNames : \E i \in 1 .. 5 : Stops(v)[i] = s
<1>1. ASSUME NEW i \in 1 .. 5 PROVE i = 1 \/ i = 2 \/ i = 3 \/ i = 4 \/ i = 5
  OBVIOUS
<1>2. \A i \in 1 .. 5 : BoardStops[i] \in BoardNames /\ ReportStops[i] \in ReportNames
  BY <1>1 DEF BoardStops, ReportStops, BoardNames, ReportNames
<1>3. \A s \in BoardNames : \E i \in 1 .. 5 : BoardStops[i] = s
  <2>1. /\ BoardStops[1] = "Shop" /\ BoardStops[2] = "Search" /\ BoardStops[3] = "List"
        /\ BoardStops[4] = "YourRow" /\ BoardStops[5] = "Close"
    BY DEF BoardStops
  <2>. QED
    BY <2>1 DEF BoardNames
<1>4. \A s \in ReportNames : \E i \in 1 .. 5 : ReportStops[i] = s
  <2>1. /\ ReportStops[1] = "UsernameReason" /\ ReportStops[2] = "CheatingReason"
        /\ ReportStops[3] = "Comment" /\ ReportStops[4] = "Submit" /\ ReportStops[5] = "ReportClose"
    BY DEF ReportStops
  <2>. QED
    BY <2>1 DEF ReportNames
<1>. QED
  BY <1>2, <1>3, <1>4 DEF Stops

\* Moving the focus within the stops.
LEMMA Focuses ==
  ASSUME NEW v, Sound(v), NEW stop \in IF v.panel THEN ReportNames ELSE BoardNames
  PROVE  LET w == [v EXCEPT !.at = stop, !.kbd = TRUE]
         IN  Sound(w) /\ SameTarget(v, w) /\ SameNumber(v, w) /\ w.open = v.open
<1>. DEFINE w == [v EXCEPT !.at = stop, !.kbd = TRUE]
<1>1. w \in Views
  BY DEF Sound, Views
<1>2. /\ w.at = stop /\ w.panel = v.panel /\ w.reported = v.reported /\ w.popup = v.popup
      /\ w.rows = v.rows /\ w.number = v.number /\ w.age = v.age /\ w.open = v.open
  BY DEF Sound, Views
<1>. HIDE DEF w
<1>3. Sound(w) /\ SameTarget(v, w) /\ SameNumber(v, w) /\ w.open = v.open
  BY <1>1, <1>2 DEF Sound, SameTarget, SameNumber
<1>. QED
  BY <1>3 DEF w

LEMMA SnapSound ==
  ASSUME NEW v, Sound(v), NEW stop
  PROVE  /\ Sound(Snap(v, stop)) /\ Snap(v, stop).open = v.open
         /\ SameTarget(v, Snap(v, stop)) /\ SameNumber(v, Snap(v, stop))
<1>1. CASE \E i \in 1 .. 5 : Stops(v)[i] = stop
  BY <1>1, StopsAre, Focuses, ZenonT(40) DEF Snap
<1>2. CASE ~ \E i \in 1 .. 5 : Stops(v)[i] = stop
  BY <1>2 DEF Snap, SameTarget, SameNumber
<1>. QED
  BY <1>1, <1>2

LEMMA AdvanceSound ==
  ASSUME NEW v, Sound(v), NEW by \in {1, 4}
  PROVE  /\ Sound(Advance(v, by)) /\ Advance(v, by).open = v.open
         /\ SameTarget(v, Advance(v, by)) /\ SameNumber(v, Advance(v, by))
<1>. DEFINE i == CHOOSE j \in 1 .. 5 : Stops(v)[j] = v.at
            k == ((i - 1 + by) % 5) + 1
            stop == Stops(v)[k]
<1>1. i \in 1 .. 5
  BY StopsAre DEF Sound
<1>. HIDE DEF i
<1>2. k \in 1 .. 5
  <2>1. i = 1 \/ i = 2 \/ i = 3 \/ i = 4 \/ i = 5
    BY <1>1
  <2>. QED
    BY <2>1
<1>3. Advance(v, by) = [v EXCEPT !.at = stop, !.kbd = TRUE]
  BY DEF Advance, i
<1>. HIDE DEF k
<1>4. stop \in IF v.panel THEN ReportNames ELSE BoardNames
  BY <1>2, StopsAre
<1>. HIDE DEF stop
<1>. DEFINE w == [v EXCEPT !.at = stop, !.kbd = TRUE]
<1>5. Sound(w) /\ SameTarget(v, w) /\ SameNumber(v, w) /\ w.open = v.open
  BY <1>4, Focuses
<1>. HIDE DEF w
<1>. QED
  BY <1>3, <1>5 DEF w

\* Two views that differ in what neither the focus, the panel nor the digits depend on.
Like(v, w) ==
  /\ w \in Views /\ w.at = v.at /\ w.open = v.open /\ SameTarget(v, w) /\ SameNumber(v, w)

LEMMA LikeSound ==
  ASSUME NEW v, Sound(v), NEW w, Like(v, w)
  PROVE  Sound(w)
  BY DEF Like, Sound, SameTarget

LEMMA LikeTwice ==
  ASSUME NEW v, NEW w, NEW x, Like(v, w), Like(w, x)
  PROVE  Like(v, x)
  BY DEF Like, SameTarget, SameNumber

\* The fields that may change.
LEMMA Likes ==
  ASSUME NEW v \in Views
  PROVE  /\ Like(v, v)
         /\ \A b \in BOOLEAN :
              /\ Like(v, [v EXCEPT !.loaded = b]) /\ Like(v, [v EXCEPT !.kbd = b])
              /\ Like(v, [v EXCEPT !.submitting = b]) /\ Like(v, [v EXCEPT !.closing = b])
         /\ \A f \in Fields : Like(v, [v EXCEPT !.caret = f]) /\ Like(v, [v EXCEPT !.synced = f])
         /\ \A p \in Places : Like(v, [v EXCEPT !.saved = p]) /\ Like(v, [v EXCEPT !.highlight = p])
         /\ \A s \in Searches : Like(v, [v EXCEPT !.search = s])
         /\ \A R \in SUBSET {"Username", "Cheating"} : Like(v, [v EXCEPT !.reasons = R])
<1>1. Like(v, v)
  BY DEF Like, SameTarget, SameNumber
<1>2. ASSUME NEW b \in BOOLEAN
      PROVE  /\ Like(v, [v EXCEPT !.loaded = b]) /\ Like(v, [v EXCEPT !.kbd = b])
             /\ Like(v, [v EXCEPT !.submitting = b]) /\ Like(v, [v EXCEPT !.closing = b])
  <2>1. Like(v, [v EXCEPT !.loaded = b])
    BY DEF Like, Views, SameTarget, SameNumber
  <2>2. Like(v, [v EXCEPT !.kbd = b])
    BY DEF Like, Views, SameTarget, SameNumber
  <2>3. Like(v, [v EXCEPT !.submitting = b])
    BY DEF Like, Views, SameTarget, SameNumber
  <2>4. Like(v, [v EXCEPT !.closing = b])
    BY DEF Like, Views, SameTarget, SameNumber
  <2>. QED
    BY <2>1, <2>2, <2>3, <2>4
<1>3. ASSUME NEW f \in Fields
      PROVE  Like(v, [v EXCEPT !.caret = f]) /\ Like(v, [v EXCEPT !.synced = f])
  <2>1. Like(v, [v EXCEPT !.caret = f])
    BY DEF Like, Views, SameTarget, SameNumber
  <2>2. Like(v, [v EXCEPT !.synced = f])
    BY DEF Like, Views, SameTarget, SameNumber
  <2>. QED
    BY <2>1, <2>2
<1>4. ASSUME NEW p \in Places
      PROVE  Like(v, [v EXCEPT !.saved = p]) /\ Like(v, [v EXCEPT !.highlight = p])
  <2>1. Like(v, [v EXCEPT !.saved = p])
    BY DEF Like, Views, SameTarget, SameNumber
  <2>2. Like(v, [v EXCEPT !.highlight = p])
    BY DEF Like, Views, SameTarget, SameNumber
  <2>. QED
    BY <2>1, <2>2
<1>5. ASSUME NEW s \in Searches
      PROVE  Like(v, [v EXCEPT !.search = s])
  BY DEF Like, Views, SameTarget, SameNumber
<1>6. ASSUME NEW R \in SUBSET {"Username", "Cheating"}
      PROVE  Like(v, [v EXCEPT !.reasons = R])
  BY DEF Like, Views, SameTarget, SameNumber
<1>. QED
  BY <1>1, <1>2, <1>3, <1>4, <1>5, <1>6

LEMMA ForgetSound ==
  ASSUME NEW v, Sound(v)
  PROVE  LET w == ForgetDigits(v)
         IN  /\ Sound(w) /\ SameTarget(v, w) /\ w.open = v.open /\ w.number = NoRank /\ w.age = 0
             /\ w.highlight = v.highlight /\ w.search = v.search /\ w.saved = v.saved
<1>. DEFINE w == ForgetDigits(v)
<1>1. 0 \in 0 .. Window + 1
  BY BoardAssumption
<1>2. w \in Views
  BY <1>1 DEF Sound, Views, ForgetDigits
<1>3. /\ w.at = v.at /\ w.panel = v.panel /\ w.reported = v.reported /\ w.popup = v.popup
      /\ w.rows = v.rows /\ w.number = NoRank /\ w.age = 0 /\ w.open = v.open
      /\ w.highlight = v.highlight /\ w.search = v.search /\ w.saved = v.saved
  BY DEF Sound, Views, ForgetDigits
<1>. HIDE DEF w
<1>4. /\ Sound(w) /\ SameTarget(v, w) /\ w.open = v.open /\ w.number = NoRank /\ w.age = 0
      /\ w.highlight = v.highlight /\ w.search = v.search /\ w.saved = v.saved
  BY <1>2, <1>3 DEF Sound, SameTarget
<1>. QED
  BY <1>4 DEF w

\* The rows of a board.
LEMMA RowsAre ==
  ASSUME NEW v, Sound(v)
  PROVE  /\ Ranks(v) \in SUBSET (1 .. 100)
         /\ \A r \in Ranks(v) : v.rows[r] \in Names /\ NameAt(v, r) = v.rows[r] /\ r \in Places
<1>1. PICK S \in SUBSET (1 .. 100) : v.rows \in [S -> Names]
  BY DEF Sound, Views, Boards
<1>. DEFINE rows == v.rows
<1>2. rows \in [S -> Names]
  BY <1>1
<1>3. Ranks(v) = DOMAIN rows /\ \A r \in DOMAIN rows : NameAt(v, r) = rows[r]
  BY DEF Ranks, NameAt
<1>. HIDE DEF rows
<1>4. DOMAIN rows = S /\ \A r \in S : rows[r] \in Names /\ r \in Places
  BY <1>2 DEF Places
<1>. QED
  BY <1>3, <1>4 DEF rows

\* A number on the board, or the nearest end of it.
LEMMA ClampIs ==
  ASSUME NEW v, Sound(v), Ranks(v) # {}, NEW n \in Int
  PROVE  /\ Clamp(v, n) \in Places
         /\ Min(Ranks(v)) \in 1 .. 100 /\ Max(Ranks(v)) \in 1 .. 100
         /\ Min(Ranks(v)) \in Ranks(v) /\ Min(Ranks(v)) <= Max(Ranks(v))
<1>1. Ranks(v) \in SUBSET (1 .. 100)
  BY RowsAre
<1>2. /\ Min(Ranks(v)) \in Ranks(v) /\ Max(Ranks(v)) \in Ranks(v)
      /\ \A r \in Ranks(v) : Min(Ranks(v)) <= r /\ r <= Max(Ranks(v))
  BY <1>1, Ends
<1>3. Min(Ranks(v)) \in 1 .. 100 /\ Max(Ranks(v)) \in 1 .. 100 /\ Min(Ranks(v)) <= Max(Ranks(v))
  BY <1>1, <1>2
<1>. QED
  BY <1>2, <1>3 DEF Clamp, Places

\* The smaller of two numbers.
LEMMA MinOfTwo ==
  ASSUME NEW a \in Int, NEW b \in Int
  PROVE  Min({a, b}) = IF a <= b THEN a ELSE b
<1>1. CASE a <= b
  <2>1. a \in {a, b} /\ \A y \in {a, b} : a <= y
    BY <1>1
  <2>2. \A x \in {a, b} : (\A y \in {a, b} : x <= y) => x = a
    BY <1>1
  <2>. QED
    BY <1>1, <2>1, <2>2 DEF Min
<1>2. CASE ~(a <= b)
  <2>1. b \in {a, b} /\ \A y \in {a, b} : b <= y
    BY <1>2
  <2>2. \A x \in {a, b} : (\A y \in {a, b} : x <= y) => x = b
    BY <1>2
  <2>. QED
    BY <1>2, <2>1, <2>2 DEF Min
<1>. QED
  BY <1>1, <1>2

LEMMA HandoffIs ==
  ASSUME NEW v, Sound(v)
  PROVE  HandoffRank(v) \in Places
<1>1. Ranks(v) \in SUBSET (1 .. 100) /\ Matches(v) \subseteq Ranks(v)
  BY RowsAre DEF Matches
<1>2. Ranks(v) # {} => Min(Ranks(v)) \in 1 .. 100
  BY <1>1, Ends
<1>3. Matches(v) # {} => Min(Matches(v)) \in 1 .. 100
  BY <1>1, Ends
<1>. QED
  BY <1>2, <1>3 DEF HandoffRank, Places

LEMMA CommitSound ==
  ASSUME NEW v, Sound(v)
  PROVE  LET w == CommitSearch(v)
         IN  Sound(w) /\ SameTarget(v, w) /\ w.open = v.open /\ w.number = NoRank /\ w.age = 0
<1>. DEFINE landing == IF v.search = <<>> /\ v.saved # NoRank THEN v.saved ELSE HandoffRank(v)
            f == ForgetDigits(v)
            u == [f EXCEPT !.search = <<>>, !.highlight = landing]
            w == Snap(u, "List")
<1>1. landing \in Places /\ <<>> \in Searches
  BY HandoffIs DEF Sound, Views, Searches
<1>2. /\ Sound(f) /\ SameTarget(v, f) /\ f.open = v.open /\ f.number = NoRank /\ f.age = 0
  BY ForgetSound
<1>3. CommitSearch(v) = w
  BY DEF CommitSearch
<1>. HIDE DEF landing, f
<1>4. u \in Views /\ u.at = f.at /\ u.panel = f.panel /\ u.reported = f.reported
      /\ u.popup = f.popup /\ u.rows = f.rows /\ u.number = NoRank /\ u.age = 0 /\ u.open = f.open
  BY <1>1, <1>2, ZenonT(40) DEF Sound, Views
<1>. HIDE DEF u
<1>5. Sound(u)
  BY <1>2, <1>4 DEF Sound
<1>6. Sound(w) /\ w.open = u.open /\ SameTarget(u, w) /\ SameNumber(u, w)
  BY <1>5, SnapSound
<1>. HIDE DEF w
<1>7. Sound(w) /\ SameTarget(v, w) /\ w.open = v.open /\ w.number = NoRank /\ w.age = 0
  BY <1>2, <1>4, <1>6 DEF SameTarget, SameNumber
<1>. QED
  BY <1>3, <1>7

LEMMA PointSound ==
  ASSUME NEW v, Sound(v), NEW rank \in Ranks(v)
  PROVE  LET w == PointAt(v, rank)
         IN  Sound(w) /\ SameTarget(v, w) /\ w.open = v.open /\ w.number = NoRank /\ w.age = 0
<1>. DEFINE f == ForgetDigits(v)
            u == [f EXCEPT !.search = <<>>, !.highlight = rank]
            w == Snap(u, "List")
<1>1. rank \in Places /\ <<>> \in Searches
  BY RowsAre DEF Searches
<1>2. /\ Sound(f) /\ SameTarget(v, f) /\ f.open = v.open /\ f.number = NoRank /\ f.age = 0
  BY ForgetSound
<1>3. PointAt(v, rank) = w
  BY DEF PointAt
<1>. HIDE DEF f
<1>4. u \in Views /\ u.at = f.at /\ u.panel = f.panel /\ u.reported = f.reported
      /\ u.popup = f.popup /\ u.rows = f.rows /\ u.number = NoRank /\ u.age = 0 /\ u.open = f.open
  BY <1>1, <1>2, ZenonT(40) DEF Sound, Views
<1>. HIDE DEF u
<1>5. Sound(u)
  BY <1>2, <1>4 DEF Sound
<1>6. Sound(w) /\ w.open = u.open /\ SameTarget(u, w) /\ SameNumber(u, w)
  BY <1>5, SnapSound
<1>. HIDE DEF w
<1>7. Sound(w) /\ SameTarget(v, w) /\ w.open = v.open /\ w.number = NoRank /\ w.age = 0
  BY <1>2, <1>4, <1>6 DEF SameTarget, SameNumber
<1>. QED
  BY <1>3, <1>7

LEMMA OpenPanelSound ==
  ASSUME NEW v, Sound(v), v.open
  PROVE  LET w == OpenReportPanel(v)
         IN  /\ Sound(w) /\ w.open /\ w.rows = v.rows
             /\ \/ w = v
                \/ /\ w.panel /\ w.reported = NameAt(v, v.popup) /\ w.popup = NoRank
                   /\ w.number = v.number /\ w.age = v.age
<1>. DEFINE who == NameAt(v, v.popup)
            w == [v EXCEPT !.reported = who, !.reasons = {}, !.closing = FALSE,
                 !.submitting = FALSE, !.popup = NoRank, !.panel = TRUE,
                 !.at = "UsernameReason", !.synced = "None"]
<1>1. CASE who = Nobody
  BY <1>1 DEF OpenReportPanel
<1>2. CASE who # Nobody
  <2>1. who \in Names
    BY <1>2, RowsAre DEF NameAt
  <2>2. OpenReportPanel(v) = w
    BY <1>2 DEF OpenReportPanel
  <2>3. NoRank \in Places /\ "UsernameReason" \in ReportNames /\ "None" \in Fields
        /\ {} \in SUBSET {"Username", "Cheating"}
    BY DEF Places, ReportNames, Fields
  <2>. HIDE DEF who
  <2>4. w \in Views
    BY <2>1, <2>3 DEF Sound, Views
  <2>5. /\ w.at = "UsernameReason" /\ w.panel = TRUE /\ w.reported = who /\ w.popup = NoRank
        /\ w.rows = v.rows /\ w.number = v.number /\ w.age = v.age /\ w.open = v.open
    BY DEF Sound, Views
  <2>. HIDE DEF w
  <2>6. Sound(w)
    BY <2>1, <2>3, <2>4, <2>5 DEF Sound
  <2>. QED
    BY <2>2, <2>5, <2>6 DEF who
<1>. QED
  BY <1>1, <1>2

LEMMA ClosePanelSound ==
  ASSUME NEW v, Sound(v)
  PROVE  LET w == CloseReportPanel(v)
         IN  /\ Sound(w) /\ w.open = v.open /\ SameNumber(v, w)
             /\ w.panel = FALSE /\ w.popup = v.popup
<1>. DEFINE w == CloseReportPanel(v)
<1>1. "List" \in BoardNames /\ "None" \in Fields /\ {} \in SUBSET {"Username", "Cheating"}
  BY DEF BoardNames, Fields
<1>2. w \in Views
  BY <1>1 DEF Sound, Views, CloseReportPanel
<1>3. /\ w.at = "List" /\ w.panel = FALSE /\ w.popup = v.popup /\ w.rows = v.rows
      /\ w.number = v.number /\ w.age = v.age /\ w.open = v.open
  BY DEF Sound, Views, CloseReportPanel
<1>. HIDE DEF w
<1>4. Sound(w) /\ w.open = v.open /\ SameNumber(v, w) /\ w.panel = FALSE /\ w.popup = v.popup
  BY <1>1, <1>2, <1>3 DEF Sound, SameNumber
<1>. QED
  BY <1>4 DEF w

LEMMA OpeningSound ==
  ASSUME NEW v, Sound(v)
  PROVE  LET w == Opening(v)
         IN  /\ Sound(w) /\ w.open /\ ~w.loaded /\ w.rows = v.rows
             /\ w.panel = FALSE /\ w.popup = NoRank /\ w.number = NoRank /\ w.age = 0
<1>. DEFINE f == ForgetDigits(v)
            w == [f EXCEPT
                    !.open = TRUE, !.loaded = FALSE, !.search = <<>>, !.highlight = NoRank,
                    !.saved = NoRank, !.popup = NoRank, !.panel = FALSE, !.closing = FALSE,
                    !.submitting = FALSE, !.at = "Shop", !.synced = "None"]
<1>1. Sound(f) /\ SameTarget(v, f) /\ f.number = NoRank /\ f.age = 0
  BY ForgetSound
<1>2. NoRank \in Places /\ "Shop" \in BoardNames /\ "None" \in Fields /\ <<>> \in Searches
      /\ {} \in SUBSET {"Username", "Cheating"}
  BY DEF Places, BoardNames, Fields, Searches
<1>3. Opening(v) = w
  BY DEF Opening
<1>. HIDE DEF f
<1>4. w \in Views
  <2>1. f \in Views
    BY <1>1 DEF Sound
  <2>. QED
    BY <1>2, <2>1 DEF Views
<1>5. /\ w.at = "Shop" /\ w.panel = FALSE /\ w.popup = NoRank /\ w.rows = f.rows
      /\ w.number = f.number /\ w.age = f.age /\ w.open = TRUE /\ w.loaded = FALSE
  BY <1>1 DEF Sound, Views
<1>. HIDE DEF w
<1>6. Sound(w) /\ w.open /\ ~w.loaded /\ w.rows = v.rows
      /\ w.panel = FALSE /\ w.popup = NoRank /\ w.number = NoRank /\ w.age = 0
  BY <1>1, <1>2, <1>4, <1>5 DEF Sound, SameTarget
<1>. QED
  BY <1>3, <1>6

LEMMA LeavingSound ==
  ASSUME NEW v, Sound(v)
  PROVE  LET w == Leaving(v)
         IN  /\ Sound(w) /\ ~w.open /\ w.rows = v.rows
             /\ w.panel = FALSE /\ w.popup = NoRank /\ w.number = NoRank /\ w.age = 0
<1>. DEFINE o == Opening(v)
            w == [o EXCEPT !.open = FALSE, !.reported = Nobody, !.reasons = {}, !.caret = "None"]
<1>1. /\ Sound(o) /\ o.rows = v.rows
      /\ o.panel = FALSE /\ o.popup = NoRank /\ o.number = NoRank /\ o.age = 0
  BY OpeningSound
<1>2. "None" \in Fields /\ {} \in SUBSET {"Username", "Cheating"}
  BY DEF Fields
<1>3. Leaving(v) = w
  BY DEF Leaving
<1>. HIDE DEF o
<1>4. w \in Views
  <2>1. o \in Views
    BY <1>1 DEF Sound
  <2>. QED
    BY <1>2, <2>1 DEF Views
<1>5. /\ w.at = o.at /\ w.panel = o.panel /\ w.popup = o.popup /\ w.rows = o.rows
      /\ w.number = o.number /\ w.age = o.age /\ w.open = FALSE
  BY <1>1 DEF Sound, Views
<1>. HIDE DEF w
<1>6. Sound(w) /\ ~w.open /\ w.rows = v.rows
      /\ w.panel = FALSE /\ w.popup = NoRank /\ w.number = NoRank /\ w.age = 0
  BY <1>1, <1>4, <1>5 DEF Sound
<1>. QED
  BY <1>3, <1>6

\* What the digit keys do to the cursor.
LEMMA JumpSound ==
  ASSUME NEW v, Sound(v), Ranks(v) # {}, NEW d \in 0 .. 9
  PROVE  LET w == RankJumpDigit(v, d)
             n == IF Fresh(v) THEN d
                  ELSE IF v.number * 10 + d <= Max(Ranks(v)) + 1 THEN v.number * 10 + d
                       ELSE Max(Ranks(v)) + 1
         IN  /\ Sound(w) /\ SameTarget(v, w) /\ w.open = v.open
             /\ Fresh(v) /\ d = 0 => w.number = NoRank /\ w.age = 0
             /\ ~(Fresh(v) /\ d = 0) =>
                  w.number = n /\ n \in Nat /\ w.age = 0 /\ w.highlight = Clamp(v, n)
<1>. DEFINE n == IF Fresh(v) THEN d
                 ELSE IF v.number * 10 + d <= Max(Ranks(v)) + 1 THEN v.number * 10 + d
                      ELSE Max(Ranks(v)) + 1
            h == Clamp(v, n)
            w == [v EXCEPT !.number = n, !.age = 0, !.highlight = h]
<1>1. CASE Fresh(v) /\ d = 0
  BY <1>1, ForgetSound DEF RankJumpDigit
<1>2. CASE ~(Fresh(v) /\ d = 0)
  <2>0. Max(Ranks(v)) \in 1 .. 100 /\ v.number \in Nat \cup {NoRank} /\ 0 \in 0 .. Window + 1
        /\ v \in Views
    BY ClampIs, BoardAssumption DEF Sound, Views
  <2>1. n \in Nat
    BY <2>0 DEF Fresh
  <2>2. RankJumpDigit(v, d) = w
    <3>1. CASE Fresh(v)
      BY <1>2, <3>1 DEF RankJumpDigit
    <3>2. CASE ~Fresh(v)
      <4>1. v.number * 10 + d \in Int /\ Max(Ranks(v)) + 1 \in Int
        BY <2>0, <3>2 DEF Fresh
      <4>2. Min({v.number * 10 + d, Max(Ranks(v)) + 1}) = n
        BY <3>2, <4>1, MinOfTwo
      <4>. QED
        BY <1>2, <3>2, <4>2 DEF RankJumpDigit
    <3>. QED
      BY <3>1, <3>2
  <2>. HIDE DEF n
  <2>3. h \in Places
    BY <2>1, ClampIs
  <2>. HIDE DEF h
  <2>4. w \in Views
    BY <2>0, <2>1, <2>3 DEF Views
  <2>5. /\ w.at = v.at /\ w.panel = v.panel /\ w.reported = v.reported /\ w.popup = v.popup
        /\ w.rows = v.rows /\ w.number = n /\ w.age = 0 /\ w.open = v.open /\ w.highlight = h
    BY <2>0 DEF Views
  <2>. HIDE DEF w
  <2>6. Sound(w) /\ SameTarget(v, w)
    BY <2>4, <2>5 DEF Sound, SameTarget
  <2>. QED
    BY <1>2, <2>1, <2>2, <2>5, <2>6 DEF h, n
<1>. QED
  BY <1>1, <1>2

LEMMA ArrowSound ==
  ASSUME NEW v, Sound(v), Ranks(v) # {}, NEW by \in {1, -1}
  PROVE  LET w == RankJumpArrow(v, by)
         IN  Sound(w) /\ SameTarget(v, w) /\ w.open = v.open /\ w.number = NoRank /\ w.age = 0
<1>. DEFINE f == ForgetDigits(v)
            h == IF f.highlight < Min(Ranks(v)) THEN Min(Ranks(v)) ELSE Clamp(v, f.highlight + by)
            w == [f EXCEPT !.highlight = h]
<1>1. Sound(f) /\ SameTarget(v, f) /\ f.open = v.open /\ f.number = NoRank /\ f.age = 0
  BY ForgetSound
<1>2. RankJumpArrow(v, by) = w
  BY DEF RankJumpArrow
<1>. HIDE DEF f
<1>3. f.highlight \in Int /\ f \in Views
  BY <1>1 DEF Sound, Views, Places, NoRank
<1>4. h \in Places
  <2>1. f.highlight + by \in Int
    BY <1>3
  <2>2. Min(Ranks(v)) \in 1 .. 100 /\ Clamp(v, f.highlight + by) \in Places
    BY <2>1, ClampIs
  <2>. QED
    BY <2>2 DEF Places
<1>. HIDE DEF h
<1>5. Like(f, w)
  BY <1>3, <1>4, Likes
<1>. HIDE DEF w
<1>6. Sound(w)
  BY <1>1, <1>5, LikeSound
<1>. QED
  BY <1>1, <1>2, <1>5, <1>6 DEF Like, SameTarget, SameNumber

LEMMA LeaveListSound ==
  ASSUME NEW v, Sound(v), NEW reverse \in BOOLEAN
  PROVE  LET w == LeaveList(v, reverse)
         IN  /\ Sound(w) /\ SameTarget(v, w) /\ w.open = v.open
             /\ IF reverse THEN SameNumber(v, w) ELSE w.number = NoRank
<1>0. v.highlight \in Places /\ NoRank \in Places /\ v \in Views
  BY DEF Sound, Views, Places
<1>1. CASE reverse
  <2>1. Like(v, LeaveList(v, reverse))
    BY <1>0, <1>1, Likes DEF LeaveList
  <2>. QED
    BY <1>1, <2>1, LikeSound DEF Like
<1>2. CASE ~reverse
  <2>. DEFINE f == ForgetDigits(v)
              g == [f EXCEPT !.saved = v.highlight]
              w == [g EXCEPT !.highlight = NoRank]
  <2>1. Sound(f) /\ SameTarget(v, f) /\ f.open = v.open /\ f.number = NoRank /\ f.age = 0
    BY ForgetSound
  <2>2. LeaveList(v, reverse) = w
    BY <1>2 DEF LeaveList
  <2>. HIDE DEF f
  <2>3. Like(f, g)
    BY <1>0, <2>1, Likes DEF Sound
  <2>. HIDE DEF g
  <2>4. Like(g, w)
    BY <1>0, <2>3, Likes DEF Like
  <2>5. Like(f, w)
    BY <2>3, <2>4, LikeTwice
  <2>. HIDE DEF w
  <2>6. Sound(w)
    BY <2>1, <2>5, LikeSound
  <2>. QED
    BY <1>2, <2>1, <2>2, <2>5, <2>6 DEF Like, SameTarget, SameNumber
<1>. QED
  BY <1>1, <1>2

LEMMA BackSound ==
  ASSUME NEW v, Sound(v)
  PROVE  Like(v, BackToList(v))
  BY Likes DEF BackToList, Sound, Views

\* What a fetch brings is a board.
LEMMA BoardsAre ==
  /\ <<>> \in Boards
  /\ \A board \in FetchedBoards : board.ok \in BOOLEAN /\ board.rows \in Boards
<1>1. <<>> \in Boards
  <2>1. <<>> \in [{} -> Names]
    OBVIOUS
  <2>. QED
    BY <2>1 DEF Boards
<1>2. ASSUME NEW a \in Answers
      PROVE  Parsed(a).ok \in BOOLEAN /\ Parsed(a).rows \in Boards
  <2>. DEFINE entries == {o \in a.objects : o.rank # NoRank /\ o.name # Nobody}
              S == {o.rank : o \in entries}
              rows == [r \in S |-> (CHOOSE o \in entries : o.rank = r).name]
  <2>1. \A o \in entries : o.rank \in 1 .. 100 /\ o.name \in Names
    BY BoardAssumption
  <2>. HIDE DEF entries
  <2>2. S \in SUBSET (1 .. 100)
    BY <2>1
  <2>3. rows \in [S -> Names]
    BY <2>1
  <2>4. rows \in Boards
    BY <2>2, <2>3 DEF Boards
  <2>5. Parsed(a) = IF Succeeded(a.status) THEN [ok |-> TRUE, rows |-> rows] ELSE [ok |-> FALSE, rows |-> <<>>]
    BY DEF Parsed, entries
  <2>. HIDE DEF rows
  <2>. QED
    BY <1>1, <2>4, <2>5
<1>. QED
  BY <1>1, <1>2 DEF FetchedBoards

(* ------------------------------ the frames ------------------------------- *)

LEMMA LoadedSound ==
  ASSUME NEW v, Sound(v), NEW board, board.ok \in BOOLEAN, board.rows \in Boards
  PROVE  LET w == Loaded(v, board)
         IN  /\ Sound(w) /\ w.open = v.open /\ w.panel = v.panel /\ w.reported = v.reported
             /\ w.popup = v.popup /\ w.number = v.number /\ w.age = v.age
             /\ v.loaded => w.rows = v.rows
<1>. DEFINE w == [v EXCEPT !.loaded = TRUE, !.ok = board.ok, !.rows = board.rows]
<1>1. CASE v.loaded
  BY <1>1 DEF Loaded
<1>2. CASE ~v.loaded
  <2>1. w \in Views
    BY DEF Sound, Views
  <2>2. /\ w.at = v.at /\ w.panel = v.panel /\ w.reported = v.reported /\ w.popup = v.popup
        /\ w.number = v.number /\ w.age = v.age /\ w.open = v.open
    BY DEF Sound, Views
  <2>3. Loaded(v, board) = w
    BY <1>2 DEF Loaded
  <2>. HIDE DEF w
  <2>4. Sound(w)
    BY <2>1, <2>2 DEF Sound
  <2>. QED
    BY <1>2, <2>2, <2>3, <2>4
<1>. QED
  BY <1>1, <1>2

\* The caret follows the focus, and nothing else does.
LEMMA ReconciledLike ==
  ASSUME NEW v \in Views
  PROVE  Like(v, Reconciled(v)) /\ Like(v, Synced(v))
<1>1. "None" \in Fields /\ TextFields \subseteq Fields
  BY DEF Fields
<1>2. Like(v, Reconciled(v))
  <2>. DEFINE f == Focused(v)
  <2>1. /\ Like(v, v) /\ Like(v, [v EXCEPT !.caret = "None"])
        /\ f \in TextFields => Like(v, [v EXCEPT !.caret = f])
    BY <1>1, Likes
  <2>. QED
    BY <2>1 DEF Reconciled
<1>3. Like(v, Synced(v))
  <2>. DEFINE s == IF Focused(v) \in TextFields THEN Focused(v) ELSE "None"
  <2>1. s \in Fields
    BY <1>1
  <2>. QED
    BY <2>1, Likes DEF Synced
<1>. QED
  BY <1>2, <1>3

\* What is clicked is on the screen.
LEMMA InputsAre ==
  ASSUME NEW v, NEW in \in BoardInputs(v) \cup [kind : {"Banner"}, arg : {"-"}]
  PROVE  /\ in.kind = "Type" => in.arg \in Queries \cup {{}}
         /\ in.kind \in {"Row", "Report"} => in.arg \in Ranks(v) /\ ~v.panel
         /\ in.kind = "Popup" => ~v.panel
         /\ in.kind = "Reason" => in.arg \in {"UsernameReason", "CheatingReason"}
<1>1. Matches(v) \subseteq Ranks(v)
  BY DEF Matches
<1>2. CASE in \in [kind : {"Row", "Report"}, arg : Matches(v)] /\ ~v.panel
  BY <1>1, <1>2
<1>3. CASE in \in [kind : {"Type"}, arg : Queries \cup {{}}]
  BY <1>3
<1>4. CASE in \in [kind : {"Reason"}, arg : {"UsernameReason", "CheatingReason"}]
  BY <1>4
<1>5. CASE in \in [kind : {"Popup"}, arg : {"-"}] /\ ~v.panel
  BY <1>5
<1>6. CASE in \in [kind : {"None", "Search", "Outside", "Leave", "Enter", "Retry", "OptIn",
                           "Comment", "PanelX", "Submit", "Banner"}, arg : {"-"}]
  BY <1>6
<1>. QED
  BY <1>2, <1>3, <1>4, <1>5, <1>6 DEF BoardInputs

LEMMA ClickedSound ==
  ASSUME NEW v, Sound(v), NEW in,
         in.kind = "Type" => in.arg \in Queries \cup {{}},
         in.kind \in {"Row", "Report"} => in.arg \in Ranks(v) /\ ~v.panel
  PROVE  LET w == Clicked(v, in)
         IN  /\ Sound(w) /\ w.open = v.open /\ w.rows = v.rows /\ w.panel = v.panel
             /\ w.reported = v.reported
             /\ w.popup = IF in.kind = "Report" THEN in.arg ELSE v.popup
             /\ IF in.kind \in {"Enter", "Row", "Report"} THEN w.number = NoRank /\ w.age = 0
                ELSE w.number = v.number /\ w.age = v.age
<1>. DEFINE c == [v EXCEPT !.caret = "None"]
<1>0. "None" \in Fields /\ "Search" \in Fields /\ v \in Views
  BY DEF Fields, TextFields, Sound
<1>1. Like(v, c)
  BY <1>0, Likes
<1>2. Sound(c) /\ Ranks(c) = Ranks(v)
  BY <1>1, LikeSound DEF Like, SameTarget, Ranks
<1>. HIDE DEF c
<1>3. CASE in.kind = "Search"
  <2>. DEFINE u == [v EXCEPT !.caret = "Search"]
  <2>1. Like(v, u)
    BY <1>0, Likes
  <2>. HIDE DEF u
  <2>2. Sound(u)
    BY <2>1, LikeSound
  <2>3. Sound(Snap(u, "Search")) /\ Snap(u, "Search").open = u.open
        /\ SameTarget(u, Snap(u, "Search")) /\ SameNumber(u, Snap(u, "Search"))
    BY <2>2, SnapSound
  <2>4. Clicked(v, in) = Snap(u, "Search")
    BY <1>3 DEF Clicked, u
  <2>. QED
    BY <1>3, <2>1, <2>3, <2>4 DEF Like, SameTarget, SameNumber
<1>4. CASE in.kind = "Type"
  <2>. DEFINE s == IF in.arg = {} THEN <<>> ELSE <<in.arg>>
  <2>1. s \in Searches
    BY <1>4 DEF Searches
  <2>2. Clicked(v, in) = [v EXCEPT !.search = s]
    BY <1>4 DEF Clicked
  <2>. HIDE DEF s
  <2>3. Like(v, Clicked(v, in))
    BY <1>0, <2>1, <2>2, Likes
  <2>. QED
    BY <1>4, <2>3, LikeSound DEF Like, SameTarget, SameNumber
<1>5. CASE in.kind = "Enter"
  <2>1. Clicked(v, in) = CommitSearch(c)
    BY <1>5 DEF Clicked, c
  <2>. QED
    BY <1>1, <1>2, <1>5, <2>1, CommitSound DEF Like, SameTarget, SameNumber
<1>6. CASE in.kind = "Row"
  <2>1. Clicked(v, in) = PointAt(c, in.arg)
    BY <1>6 DEF Clicked, c
  <2>. QED
    BY <1>1, <1>2, <1>6, <2>1, PointSound DEF Like, SameTarget, SameNumber
<1>7. CASE in.kind = "Report"
  <2>. DEFINE p == PointAt(c, in.arg)
              w == [p EXCEPT !.popup = in.arg]
  <2>1. Sound(p) /\ SameTarget(c, p) /\ p.open = c.open /\ p.number = NoRank /\ p.age = 0
    BY <1>2, <1>7, PointSound
  <2>2. in.arg \in Places /\ ~p.panel
    BY <1>1, <1>7, <2>1, RowsAre DEF Like, SameTarget
  <2>3. Clicked(v, in) = w
    BY <1>7 DEF Clicked, c
  <2>. HIDE DEF p
  <2>4. w \in Views
    BY <2>1, <2>2 DEF Sound, Views
  <2>5. /\ w.at = p.at /\ w.panel = p.panel /\ w.reported = p.reported /\ w.popup = in.arg
        /\ w.rows = p.rows /\ w.number = p.number /\ w.age = p.age /\ w.open = p.open
    BY <2>1 DEF Sound, Views
  <2>. HIDE DEF w
  <2>6. Sound(w)
    BY <2>1, <2>2, <2>4, <2>5 DEF Sound
  <2>. QED
    BY <1>1, <1>7, <2>1, <2>3, <2>5, <2>6 DEF Like, SameTarget, SameNumber
<1>8. CASE in.kind \in {"Retry", "OptIn"}
  <2>. DEFINE u == [v EXCEPT !.loaded = FALSE]
              w == [u EXCEPT !.caret = "None"]
  <2>1. Like(v, u)
    BY <1>0, Likes
  <2>2. Clicked(v, in) = w
    BY <1>8 DEF Clicked
  <2>. HIDE DEF u
  <2>3. Like(u, w)
    BY <1>0, <2>1, Likes DEF Like
  <2>4. Like(v, w)
    BY <2>1, <2>3, LikeTwice
  <2>. HIDE DEF w
  <2>. QED
    BY <1>8, <2>2, <2>4, LikeSound DEF Like, SameTarget, SameNumber
<1>9. CASE in.kind \notin {"Search", "Type", "Enter", "Row", "Report", "Retry", "OptIn"}
  <2>1. Clicked(v, in) = v
    BY <1>9 DEF Clicked
  <2>. QED
    BY <1>9, <2>1
<1>. QED
  BY <1>3, <1>4, <1>5, <1>6, <1>7, <1>8, <1>9

\* The popup goes, or becomes the panel about the player at its rank, or stays.
LEMMA PopupSound ==
  ASSUME NEW v, Sound(v), v.open, NEW clicked \in BOOLEAN
  PROVE  LET w == Popup(v, clicked)
         IN  /\ Sound(w) /\ w.open /\ w.rows = v.rows
             /\ \/ /\ w.panel = v.panel /\ w.reported = v.reported /\ w.popup \in {v.popup, NoRank}
                   /\ w.number = v.number /\ w.age = v.age
                \/ /\ clicked /\ v.popup # NoRank
                   /\ w.panel /\ w.reported = NameAt(v, v.popup) /\ w.popup = NoRank
                   /\ w.number = v.number /\ w.age = v.age
<1>1. CASE Popup(v, clicked) = v
  BY <1>1
<1>2. CASE Popup(v, clicked) = [v EXCEPT !.popup = NoRank]
  <2>. DEFINE w == [v EXCEPT !.popup = NoRank]
  <2>1. w \in Views
    BY DEF Sound, Views, Places
  <2>2. /\ w.at = v.at /\ w.panel = v.panel /\ w.reported = v.reported /\ w.popup = NoRank
        /\ w.rows = v.rows /\ w.number = v.number /\ w.age = v.age /\ w.open = v.open
    BY DEF Sound, Views
  <2>3. Popup(v, clicked) = w
    BY <1>2
  <2>. HIDE DEF w
  <2>4. Sound(w)
    BY <2>1, <2>2 DEF Sound
  <2>. QED
    BY <2>2, <2>3, <2>4
<1>3. CASE clicked /\ v.popup # NoRank /\ Popup(v, clicked) = OpenReportPanel(v)
  BY <1>3, OpenPanelSound
<1>. QED
  BY <1>1, <1>2, <1>3 DEF Popup

LEMMA ReasonsAre ==
  ASSUME NEW v \in Views, NEW stop \in DOMAIN ReasonOf
  PROVE  LET r == ReasonOf[stop]
         IN  (IF r \in v.reasons THEN v.reasons \ {r} ELSE v.reasons \cup {r})
               \in SUBSET {"Username", "Cheating"}
<1>1. v.reasons \in SUBSET {"Username", "Cheating"}
  BY DEF Views
<1>2. ReasonOf[stop] \in {"Username", "Cheating"}
  BY DEF ReasonOf
<1>. QED
  BY <1>1, <1>2

\* Inside the panel only the reasons, the two requests, the focus and the caret move.
LEMMA PanelSound ==
  ASSUME NEW v, Sound(v), NEW in, in.kind = "Reason" => in.arg \in {"UsernameReason", "CheatingReason"}
  PROVE  /\ Sound(Panel(v, in)) /\ Panel(v, in).open = v.open
         /\ SameTarget(v, Panel(v, in)) /\ SameNumber(v, Panel(v, in))
<1>0. v \in Views /\ "None" \in Fields /\ "Comment" \in Fields
  BY DEF Sound, Fields, TextFields
<1>1. ASSUME NEW u, Like(v, u), NEW stop
      PROVE  /\ Sound(Snap(u, stop)) /\ Snap(u, stop).open = v.open
             /\ SameTarget(v, Snap(u, stop)) /\ SameNumber(v, Snap(u, stop))
  <2>1. Sound(u)
    BY <1>1, LikeSound
  <2>2. /\ Sound(Snap(u, stop)) /\ Snap(u, stop).open = u.open
        /\ SameTarget(u, Snap(u, stop)) /\ SameNumber(u, Snap(u, stop))
    BY <2>1, SnapSound
  <2>. QED
    BY <1>1, <2>2 DEF Like, SameTarget, SameNumber
<1>2. ASSUME NEW u, Like(v, u)
      PROVE  Like(v, [u EXCEPT !.caret = "None"])
  BY <1>0, <1>2, Likes, LikeTwice DEF Like
<1>3. CASE in.kind = "Reason"
  <2>. DEFINE r == ReasonOf[in.arg]
              R == IF r \in v.reasons THEN v.reasons \ {r} ELSE v.reasons \cup {r}
              u == [v EXCEPT !.reasons = R]
              w == [u EXCEPT !.caret = "None"]
  <2>1. R \in SUBSET {"Username", "Cheating"}
    BY <1>0, <1>3, ReasonsAre DEF ReasonOf
  <2>2. Panel(v, in) = Snap(w, in.arg)
    BY <1>3 DEF Panel
  <2>. HIDE DEF R
  <2>3. Like(v, u)
    BY <1>0, <2>1, Likes
  <2>. HIDE DEF u
  <2>4. Like(v, w)
    BY <1>2, <2>3
  <2>. HIDE DEF w
  <2>. QED
    BY <1>1, <2>2, <2>4
<1>4. CASE in.kind = "Comment"
  <2>. DEFINE u == [v EXCEPT !.caret = "Comment"]
  <2>1. Like(v, u)
    BY <1>0, Likes
  <2>2. Panel(v, in) = Snap(u, "Comment")
    BY <1>4 DEF Panel
  <2>. HIDE DEF u
  <2>. QED
    BY <1>1, <2>1, <2>2
<1>5. CASE in.kind = "Submit"
  <2>. DEFINE u == [v EXCEPT !.submitting = TRUE]
              w == [u EXCEPT !.caret = "None"]
  <2>1. Like(v, u)
    BY <1>0, Likes
  <2>2. Panel(v, in) = Snap(w, "Submit")
    BY <1>5 DEF Panel
  <2>. HIDE DEF u
  <2>3. Like(v, w)
    BY <1>2, <2>1
  <2>. HIDE DEF w
  <2>. QED
    BY <1>1, <2>2, <2>3
<1>6. CASE in.kind = "PanelX"
  <2>. DEFINE u == [v EXCEPT !.closing = TRUE]
              w == [u EXCEPT !.caret = "None"]
  <2>1. Like(v, u)
    BY <1>0, Likes
  <2>2. Panel(v, in) = w
    BY <1>6 DEF Panel
  <2>. HIDE DEF u
  <2>3. Like(v, w)
    BY <1>2, <2>1
  <2>. HIDE DEF w
  <2>. QED
    BY <2>2, <2>3, LikeSound DEF Like
<1>7. CASE in.kind \notin {"Reason", "Comment", "Submit", "PanelX"}
  BY <1>7 DEF Panel, SameTarget, SameNumber
<1>. QED
  BY <1>3, <1>4, <1>5, <1>6, <1>7

LEMMA StopActivated ==
  ASSUME NEW v, Sound(v)
  PROVE  Like(v, ActivateReportStop(v))
<1>0. v \in Views
  BY DEF Sound
<1>1. CASE Focused(v) \in DOMAIN ReasonOf
  <2>. DEFINE r == ReasonOf[Focused(v)]
              R == IF r \in v.reasons THEN v.reasons \ {r} ELSE v.reasons \cup {r}
  <2>1. R \in SUBSET {"Username", "Cheating"}
    BY <1>0, <1>1, ReasonsAre
  <2>0. Focused(v) # "Submit" /\ Focused(v) # "ReportClose"
    BY <1>1 DEF ReasonOf
  <2>2. ActivateReportStop(v) = [v EXCEPT !.reasons = R]
    BY <1>1, <2>0, Zenon DEF ActivateReportStop
  <2>. HIDE DEF R
  <2>. QED
    BY <1>0, <2>1, <2>2, Likes
<1>2. CASE Focused(v) \notin DOMAIN ReasonOf
  <2>1. ActivateReportStop(v) \in {v, [v EXCEPT !.submitting = TRUE], [v EXCEPT !.closing = TRUE]}
    BY <1>2 DEF ActivateReportStop
  <2>2. Like(v, v) /\ Like(v, [v EXCEPT !.submitting = TRUE]) /\ Like(v, [v EXCEPT !.closing = TRUE])
    BY <1>0, Likes
  <2>. QED
    BY <2>1, <2>2
<1>. QED
  BY <1>1, <1>2

\* The two requests close the panel or leave it.
LEMMA DeferredSound ==
  ASSUME NEW v, Sound(v), NEW outcome
  PROVE  LET w == Deferred(v, outcome)
         IN  /\ Sound(w) /\ w.open = v.open /\ SameNumber(v, w) /\ w.popup = v.popup
             /\ \/ w.panel = FALSE
                \/ w.panel = v.panel /\ w.reported = v.reported
<1>1. CASE Deferred(v, outcome) = CloseReportPanel(v)
  BY <1>1, ClosePanelSound
<1>2. CASE Deferred(v, outcome) \in {v, [v EXCEPT !.submitting = FALSE]}
  <2>1. Like(v, Deferred(v, outcome))
    BY <1>2, Likes DEF Sound
  <2>. QED
    BY <2>1, LikeSound DEF Like, SameTarget
<1>. QED
  BY <1>1, <1>2 DEF Deferred

(* ---------------- whom the popup and the panel are about ----------------- *)

\* The panel and the popup are about the player the user pointed at.
Aimed(v, who) ==
  who # Nobody => /\ v.panel => v.reported = who
                  /\ v.popup # NoRank => NameAt(v, v.popup) = who

\* A view the user's target survives in: on the same board the popup stays or goes, and
\* a panel is the one that was up or is about the player at the popup's rank.
Derives(v, w) ==
  /\ w.rows = v.rows
  /\ w.popup # NoRank => w.popup = v.popup
  /\ w.panel => \/ v.panel /\ w.reported = v.reported
                \/ v.popup # NoRank /\ w.reported = NameAt(v, v.popup)

LEMMA DerivesTwice ==
  ASSUME NEW v, NEW w, NEW x, Derives(v, w), Derives(w, x)
  PROVE  Derives(v, x)
  BY DEF Derives, NameAt, Ranks

LEMMA AimKept ==
  ASSUME NEW v, NEW w, NEW who, Aimed(v, who), Derives(v, w)
  PROVE  Aimed(w, who)
  BY DEF Aimed, Derives, NameAt, Ranks

LEMMA SameDerives ==
  ASSUME NEW v, NEW w, SameTarget(v, w)
  PROVE  Derives(v, w)
  BY DEF SameTarget, Derives

(* ---------------------- the number being typed --------------------------- *)

\* The user's idea of the number has no 0 in front.
Typing(t) ==
  /\ t \in [number : Int, age : Nat]
  /\ t.number > 0 \/ t.number \in {NoRank, Unknown}

\* The number the view holds is the one the user is typing, or both are past the last
\* row; and the view holds one while the user may still go on.
InStep(v, t) ==
  /\ v.number # NoRank => t.number # NoRank /\ v.age = t.age
  /\ t.number > 0 /\ t.age <= Window =>
       /\ v.number # NoRank /\ Ranks(v) # {}
       /\ \/ v.number = t.number
          \/ v.number > Max(Ranks(v)) /\ t.number > Max(Ranks(v))

LEMMA SameInStep ==
  ASSUME NEW v, NEW w, NEW t, InStep(v, t), SameNumber(v, w)
  PROVE  InStep(w, t)
  BY DEF InStep, SameNumber, Ranks

LEMMA NothingInStep ==
  ASSUME NEW w, w.number = NoRank
  PROVE  InStep(w, NothingTyped) /\ Typing(NothingTyped)
  BY DEF InStep, NothingTyped, NoRank, Typing

\* A number begun on a board that was refetched.
LEMMA UnknownInStep ==
  ASSUME NEW v, NEW w, NEW t, Typing(t), InStep(v, t), w.number = v.number, w.age = v.age
  PROVE  LET u == IF t.number # NoRank THEN [t EXCEPT !.number = Unknown] ELSE t
         IN  InStep(w, u) /\ Typing(u)
<1>1. CASE t.number # NoRank
  <2>. DEFINE u == [t EXCEPT !.number = Unknown]
  <2>1. u \in [number : Int, age : Nat] /\ u.number = Unknown /\ u.age = t.age
    BY DEF Typing, Unknown
  <2>. HIDE DEF u
  <2>2. InStep(w, u) /\ Typing(u)
    BY <2>1 DEF InStep, Typing, Unknown, NoRank
  <2>. QED
    BY <1>1, <2>2 DEF u
<1>2. CASE t.number = NoRank
  BY <1>2 DEF InStep, Typing, NoRank
<1>. QED
  BY <1>1, <1>2

\* Number, for any history.
After(t, d) ==
  IF t.number = NoRank \/ t.age > Window
  THEN IF d = 0 THEN NothingTyped ELSE [number |-> d, age |-> 0]
  ELSE [number |-> IF t.number = Unknown THEN Unknown ELSE t.number * 10 + d, age |-> 0]

\* A digit adds to both, or begins both, and the cursor goes where the user's number is.
LEMMA DigitInStep ==
  ASSUME NEW v, Sound(v), Ranks(v) # {}, NEW t, Typing(t), InStep(v, t), NEW d \in 0 .. 9
  PROVE  LET w == RankJumpDigit(v, d)
             u == After(t, d)
         IN  /\ Typing(u) /\ InStep(w, u)
             /\ u.number > 0 => w.highlight = Clamp(w, u.number)
<1>. DEFINE w == RankJumpDigit(v, d)
            u == After(t, d)
            M == Max(Ranks(v))
            n == IF Fresh(v) THEN d
                 ELSE IF v.number * 10 + d <= M + 1 THEN v.number * 10 + d ELSE M + 1
<1>1. /\ Sound(w) /\ w.rows = v.rows
      /\ Fresh(v) /\ d = 0 => w.number = NoRank /\ w.age = 0
      /\ ~(Fresh(v) /\ d = 0) => w.number = n /\ n \in Nat /\ w.age = 0 /\ w.highlight = Clamp(v, n)
  BY JumpSound DEF SameTarget
<1>2. Ranks(w) = Ranks(v) /\ \A k : Clamp(w, k) = Clamp(v, k)
  BY <1>1 DEF Ranks, Clamp
<1>3. /\ M \in 1 .. 100 /\ Min(Ranks(v)) \in 1 .. 100 /\ Min(Ranks(v)) <= M
      /\ \A k \in Int : k > M => Clamp(v, k) = M
  BY ClampIs DEF Clamp
<1>4. /\ v.number \in Nat \cup {NoRank} /\ v.age \in Nat /\ Window \in Nat
      /\ t.number \in Int /\ t.age \in Nat /\ (t.number > 0 \/ t.number \in {NoRank, Unknown})
  BY BoardAssumption DEF Sound, Views, Typing
<1>. HIDE DEF w, M
<1>5. CASE (t.number = NoRank \/ t.age > Window) /\ d = 0
  <2>1. Fresh(v)
    BY <1>4, <1>5 DEF InStep, Fresh
  <2>2. u = NothingTyped /\ w.number = NoRank
    BY <1>1, <1>5, <2>1 DEF After
  <2>3. ~(u.number > 0)
    BY <2>2 DEF NothingTyped, NoRank
  <2>4. Typing(u) /\ InStep(w, u)
    BY <2>2, NothingInStep
  <2>. QED
    BY <2>3, <2>4 DEF w
<1>6. CASE (t.number = NoRank \/ t.age > Window) /\ d # 0
  <2>1. Fresh(v)
    BY <1>4, <1>6 DEF InStep, Fresh
  <2>2. u = [number |-> d, age |-> 0] /\ w.number = d /\ w.age = 0 /\ w.highlight = Clamp(v, d)
    BY <1>1, <1>6, <2>1 DEF After
  <2>3. u.number = d /\ u.age = 0 /\ u \in [number : Int, age : Nat] /\ d > 0 /\ d # NoRank
    BY <1>6, <2>2 DEF NoRank
  <2>. HIDE DEF u
  <2>4. Typing(u) /\ InStep(w, u)
    BY <1>2, <2>2, <2>3 DEF Typing, InStep
  <2>. QED
    BY <1>2, <2>2, <2>3, <2>4 DEF w, u
<1>7. CASE t.number = Unknown /\ ~(t.age > Window)
  <2>1. u = [number |-> Unknown, age |-> 0]
    BY <1>7 DEF After, Unknown, NoRank
  <2>2. u.number = Unknown /\ u.age = 0 /\ u \in [number : Int, age : Nat]
    BY <2>1 DEF Unknown
  <2>3. w.age = 0
    BY <1>1
  <2>. HIDE DEF u
  <2>4. Typing(u) /\ InStep(w, u) /\ ~(u.number > 0)
    BY <2>2, <2>3 DEF Typing, InStep, Unknown, NoRank
  <2>. QED
    BY <2>4 DEF w, u
<1>8. CASE t.number > 0 /\ ~(t.age > Window)
  <2>1. /\ v.number # NoRank /\ v.age = t.age
        /\ \/ v.number = t.number
           \/ v.number > M /\ t.number > M
    BY <1>4, <1>8 DEF InStep, M
  <2>2. ~Fresh(v) /\ v.number \in Nat
    BY <1>4, <1>8, <2>1 DEF Fresh
  <2>3. u = [number |-> t.number * 10 + d, age |-> 0]
    BY <1>8, <1>4 DEF After, Unknown, NoRank
  <2>4. u.number = t.number * 10 + d /\ u.age = 0
    BY <2>3
  <2>5. t.number * 10 + d \in Int /\ t.number * 10 + d > 0
    BY <1>4, <1>8
  <2>6. u \in [number : Int, age : Nat]
    BY <2>3, <2>5
  <2>. HIDE DEF u
  <2>7. w.number = n /\ n \in Nat /\ w.age = 0 /\ w.highlight = Clamp(v, n)
    BY <1>1, <2>2
  <2>8. n = t.number * 10 + d \/ (n > M /\ t.number * 10 + d > M)
    <3>1. n = IF v.number * 10 + d <= M + 1 THEN v.number * 10 + d ELSE M + 1
      BY <2>2
    <3>. HIDE DEF n
    <3>2. CASE v.number = t.number
      BY <1>3, <1>4, <2>2, <3>1, <3>2
    <3>3. CASE v.number > M /\ t.number > M
      BY <1>3, <1>4, <2>2, <3>1, <3>3
    <3>. QED
      BY <2>1, <3>2, <3>3
  <2>. HIDE DEF n
  <2>9. Typing(u)
    BY <2>4, <2>5, <2>6 DEF Typing
  <2>10. InStep(w, u)
    BY <1>2, <2>4, <2>5, <2>7, <2>8 DEF InStep, NoRank, M
  <2>11. w.highlight = Clamp(w, u.number)
    BY <1>2, <1>3, <2>4, <2>5, <2>7, <2>8
  <2>. QED
    BY <2>9, <2>10, <2>11 DEF w, u
<1>. QED
  BY <1>4, <1>5, <1>6, <1>7, <1>8

(* ------------------------------- the steps ------------------------------- *)

Good == Sound(view) /\ Aimed(view, meant) /\ Typing(typed) /\ InStep(view, typed)

LEMMA GoodInit ==
  ASSUME Init
  PROVE  Good
<1>1. Closed \in Views
  <2>1. /\ <<>> \in Boards /\ <<>> \in Searches /\ NoRank \in Places /\ 0 \in 0 .. Window + 1
        /\ {} \in SUBSET {"Username", "Cheating"} /\ "Shop" \in BoardNames /\ "None" \in Fields
    BY BoardsAre, BoardAssumption DEF Searches, Places, BoardNames, Fields
  <2>. QED
    BY <2>1 DEF Closed, Views
<1>2. Closed.at \in BoardNames /\ Closed.panel = FALSE /\ Closed.number = NoRank
  BY DEF Closed, BoardNames
<1>3. view = Closed /\ meant = Nobody /\ typed = NothingTyped
  BY DEF Init
<1>. QED
  BY <1>1, <1>2, <1>3, NothingInStep DEF Good, Sound, Aimed

\* What a step has to show.
LEMMA Stepped ==
  ASSUME Good, Sound(view'), Derives(view, view'), meant' \in {meant, Nobody},
         \/ typed' = typed /\ SameNumber(view, view')
         \/ typed' = NothingTyped /\ view'.number = NoRank
  PROVE  Good'
<1>1. Aimed(view', meant) /\ Aimed(view', Nobody)
  BY AimKept DEF Good, Aimed
<1>2. Typing(typed') /\ InStep(view', typed')
  BY SameInStep, NothingInStep DEF Good
<1>. QED
  BY <1>1, <1>2 DEF Good

LEMMA KeepIs ==
  ASSUME NEW who, Keep(who)
  PROVE  meant' \in {who, Nobody}
  BY DEF Keep

LEMMA OpenStep ==
  ASSUME Good, Open
  PROVE  Good'
<1>1. view' = Opening(view) /\ typed' = NothingTyped /\ meant' \in {meant, Nobody}
  BY KeepIs DEF Open, Goes, EndsNumber, Stay
<1>2. Sound(view') /\ view'.number = NoRank /\ Derives(view, view')
  BY <1>1, OpeningSound DEF Good, Derives
<1>. QED
  BY <1>1, <1>2, Stepped

\* The view closes.
LEMMA LeavesStep ==
  ASSUME Good, view' = Leaving(view), typed' = NothingTyped, Keep(meant)
  PROVE  Good'
<1>1. Sound(view') /\ view'.number = NoRank /\ Derives(view, view')
  BY LeavingSound DEF Good, Derives
<1>. QED
  BY <1>1, KeepIs, Stepped

\* A step that leaves the number and the target alone.
LEMMA LikeStep ==
  ASSUME Good, Like(view, view'), typed' = typed, meant' \in {meant, Nobody}
  PROVE  Good'
<1>1. Sound(view') /\ Derives(view, view') /\ SameNumber(view, view')
  BY LikeSound, SameDerives DEF Good, Like
<1>. QED
  BY <1>1, Stepped

LEMMA TabStep ==
  ASSUME Good, NEW reverse \in BOOLEAN, TabKey(reverse)
  PROVE  Good'
<1>. DEFINE by == IF reverse THEN 4 ELSE 1
            commits == ~view.panel /\ Focused(view) = "Search" /\ ~reverse
            leaves == ~view.panel /\ Focused(view) = "List" /\ Ranks(view) # {}
            back == ~view.panel /\ Focused(view) = "YourRow" /\ reverse
<1>0. by \in {1, 4} /\ Sound(view)
  BY DEF Good
<1>1. /\ view' = CASE commits -> CommitSearch(view)
                   [] leaves -> Advance(LeaveList(view, reverse), by)
                   [] back -> Advance(BackToList(view), by)
                   [] OTHER -> Advance(view, by)
      /\ IF commits \/ (leaves /\ ~reverse) THEN typed' = NothingTyped ELSE typed' = typed
      /\ meant' \in {meant, Nobody}
  BY KeepIs DEF TabKey, Goes, EndsNumber, Stay
<1>2. ~(commits /\ leaves) /\ ~(commits /\ back) /\ ~(leaves /\ back)
  OBVIOUS
<1>. HIDE DEF commits, by
<1>3. CASE commits
  <2>1. view' = CommitSearch(view) /\ typed' = NothingTyped
    BY <1>1, <1>2, <1>3
  <2>2. Sound(view') /\ view'.number = NoRank /\ SameTarget(view, view')
    BY <1>0, <2>1, CommitSound
  <2>. QED
    BY <1>1, <2>1, <2>2, SameDerives, Stepped
<1>4. CASE leaves /\ ~commits
  <2>. DEFINE l == LeaveList(view, reverse)
  <2>1. view' = Advance(l, by)
    BY <1>1, <1>2, <1>4
  <2>2. /\ Sound(l) /\ SameTarget(view, l)
        /\ IF reverse THEN SameNumber(view, l) ELSE l.number = NoRank
    BY <1>0, LeaveListSound
  <2>. HIDE DEF l
  <2>3. Sound(view') /\ SameTarget(l, view') /\ SameNumber(l, view')
    BY <1>0, <2>1, <2>2, AdvanceSound
  <2>4. Derives(view, view')
    BY <2>2, <2>3, SameDerives DEF SameTarget
  <2>5. IF reverse THEN SameNumber(view, view') /\ typed' = typed
        ELSE view'.number = NoRank /\ typed' = NothingTyped
    BY <1>1, <1>4, <2>2, <2>3 DEF SameNumber
  <2>. QED
    BY <1>1, <2>3, <2>4, <2>5, Stepped
<1>5. CASE ~leaves /\ ~commits
  <2>1. view' \in {Advance(BackToList(view), by), Advance(view, by)} /\ typed' = typed
    BY <1>1, <1>2, <1>5
  <2>2. Like(view, view) /\ Like(view, BackToList(view))
    BY <1>0, Likes, BackSound DEF Sound
  <2>3. ASSUME NEW l, Like(view, l), view' = Advance(l, by)
        PROVE  Good'
    <3>1. Sound(l)
      BY <1>0, <2>3, LikeSound
    <3>2. Sound(view') /\ SameTarget(l, view') /\ SameNumber(l, view')
      BY <1>0, <2>3, <3>1, AdvanceSound
    <3>3. SameTarget(view, view') /\ SameNumber(view, view')
      BY <2>3, <3>2 DEF Like, SameTarget, SameNumber
    <3>. QED
      BY <1>1, <2>1, <3>2, <3>3, SameDerives, Stepped
  <2>. QED
    BY <2>1, <2>2, <2>3
<1>. QED
  BY <1>3, <1>4, <1>5

LEMMA DigitStep ==
  ASSUME Good, NEW d \in Digits, DigitKey(d)
  PROVE  /\ Good'
         /\ typed'.number > 0 => view'.highlight = Clamp(view', typed'.number)
<1>1. /\ Ranks(view) # {} /\ view' = RankJumpDigit(view, d) /\ typed' = After(typed, d)
      /\ meant' \in {meant, Nobody}
  BY KeepIs DEF DigitKey, OnList, Goes, Stay, Number, After
<1>2. d \in 0 .. 9
  BY BoardAssumption
<1>3. /\ Typing(typed') /\ InStep(view', typed')
      /\ typed'.number > 0 => view'.highlight = Clamp(view', typed'.number)
  BY <1>1, <1>2, DigitInStep DEF Good
<1>4. Sound(view') /\ SameTarget(view, view')
  BY <1>1, <1>2, JumpSound DEF Good
<1>5. Aimed(view', meant')
  BY <1>1, <1>4, SameDerives, AimKept DEF Good, Aimed
<1>. QED
  BY <1>3, <1>4, <1>5 DEF Good

LEMMA ArrowStep ==
  ASSUME Good, NEW by \in {1, -1}, ArrowKey(by)
  PROVE  Good'
<1>1. /\ Ranks(view) # {} /\ view' = RankJumpArrow(view, by) /\ typed' = NothingTyped
      /\ meant' \in {meant, Nobody}
  BY KeepIs DEF ArrowKey, OnList, Goes, EndsNumber, Stay
<1>2. Sound(view') /\ SameTarget(view, view') /\ view'.number = NoRank
  BY <1>1, ArrowSound DEF Good
<1>. QED
  BY <1>1, <1>2, SameDerives, Stepped

LEMMA ReportStep ==
  ASSUME Good, ReportKey
  PROVE  Good'
<1>. DEFINE h == view.highlight
            w == [view EXCEPT !.popup = h]
            who == NameAt(view, h)
<1>1. view' = w /\ ~view.panel /\ typed' = typed /\ meant' \in {who, Nobody}
  BY KeepIs DEF ReportKey, OnList, Goes
<1>2. h \in Places /\ view \in Views
  BY DEF Good, Sound, Views
<1>. HIDE DEF h
<1>3. w \in Views
  BY <1>2 DEF Views
<1>4. /\ w.at = view.at /\ w.panel = view.panel /\ w.reported = view.reported /\ w.popup = h
      /\ w.rows = view.rows /\ w.number = view.number /\ w.age = view.age /\ w.open = view.open
  BY <1>2 DEF Views
<1>. HIDE DEF w
<1>5. Sound(w) /\ SameNumber(view, w)
  BY <1>1, <1>3, <1>4 DEF Good, Sound, SameNumber
<1>6. Aimed(w, who) /\ Aimed(w, Nobody)
  BY <1>1, <1>4 DEF Aimed, NameAt, Ranks
<1>7. InStep(w, typed)
  BY <1>5, SameInStep DEF Good
<1>. HIDE DEF who
<1>. QED
  BY <1>1, <1>5, <1>6, <1>7 DEF Good

LEMMA ActivateStep ==
  ASSUME Good, ActivateKey
  PROVE  Good'
<1>0. Keep(meant) /\ meant' \in {meant, Nobody} /\ view.open /\ Sound(view) /\ ~view.panel
  BY KeepIs DEF ActivateKey, Good
<1>1. CASE Focused(view) \in {"Shop", "Close"}
  <2>1. view' = Leaving(view) /\ typed' = NothingTyped
    BY <1>1 DEF ActivateKey, Goes, EndsNumber
  <2>. QED
    BY <1>0, <2>1, LeavesStep
<1>2. CASE Focused(view) = "List"
  <2>1. /\ view' = OpenReportPanel(view) /\ view.popup # NoRank
        /\ typed' = typed
    BY <1>2 DEF ActivateKey, Goes, EndsNumber
  <2>2. /\ Sound(view') /\ view'.rows = view.rows
        /\ \/ view' = view
           \/ /\ view'.panel /\ view'.reported = NameAt(view, view.popup) /\ view'.popup = NoRank
              /\ view'.number = view.number /\ view'.age = view.age
    BY <1>0, <2>1, OpenPanelSound
  <2>3. CASE view' = view
    BY <1>0, <2>1, <2>3, Likes, LikeStep DEF Sound
  <2>4. CASE view' # view
    <3>1. Derives(view, view') /\ typed' = typed /\ SameNumber(view, view')
      BY <2>1, <2>2, <2>4 DEF Derives, SameNumber
    <3>. QED
      BY <1>0, <2>2, <3>1, Stepped
  <2>. QED
    BY <2>3, <2>4
<1>3. CASE Focused(view) = "YourRow"
  <2>1. view' = [view EXCEPT !.loaded = FALSE] /\ typed' = typed
    BY <1>3 DEF ActivateKey, Goes, OptIn
  <2>. QED
    BY <1>0, <2>1, Likes, LikeStep DEF Sound
<1>. QED
  BY <1>1, <1>2, <1>3 DEF ActivateKey

LEMMA PanelStep ==
  ASSUME Good, PanelKey
  PROVE  Good'
<1>1. view' = ActivateReportStop(view) /\ typed' = typed /\ meant' \in {meant, Nobody}
  BY KeepIs DEF PanelKey, Goes, Stay
<1>2. Like(view, view')
  BY <1>1, StopActivated DEF Good
<1>. QED
  BY <1>1, <1>2, LikeStep

LEMMA EscapeStep ==
  ASSUME Good, EscapeKey
  PROVE  Good'
<1>1. CASE view.panel
  <2>1. view' = [view EXCEPT !.closing = TRUE] /\ typed' = typed /\ meant' \in {meant, Nobody}
    BY <1>1, KeepIs DEF EscapeKey, Goes, Stay
  <2>. QED
    BY <2>1, Likes, LikeStep DEF Good, Sound
<1>2. CASE ~view.panel
  <2>1. view' = Leaving(view) /\ typed' = NothingTyped /\ Keep(meant)
    BY <1>2 DEF EscapeKey, Goes, EndsNumber, Stay
  <2>. QED
    BY <2>1, LeavesStep
<1>. QED
  BY <1>1, <1>2

LEMMA LinkSteps ==
  ASSUME Good, YourRowLink \/ GuestLinkFrame
  PROVE  Good'
<1>1. CASE YourRowLink
  BY <1>1, LeavesStep DEF YourRowLink, Goes, EndsNumber
<1>2. CASE GuestLinkFrame
  <2>. DEFINE r == Reconciled(view)
              l == Deferred(r, "Unasked")
  <2>1. view' = Leaving(l) /\ typed' = NothingTyped /\ meant' \in {meant, Nobody}
    BY <1>2, KeepIs DEF GuestLinkFrame, Goes, EndsNumber
  <2>4. Sound(r) /\ r.rows = view.rows
    BY ReconciledLike, LikeSound DEF Good, Sound, Like, SameTarget
  <2>. HIDE DEF r
  <2>2. Sound(l) /\ l.rows = view.rows
    BY <2>4, DeferredSound DEF SameNumber
  <2>. HIDE DEF l
  <2>3. Sound(view') /\ view'.number = NoRank /\ Derives(view, view')
    BY <2>1, <2>2, LeavingSound DEF Derives
  <2>. QED
    BY <2>1, <2>3, Stepped
<1>. QED
  BY <1>1, <1>2

\* Time passes for the digits of the view and of the user alike.
LEMMA PassStep ==
  ASSUME Good, Pass
  PROVE  Good'
<1>. DEFINE v == [view EXCEPT !.age = view.age + 1]
            t == [typed EXCEPT !.age = typed.age + 1]
<1>1. /\ view' = IF view.number # NoRank /\ view.age <= Window THEN v ELSE view
      /\ typed' = IF typed.number # NoRank /\ typed.age <= Window THEN t ELSE typed
      /\ meant' = meant
  BY DEF Pass
<1>2. view \in Views /\ view.age \in 0 .. Window + 1 /\ Window \in Nat /\ Typing(typed)
  BY BoardAssumption DEF Good, Sound, Views
<1>3. ASSUME view.age <= Window
      PROVE  /\ v \in Views /\ v.at = view.at /\ v.open = view.open /\ SameTarget(view, v)
             /\ v.number = view.number /\ v.age = view.age + 1
  <2>1. view.age + 1 \in 0 .. Window + 1
    BY <1>2, <1>3
  <2>2. v \in Views
    BY <1>2, <2>1 DEF Views
  <2>3. /\ v.at = view.at /\ v.open = view.open /\ SameTarget(view, v)
        /\ v.number = view.number /\ v.age = view.age + 1
    BY <1>2 DEF Views, SameTarget
  <2>. QED
    BY <2>2, <2>3
<1>4. t \in [number : Int, age : Nat] /\ t.number = typed.number /\ t.age = typed.age + 1
  BY <1>2 DEF Typing
<1>. HIDE DEF v, t
<1>5. /\ Sound(view') /\ SameTarget(view, view') /\ view'.number = view.number
      /\ view'.age = IF view.number # NoRank /\ view.age <= Window THEN view.age + 1 ELSE view.age
  BY <1>1, <1>3 DEF Good, Sound, SameTarget
<1>6. /\ Typing(typed') /\ typed'.number = typed.number
      /\ typed'.age = IF typed.number # NoRank /\ typed.age <= Window THEN typed.age + 1 ELSE typed.age
  BY <1>1, <1>2, <1>4 DEF Typing
<1>7. InStep(view', typed')
  <2>1. Ranks(view') = Ranks(view)
    BY <1>5 DEF SameTarget, Ranks
  <2>2. view.age \in Int /\ typed.age \in Int
    BY <1>2 DEF Typing
  <2>3. InStep(view, typed)
    BY DEF Good
  <2>. QED
    BY <1>2, <1>5, <1>6, <2>1, <2>2, <2>3 DEF InStep
<1>8. Aimed(view', meant')
  BY <1>1, <1>5, SameDerives, AimKept DEF Good
<1>. QED
  BY <1>5, <1>6, <1>7, <1>8 DEF Good

LEMMA RestSteps ==
  ASSUME Good, OtherFrame \/ Elsewhere
  PROVE  Good'
<1>1. view' \in {view, [view EXCEPT !.kbd = TRUE]} /\ typed' = typed /\ meant' = meant
  BY DEF OtherFrame, Elsewhere
<1>2. Like(view, view')
  BY <1>1, Likes DEF Good, Sound
<1>. QED
  BY <1>1, <1>2, LikeStep

\* What one drawing of the windows and the requests behind it do to the view.
LEMMA DrawnSound ==
  ASSUME NEW v, Sound(v), v.open, NEW in \in BoardInputs(v) \cup [kind : {"Banner"}, arg : {"-"}],
         NEW outcome
  PROVE  LET c == Clicked(v, in)
             d == Drawn(v, in)
             w == Deferred(d, outcome)
         IN  /\ Sound(w) /\ w.rows = v.rows /\ d.rows = v.rows
             /\ in.kind # "Report" => Derives(v, w)
             /\ in.kind = "Report" => /\ Derives(c, w) /\ ~c.panel /\ c.popup = in.arg
                                      /\ NameAt(c, in.arg) = NameAt(d, in.arg)
             /\ IF in.kind \in {"Enter", "Row", "Report"}
                THEN w.number = NoRank
                ELSE w.number = v.number /\ w.age = v.age
<1>. DEFINE c == Clicked(v, in)
            s == Synced(c)
            p == Popup(s, in.kind = "Popup")
            d == Panel(p, in)
            w == Deferred(d, outcome)
<1>0. /\ in.kind = "Type" => in.arg \in Queries \cup {{}}
      /\ in.kind \in {"Row", "Report"} => in.arg \in Ranks(v) /\ ~v.panel
      /\ in.kind = "Popup" => ~v.panel
      /\ in.kind = "Reason" => in.arg \in {"UsernameReason", "CheatingReason"}
  BY InputsAre
<1>1. /\ Sound(c) /\ c.open /\ c.rows = v.rows /\ c.panel = v.panel /\ c.reported = v.reported
      /\ c.popup = IF in.kind = "Report" THEN in.arg ELSE v.popup
      /\ IF in.kind \in {"Enter", "Row", "Report"} THEN c.number = NoRank /\ c.age = 0
         ELSE c.number = v.number /\ c.age = v.age
  BY <1>0, ClickedSound
<1>. HIDE DEF c
<1>2. Like(c, s)
  BY <1>1, ReconciledLike DEF Sound
<1>. HIDE DEF s
<1>3. Sound(s) /\ s.open /\ SameTarget(c, s) /\ SameNumber(c, s)
  BY <1>1, <1>2, LikeSound DEF Like
<1>4. /\ Sound(p) /\ p.open /\ p.rows = s.rows
      /\ \/ /\ p.panel = s.panel /\ p.reported = s.reported /\ p.popup \in {s.popup, NoRank}
            /\ p.number = s.number /\ p.age = s.age
         \/ /\ in.kind = "Popup" /\ s.popup # NoRank
            /\ p.panel /\ p.reported = NameAt(s, s.popup) /\ p.popup = NoRank
            /\ p.number = s.number /\ p.age = s.age
  BY <1>3, PopupSound
<1>. HIDE DEF p
<1>5. Sound(d) /\ SameTarget(p, d) /\ SameNumber(p, d)
  BY <1>0, <1>4, PanelSound
<1>6. Drawn(v, in) = d
  BY DEF Drawn, d, p, s, c
<1>. HIDE DEF d
<1>7. /\ Sound(w) /\ SameNumber(d, w) /\ w.popup = d.popup
      /\ w.panel = FALSE \/ (w.panel = d.panel /\ w.reported = d.reported)
  BY <1>5, DeferredSound
<1>. HIDE DEF w
<1>8. Derives(c, w)
  <2>1. Derives(s, p)
    BY <1>4 DEF Derives
  <2>2. Derives(c, s) /\ Derives(p, d)
    BY <1>3, <1>5, SameDerives
  <2>3. Derives(d, w)
    BY <1>7 DEF Derives, SameNumber
  <2>. QED
    BY <2>1, <2>2, <2>3, DerivesTwice
<1>9. in.kind # "Report" => Derives(v, c)
  BY <1>1 DEF Derives
<1>10. d.rows = v.rows /\ w.rows = v.rows /\ c.rows = v.rows
  BY <1>1, <1>3, <1>4, <1>5, <1>7 DEF SameTarget, SameNumber
<1>11. in.kind = "Report" => ~c.panel /\ c.popup = in.arg /\ NameAt(c, in.arg) = NameAt(d, in.arg)
  BY <1>0, <1>1, <1>10 DEF NameAt, Ranks
<1>12. IF in.kind \in {"Enter", "Row", "Report"}
       THEN w.number = NoRank
       ELSE w.number = v.number /\ w.age = v.age
  <2>1. c.number = s.number /\ c.age = s.age
    BY <1>3 DEF SameNumber
  <2>2. w.number = p.number /\ w.age = p.age
    BY <1>5, <1>7 DEF SameNumber
  <2>3. p.number = s.number /\ p.age = s.age
    BY <1>4
  <2>. QED
    BY <1>1, <2>1, <2>2, <2>3
<1>13. in.kind # "Report" => Derives(v, w)
  BY <1>8, <1>9, DerivesTwice
<1>. QED
  BY <1>6, <1>7, <1>8, <1>10, <1>11, <1>12, <1>13 DEF w, c

LEMMA FrameStep ==
  ASSUME Good, Draw
  PROVE  Good'
<1>1. PICK board \in FetchedBoards, outcome \in ReportOutcomes : Frame(board, outcome)
  BY DEF Draw
<1>. DEFINE o == Loaded(view, board)
            v == Reconciled(o)
<1>2. PICK in \in BoardInputs(v) \cup [kind : {"Banner"}, arg : {"-"}] :
        LET d == Drawn(v, in)
            w == Deferred(d, outcome)
        IN  /\ view' = IF Dismisses(in) THEN Leaving(w) ELSE w
            /\ Keep(IF in.kind = "Report" THEN NameAt(d, in.arg) ELSE IF view.loaded THEN meant ELSE Nobody)
            /\ typed' = IF in.kind \in {"Row", "Report", "Enter"} \/ Dismisses(in) THEN NothingTyped
                        ELSE IF ~view.loaded /\ typed.number # NoRank THEN [typed EXCEPT !.number = Unknown]
                        ELSE typed
  BY <1>1, Zenon DEF Frame, Goes
<1>3. view.open
  BY <1>1 DEF Frame
<1>4. /\ Sound(v) /\ v.open /\ v.panel = view.panel /\ v.reported = view.reported
      /\ v.popup = view.popup /\ v.number = view.number /\ v.age = view.age
      /\ view.loaded => v.rows = view.rows
  <2>1. /\ Sound(o) /\ o.open /\ o.panel = view.panel /\ o.reported = view.reported
        /\ o.popup = view.popup /\ o.number = view.number /\ o.age = view.age
        /\ view.loaded => o.rows = view.rows
    BY <1>3, BoardsAre, LoadedSound DEF Good
  <2>. HIDE DEF o
  <2>2. Like(o, v)
    BY <2>1, ReconciledLike DEF Sound
  <2>. QED
    BY <2>1, <2>2, LikeSound DEF Like, SameTarget, SameNumber
<1>. HIDE DEF v
<1>. DEFINE c == Clicked(v, in)
            d == Drawn(v, in)
            w == Deferred(d, outcome)
            who == IF in.kind = "Report" THEN NameAt(d, in.arg) ELSE IF view.loaded THEN meant ELSE Nobody
<1>5. /\ Sound(w) /\ w.rows = v.rows
      /\ in.kind # "Report" => Derives(v, w)
      /\ in.kind = "Report" => /\ Derives(c, w) /\ ~c.panel /\ c.popup = in.arg
                               /\ NameAt(c, in.arg) = NameAt(d, in.arg)
      /\ IF in.kind \in {"Enter", "Row", "Report"}
         THEN w.number = NoRank
         ELSE w.number = v.number /\ w.age = v.age
  BY <1>4, DrawnSound, ZenonT(40)
<1>6. /\ view' = IF Dismisses(in) THEN Leaving(w) ELSE w
      /\ meant' \in {who, Nobody}
      /\ typed' = IF in.kind \in {"Row", "Report", "Enter"} \/ Dismisses(in) THEN NothingTyped
                  ELSE IF ~view.loaded /\ typed.number # NoRank THEN [typed EXCEPT !.number = Unknown]
                  ELSE typed
  <2>1. Keep(who)
    BY <1>2
  <2>2. meant' \in {who, Nobody}
    BY <2>1, KeepIs
  <2>. QED
    BY <1>2, <2>2
<1>. HIDE DEF c, d, w
\* the target
<1>7. Aimed(w, who)
  <2>1. CASE in.kind = "Report"
    <3>1. who = NameAt(d, in.arg)
      BY <2>1
    <3>2. Aimed(c, who)
      BY <1>5, <2>1, <3>1 DEF Aimed
    <3>. QED
      BY <1>5, <2>1, <3>2, AimKept
  <2>2. CASE in.kind # "Report" /\ ~view.loaded
    BY <2>2 DEF Aimed
  <2>3. CASE in.kind # "Report" /\ view.loaded
    <3>1. who = meant
      BY <2>3
    <3>2. Derives(view, v)
      BY <1>4, <2>3 DEF Derives
    <3>3. Derives(view, w)
      BY <1>5, <2>3, <3>2, DerivesTwice
    <3>. QED
      BY <3>1, <3>3, AimKept DEF Good
  <2>. QED
    BY <2>1, <2>2, <2>3
<1>. HIDE DEF who
<1>8. Sound(Leaving(w)) /\ Derives(w, Leaving(w)) /\ Leaving(w).number = NoRank
  BY <1>5, LeavingSound DEF Derives
<1>9. Sound(view')
  BY <1>5, <1>6, <1>8
<1>10. Aimed(view', meant')
  <2>1. Aimed(view', who)
    BY <1>6, <1>7, <1>8, AimKept
  <2>2. Aimed(view', Nobody)
    BY DEF Aimed
  <2>. QED
    BY <1>6, <2>1, <2>2
\* the number
<1>11. Typing(typed') /\ InStep(view', typed')
  <2>1. CASE in.kind \in {"Row", "Report", "Enter"} \/ Dismisses(in)
    <3>1. typed' = NothingTyped
      BY <1>6, <2>1
    <3>2. view'.number = NoRank
      BY <1>5, <1>6, <1>8, <2>1
    <3>. QED
      BY <3>1, <3>2, NothingInStep
  <2>2. CASE ~(in.kind \in {"Row", "Report", "Enter"} \/ Dismisses(in))
    <3>1. view' = w /\ w.number = view.number /\ w.age = view.age
      BY <1>4, <1>5, <1>6, <2>2
    <3>2. CASE ~view.loaded
      <4>1. typed' = IF typed.number # NoRank THEN [typed EXCEPT !.number = Unknown] ELSE typed
        BY <1>6, <2>2, <3>2
      <4>. QED
        BY <3>1, <4>1, UnknownInStep DEF Good
    <3>3. CASE view.loaded
      <4>1. typed' = typed
        BY <1>6, <2>2, <3>3
      <4>2. SameNumber(view, w)
        BY <1>4, <1>5, <3>1, <3>3 DEF SameNumber
      <4>. QED
        BY <3>1, <4>1, <4>2, SameInStep DEF Good
    <3>. QED
      BY <3>2, <3>3
  <2>. QED
    BY <2>1, <2>2
<1>. QED
  BY <1>9, <1>10, <1>11 DEF Good

LEMMA GoodNext ==
  ASSUME Good, [Next]_vars
  PROVE  Good'
<1>1. CASE UNCHANGED vars
  BY <1>1 DEF vars, Good
<1>2. CASE Keys
  BY <1>2, TabStep, DigitStep, ArrowStep, ReportStep, LinkSteps, ActivateStep, PanelStep, EscapeStep DEF Keys
<1>3. CASE Open \/ Draw \/ GuestLinkFrame \/ OtherFrame \/ Pass \/ Elsewhere
  BY <1>3, OpenStep, FrameStep, LinkSteps, RestSteps, PassStep
<1>. QED
  BY <1>1, <1>2, <1>3 DEF Next

LEMMA GoodReports ==
  ASSUME Good, BannerHeld
  PROVE  ReportedIsThePointedAt
<1>1. BannerTypeOK
  BY DEF BannerHeld, Held, Banners, BannerTypeOK
<1>2. Ranks(view) \in SUBSET (1 .. 100) /\ \A r \in Ranks(view) : view.rows[r] \in Names
  BY RowsAre DEF Good
<1>3. /\ {view.highlight, view.saved, view.popup} \subseteq 0 .. 100 \cup {NoRank}
      /\ view.age \in 0 .. Window + 1
      /\ view.reported \in Names \cup {Nobody}
      /\ view.reasons \subseteq {"Username", "Cheating"}
  <2>1. view \in Views
    BY DEF Good, Sound
  <2>. QED
    BY <2>1 DEF Views, Places
<1>4. \E i \in 1 .. 5 : Stops(view)[i] = view.at
  BY StopsAre DEF Good, Sound
<1>5. view.panel => view.open /\ view.popup = NoRank /\ view.reported \in Names
  BY DEF Good, Sound
<1>6. view.panel => (meant # Nobody => view.reported = meant)
  BY DEF Good, Aimed
<1>. QED
  BY <1>1, <1>2, <1>3, <1>4, <1>5, <1>6 DEF ReportedIsThePointedAt, BoardTypeOK, Ranks

\* The player reported is the one whose row the popup was opened on (open_report_panel),
\* whatever the keys, clicks, fetches and closings in between, unless the board was
\* fetched again; and every field of the view keeps its type.
THEOREM ReportsReachTheirTarget == Spec => []ReportedIsThePointedAt
<1>1. Init => Good /\ BannerHeld
  BY GoodInit, HeldInit
<1>2. Good /\ BannerHeld /\ [Next]_vars => Good' /\ BannerHeld'
  BY GoodNext, HeldNext
<1>3. Good /\ BannerHeld => ReportedIsThePointedAt
  BY GoodReports
<1>. QED
  BY <1>1, <1>2, <1>3, PTL DEF Spec

\* Only a digit key makes the number the user types end in a new digit.
LEMMA OnlyDigits ==
  ASSUME Good, [Next]_vars, typed'.number > 0, typed'.age = 0, typed' # typed
  PROVE  \E d \in Digits : DigitKey(d)
<1>1. NothingTyped.number = NoRank /\ ~(NoRank > 0) /\ ~(Unknown > 0)
  BY DEF NothingTyped, NoRank, Unknown
<1>2. typed' # NothingTyped
  BY <1>1
<1>3. typed \in [number : Int, age : Nat]
  BY DEF Good, Typing
<1>4. CASE Draw
  <2>1. typed' \in {NothingTyped, [typed EXCEPT !.number = Unknown], typed}
    BY <1>4 DEF Draw, Frame
  <2>. QED
    BY <1>1, <1>2, <1>3, <2>1
<1>5. CASE Pass
  <2>1. typed' = [typed EXCEPT !.age = typed.age + 1]
    BY <1>5 DEF Pass
  <2>. QED
    BY <1>3, <2>1
<1>6. CASE Open \/ (\E reverse \in BOOLEAN : TabKey(reverse)) \/ (\E by \in {1, -1} : ArrowKey(by))
           \/ ReportKey \/ YourRowLink \/ PanelKey \/ EscapeKey \/ GuestLinkFrame \/ OtherFrame \/ Elsewhere
  <2>1. typed' \in {typed, NothingTyped}
    BY <1>6 DEF Open, TabKey, ArrowKey, ReportKey, YourRowLink, PanelKey, EscapeKey, GuestLinkFrame,
                OtherFrame, Elsewhere, EndsNumber
  <2>. QED
    BY <1>2, <2>1
<1>7. CASE ActivateKey
  <2>1. typed' \in {typed, NothingTyped}
    BY <1>7 DEF ActivateKey, EndsNumber
  <2>. QED
    BY <1>2, <2>1
<1>. QED
  BY <1>4, <1>5, <1>6, <1>7 DEF Next, Keys, vars

\* A digit puts the cursor on the row whose number was typed so far, or the nearest end
\* of the board (rank_jump_digit): the number the view keeps, cut off past the last row,
\* loses nothing of the one in the user's mind, for any window and boards with gaps.
THEOREM JumpsToTheTyped == Spec => JumpIsWhatWasTyped
<1>1. Init => Good
  BY GoodInit
<1>2. Good /\ [Next]_vars => Good'
  BY GoodNext
<1>3. Good /\ [Next]_vars
        => [typed'.number > 0 /\ typed'.age = 0 /\ typed' # typed
              => view'.highlight = Clamp(view', typed'.number)]_vars
  <2>. SUFFICES ASSUME Good, [Next]_vars, typed'.number > 0, typed'.age = 0, typed' # typed
                PROVE  view'.highlight = Clamp(view', typed'.number)
    OBVIOUS
  <2>1. PICK d \in Digits : DigitKey(d)
    BY OnlyDigits
  <2>. QED
    BY <2>1, DigitStep
<1>. QED
  BY <1>1, <1>2, <1>3, PTL DEF Spec, JumpIsWhatWasTyped
====
