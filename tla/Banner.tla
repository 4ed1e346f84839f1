------------------------------- MODULE Banner -------------------------------
(***************************************************************************)
(* The service-outage banner (modal/outage_banner.cpp): one message, no    *)
(* queue.  It slides in, holds while its bar drains and slides out; a new  *)
(* message while it is up replaces the old one in place.  The record       *)
(* banner holds the phase, the time spent in it (capped where the code     *)
(* compares no further) and, as history, whether the user clicked it away  *)
(* and for how long the message has been up.                               *)
(***************************************************************************)
EXTENDS Integers

CONSTANTS
  Slide,      \* units of time of a slide, 300 ms in the code
  Hold        \* units of time a message holds, 5 s in the code

ASSUME BannerAssumption == Slide \in Nat \ {0} /\ Hold \in Nat /\ Hold >= Slide

VARIABLE banner

BannerPhases == {"Hidden", "SlidingIn", "Holding", "SlidingOut"}

NoBanner == [phase |-> "Hidden", age |-> 0, up |-> 0, clicked |-> FALSE]

BannerInit == banner = NoBanner

BannerVisible(b) == b.phase # "Hidden"

In(b, phase) == [b EXCEPT !.phase = phase, !.age = 0]

\* Mutant: a message that replaces another keeps its clock.
TriggerBug(b) ==
  IF BannerVisible(b)
  THEN [b EXCEPT !.phase = "Holding", !.up = 0, !.clicked = FALSE]
  ELSE [In(b, "SlidingIn") EXCEPT !.up = 0, !.clicked = FALSE]

\* banner_trigger
Trigger(b) ==
  [In(b, IF BannerVisible(b) THEN "Holding" ELSE "SlidingIn")
     EXCEPT !.up = 0, !.clicked = FALSE]

\* banner_dismiss
Dismissed(b) ==
  IF b.phase \in {"SlidingIn", "Holding"} THEN [In(b, "SlidingOut") EXCEPT !.clicked = TRUE] ELSE b

\* banner_advance: at most one change of phase a frame, however late the frame is.
Advanced(b) ==
  CASE b.phase = "SlidingIn" /\ b.age >= Slide -> In(b, "Holding")
    [] b.phase = "Holding" /\ b.age >= Hold -> In(b, "SlidingOut")
    [] b.phase = "SlidingOut" /\ b.age >= Slide -> NoBanner
    [] OTHER -> b

\* render_outage_banner: a banner on its way out takes no click.
Rendered(b, clicked) ==
  IF clicked /\ BannerVisible(Advanced(b)) THEN Dismissed(Advanced(b)) ELSE Advanced(b)

\* Time, which the frames read from the animation clock.
Older(b) ==
  IF BannerVisible(b)
  THEN [b EXCEPT !.age = IF @ < Hold THEN @ + 1 ELSE @, !.up = IF @ < Hold THEN @ + 1 ELSE @]
  ELSE b

BannerTypeOK ==
  /\ banner.phase \in BannerPhases
  /\ banner.age \in 0 .. Hold /\ banner.up \in 0 .. Hold /\ banner.clicked \in BOOLEAN
=============================================================================
