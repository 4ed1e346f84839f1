------------------------------ MODULE MCJukebox ------------------------------
(* Instances of Jukebox for TLC. *)
EXTENDS Jukebox

\* Two genres, a starter in one of them, and two tracks of which a tomato buys one.
ThreeTracks == {"afterHours", "penthouse", "nocturne"}

ThreeGenres == [t \in ThreeTracks |-> IF t = "nocturne" THEN "classical" ELSE "jazz"]

OneStarter == <<"afterHours">>

OneTomato == [t \in ThreeTracks |-> IF t = "afterHours" THEN 0 ELSE 1]

\* What another browser of the account may have left on the server.
OtherBrowser ==
  {[spendable |-> 0, lifetime |-> 2, unlocked |-> {"penthouse", "nocturne"},
    pool |-> <<"penthouse", "afterHours">>]}
=============================================================================
