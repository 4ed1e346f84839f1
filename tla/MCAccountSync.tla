--------------------------- MODULE MCAccountSync ---------------------------
(* Instances of AccountSync for TLC. *)
EXTENDS AccountSync

\* bound: profiles whose IndexedDB is never flushed and whose id_token does not
\* run out before the refresh token goes
CONSTANT Private

PrivateProfiles ==
  \A d \in Private : durable[d] = FreshState /\ bearer[d] = token[d]
=============================================================================
