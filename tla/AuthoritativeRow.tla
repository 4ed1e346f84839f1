-------------------------- MODULE AuthoritativeRow --------------------------
(***************************************************************************)
(* What the server may rely on, whatever runs in the browsers: "on session *)
(* start, the server state is the source of truth".  A device writes the   *)
(* row of an account only in a session that has heard that row, or to      *)
(* create a row that is not there; and starting a session on an existing   *)
(* row takes nothing away from it.  One case is not promised: an answer in *)
(* which the row is there but not found.  missed names it in the step it   *)
(* happens, so that every other step is held to the promise.               *)
(***************************************************************************)
CONSTANTS Devices, Users, Nobody, Row, NoRow

VARIABLES
  row,       \* row[u]: the state of account u, NoRow before it has one
  baseline,  \* baseline[d]: the account whose row device d has heard, or Nobody
  missed     \* the account whose row the last step seeded anew, not finding it

Init ==
  /\ row \in [Users -> Row \cup {NoRow}]
  /\ baseline = [d \in Devices |-> Nobody]
  /\ missed = Nobody

\* A session of u starts on d.  It creates a missing row; an existing one
\* keeps its wallet and does not lose its latch.
Establish(d, u) ==
  /\ baseline' = [baseline EXCEPT ![d] = u]
  /\ \E r \in Row :
       /\ row[u] # NoRow => r.wallet = row[u].wallet /\ (row[u].done => r.done)
       /\ row' = [row EXCEPT ![u] = r]
  /\ missed' = Nobody

\* The row was created and the device does not know.
SeedUnheard(d, u) ==
  /\ baseline' = [baseline EXCEPT ![d] = Nobody]
  /\ row[u] = NoRow
  /\ \E r \in Row : row' = [row EXCEPT ![u] = r]
  /\ missed' = Nobody

\* The row is there, was not found, and is seeded as if there were none.
Overlook(d, u) ==
  /\ row[u] # NoRow
  /\ missed' = u
  /\ baseline' \in {[baseline EXCEPT ![d] = u], [baseline EXCEPT ![d] = Nobody]}
  /\ \E r \in Row : row' = [row EXCEPT ![u] = r]

\* A device that has heard the row replaces it.
Write(d, u) ==
  /\ baseline[d] = u
  /\ UNCHANGED baseline
  /\ \E r \in Row : row' = [row EXCEPT ![u] = r]
  /\ missed' = Nobody

Leave(d) ==
  /\ baseline' = [baseline EXCEPT ![d] = Nobody]
  /\ UNCHANGED row
  /\ missed' = Nobody

Delete(d, u) ==
  /\ baseline' = [baseline EXCEPT ![d] = Nobody]
  /\ row' = [row EXCEPT ![u] = NoRow]
  /\ missed' = Nobody

\* The step has nothing to do with any row.
Elsewhere == missed' = Nobody /\ UNCHANGED <<row, baseline>>

Next ==
  \/ Elsewhere
  \/ \E d \in Devices :
    \/ Leave(d)
    \/ \E u \in Users :
         \/ Establish(d, u) \/ SeedUnheard(d, u) \/ Overlook(d, u)
         \/ Write(d, u) \/ Delete(d, u)

Spec == Init /\ [][Next]_<<row, baseline, missed>>
=============================================================================
