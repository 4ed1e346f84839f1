----------------------------- MODULE Onboarding -----------------------------
(***************************************************************************)
(* Whose onboarding a tutorial latch records.  AccountSync with one more   *)
(* history variable: the accounts (Nobody: a guest) under which the        *)
(* tutorial was completed on some page.                                    *)
(***************************************************************************)
EXTENDS AccountSync

VARIABLE finishers

OnboardingInit ==
  /\ Init
  /\ finishers = {u \in Users : row[u] # NoRow /\ row[u].done}

OnboardingNext ==
  \E d \in Devices :
    \/ PageStep(d) /\ UNCHANGED finishers
    \/ MarkTutorialCompleted(d) /\ finishers' = finishers \cup {store[d].user}

OnboardingSpec == OnboardingInit /\ [][OnboardingNext]_<<vars, finishers>>

\* The latch in an account's row was set by that account, or by a guest whose
\* profile the account took over.  auth.hpp:168 keeps the local latches only
\* for the same user, "false for a guest upgrade or a different user (so
\* nothing leaks between accounts)".
OnboardingIsOwn ==
  \A u \in Users :
    row[u] # NoRow /\ row[u].done => finishers \cap {u, Nobody} # {}
=============================================================================
