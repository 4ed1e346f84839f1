--------------------------- MODULE MCLeaderboard ----------------------------
(***************************************************************************)
(* Instances of Leaderboard: a full board, a later one on which the        *)
(* players changed places and the parser skipped an entry, and a fetch     *)
(* that failed.                                                            *)
(***************************************************************************)
EXTENDS Leaderboard

MCNames == {"ann", "bob"}

O(rank, name) == [rank |-> rank, name |-> name]

MCAnswers ==
  {[status |-> 200, objects |-> {O(1, "ann"), O(2, "bob")}],
   [status |-> 200, objects |-> {O(1, "bob"), O(2, Nobody), O(3, "ann")}],
   [status |-> 503, objects |-> {}]}

MCQueries == {{"bob"}}
=============================================================================
