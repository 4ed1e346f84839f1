------------------------------ MODULE MCSession ------------------------------
(***************************************************************************)
(* A small instance of Session: the address the page can be opened with.   *)
(***************************************************************************)
EXTENDS Session

Value(text, number) == [key |-> "scenario", text |-> text, number |-> number]
Other == [key |-> "other", text |-> "Digits", number |-> 1]

\* A bare address, a good link on its own and behind another parameter, and one
\* link for each reason a value is refused.
QueriesValue ==
  { <<>>, <<Other>>, <<Value("Digits", 1)>>, <<Other, Value("Digits", MaxId)>>,
    <<Value("Digits", 0)>>, <<Value("Digits", MaxId + 1)>>, <<Value("Signed", 1)>>,
    <<Value("Mixed", 1)>>, <<Value("Blank", 0)>>, <<Value("Blank", 0), Value("Digits", 1)>> }
=============================================================================
