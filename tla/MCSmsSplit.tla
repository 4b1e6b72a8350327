----------------------------- MODULE MCSmsSplit -----------------------------
(* SmsSplit with two CM provinces and one CU province over two passages.    *)
EXTENDS SmsSplit

CONSTANTS p1, p2, none

MCOp == <<1, 1, 2>>

\* No number belongs to the third operator and the CU province holds one number:
\* neither matters to the loops, both only multiply the initial states.
MCInit == Init /\ country[3] = NoPassage /\ numbers[3] = 1

MCSpec == MCInit /\ [][Next]_vars
=============================================================================
