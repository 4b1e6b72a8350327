--------------------------- MODULE MCMtTransport ---------------------------
(* Two packets of two numbers, the second one passed by a reviewer.  With   *)
(* two permits a second, a content billed once makes one batch, twice two   *)
(* batches, and three times none.                                           *)
EXTENDS MtTransport, TLC
CONSTANTS p1, p2
MCFees == {p1 :> 1 @@ p2 :> 2, p1 :> 3 @@ p2 :> 1}
=============================================================================
