-------------------------- MODULE AtLeastOnceStore --------------------------
(***************************************************************************)
(* What the queues and lists of the pipeline promise to the code that      *)
(* hands an entry over to them: an entry that was accepted stays pending   *)
(* until it is settled (stored, answered, posted, put where an operator    *)
(* finds it, or taken by a fault that the implementing module counts);     *)
(* once settled it stays settled; and what is no longer pending does not   *)
(* become pending again.                                                   *)
(*                                                                         *)
(* RedisDrain, MtTransport and MtReport implement it, each with an account *)
(* of its own of what pending and settled are.                             *)
(***************************************************************************)
CONSTANT Entries

VARIABLES accepted, pending, settled

vars == <<accepted, pending, settled>>

\* Some entries may be there from the start.
Init == accepted \in SUBSET Entries /\ pending = accepted /\ settled = {}

Accept == \E S \in SUBSET (Entries \ accepted) :
    /\ accepted' = accepted \cup S
    /\ pending' = pending \cup S
    /\ UNCHANGED settled

\* Some pending entries are settled; only settled ones stop being pending.
Settle == \E K \in SUBSET pending :
    /\ settled' = settled \cup K
    /\ \E R \in SUBSET (pending \cap settled') : pending' = pending \ R
    /\ UNCHANGED accepted

Next == Accept \/ Settle

Spec == Init /\ [][Next]_vars
=============================================================================
