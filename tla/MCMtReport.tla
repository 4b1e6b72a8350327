----------------------------- MODULE MCMtReport -----------------------------
(* m1 carries two numbers, m2 one.  Every scenario has two reports: a      *)
(* refused number's made-up report and a provider's report, without the    *)
(* number, about the same number, with one fault; without faults, reports  *)
(* on two numbers of a message, and on messages with different URLs.       *)
EXTENDS MtReport, TLC

CONSTANTS m1, m2, k1, k2, k3, u1, u2, r1, r2, bare, fake
MCMsgOf == k1 :> m1 @@ k2 :> m1 @@ k3 :> m2
MCUrlOf == m1 :> u1 @@ m2 :> u2
MCKeyOf == r1 :> k1 @@ r2 :> k2 @@ bare :> k3 @@ fake :> k3
MCMaxFaults == {bare, fake} :> 1 @@ {r1, r2} :> 0 @@ {r1, bare} :> 0
MCScenarios == DOMAIN MCMaxFaults
=============================================================================
