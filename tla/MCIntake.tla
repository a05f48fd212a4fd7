------------------------------ MODULE MCIntake ------------------------------
(* Small instances of Intake: two agents of different cost, of which a      *)
(* policy may refuse one, one submission, one manifest and two deliveries.  *)
EXTENDS Intake, TLC

CONSTANTS d1, d2, a1, a2, n1, g1

MCPrices ==
  {[cost |-> (a1 :> 2) @@ (a2 :> 1), budgets |-> {2, 3}],
   [cost |-> (a1 :> 1) @@ (a2 :> 2), budgets |-> {1}]}
MCAgentOf == (g1 :> a1) @@ (n1 :> a2)
MCSymmetry == Permutations({d1, d2})
MCAgentOrder == <<a1, a2>>
MCScanOrder == <<g1>>

(* Before the first reconcile one agent listens, at the first prices.      *)
MCInit == Init /\ listening = {a1} /\ prices.cost[a1] = 2
MCSpec == MCInit /\ [][Next]_vars
============================================================================
