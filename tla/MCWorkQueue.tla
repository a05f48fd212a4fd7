---------------------------- MODULE MCWorkQueue ----------------------------
(* Small instances of WorkQueue: a static agent with one standing worker   *)
(* and an on-demand agent with two slots under a policy cap of two.        *)
EXTENDS WorkQueue, TLC

CONSTANTS t1, t2, t3, t4    \* tasks
CONSTANTS builder, triage   \* agents: builder is static, triage on-demand
CONSTANTS b0, r0, r1        \* worker ids builder:0, triage:0, triage:1
CONSTANT b1                 \* worker id builder:1

MCTaskIds == {t1, t2, t3}
MCFourTasks == {t1, t2, t3, t4}
MCAgents == {builder, triage}
MCTaskAgent == (t1 :> triage) @@ (t2 :> triage) @@ (t3 :> builder)
MCFourTaskAgent == MCTaskAgent @@ (t4 :> builder)
MCWorkers == {b0, r0, r1}
MCFourWorkers == {b0, b1, r0, r1}
MCWorkerAgent == (b0 :> builder) @@ (r0 :> triage) @@ (r1 :> triage)
MCFourWorkerAgent == MCWorkerAgent @@ (b1 :> builder)
MCOnDemand == {triage}

(* Every task may be placed on every worker of its agent. *)
MCPlaceable == (t1 :> MCWorkers) @@ (t2 :> MCWorkers) @@ (t3 :> MCWorkers)

(* No warm worker serves t1, whose taint it does not tolerate; t4 asks for *)
(* labels that only the standing worker on the earlier image has.          *)
MCGatedPlaceable ==
  (t1 :> {}) @@ (t2 :> {r0, r1}) @@ (t3 :> {b0}) @@ (t4 :> {b1})

MCWarmTTL == (builder :> 0) @@ (triage :> 1)
MCBackoff == <<1, 2>>
MCWholeQueue == {MCTaskIds}
MCTwoScopes == {MCFourTasks, {t1}}

Slots == Permutations({r0, r1})
=============================================================================
