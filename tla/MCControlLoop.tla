---------------------------- MODULE MCControlLoop ----------------------------
(* Small instances of ControlLoop: an on-demand agent that writes for its   *)
(* worker only and an agent of a fleet that exports, both of which learn    *)
(* the same skill; a repository in the workspace, one that is cloned and    *)
(* one that is copied or found in fleets/.                                  *)
EXTENDS ControlLoop, TLC

CONSTANTS r1, r2, r3, a1, a2, t1, t2, g1

MCAgentOf == (t1 :> a1) @@ (t2 :> a2)
MCSkillOf == (t1 :> "learned") @@ (t2 :> "learned")
MCWriteScope == (a1 :> "worker") @@ (a2 :> "fleet")
MCRepoOrder == <<r1, r2, r3>>

Only(agents, repos) ==
  [agents |-> agents, learning |-> agents, repos |-> repos, caps |-> {}, facts |-> emptyDirectory]

Capped(t, cap) == [t EXCEPT !.caps = {cap}]

MCRequested == (a1 :> 1) @@ (a2 :> 1)
MCPosition == (a1 :> 1) @@ (a2 :> 2)

WithFact(t) ==
  [t EXCEPT !.facts[g1] = [agent |-> a2, scope |-> "fleet", fleet |-> FALSE]]

MCUpstream ==
  (r1 :> Only({a1}, {r1})) @@ (r2 :> Only({a2}, {r1})) @@ (r3 :> Only({a2}, {r3}))

Both == WithFact(Only({a1}, {r1, r2}))

MCInitialTree == [p \in Places |-> IF p = declared(r1) THEN Both ELSE Absent]

MCTrees ==
  [p \in Places |-> IF p = declared(r1) THEN {Both, Broken, Only({a1}, {r2})}
                    ELSE IF p = fleets THEN {Absent, Capped(Only({a2}, {r1, r3}), 1)} ELSE {}]

MCStackManifests == {Only({a1, a2}, {r1, r2, r3})}

\* Repositories first, memory first, and one with the other.
MCBudgets ==
  {[control |-> 3, memory |-> 0], [control |-> 0, memory |-> 3], [control |-> 1, memory |-> 1]}

MCDocuments == {[agent |-> a1, scope |-> "agent", fleet |-> FALSE]}
===============================================================================
