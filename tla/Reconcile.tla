------------------------------ MODULE Reconcile ------------------------------
(***************************************************************************)
(* GitOps: manifests become definitions under the policy's cap, and a      *)
(* reconcile creates, rolls, holds, cordons and retires workers to match,  *)
(* between claims that spawn and release workers of their own.             *)
(*                                                                         *)
(* Sources: planReconcile in src/src/controller.ts, with spec.ts, canary,  *)
(* image.ts, worktree.ts, drift.ts; the pool of scale.ts and lifecycle.ts. *)
(* Every definition stands in the manifest for an agent name and an image; *)
(* what else an image is made of (labels, taints, skills) is its value.    *)
(***************************************************************************)
EXTENDS Integers, FiniteSets, FiniteSetsExt, Sequences, SequencesExt

CONSTANTS
  Manifests,     \* what may be committed: policy caps and a sequence of items
  Tasks,         \* claims that may be in progress at once
  CanaryCount,   \* rolls per agent and reconcile under the canary strategy
  Unlimited,     \* the cap when there is no policy
  MaxChanges     \* bound on commits and operator commands

Strategies == {"recreate", "canary"}

ASSUME ReconcileAssumption ==
  /\ CanaryCount \in Nat \ {0} /\ Unlimited \in Nat /\ MaxChanges \in Nat
  /\ \A m \in Manifests : m.caps \subseteq Nat

VARIABLES
  source,     \* the manifest committed last
  soul,       \* the version of the soul files
  desired,    \* the definitions in force, capped, by agent
  policyCap,  \* the policy in force
  workers,    \* the live workers, by slot
  tree,       \* the slots that have a worktree
  claims,     \* the claims in progress, each on a slot
  changes

pool == <<workers, tree, claims>>
vars == <<source, soul, desired, policyCap, workers, tree, claims, changes>>

----------------------------------------------------------------------------
(* From a manifest to definitions.  An agent is named by its item and a    *)
(* member, 0 for the item itself.                                          *)

definition(item, m) ==
  [agent |-> <<item.name, m>>, mode |-> item.mode, count |-> item.count,
   image |-> item.image, soul |-> item.soul, warm |-> item.warm]

members(fleet) ==
  IF fleet.mode = "onDemand" THEN <<definition(fleet, 0)>>
  ELSE [m \in 1..fleet.count |-> [definition(fleet, m) EXCEPT !.count = 1]]

expandDesired(items) ==
  LET agents == SelectSeq(items, LAMBDA i : i.kind = "Agent")
      fleets == SelectSeq(items, LAMBDA i : i.kind = "Fleet")
  IN  [k \in DOMAIN agents |-> definition(agents[k], 0)]
        \o FlattenSeq([k \in DOMAIN fleets |-> members(fleets[k])])

(* Manifests are parsed: a definition is well formed, whatever its values. *)
IsDefinition(d) ==
  d \in [agent : {d.agent}, mode : {d.mode}, count : Nat, image : Nat, soul : BOOLEAN,
         warm : BOOLEAN]

ASSUME DefinitionAssumption ==
  \A m \in Manifests :
    LET defs == expandDesired(m.items)
    IN  /\ Len(defs) \in Nat
        /\ \A k \in 1..Len(defs) : IsDefinition(defs[k])

maxReplicas(caps) == Min(caps \cup {Unlimited})

\* A definition asks for one worker at least.
requested(d) == Max({1, d.count})

onlyStandingCapped(d, remaining) ==
  IF d.mode = "onDemand" THEN requested(d) ELSE Min({requested(d), Max({0, remaining})})

allowed(d, remaining) == Min({requested(d), Max({0, remaining})})

(* What is left of the cap after the first k definitions.                  *)
leftAfter(defs, cap) ==
  LET left[k \in 0..Len(defs)] ==
        IF k = 0 THEN cap ELSE left[k - 1] - allowed(defs[k], left[k - 1])
  IN  left

applyReplicaCap(defs, cap) ==
  LET left == leftAfter(defs, cap)
      capped == {[defs[k] EXCEPT !.count = allowed(defs[k], left[k - 1])] : k \in 1..Len(defs)}
  IN  {d \in capped : d.count > 0}

byName(defs) ==
  [a \in {d.agent : d \in defs} |-> CHOOSE d \in defs : d.agent = a]

derived ==
  [m \in Manifests |-> byName(applyReplicaCap(expandDesired(m.items), maxReplicas(m.caps)))]

(* The soul's text is part of the image of an agent that has one.          *)
digest(d) == <<d.image, IF d.soul THEN soul ELSE 0>>

onDemand(defs, a) == a \in DOMAIN defs /\ defs[a].mode = "onDemand"

slots(d) == {[agent |-> d.agent, replica |-> r] : r \in 0..(d.count - 1)}

expandWorkers(d) == IF d.mode = "onDemand" THEN {} ELSE slots(d)

standing(defs) == UNION {expandWorkers(d) : d \in Range(defs)}

----------------------------------------------------------------------------
(* The plan.                                                               *)

Worker == [st : {"idle", "running"}, image : Nat \X Nat, cordoned : BOOLEAN, used : BOOLEAN]

workerFromDesired(d, st) ==
  [st |-> st, image |-> digest(d), cordoned |-> FALSE, used |-> FALSE]

live == DOMAIN workers
liveOf(a) == {s \in live : s.agent = a}
matches(defs, s) == workers[s].image = digest(defs[s.agent])

(* Canary by replica number instead of by mismatch.                        *)
rollFirstReplicas(mismatches, strategy) ==
  {s \in mismatches : strategy = "canary" => s.replica < CanaryCount}

rollOneMore(mismatches, strategy) ==
  {s \in mismatches : strategy = "canary" =>
     Cardinality({t \in mismatches : t.agent = s.agent /\ t.replica < s.replica}) <= CanaryCount}

selectCanaryRolls(mismatches, strategy) ==
  {s \in mismatches : strategy = "canary" =>
     Cardinality({t \in mismatches : t.agent = s.agent /\ t.replica < s.replica}) < CanaryCount}

keptMatching(defs) == {s \in live : onDemand(defs, s.agent) /\ matches(defs, s)}

(* Workers of an on-demand agent stay while they run or have its image.    *)
keptRunners(defs) ==
  {s \in live : onDemand(defs, s.agent) /\ (matches(defs, s) \/ workers[s].st = "running")}

planReconcile(defs, strategy) ==
  LET want == standing(defs)
      roll == selectCanaryRolls({s \in want \cap live : ~matches(defs, s)}, strategy)
      kept == keptRunners(defs)
  IN  [create |-> (want \ live) \cup roll,
       retire |-> roll \cup (live \ (want \cup kept)),
       update |-> ((want \cap live) \ roll) \cup kept,
       cordon |-> {s \in kept : ~matches(defs, s)}]

(* Worktrees of what is created or updated, then no worktrees of what is   *)
(* retired, a rolled slot among them.                                      *)
applyWorktrees(plan) == (tree \cup plan.create \cup plan.update) \ plan.retire

appliedUncordoned(defs, plan) ==
  [s \in plan.create \cup plan.update |->
     IF s \in plan.create THEN workerFromDesired(defs[s.agent], "idle") ELSE workers[s]]

applied(defs, plan) ==
  [s \in plan.create \cup plan.update |->
     IF s \in plan.create THEN workerFromDesired(defs[s.agent], "idle")
     ELSE [workers[s] EXCEPT !.cordoned = @ \/ s \in plan.cordon]]

----------------------------------------------------------------------------
Init ==
  /\ source \in Manifests
  /\ soul = 1
  /\ desired = <<>> /\ policyCap = Unlimited
  /\ workers = <<>> /\ tree = {} /\ claims = <<>>
  /\ changes = 0

change ==
  /\ changes < MaxChanges
  /\ changes' = changes + 1

commit ==
  /\ change
  /\ source' \in Manifests \ {source}
  /\ UNCHANGED <<soul, desired, policyCap, pool>>

editSoul ==
  /\ change
  /\ soul' = soul + 1
  /\ UNCHANGED <<source, desired, policyCap, pool>>

(* ropex apply; a watch, a sync or a tick always recreates.                *)
apply(strategy) ==
  LET defs == derived[source]
      plan == planReconcile(defs, strategy)
  IN  /\ UNCHANGED <<source, soul, claims, changes>>
      /\ desired' = defs
      /\ policyCap' = maxReplicas(source.caps)
      /\ workers' = applied(defs, plan)
      /\ tree' = applyWorktrees(plan)

(* ropex diff saves nothing, but plans with the workspace's root.          *)
diff(strategy) ==
  /\ change
  /\ tree' = applyWorktrees(planReconcile(derived[source], strategy))
  /\ UNCHANGED <<source, soul, desired, policyCap, workers, claims>>

----------------------------------------------------------------------------
(* The pool between reconciles.                                            *)

without(gone) == [s \in live \ gone |-> workers[s]]

sweepable ==
  {s \in live : /\ workers[s].st = "idle" /\ ~workers[s].cordoned
                /\ onDemand(desired, s.agent)
                /\ desired[s.agent].warm => workers[s].used}

leftovers == {s \in sweepable : ~desired[s.agent].warm}

(* Warm workers go once their idle time is over, the others at once.       *)
sweepIdleWorkers(gone) ==
  /\ gone # {}
  /\ leftovers \subseteq gone /\ gone \subseteq sweepable
  /\ workers' = without(gone)
  /\ tree' = tree \ gone
  /\ UNCHANGED <<source, soul, desired, policyCap, claims, changes>>

pickIdleWorker(a) ==
  {s \in liveOf(a) : workers[s].st = "idle" /\ ~workers[s].cordoned /\ matches(desired, s)}

canSpawnWorker(a) ==
  /\ onDemand(desired, a)
  /\ Cardinality(liveOf(a)) < desired[a].count
  /\ Cardinality(live) < policyCap

nextReplicaIndex(a) ==
  Min((0..Cardinality(liveOf(a))) \ {s.replica : s \in liveOf(a)})

(* A claim of a drain, which has swept before.                             *)
acquireWorker(t, a) ==
  /\ t \notin DOMAIN claims /\ a \in DOMAIN desired /\ leftovers = {}
  /\ \/ \E s \in pickIdleWorker(a) :
           /\ workers' = [workers EXCEPT ![s].st = "running"]
           /\ claims' = claims @@ (t :> s)
           /\ UNCHANGED tree
     \/ LET s == [agent |-> a, replica |-> nextReplicaIndex(a)]
        IN  /\ pickIdleWorker(a) = {} /\ canSpawnWorker(a)
            /\ workers' = [r \in live \cup {s} |->
                            IF r = s THEN workerFromDesired(desired[a], "running")
                            ELSE workers[r]]
            /\ claims' = claims @@ (t :> s)
            /\ tree' = tree \cup {s}
  /\ UNCHANGED <<source, soul, desired, policyCap, changes>>

(* Finds the worker by its id, whichever record has the id by now.         *)
releaseOrDestroyWorker(s) ==
  IF s \notin live THEN UNCHANGED <<workers, tree>>
  ELSE IF onDemand(desired, s.agent) /\ ~desired[s.agent].warm
  THEN workers' = without({s}) /\ tree' = tree \ {s}
  ELSE /\ workers' = [workers EXCEPT ![s] =
                        [st |-> "idle", image |-> @.image, used |-> TRUE,
                         cordoned |-> @.cordoned /\ ~onDemand(desired, s.agent)]]
       /\ UNCHANGED tree

(* The run ends, in success or not, or its lease expires.                  *)
settle(t) ==
  /\ t \in DOMAIN claims
  /\ releaseOrDestroyWorker(claims[t])
  /\ claims' = [u \in DOMAIN claims \ {t} |-> claims[u]]
  /\ UNCHANGED <<source, soul, desired, policyCap, changes>>

cordonWorker(s, value) ==
  /\ change
  /\ s \in live /\ workers[s].cordoned # value
  /\ workers' = [workers EXCEPT ![s].cordoned = value]
  /\ UNCHANGED <<source, soul, desired, policyCap, tree, claims>>

(* Without a root, the worktree of an evicted worker stays.                *)
evictWorker(s) ==
  /\ change
  /\ s \in live
  /\ workers' = IF workers[s].st = "running" THEN [workers EXCEPT ![s].cordoned = TRUE]
                ELSE without({s})
  /\ UNCHANGED <<source, soul, desired, policyCap, tree, claims>>

gcOrphanWorktrees ==
  /\ tree' = tree \cap live
  /\ UNCHANGED <<source, soul, desired, policyCap, workers, claims, changes>>

Next ==
  \/ commit \/ editSoul \/ gcOrphanWorktrees
  \/ \E strategy \in Strategies : apply(strategy) \/ diff(strategy)
  \/ \E gone \in SUBSET sweepable : sweepIdleWorkers(gone)
  \/ \E t \in Tasks : settle(t) \/ \E a \in DOMAIN desired : acquireWorker(t, a)
  \/ \E s \in live : evictWorker(s) \/ \E value \in BOOLEAN : cordonWorker(s, value)

(* The manifest is applied again and again, at least in canary steps; runs *)
(* end; and the tick sweeps.                                               *)
Fairness ==
  /\ WF_vars(apply("canary"))
  /\ \A t \in Tasks : WF_vars(settle(t))
  /\ WF_vars(sweepIdleWorkers(sweepable))

Spec == Init /\ [][Next]_vars /\ Fairness

----------------------------------------------------------------------------
(* The drift report on the definitions in force.                           *)
missing == standing(desired) \ live

extra == {s \in live : ~onDemand(desired, s.agent) /\ s \notin standing(desired)}

staleStanding == {s \in standing(desired) \cap live : ~matches(desired, s)}

stale == {s \in live : /\ onDemand(desired, s.agent) \/ s \in standing(desired)
                       /\ ~matches(desired, s)}

crowded == {a \in DOMAIN desired :
              onDemand(desired, a) /\ Cardinality(liveOf(a)) > desired[a].count}

miscounted ==
  {a \in DOMAIN desired \cup {s.agent : s \in live} :
     /\ ~onDemand(desired, a)
     /\ Cardinality(liveOf(a)) # Cardinality({s \in standing(desired) : s.agent = a})}

detectDrift == [missing |-> missing, extra |-> extra, digest |-> stale,
                replica |-> crowded \cup miscounted]

NoDrift == detectDrift = [missing |-> {}, extra |-> {}, digest |-> {}, replica |-> {}]

----------------------------------------------------------------------------
IsSlot(s) == s.agent[2] \in Nat /\ s.replica \in Nat

(* The manifest, the definitions, the workers and the claims are what they *)
(* are meant to be; definitions in force have something to run.            *)
ReconcileTypeOK ==
  /\ source \in Manifests /\ soul \in Nat /\ policyCap \in Nat
  /\ \A a \in DOMAIN desired : desired[a].count \in 1..policyCap
  /\ \A s \in live : IsSlot(s) /\ workers[s] \in Worker
  /\ DOMAIN claims \subseteq Tasks /\ \A t \in DOMAIN claims : IsSlot(claims[t])
  /\ \A s \in tree : IsSlot(s)

(* Standing workers and the slots of on-demand agents fit the policy       *)
(* together, whichever manifests came and went: this is what the queue's   *)
(* ceiling on spawns relies on.                                            *)
CapacityWithinPolicy ==
  LET standingWorkers == {s \in live : ~onDemand(desired, s.agent)}
      spawnSlots == UNION {slots(d) : d \in {e \in Range(desired) : e.mode = "onDemand"}}
  IN  Cardinality(standingWorkers \cup spawnSlots) <= policyCap

(* The drift report, which is a program of its own, finds something        *)
(* whenever another reconcile of the definitions in force would create or  *)
(* retire a worker.                                                        *)
DriftExplainsPlan ==
  LET plan == planReconcile(desired, "recreate")
  IN  plan.create \cup plan.retire # {} => ~NoDrift

(* After a full reconcile all there is to report are on-demand agents that *)
(* are still above their limit, and runners of an old image, which take no *)
(* more work.                                                              *)
ApplyLeavesNoDrift ==
  [][apply("recreate") =>
       /\ missing' = {} /\ extra' = {} /\ miscounted' = {}
       /\ \A s \in stale' : workers'[s].st = "running" /\ workers'[s].cordoned]_vars

(* Under the canary strategy a reconcile changes the image of at most      *)
(* CanaryCount workers that an agent has.                                  *)
rolledBy(crew) == {s \in crew \cap live' : workers'[s].image # workers[s].image}

CanaryBudget ==
  [][apply("canary") =>
       \A a \in DOMAIN desired' : Cardinality(rolledBy(liveOf(a))) <= CanaryCount]_vars

(* A reconcile leaves the running worker of an on-demand agent to finish   *)
(* on the image it was started with.                                       *)
RunnersFinish ==
  [][\A strategy \in Strategies : apply(strategy) =>
       \A s \in live : workers[s].st = "running" /\ onDemand(desired', s.agent) =>
         s \in live' /\ workers'[s].st = "running" /\ workers'[s].image = workers[s].image]_vars

(* Once commits and operators rest, reconciles converge to what was        *)
(* committed, in canary steps as well: no drift, and a worktree for every  *)
(* standing worker.  An agent may stay above its limit while its workers   *)
(* are cordoned or warm.                                                   *)
Converged ==
  /\ desired = derived[source]
  /\ missing = {} /\ extra = {} /\ stale = {} /\ miscounted = {}
  /\ standing(desired) \subseteq tree
  /\ \A a \in crowded : desired[a].warm \/ \E s \in liveOf(a) : workers[s].cordoned

Converges == <>[]Converged
=============================================================================
