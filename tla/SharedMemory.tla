---------------------------- MODULE SharedMemory ----------------------------
(***************************************************************************)
(* What the agents know: scoped facts with their YAML in git, the skill    *)
(* registry and the trajectories skills are learned from again.  These are *)
(* the fields of the saved state and the operators on it; ControlLoop      *)
(* composes them with the repositories, the tick and the stack.            *)
(*                                                                         *)
(* Sources: memory.ts, gitmemory.ts, skills.ts, trajectory.ts, learn and   *)
(* remember of hermes.ts, the end of a run in runtime.ts, destroyWorker    *)
(* of scale.ts, and the memory, skills and learn commands of cli.ts and    *)
(* api.ts, all under src/src.  Texts, tags and times are left out: facts   *)
(* are kept by id, in their order.  An agent has one worker.               *)
(***************************************************************************)
EXTENDS Integers, Sequences, SequencesExt, FiniteSets, FiniteSetsExt, Functions

CONSTANTS
  Agents,
  Tasks,        \* task ids; the fact a run of t leaves is named after t
  GitFacts,     \* ids only manifests use
  AgentOf,      \* agent of each task
  SkillOf,      \* skill each prompt would be learned as
  EventTasks,   \* tasks that came from a forge event
  WriteScope,   \* hermes.share.write of each agent
  Fleet,        \* agents that belong to a fleet
  Exporting,    \* agents with exportMemory
  OnDemand,     \* agents whose workers are created for a task
  TrajectoryCap, \* trajectories kept
  Absent        \* no file, no directory

SCOPE_RANK == [worker |-> 0, agent |-> 1, fleet |-> 2, cluster |-> 3]
Scopes == DOMAIN SCOPE_RANK
FactIds == Tasks \cup GitFacts
Skills == {SkillOf[t] : t \in Tasks}

ASSUME MemoryAssumption ==
  /\ AgentOf \in [Tasks -> Agents] /\ WriteScope \in [Agents -> Scopes]
  /\ EventTasks \subseteq Tasks /\ Fleet \cup Exporting \cup OnDemand \subseteq Agents
  /\ TrajectoryCap \in Nat \ {0} /\ Tasks \cap GitFacts = {}

Manifest == [agent : Agents, scope : Scopes, fleet : BOOLEAN]

\* worker: whether it is known which worker wrote the fact
\* git: whether the fact has a manifest (manifestPath)
SharedMemoryFact ==
  [agent : Agents, scope : Scopes, fleet : BOOLEAN, worker : BOOLEAN, git : BOOLEAN]

SkillRecord == [originAgent : Agents, sharedWith : SUBSET Agents]

TrajectoryRecord == [task : Tasks, long : BOOLEAN]

\* A memory directory: the manifest under each name, if there is one.
Directory == [FactIds -> Manifest \cup {Absent}]
emptyDirectory == [id \in FactIds |-> Absent]

\* The facts of each name, in the order of the list that holds them all.
Memory == [FactIds -> Seq(SharedMemoryFact)]
Registry == [Skills -> Seq(SkillRecord)]

----------------------------------------------------------------------------
(* Facts.  Every lookup is by id, first match: a task that runs twice      *)
(* leaves two facts of one name.                                           *)

find(m, id) == m[id][1]

factsHeld(m) == UNION {{id} \X DOMAIN m[id] : id \in FactIds}

\* The context of an agent's run, and that of the operator's commands.
memoryContextFor(a) == [fleet |-> a \in Fleet, write |-> WriteScope[a]]
operatorContext(f) == [fleet |-> f.fleet, write |-> "cluster"]

canWrite(scope, ctx) ==
  (scope = "fleet" => ctx.fleet) /\ SCOPE_RANK[scope] <= SCOPE_RANK[ctx.write]

\* Whether the operator's context, which is made from the fact, may read it.
canRead(f) ==
  (f.scope = "worker" => f.worker) /\ (f.scope = "fleet" => f.fleet)

rememberScope(a) ==
  IF a \in OnDemand /\ WriteScope[a] = "worker" /\ canWrite("agent", memoryContextFor(a))
  THEN "agent" ELSE WriteScope[a]

remember(m, t) ==
  LET a == AgentOf[t]
  IN  [m EXCEPT ![t] = Append(@, [agent |-> a, scope |-> rememberScope(a), fleet |-> a \in Fleet,
                                  worker |-> TRUE, git |-> FALSE])]

mayPromote(m, id, scope) ==
  /\ m[id] # <<>> /\ canRead(find(m, id))
  /\ SCOPE_RANK[scope] >= SCOPE_RANK[find(m, id).scope]
  /\ canWrite(scope, operatorContext(find(m, id)))

promote(m, id, scope) == [m EXCEPT ![id][1].scope = scope]

promoteMemoryFact(m, id, scope) == IF mayPromote(m, id, scope) THEN promote(m, id, scope) ELSE m

\* Workers are destroyed: what one wrote for itself becomes its agent's.
promoteWorkerMemory(m, destroyed) ==
  [id \in FactIds |->
     IF \E i \in DOMAIN m[id] :
          m[id][i].scope = "worker" /\ m[id][i].worker /\ m[id][i].agent \in destroyed
     THEN promoteMemoryFact(m, id, "agent")[id] ELSE m[id]]

destroyWorkers(s, destroyed) == [s EXCEPT !.memory = promoteWorkerMemory(@, destroyed)]

----------------------------------------------------------------------------
(* Facts and their manifests.                                              *)

memoryManifestDoc(f) == [agent |-> f.agent, scope |-> f.scope, fleet |-> f.fleet]

factFromManifest(doc) ==
  [agent |-> doc.agent, scope |-> doc.scope, fleet |-> doc.fleet, worker |-> FALSE, git |-> TRUE]

exportMemoryFactToGit(files, id, f) == [files EXCEPT ![id] = memoryManifestDoc(f)]

upsertGitFact(facts, f) ==
  IF facts = <<>> THEN <<f>>
  ELSE IF facts[1].git /\ memoryManifestDoc(facts[1]) = memoryManifestDoc(f) THEN facts
  ELSE [facts EXCEPT ![1] = f]

syncMemoryFromDir(m, dir) ==
  [id \in FactIds |-> IF dir[id] = Absent THEN m[id]
                      ELSE upsertGitFact(m[id], factFromManifest(dir[id]))]

\* The file of a fact and the first fact of its name become the fact given.
exported(s, id, f) ==
  [s EXCEPT !.files = exportMemoryFactToGit(@, id, f), !.memory[id][1] = [f EXCEPT !.git = TRUE]]

\* Of the facts of a name the last is written over the others.
exportMemoryFacts(s, ids, force) ==
  LET chosen(id) == {i \in DOMAIN s.memory[id] : id \in ids /\ (s.memory[id][i].git => force)}
      last(id) == s.memory[id][Max(chosen(id))]
  IN  [s EXCEPT !.files = [id \in FactIds |-> IF chosen(id) = {} THEN @[id]
                                              ELSE memoryManifestDoc(last(id))],
                !.memory = [id \in FactIds |-> IF chosen(id) = {} THEN @[id]
                              ELSE [@[id] EXCEPT ![1] = [last(id) EXCEPT !.git = TRUE]]]]

\* The file written before the fact is promoted.
exportThenPromote(s, id, scope) ==
  LET before == exported(s, id, find(s.memory, id))
  IN  [before EXCEPT !.memory = promote(@, id, scope)]

promoteAndExport(s, id, scope) ==
  LET next == promote(s.memory, id, scope)
  IN  exported([s EXCEPT !.memory = next], id, find(next, id))

----------------------------------------------------------------------------
(* Skills: the versions of a name, whichever agents they are from.         *)

\* The new version takes the place of the one there is.
registerInPlace(registry, skill, a) ==
  [registry EXCEPT ![skill] = <<[originAgent |-> a, sharedWith |-> {}]>>]

registerSkill(registry, skill, a) ==
  [registry EXCEPT ![skill] = Append(@, [originAgent |-> a, sharedWith |-> {}])]

latestSkill(registry, skill) == Len(registry[skill])

shareSkill(registry, skill, to) ==
  LET v == latestSkill(registry, skill)
  IN  IF registry[skill][v].originAgent = to THEN registry
      ELSE [registry EXCEPT ![skill][v].sharedWith = @ \cup {to}]

\* The latest version is shared with every desired agent but its own.
promoteSkill(registry, skill, desired) ==
  LET v == latestSkill(registry, skill)
  IN  [registry EXCEPT ![skill][v].sharedWith =
         @ \cup (desired \ {registry[skill][v].originAgent})]

\* The version of a skill an agent may load, 0 if there is none.
skillForAgent(registry, skill, a) ==
  Max({0} \cup {v \in DOMAIN registry[skill] :
                  registry[skill][v].originAgent = a \/ a \in registry[skill][v].sharedWith})

\* What Hermes learns from the steps of a run, unless the agent knows it.
learns(s, t, substantial) ==
  substantial /\ AgentOf[t] \in s.learning /\ <<AgentOf[t], SkillOf[t]>> \notin s.learned

learn(s, t) ==
  [s EXCEPT !.learned = @ \cup {<<AgentOf[t], SkillOf[t]>>},
            !.registry = registerSkill(@, SkillOf[t], AgentOf[t])]

recordTrajectory(s, t, long) ==
  LET all == Append(s.trajectories, [task |-> t, long |-> long])
  IN  [s EXCEPT !.trajectories = SubSeq(all, Max({1, Len(all) - TrajectoryCap + 1}), Len(all))]

learnFromTrajectory(s, traj) ==
  IF AgentOf[traj.task] \in s.desired /\ learns(s, traj.task, traj.long)
  THEN learn(s, traj.task) ELSE s

----------------------------------------------------------------------------
(* The end of a run: learn, remember, export, record.  Remembering beyond  *)
(* what the agent may write and a file that cannot be written fail the run *)
(* with what came before kept; the task is then retried.  An agent that    *)
(* runs knows the skills shared with it, too.                              *)

runEnds(s, t, long, written) ==
  LET a == AgentOf[t]
      new == skillForAgent(s.registry, SkillOf[t], a) = 0
      taught == IF new /\ learns(s, t, long \/ t \in EventTasks) THEN learn(s, t) ELSE s
      knows == [taught EXCEPT !.memory = remember(@, t)]
      kept == IF a \in Exporting THEN exported(knows, t, Last(knows.memory[t])) ELSE knows
      over == [kept EXCEPT !.pending = @ \ {t}]
  IN  IF ~canWrite(rememberScope(a), memoryContextFor(a)) THEN taught
      ELSE IF a \in Exporting /\ ~written THEN knows
      ELSE recordTrajectory(over, t, long)
============================================================================
