---------------------------- MODULE TaskRunProofs ----------------------------
(***************************************************************************)
(* For any agents, workers, tasks and setups: a tool that a policy gates   *)
(* is used only when it was approved for the task, the environment image   *)
(* of an agent has one builder, no container and no scratch directory      *)
(* outlives its run but through a crash or a removal docker refused, and   *)
(* the catalog of snapshots is within its cap when no eviction is under    *)
(* way.                                                                    *)
(***************************************************************************)
EXTENDS TaskRun, FiniteSetTheorems, SequenceTheorems, WellFoundedInduction, TLAPS

(* The work of a run; between two runs that of nobody.                     *)
Work == [task : TaskIds \cup {<<>>}, agent : Agents \cup {idle.agent},
         slot : Slots \cup {idle.slot}, ok : BOOLEAN, hit : BOOLEAN, build : Actors]

(* A run that was started has a task, an agent and a worker.               *)
Engaged(r) == work[r].task \in TaskIds /\ work[r].agent \in Agents /\ work[r].slot \in Slots

SandboxTyped ==
  /\ setup \in Setups
  /\ pc \in [Runs -> Phases] /\ work \in [Runs -> Work]
  /\ inflight \in [Agents -> Actors]
  /\ leaked \in [Slots -> Nat] /\ lost \in [Slots -> Nat]
  /\ containers \subseteq Runs /\ scratch \subseteq Slots
  /\ \A r \in Runs : pc[r] # "free" => Engaged(r)

TaskTyped ==
  /\ status \in [TaskIds -> {"absent", "pending", "running", "done", "failed"}]
  /\ approvals \subseteq Approval /\ saved \subseteq Approval
  /\ tries \in [TaskIds -> 0..MaxTries] /\ events \in 0..MaxEvents
  /\ executed \subseteq TaskIds \X KnownTools

(* A run builds exactly when it is the one others of its agent wait for.   *)
BuilderKnown ==
  /\ \A r \in Runs : building(r) => inflight[work[r].agent] = r
  /\ \A a \in Agents : inflight[a] # Operator =>
       \E r \in Runs : inflight[a] = r /\ building(r) /\ work[r].agent = a

(* Only docker runs wait for an image or have a container.                 *)
DockerOnly ==
  \A r \in Runs : pc[r] \in {"image", "restore", "create"} \/ r \in containers => isDocker(r)

(* The scratch directory a run has to remove.                              *)
Owns(r, s) ==
  work[r].slot = s /\ pc[r] \in holding /\ isDocker(r) /\ spec(r).repo # "mount"

(* What is up, and why what is left over may be.                           *)
Held ==
  /\ \A r \in containers : pc[r] \in holding
  /\ \A s \in Slots : leaked[s] <= lost[s]
  /\ \A s \in scratch \ stale : \E r \in Runs : Owns(r, s)

(* No approval is given in the memory of a drain and not in the file.      *)
grants(records) == {rec \in records : rec.status = "approved"}
GrantsSaved == grants(approvals) = grants(saved)

----------------------------------------------------------------------------
(* The steps, as far as containers, images and scratch are concerned.      *)

isolates == <<setup, inflight, containers, leaked, scratch, lost, stale>>

(* A run goes from one phase in which it owns a sandbox to another.        *)
MovesOn(r) ==
  /\ pc[r] \in holding /\ UNCHANGED isolates
  /\ \E phase \in holding \ {"create"} : pc' = [pc EXCEPT ![r] = phase]
  /\ UNCHANGED work \/ \E ok \in BOOLEAN : work' = [work EXCEPT ![r].ok = ok]

Stays == UNCHANGED <<pc, work, isolates>>

IsolateStep ==
  \/ Stays
  \/ \E r \in Runs : MovesOn(r) \/ restoreSnapshot(r) \/ createContainer(r) \/ RunSettles(r)
  \/ \E r \in Runs, ok \in BOOLEAN : ImageReady(r, ok)
  \/ \E r \in Runs, t \in TaskIds, slot \in Slots : RunTask(r, t, slot)
  \/ GcOrphanSandboxes
  \/ crashes

(* Most steps of a run leave its sandbox alone. *)
LEMMA HoldingSteps ==
  ASSUME SandboxTyped, NEW r \in Runs,
         \/ Checkout(r) \/ CommitWarm(r) \/ AcquireFails(r) \/ ReleaseSandbox(r) \/ CommitTask(r)
         \/ Evict(r) \/ executeTask(r) \/ BootFails(r) \/ ProcessTimesOut(r) \/ KillProcess(r)
         \/ forceExit(r) \/ \E ok \in BOOLEAN : ProcessCloses(r, ok)
  PROVE  MovesOn(r)
<1> USE DEF goes, holding, MovesOn, isolates
<1>1. CASE Checkout(r)
  BY <1>1 DEF Checkout, sandboxButPc, dockerVars
<1>2. CASE CommitWarm(r)
  BY <1>2 DEF CommitWarm, commit
<1>3. CASE AcquireFails(r)
  BY <1>3 DEF AcquireFails, sandboxButPc, dockerVars
<1>4. CASE ReleaseSandbox(r)
  BY <1>4 DEF ReleaseSandbox, sandboxButPc, dockerVars
<1>5. CASE CommitTask(r)
  BY <1>5 DEF CommitTask, commit
<1>6. CASE Evict(r)
  <2>1. pc' = pc \/ \E phase \in holding \ {"create"} : pc' = [pc EXCEPT ![r] = phase]
    BY <1>6 DEF Evict, EvictionStep
  <2>2. pc[r] \in holding \ {"create"} /\ UNCHANGED <<isolates, work>>
    BY <1>6 DEF Evict
  <2>3. pc = [pc EXCEPT ![r] = pc[r]]
    BY DEF SandboxTyped
  <2> QED
    BY <2>1, <2>2, <2>3
<1>7. CASE executeTask(r)
  <2>1. /\ pc[r] = "boot" /\ goes(r, "execute") /\ UNCHANGED sandboxButPc
    BY <1>7 DEF executeTask
  <2> QED
    BY <2>1 DEF sandboxButPc, dockerVars
<1>8. CASE BootFails(r)
  BY <1>8 DEF BootFails, sandboxButPc, dockerVars
<1>9. CASE ProcessTimesOut(r)
  BY <1>9 DEF ProcessTimesOut, keepsTheRest, dockerVars
<1>10. CASE KillProcess(r)
  BY <1>10 DEF KillProcess, keepsTheRest, dockerVars
<1>11. CASE forceExit(r)
  BY <1>11 DEF forceExit, settles, keepsTheRest, dockerVars
<1>12. ASSUME NEW ok \in BOOLEAN, ProcessCloses(r, ok) PROVE MovesOn(r)
  BY <1>12 DEF ProcessCloses, settles, keepsTheRest, dockerVars
<1> QED
  BY <1>1, <1>2, <1>3, <1>4, <1>5, <1>6, <1>7, <1>8, <1>9, <1>10, <1>11, <1>12

(* Every step of the specification is one of these. *)
LEMMA StepsOfIsolates ==
  ASSUME SandboxTyped, [Next]_vars
  PROVE  IsolateStep
<1>1. CASE UNCHANGED vars
  BY <1>1 DEF vars, sandboxVars, sandboxButPc, dockerVars, IsolateStep, Stays, isolates
<1>2. ASSUME NEW t \in TaskIds, NEW desired \in BOOLEAN, RefusedTask(t, desired)
      PROVE  IsolateStep
  BY <1>2 DEF RefusedTask, sandboxVars, sandboxButPc, dockerVars, IsolateStep, Stays, isolates
<1>3. ASSUME NEW r \in Runs, Advance(r) PROVE IsolateStep
  <2>1. \/ MovesOn(r) \/ restoreSnapshot(r) \/ createContainer(r) \/ RunSettles(r)
        \/ \E ok \in BOOLEAN : ImageReady(r, ok)
    BY <1>3, HoldingSteps DEF Advance, SandboxStep
  <2> QED
    BY <2>1 DEF IsolateStep
<1>4. ASSUME NEW r \in Runs, NEW ok \in BOOLEAN, ProcessCloses(r, ok) PROVE IsolateStep
  BY <1>4, HoldingSteps DEF IsolateStep
<1>5. ASSUME NEW rec \in approvals, CliApprove(rec) PROVE IsolateStep
  BY <1>5 DEF CliApprove, sandboxVars, sandboxButPc, dockerVars, IsolateStep, Stays, isolates
<1>6. ASSUME NEW rec \in approvals, NEW decision, Decide(rec, decision) PROVE IsolateStep
  BY <1>6 DEF Decide, sandboxVars, sandboxButPc, dockerVars, IsolateStep, Stays, isolates
<1>7. CASE BesideTheDrain
  <2>1. CASE GcOrphanSandboxes
    BY <2>1 DEF IsolateStep
  <2>2. CASE PruneSandboxSnapshots(0)
    BY <2>2 DEF PruneSandboxSnapshots, dockerVars, IsolateStep, Stays, isolates
  <2>3. CASE Evict(Operator)
    BY <2>3, SandboxAssumption DEF Evict, EvictionStep, IsolateStep, Stays, isolates
  <2> QED
    BY <1>7, <2>1, <2>2, <2>3 DEF BesideTheDrain
<1>8. CASE Crash
  BY <1>8 DEF Crash, IsolateStep
<1> QED
  BY <1>1, <1>2, <1>3, <1>4, <1>5, <1>6, <1>7, <1>8 DEF Next, IsolateStep

----------------------------------------------------------------------------
(* Types of the isolates.                                                  *)

(* The constants are what their assumption says. *)
LEMMA TaskNames ==
  ASSUME NEW t \in TaskIds
  PROVE  AgentOf[t[1]] \in Agents /\ Operator \notin Runs
BY TaskRunAssumption, SandboxAssumption DEF TaskIds

(* Between two runs there is no work. *)
LEMMA IdleWork == idle \in Work
BY DEF idle, Work, Actors

(* What a run starts with. *)
LEMMA FreshWork ==
  ASSUME NEW t \in TaskIds, NEW a \in Agents, NEW s \in Slots
  PROVE  /\ fresh(t, a, s) \in Work
         /\ fresh(t, a, s).task = t /\ fresh(t, a, s).agent = a /\ fresh(t, a, s).slot = s
BY DEF fresh, Work, Actors

(* Initially nothing runs. *)
LEMMA InitSandboxTyped == Init => SandboxTyped
<1> SUFFICES ASSUME Init PROVE SandboxTyped
  OBVIOUS
<1>1. setup \in Setups
  BY DEF Init
<1>2. pc \in [Runs -> Phases] /\ \A r \in Runs : pc[r] = "free"
  BY DEF Init, Init_Sandbox, Phases
<1>3. work \in [Runs -> Work]
  BY IdleWork DEF Init, Init_Sandbox
<1>4. inflight \in [Agents -> Actors]
  BY DEF Init, Init_Sandbox, Actors
<1>5. leaked \in [Slots -> Nat] /\ lost \in [Slots -> Nat] /\ containers \subseteq Runs
      /\ scratch \subseteq Slots
  BY DEF Init, Init_Sandbox
<1> QED
  BY <1>1, <1>2, <1>3, <1>4, <1>5 DEF SandboxTyped

(* A change of one flag of the work leaves the rest of it. *)
LEMMA WorkFlags ==
  ASSUME SandboxTyped, NEW r \in Runs,
         \/ UNCHANGED work
         \/ \E b \in BOOLEAN : work' = [work EXCEPT ![r].ok = b]
         \/ \E b \in BOOLEAN : work' = [work EXCEPT ![r].hit = b]
  PROVE  /\ work' \in [Runs -> Work]
         /\ \A q \in Runs : /\ work'[q].task = work[q].task /\ work'[q].agent = work[q].agent
                            /\ work'[q].slot = work[q].slot /\ work'[q].build = work[q].build
<1> DEFINE w == work[r]
           Same(v) == /\ v \in Work /\ v.task = w.task /\ v.agent = w.agent
                      /\ v.slot = w.slot /\ v.build = w.build
<1>1. w \in Work
  BY DEF SandboxTyped
<1>2. PICK v : work' = [work EXCEPT ![r] = v] /\ Same(v)
  <2> HIDE DEF w
  <2>1. ASSUME NEW b \in BOOLEAN
        PROVE  Same([w EXCEPT !.ok = b]) /\ Same([w EXCEPT !.hit = b])
    BY <1>1 DEF Work
  <2>2. CASE UNCHANGED work
    <3>1. work' = [work EXCEPT ![r] = w]
      BY <2>2 DEF SandboxTyped, w
    <3> QED
      BY <1>1, <3>1
  <2>3. ASSUME NEW b \in BOOLEAN, work' = [work EXCEPT ![r].ok = b]
        PROVE  \E v : work' = [work EXCEPT ![r] = v] /\ Same(v)
    <3>1. work' = [work EXCEPT ![r] = [w EXCEPT !.ok = b]]
      BY <2>3 DEF w
    <3> QED
      BY <2>1, <3>1
  <2>4. ASSUME NEW b \in BOOLEAN, work' = [work EXCEPT ![r].hit = b]
        PROVE  \E v : work' = [work EXCEPT ![r] = v] /\ Same(v)
    <3>1. work' = [work EXCEPT ![r] = [w EXCEPT !.hit = b]]
      BY <2>4 DEF w
    <3> QED
      BY <2>1, <3>1
  <2> QED
    BY <2>2, <2>3, <2>4
<1> HIDE DEF Same
<1>3. \A q \in Runs : work'[q] = IF q = r THEN v ELSE work[q]
  BY <1>2 DEF SandboxTyped
<1>4. work' \in [Runs -> Work]
  BY <1>2 DEF SandboxTyped, Same
<1> QED
  BY <1>2, <1>3, <1>4 DEF Same

(* What a run starts with, once it has asked for the image of its agent. *)
LEMMA StartedWork ==
  ASSUME SandboxTyped, NEW r \in Runs, NEW t \in TaskIds, NEW s \in Slots, RunTask(r, t, s)
  PROVE  /\ work' \in [Runs -> Work]
         /\ \A q \in Runs \ {r} : work'[q] = work[q]
         /\ work'[r].task = t /\ work'[r].agent = AgentOf[t[1]] /\ work'[r].slot = s
         /\ inflight' \in [Agents -> Actors]
<1> DEFINE a == AgentOf[t[1]]
           f == fresh(t, a, s)
<1>1. /\ a \in Agents
      /\ f \in Work /\ f.task = t /\ f.agent = a /\ f.slot = s
  BY TaskNames, FreshWork
<1>2. CASE setup.spec[a].provider = "local"
  <2>1. work' = [work EXCEPT ![r] = f] /\ UNCHANGED inflight
    BY <1>2 DEF RunTask
  <2> QED
    BY <1>1, <2>1 DEF SandboxTyped
<1>3. CASE setup.spec[a].provider # "local"
  <2>1. ensureEnvImage(r, a, f)
    BY <1>3 DEF RunTask
  <2> HIDE DEF f, a
  <2>2. PICK b \in Actors : work' = [work EXCEPT ![r] = [f EXCEPT !.build = b]]
    BY <1>1, <2>1 DEF ensureEnvImage, Actors, SandboxTyped
  <2>3. [f EXCEPT !.build = b] \in Work /\ [f EXCEPT !.build = b].task = t
        /\ [f EXCEPT !.build = b].agent = a /\ [f EXCEPT !.build = b].slot = s
    BY <1>1 DEF Work
  <2>4. inflight' \in [Agents -> Actors]
    BY <1>1, <2>1 DEF ensureEnvImage, Actors, SandboxTyped
  <2> QED
    BY <2>2, <2>3, <2>4 DEF SandboxTyped, a
<1> QED
  BY <1>2, <1>3

(* Containers of a slot are counted. *)
LEMMA ContainersCounted ==
  ASSUME SandboxTyped, NEW s \in Slots
  PROVE  Cardinality({r \in containers : work[r].slot = s}) \in Nat
<1>1. IsFiniteSet({r \in containers : work[r].slot = s})
  BY SandboxAssumption, FS_Subset DEF SandboxTyped
<1> QED
  BY <1>1, FS_CardinalityType

(* What counting one more for a slot does. *)
LEMMA CountedUp ==
  ASSUME NEW f \in [Slots -> Nat], NEW x, NEW g, g = [f EXCEPT ![x] = f[x] + 1]
  PROVE  /\ g \in [Slots -> Nat] /\ (x \in Slots => g[x] = f[x] + 1)
         /\ \A s \in Slots : s # x => g[s] = f[s]
<1>1. CASE x \in Slots
  BY <1>1
<1>2. CASE x \notin Slots
  <2>1. g = f
    BY <1>2
  <2> QED
    BY <1>2, <2>1
<1> QED
  BY <1>1, <1>2

(* A removal that docker refuses is counted as lost when it is as leaked. *)
LEMMA RemovalCounted ==
  ASSUME SandboxTyped, NEW r \in Runs, removeContainer(r)
  PROVE  /\ containers' = containers \ {r}
         /\ leaked' \in [Slots -> Nat] /\ lost' \in [Slots -> Nat]
         /\ \A s \in Slots : leaked[s] <= lost[s] => leaked'[s] <= lost'[s]
<1> DEFINE x == work[r].slot
<1>1. PICK removed \in BOOLEAN :
        /\ containers' = containers \ {r}
        /\ leaked' = [leaked EXCEPT ![x] = IF removed THEN @ ELSE @ + 1]
        /\ lost' = [lost EXCEPT ![x] = IF removed THEN @ ELSE @ + 1]
  BY DEF removeContainer
<1> HIDE DEF x
<1>2. CASE removed
  <2>1. leaked' = [leaked EXCEPT ![x] = leaked[x]] /\ lost' = [lost EXCEPT ![x] = lost[x]]
    BY <1>1, <1>2
  <2>2. leaked' = leaked /\ lost' = lost
    BY <2>1 DEF SandboxTyped
  <2> QED
    BY <1>1, <2>2 DEF SandboxTyped
<1>3. CASE ~removed
  <2>1. leaked' = [leaked EXCEPT ![x] = leaked[x] + 1] /\ lost' = [lost EXCEPT ![x] = lost[x] + 1]
    BY <1>1, <1>3
  <2>2. leaked \in [Slots -> Nat] /\ lost \in [Slots -> Nat]
    BY DEF SandboxTyped
  <2>3. /\ leaked' \in [Slots -> Nat] /\ (x \in Slots => leaked'[x] = leaked[x] + 1)
        /\ \A s \in Slots : s # x => leaked'[s] = leaked[s]
    BY <2>1, <2>2, CountedUp
  <2>4. /\ lost' \in [Slots -> Nat] /\ (x \in Slots => lost'[x] = lost[x] + 1)
        /\ \A s \in Slots : s # x => lost'[s] = lost[s]
    BY <2>1, <2>2, CountedUp
  <2>5. \A s \in Slots : leaked[s] \in Nat /\ lost[s] \in Nat
    BY <2>2
  <2>6. ASSUME NEW s \in Slots, leaked[s] <= lost[s] PROVE leaked'[s] <= lost'[s]
    BY <2>3, <2>4, <2>5, <2>6
  <2> QED
    BY <1>1, <2>3, <2>4, <2>6
<1> QED
  BY <1>2, <1>3

(* Every step keeps the types. *)
LEMMA SandboxTypedStep ==
  ASSUME SandboxTyped, IsolateStep
  PROVE  SandboxTyped'
<1>1. CASE Stays
  BY <1>1 DEF Stays, isolates, SandboxTyped, Engaged
<1>2. ASSUME NEW r \in Runs, MovesOn(r) PROVE SandboxTyped'
  <2>1. work' \in [Runs -> Work]
        /\ \A q \in Runs : /\ work'[q].task = work[q].task /\ work'[q].agent = work[q].agent
                           /\ work'[q].slot = work[q].slot
    BY <1>2, WorkFlags DEF MovesOn
  <2>2. pc' \in [Runs -> Phases] /\ \A q \in Runs : pc'[q] # "free" => pc[q] # "free"
    BY <1>2 DEF MovesOn, SandboxTyped, Phases, awaited, holding
  <2> QED
    BY <1>2, <2>1, <2>2 DEF MovesOn, isolates, SandboxTyped, Engaged
<1>3. ASSUME NEW r \in Runs, restoreSnapshot(r) PROVE SandboxTyped'
  <2>1. UNCHANGED work \/ \E b \in BOOLEAN : work' = [work EXCEPT ![r].hit = b]
    BY <1>3 DEF restoreSnapshot
  <2>2. work' \in [Runs -> Work]
        /\ \A q \in Runs : /\ work'[q].task = work[q].task /\ work'[q].agent = work[q].agent
                           /\ work'[q].slot = work[q].slot
    BY <2>1, WorkFlags
  <2>3. pc' \in [Runs -> Phases] /\ \A q \in Runs : pc'[q] # "free" => pc[q] # "free"
    BY <1>3 DEF restoreSnapshot, goes, SandboxTyped, Phases, awaited, holding
  <2>4. scratch' \subseteq Slots
    BY <1>3 DEF restoreSnapshot, makesScratch, SandboxTyped, Engaged
  <2>5. UNCHANGED <<setup, inflight, containers, leaked, lost>>
    BY <1>3 DEF restoreSnapshot
  <2> QED
    BY <2>2, <2>3, <2>4, <2>5 DEF SandboxTyped, Engaged
<1>4. ASSUME NEW r \in Runs, createContainer(r) PROVE SandboxTyped'
  <2>1. pc' \in [Runs -> Phases] /\ \A q \in Runs : pc'[q] # "free" => pc[q] # "free"
    BY <1>4 DEF createContainer, goes, SandboxTyped, Phases, awaited, holding
  <2>2. containers' \subseteq Runs /\ UNCHANGED <<setup, work, inflight, leaked, lost, scratch>>
    BY <1>4 DEF createContainer, SandboxTyped
  <2> QED
    BY <2>1, <2>2 DEF SandboxTyped, Engaged
<1>5. ASSUME NEW r \in Runs, RunSettles(r) PROVE SandboxTyped'
  <2>1. work' = [work EXCEPT ![r] = idle] /\ pc' = [pc EXCEPT ![r] = "free"]
    BY <1>5 DEF RunSettles, goes
  <2>2. work' \in [Runs -> Work] /\ pc' \in [Runs -> Phases]
        /\ \A q \in Runs : pc'[q] # "free" => pc[q] # "free" /\ work'[q] = work[q]
    BY <2>1, IdleWork DEF SandboxTyped, Phases
  <2>3. UNCHANGED <<setup, inflight>>
    BY <1>5 DEF RunSettles
  <2>4. containers' \subseteq containers /\ scratch' \subseteq scratch
        /\ leaked' \in [Slots -> Nat] /\ lost' \in [Slots -> Nat]
    <3>1. dispose(r) \/ UNCHANGED <<containers, leaked, lost, scratch>>
      BY <1>5 DEF RunSettles
    <3>2. removeContainer(r) => /\ containers' \subseteq containers
                               /\ leaked' \in [Slots -> Nat] /\ lost' \in [Slots -> Nat]
      BY RemovalCounted
    <3> QED
      BY <3>1, <3>2 DEF dispose, SandboxTyped
  <2> QED
    BY <2>2, <2>3, <2>4 DEF SandboxTyped, Engaged
<1>6. ASSUME NEW r \in Runs, NEW ok \in BOOLEAN, ImageReady(r, ok) PROVE SandboxTyped'
  <2>1. pc' \in [Runs -> Phases] /\ \A q \in Runs : pc'[q] # "free" => pc[q] # "free"
    BY <1>6 DEF ImageReady, afterImage, SandboxTyped, Phases, awaited, holding
  <2>2. scratch' \subseteq Slots
    BY <1>6 DEF ImageReady, makesScratch, SandboxTyped, Engaged
  <2>3. inflight' \in [Agents -> Actors]
    BY <1>6 DEF ImageReady, SandboxTyped, Actors
  <2>4. UNCHANGED <<setup, work, containers, leaked, lost>>
    BY <1>6 DEF ImageReady
  <2> QED
    BY <2>1, <2>2, <2>3, <2>4 DEF SandboxTyped, Engaged
<1>7. ASSUME NEW r \in Runs, NEW t \in TaskIds, NEW s \in Slots, RunTask(r, t, s)
      PROVE  SandboxTyped'
  <2>1. \/ pc' = [pc EXCEPT ![r] = "boot"]
        \/ pc' = [pc EXCEPT ![r] = "image"]
    BY <1>7 DEF RunTask, goes
  <2>2. pc' \in [Runs -> Phases] /\ \A q \in Runs \ {r} : pc'[q] = pc[q]
    BY <2>1 DEF SandboxTyped, Phases, awaited, holding
  <2>3. UNCHANGED <<setup, containers, leaked, scratch, lost>>
    BY <1>7 DEF RunTask, dockerVars
  <2>4. \A q \in Runs : pc'[q] # "free" => Engaged(q)'
    BY <1>7, <2>2, StartedWork, TaskNames DEF SandboxTyped, Engaged
  <2> QED
    BY <1>7, <2>2, <2>3, <2>4, StartedWork DEF SandboxTyped
<1>8. CASE GcOrphanSandboxes
  BY <1>8 DEF GcOrphanSandboxes, SandboxTyped, Engaged
<1>9. CASE crashes
  <2>1. pc' \in [Runs -> Phases] /\ \A r \in Runs : pc'[r] = "free"
    BY <1>9 DEF crashes, Phases
  <2>2. work' \in [Runs -> Work]
    BY <1>9, IdleWork DEF crashes
  <2>3. inflight' \in [Agents -> Actors] /\ containers' \subseteq Runs
    BY <1>9 DEF crashes, Actors
  <2>4. leaked' \in [Slots -> Nat] /\ lost' \in [Slots -> Nat]
    BY <1>9, ContainersCounted DEF crashes, SandboxTyped
  <2>5. UNCHANGED <<setup, scratch>>
    BY <1>9 DEF crashes
  <2> QED
    BY <2>1, <2>2, <2>3, <2>4, <2>5 DEF SandboxTyped
<1> QED
  BY <1>1, <1>2, <1>3, <1>4, <1>5, <1>6, <1>7, <1>8, <1>9 DEF IsolateStep

----------------------------------------------------------------------------
(* One builder of an image.                                                *)

(* Who builds keeps building, and nobody joins, while no image gets ready. *)
LEMMA BuildersKept ==
  ASSUME SandboxTyped, BuilderKnown, UNCHANGED inflight,
         \A q \in Runs : /\ pc'[q] = "image" <=> pc[q] = "image"
                         /\ pc[q] = "image" => /\ work'[q].build = work[q].build
                                               /\ work'[q].agent = work[q].agent
  PROVE  BuilderKnown'
<1>1. \A q \in Runs : building(q)' <=> building(q)
  BY DEF building
<1>2. \A q \in Runs : building(q) => work'[q].agent = work[q].agent
  BY DEF building
<1> QED
  BY <1>1, <1>2 DEF BuilderKnown

(* A run that starts finds the builder of its image or becomes it. *)
LEMMA StartKeepsBuilder ==
  ASSUME SandboxTyped, BuilderKnown,
         NEW r \in Runs, NEW t \in TaskIds, NEW s \in Slots, RunTask(r, t, s)
  PROVE  BuilderKnown'
<1> DEFINE a == AgentOf[t[1]]
           f == fresh(t, a, s)
<1>1. /\ a \in Agents /\ Operator \notin Runs
      /\ f \in Work /\ f.agent = a
  BY TaskNames, FreshWork
<1>2. pc[r] = "free"
  BY DEF RunTask
<1>3. \A q \in Runs \ {r} : work'[q] = work[q]
  BY StartedWork
<1>4. work'[r].agent = a
  BY StartedWork
<1>5. CASE setup.spec[a].provider = "local"
  <2>1. pc' = [pc EXCEPT ![r] = "boot"] /\ UNCHANGED inflight
    BY <1>5 DEF RunTask, goes
  <2> QED
    BY <1>2, <1>3, <2>1, BuildersKept DEF SandboxTyped
<1>6. CASE setup.spec[a].provider # "local"
  <2>1. pc' = [pc EXCEPT ![r] = "image"] /\ ensureEnvImage(r, a, f)
    BY <1>6 DEF RunTask, goes
  <2> HIDE DEF f, a
  <2> DEFINE b == IF inflight[a] = Operator THEN r ELSE inflight[a]
  <2>2. work' = [work EXCEPT ![r] = [f EXCEPT !.build = b]]
        /\ inflight' = [inflight EXCEPT ![a] = b]
    BY <2>1 DEF ensureEnvImage
  <2> HIDE DEF b
  <2>3. work'[r].build = b
    BY <1>1, <2>2 DEF SandboxTyped, Work
  <2>4. \A q \in Runs \ {r} : building(q)' <=> building(q)
    BY <1>3, <2>1 DEF building, SandboxTyped
  <2>5. \A c \in Agents \ {a} : inflight'[c] = inflight[c]
    BY <2>2 DEF SandboxTyped
  <2>6. inflight'[a] = b
    BY <1>1, <2>2 DEF SandboxTyped
  <2>7. \A q \in Runs \ {r} : building(q) => work[q].agent \in Agents
    BY DEF building, SandboxTyped, Engaged
  <2>8. ~building(r) /\ (building(r)' <=> b = r)
    BY <1>2, <2>1, <2>3 DEF building, SandboxTyped
  <2>9. CASE inflight[a] = Operator
    <3>1. b = r
      BY <2>9 DEF b
    <3>2. \A q \in Runs \ {r} : building(q) => work[q].agent # a
      BY <1>1, <2>9 DEF BuilderKnown
    <3>3. ASSUME NEW q \in Runs, building(q)' PROVE inflight'[work'[q].agent] = q
      BY <1>3, <1>4, <2>4, <2>5, <2>6, <2>7, <3>1, <3>2, <3>3 DEF BuilderKnown
    <3>4. ASSUME NEW c \in Agents, inflight'[c] # Operator
          PROVE  \E q \in Runs : inflight'[c] = q /\ building(q)' /\ work'[q].agent = c
      <4>1. CASE c = a
        BY <1>4, <2>6, <2>8, <3>1, <4>1
      <4>2. CASE c # a
        <5>1. PICK q \in Runs : inflight[c] = q /\ building(q) /\ work[q].agent = c
          BY <2>5, <3>4, <4>2 DEF BuilderKnown
        <5>2. q # r
          BY <2>8, <5>1
        <5> QED
          BY <1>3, <2>4, <2>5, <4>2, <5>1, <5>2
      <4> QED
        BY <4>1, <4>2
    <3> QED
      BY <3>3, <3>4 DEF BuilderKnown
  <2>10. CASE inflight[a] # Operator
    <3>1. b = inflight[a] /\ b \in Runs \ {r}
      BY <1>1, <2>8, <2>10 DEF b, BuilderKnown
    <3>2. \A c \in Agents : inflight'[c] = inflight[c]
      BY <2>5, <2>6, <3>1
    <3>3. ~building(r)'
      BY <2>8, <3>1
    <3>4. ASSUME NEW q \in Runs, building(q)' PROVE inflight'[work'[q].agent] = q
      BY <1>3, <2>4, <2>7, <3>2, <3>3, <3>4 DEF BuilderKnown
    <3>5. ASSUME NEW c \in Agents, inflight'[c] # Operator
          PROVE  \E q \in Runs : inflight'[c] = q /\ building(q)' /\ work'[q].agent = c
      <4>1. PICK q \in Runs : inflight[c] = q /\ building(q) /\ work[q].agent = c
        BY <3>2, <3>5 DEF BuilderKnown
      <4>2. q # r
        BY <2>8, <4>1
      <4> QED
        BY <1>3, <2>4, <3>2, <4>1, <4>2
    <3> QED
      BY <3>4, <3>5 DEF BuilderKnown
  <2> QED
    BY <2>9, <2>10
<1> QED
  BY <1>5, <1>6

(* When an image is ready, all that waited for its builder go on. *)
LEMMA ReadyKeepsBuilder ==
  ASSUME SandboxTyped, BuilderKnown, NEW r \in Runs, NEW ok \in BOOLEAN, ImageReady(r, ok)
  PROVE  BuilderKnown'
<1> DEFINE a == work[r].agent
<1>1. Operator \notin Runs
  BY SandboxAssumption
<1>2. building(r) /\ inflight[a] = r /\ a \in Agents
  BY DEF ImageReady, BuilderKnown, building, SandboxTyped, Engaged
<1>3. UNCHANGED work
  BY DEF ImageReady
<1>4. inflight' = [inflight EXCEPT ![a] = Operator]
  BY <1>2 DEF ImageReady
<1>5. \A q \in Runs : building(q)' <=> building(q) /\ q # r
  BY DEF ImageReady, afterImage, building
<1>6. inflight'[a] = Operator /\ \A c \in Agents \ {a} : inflight'[c] = inflight[c]
  BY <1>2, <1>4 DEF SandboxTyped
<1>7. ASSUME NEW q \in Runs, building(q)' PROVE inflight'[work'[q].agent] = q
  <2>1. work[q].agent \in Agents /\ inflight[work[q].agent] = q /\ q # r
    BY <1>5, <1>7 DEF BuilderKnown, building, SandboxTyped, Engaged
  <2> QED
    BY <1>2, <1>3, <1>6, <2>1
<1>8. ASSUME NEW c \in Agents, inflight'[c] # Operator
      PROVE  \E q \in Runs : inflight'[c] = q /\ building(q)' /\ work'[q].agent = c
  <2>1. c # a /\ inflight'[c] = inflight[c]
    BY <1>6, <1>8
  <2>2. PICK q \in Runs : inflight[c] = q /\ building(q) /\ work[q].agent = c
    BY <1>8, <2>1 DEF BuilderKnown
  <2>3. q # r
    BY <2>1, <2>2
  <2> QED
    BY <1>3, <1>5, <2>1, <2>2, <2>3
<1> QED
  BY <1>7, <1>8 DEF BuilderKnown

(* Every step keeps it that one run builds the image of an agent. *)
LEMMA BuilderStep ==
  ASSUME SandboxTyped, BuilderKnown, IsolateStep
  PROVE  BuilderKnown'
<1>1. CASE Stays
  BY <1>1 DEF Stays, isolates, BuilderKnown, building
<1>2. ASSUME NEW r \in Runs, MovesOn(r) PROVE BuilderKnown'
  <2>1. \A q \in Runs : work'[q].agent = work[q].agent /\ work'[q].build = work[q].build
    BY <1>2, WorkFlags DEF MovesOn
  <2>2. \A q \in Runs : pc'[q] = "image" <=> pc[q] = "image"
    BY <1>2 DEF MovesOn, holding, SandboxTyped
  <2> QED
    BY <1>2, <2>1, <2>2, BuildersKept DEF MovesOn, isolates
<1>3. ASSUME NEW r \in Runs, restoreSnapshot(r) PROVE BuilderKnown'
  <2>1. UNCHANGED work \/ \E b \in BOOLEAN : work' = [work EXCEPT ![r].hit = b]
    BY <1>3 DEF restoreSnapshot
  <2>2. \A q \in Runs : work'[q].agent = work[q].agent /\ work'[q].build = work[q].build
    BY <2>1, WorkFlags
  <2>3. UNCHANGED inflight /\ \A q \in Runs : pc'[q] = "image" <=> pc[q] = "image"
    BY <1>3 DEF restoreSnapshot, goes, SandboxTyped
  <2> QED
    BY <2>2, <2>3, BuildersKept
<1>4. ASSUME NEW r \in Runs, createContainer(r) PROVE BuilderKnown'
  <2>1. UNCHANGED <<inflight, work>> /\ \A q \in Runs : pc'[q] = "image" <=> pc[q] = "image"
    BY <1>4 DEF createContainer, goes, SandboxTyped
  <2> QED
    BY <2>1, BuildersKept
<1>5. ASSUME NEW r \in Runs, RunSettles(r) PROVE BuilderKnown'
  <2>1. /\ pc[r] # "image" /\ pc' = [pc EXCEPT ![r] = "free"]
        /\ work' = [work EXCEPT ![r] = idle] /\ UNCHANGED inflight
    BY <1>5 DEF RunSettles, goes
  <2>2. \A q \in Runs : /\ pc'[q] = "image" <=> pc[q] = "image"
                        /\ pc[q] = "image" => work'[q] = work[q]
    BY <2>1 DEF SandboxTyped
  <2> QED
    BY <2>1, <2>2, BuildersKept
<1>6. CASE GcOrphanSandboxes
  BY <1>6 DEF GcOrphanSandboxes, BuilderKnown, building
<1>7. CASE crashes
  <2>1. \A r \in Runs : ~building(r)'
    BY <1>7 DEF crashes, building
  <2>2. \A a \in Agents : inflight'[a] = Operator
    BY <1>7 DEF crashes
  <2> QED
    BY <2>1, <2>2 DEF BuilderKnown
<1> QED
  BY <1>1, <1>2, <1>3, <1>4, <1>5, <1>6, <1>7, StartKeepsBuilder, ReadyKeepsBuilder
     DEF IsolateStep

----------------------------------------------------------------------------
(* Containers and scratch directories.                                     *)

(* The sandbox of a run is the one of its agent. *)
LEMMA SandboxKept ==
  ASSUME NEW q, work'[q].agent = work[q].agent, UNCHANGED setup
  PROVE  /\ isDocker(q)' <=> isDocker(q)
         /\ spec(q)' = spec(q)
BY DEF isDocker, spec

(* A sandbox that is not local is docker's. *)
LEMMA TwoProviders ==
  ASSUME SandboxTyped, NEW a \in Agents
  PROVE  setup.spec[a].provider \in {"local", "docker"}
<1>1. setup.spec[a] \in SandboxSpec
  BY TaskRunAssumption DEF SandboxTyped
<1> QED
  BY <1>1 DEF SandboxSpec

(* Every step keeps it that only docker runs have what docker gives. *)
LEMMA DockerOnlyStep ==
  ASSUME SandboxTyped, DockerOnly, Held, IsolateStep
  PROVE  DockerOnly'
<1> DEFINE Gained(q) == pc'[q] \in {"image", "restore", "create"} \/ q \in containers'
           Had(q) == pc[q] \in {"image", "restore", "create"} \/ q \in containers
<1>1. ASSUME UNCHANGED setup,
             \A q \in Runs : Gained(q) => Had(q) /\ work'[q].agent = work[q].agent
      PROVE  DockerOnly'
  BY <1>1, SandboxKept DEF DockerOnly
<1>2. CASE Stays
  BY <1>1, <1>2 DEF Stays, isolates
<1>3. ASSUME NEW r \in Runs, MovesOn(r) PROVE DockerOnly'
  <2>1. \A q \in Runs : work'[q].agent = work[q].agent
    BY <1>3, WorkFlags DEF MovesOn
  <2>2. UNCHANGED setup /\ UNCHANGED containers
    BY <1>3 DEF MovesOn, isolates
  <2>3. PICK phase \in holding \ {"create"} : pc' = [pc EXCEPT ![r] = phase]
    BY <1>3 DEF MovesOn
  <2>4. \A q \in Runs : Gained(q) => Had(q)
    BY <2>2, <2>3 DEF holding, SandboxTyped
  <2> QED
    BY <1>1, <2>1, <2>2, <2>4
<1>4. ASSUME NEW r \in Runs, restoreSnapshot(r) PROVE DockerOnly'
  <2>1. UNCHANGED work \/ \E b \in BOOLEAN : work' = [work EXCEPT ![r].hit = b]
    BY <1>4 DEF restoreSnapshot
  <2>2. \A q \in Runs : work'[q].agent = work[q].agent
    BY <2>1, WorkFlags
  <2>3. UNCHANGED setup /\ \A q \in Runs : Gained(q) => Had(q)
    BY <1>4 DEF restoreSnapshot, goes, SandboxTyped
  <2> QED
    BY <1>1, <2>2, <2>3
<1>5. ASSUME NEW r \in Runs, createContainer(r) PROVE DockerOnly'
  <2>1. UNCHANGED <<setup, work>> /\ \A q \in Runs : Gained(q) => Had(q)
    BY <1>5 DEF createContainer, goes, SandboxTyped
  <2> QED
    BY <1>1, <2>1
<1>6. ASSUME NEW r \in Runs, RunSettles(r) PROVE DockerOnly'
  <2>1. /\ pc' = [pc EXCEPT ![r] = "free"] /\ work' = [work EXCEPT ![r] = idle]
        /\ UNCHANGED setup
    BY <1>6 DEF RunSettles, goes
  <2>2. \A q \in Runs \ {r} : pc'[q] = pc[q] /\ work'[q] = work[q]
    BY <2>1 DEF SandboxTyped
  <2>3. containers' \subseteq containers /\ r \notin containers'
    <3>1. CASE r \notin containers
      BY <1>6, <3>1, RemovalCounted DEF RunSettles, dispose
    <3>2. CASE r \in containers
      <4>1. pc[r] = "dispose" /\ isDocker(r)
        BY <1>6, <3>2 DEF RunSettles, Held, holding, DockerOnly
      <4>2. removeContainer(r)
        BY <1>6, <4>1 DEF RunSettles, dispose
      <4> QED
        BY <4>2, RemovalCounted
    <3> QED
      BY <3>1, <3>2
  <2>4. ~Gained(r)
    BY <2>1, <2>3 DEF SandboxTyped
  <2> QED
    BY <1>1, <2>1, <2>2, <2>3, <2>4
<1>7. ASSUME NEW r \in Runs, NEW ok \in BOOLEAN, ImageReady(r, ok) PROVE DockerOnly'
  <2>1. UNCHANGED <<setup, work>> /\ \A q \in Runs : Gained(q) => Had(q)
    BY <1>7 DEF ImageReady, afterImage
  <2> QED
    BY <1>1, <2>1
<1>8. ASSUME NEW r \in Runs, NEW t \in TaskIds, NEW s \in Slots, RunTask(r, t, s)
      PROVE  DockerOnly'
  <2> DEFINE a == AgentOf[t[1]]
  <2>1. UNCHANGED <<setup, containers>> /\ pc[r] = "free"
    BY <1>8 DEF RunTask, dockerVars
  <2>2. \A q \in Runs \ {r} : work'[q] = work[q]
    BY <1>8, StartedWork
  <2>3. work'[r].agent = a /\ a \in Agents
    BY <1>8, StartedWork, TaskNames
  <2>4. \A q \in Runs \ {r} : pc'[q] = pc[q]
    BY <1>8 DEF RunTask, goes, SandboxTyped
  <2>5. r \notin containers'
    BY <2>1 DEF Held, holding
  <2>6. CASE setup.spec[a].provider = "local"
    <3>1. pc'[r] = "boot"
      BY <1>8, <2>6 DEF RunTask, goes, SandboxTyped
    <3>2. ~Gained(r)
      BY <2>5, <3>1
    <3> QED
      BY <1>1, <2>1, <2>2, <2>4, <3>2
  <2>7. CASE setup.spec[a].provider # "local"
    <3>1. isDocker(r)'
      BY <2>1, <2>3, <2>7, TwoProviders DEF isDocker, spec
    <3>2. \A q \in Runs \ {r} : isDocker(q)' <=> isDocker(q)
      BY <2>1, <2>2 DEF isDocker, spec
    <3> QED
      BY <2>1, <2>4, <3>1, <3>2 DEF DockerOnly
  <2> QED
    BY <2>6, <2>7
<1>9. CASE GcOrphanSandboxes
  <2>1. UNCHANGED <<setup, work>> /\ \A q \in Runs : Gained(q) => Had(q)
    BY <1>9 DEF GcOrphanSandboxes
  <2> QED
    BY <1>1, <2>1
<1>10. CASE crashes
  BY <1>10 DEF crashes, DockerOnly
<1> QED
  BY <1>2, <1>3, <1>4, <1>5, <1>6, <1>7, <1>8, <1>9, <1>10 DEF IsolateStep

(* A container and a scratch directory a run has are kept track of while   *)
(* it moves on; what a run newly takes, it owns.                           *)
LEMMA HeldKept ==
  ASSUME SandboxTyped, Held, UNCHANGED <<leaked, lost>>,
         \A r \in containers' : pc'[r] \in holding,
         \A s \in scratch' \ stale' : s \in scratch \ stale \/ \E r \in Runs : Owns(r, s)',
         \A r \in Runs, s \in Slots : Owns(r, s) => Owns(r, s)'
  PROVE  Held'
<1>1. \A s \in Slots : leaked'[s] <= lost'[s]
  BY DEF Held
<1>2. ASSUME NEW s \in scratch' \ stale' PROVE \E r \in Runs : Owns(r, s)'
  <2>1. CASE s \in scratch \ stale
    <3>1. PICK r \in Runs : Owns(r, s)
      BY <2>1 DEF Held, Owns
    <3> QED
      BY <2>1, <3>1 DEF SandboxTyped
  <2> QED
    BY <1>2, <2>1
<1> QED
  BY <1>1, <1>2 DEF Held, Owns

(* Every step keeps track of containers and scratch directories. *)
LEMMA HeldStep ==
  ASSUME SandboxTyped, DockerOnly, Held, IsolateStep
  PROVE  Held'
<1> DEFINE Same(q) == work'[q].agent = work[q].agent /\ work'[q].slot = work[q].slot
<1>1. ASSUME UNCHANGED setup, NEW q, Same(q), pc[q] \in holding => pc'[q] \in holding
      PROVE  \A s \in Slots : Owns(q, s) => Owns(q, s)'
  BY <1>1, SandboxKept DEF Owns
<1>2. CASE Stays
  BY <1>2 DEF Stays, isolates, Held, Owns, isDocker, spec
<1>3. ASSUME NEW r \in Runs, MovesOn(r) PROVE Held'
  <2>1. \A q \in Runs : Same(q)
    BY <1>3, WorkFlags DEF MovesOn
  <2>2. UNCHANGED <<setup, containers, leaked, lost, scratch, stale>>
    BY <1>3 DEF MovesOn, isolates
  <2>3. \A q \in Runs : pc[q] \in holding => pc'[q] \in holding
    BY <1>3 DEF MovesOn, SandboxTyped
  <2>4. \A q \in containers' : pc'[q] \in holding
    BY <2>2, <2>3 DEF Held, SandboxTyped
  <2> QED
    BY <1>1, <2>1, <2>2, <2>3, <2>4, HeldKept
<1>4. ASSUME NEW r \in Runs, restoreSnapshot(r) PROVE Held'
  <2>1. UNCHANGED work \/ \E b \in BOOLEAN : work' = [work EXCEPT ![r].hit = b]
    BY <1>4 DEF restoreSnapshot
  <2>2. \A q \in Runs : Same(q)
    BY <2>1, WorkFlags
  <2>3. UNCHANGED <<setup, containers, leaked, lost, stale>> /\ pc[r] = "restore"
    BY <1>4 DEF restoreSnapshot
  <2>4. pc'[r] = "create" /\ \A q \in Runs : pc[q] \in holding => pc'[q] \in holding
    BY <1>4 DEF restoreSnapshot, goes, SandboxTyped, holding
  <2>5. \A q \in containers' : pc'[q] \in holding
    BY <2>3, <2>4 DEF Held, SandboxTyped
  <2>6. ASSUME NEW s \in scratch', s \notin scratch PROVE Owns(r, s)'
    <3>1. work[r].slot = s /\ spec(r).repo # "mount"
      BY <1>4, <2>6 DEF restoreSnapshot, makesScratch
    <3>2. isDocker(r)
      BY <2>3 DEF DockerOnly
    <3>3. work'[r].slot = s /\ isDocker(r)' /\ spec(r)'.repo # "mount"
      BY <2>2, <2>3, <3>1, <3>2, SandboxKept
    <3> QED
      BY <2>4, <3>3 DEF Owns, holding
  <2> QED
    BY <1>1, <2>2, <2>3, <2>4, <2>5, <2>6, HeldKept
<1>5. ASSUME NEW r \in Runs, createContainer(r) PROVE Held'
  <2>1. UNCHANGED <<setup, work, leaked, lost, scratch, stale>> /\ containers' = containers \cup {r}
    BY <1>5 DEF createContainer
  <2>2. pc'[r] \in holding /\ \A q \in Runs : pc[q] \in holding => pc'[q] \in holding
    BY <1>5 DEF createContainer, goes, SandboxTyped, holding
  <2>3. \A q \in containers' : pc'[q] \in holding
    BY <2>1, <2>2 DEF Held, SandboxTyped
  <2> QED
    BY <1>1, <2>1, <2>2, <2>3, HeldKept
<1>6. ASSUME NEW r \in Runs, NEW ok \in BOOLEAN, ImageReady(r, ok) PROVE Held'
  <2>1. UNCHANGED <<setup, work, containers, leaked, lost, stale>>
    BY <1>6 DEF ImageReady
  <2>2. \A q \in Runs : pc[q] \in holding => pc'[q] \in holding
    BY <1>6 DEF ImageReady, holding
  <2>3. \A q \in containers' : pc'[q] \in holding
    BY <2>1, <2>2 DEF Held, SandboxTyped
  <2>4. ASSUME NEW s \in scratch', s \notin scratch PROVE \E q \in Runs : Owns(q, s)'
    <3>1. PICK q \in Runs : /\ pc[q] = "image" /\ pc'[q] = "create"
                            /\ work[q].slot = s /\ spec(q).repo # "mount"
      BY <1>6, <2>4 DEF ImageReady, makesScratch
    <3>2. isDocker(q)
      BY <3>1 DEF DockerOnly
    <3>3. work'[q].slot = s /\ isDocker(q)' /\ spec(q)'.repo # "mount"
      BY <2>1, <3>1, <3>2, SandboxKept
    <3> QED
      BY <3>1, <3>3 DEF Owns, holding
  <2> QED
    BY <1>1, <2>1, <2>2, <2>3, <2>4, HeldKept
<1>7. ASSUME NEW r \in Runs, NEW t \in TaskIds, NEW s \in Slots, RunTask(r, t, s)
      PROVE  Held'
  <2>1. UNCHANGED <<setup, containers, leaked, scratch, lost, stale>> /\ pc[r] = "free"
    BY <1>7 DEF RunTask, dockerVars
  <2>2. \A q \in Runs \ {r} : work'[q] = work[q] /\ pc'[q] = pc[q]
    BY <1>7, StartedWork DEF RunTask, goes, SandboxTyped
  <2>3. pc[r] \notin holding
    BY <2>1 DEF holding
  <2>4. \A q \in containers' : pc'[q] \in holding
    BY <2>1, <2>2, <2>3 DEF Held, SandboxTyped
  <2>5. \A q \in Runs, c \in Slots : Owns(q, c) => Owns(q, c)'
    BY <1>1, <2>1, <2>2, <2>3 DEF Owns
  <2> QED
    BY <2>1, <2>4, <2>5, HeldKept
<1>8. CASE GcOrphanSandboxes
  <2>1. /\ UNCHANGED <<setup, pc, work, lost>> /\ containers' \subseteq containers
        /\ scratch' \ stale' \subseteq scratch \ stale
    BY <1>8 DEF GcOrphanSandboxes
  <2>2. \A s \in Slots : leaked'[s] <= lost'[s]
    BY <1>8 DEF GcOrphanSandboxes, Held, SandboxTyped
  <2> QED
    BY <2>1, <2>2 DEF Held, Owns, isDocker, spec
<1>9. CASE crashes
  <2>1. \A s \in Slots : leaked'[s] <= lost'[s]
    <3>1. ASSUME NEW s \in Slots PROVE leaked'[s] <= lost'[s]
      <4> DEFINE n == Cardinality({r \in containers : work[r].slot = s})
      <4>1. leaked'[s] = leaked[s] + n /\ lost'[s] = lost[s] + n
        BY <1>9 DEF crashes
      <4>2. n \in Nat
        BY ContainersCounted
      <4>3. leaked[s] \in Nat /\ lost[s] \in Nat /\ leaked[s] <= lost[s]
        BY DEF SandboxTyped, Held
      <4> QED
        BY <4>1, <4>2, <4>3
    <3> QED
      BY <3>1
  <2>2. containers' = {} /\ scratch' = scratch
    BY <1>9 DEF crashes
  <2>3. \A s \in scratch \ stale : s \in stale'
    BY <1>9 DEF crashes, Held, Owns
  <2>4. stale \subseteq stale'
    BY <1>9 DEF crashes
  <2>5. scratch' \ stale' = {}
    BY <2>2, <2>3, <2>4
  <2> QED
    BY <2>1, <2>2, <2>5 DEF Held
<1>10. ASSUME NEW r \in Runs, RunSettles(r) PROVE Held'
  <2>1. /\ pc' = [pc EXCEPT ![r] = "free"] /\ work' = [work EXCEPT ![r] = idle]
        /\ UNCHANGED setup
    BY <1>10 DEF RunSettles, goes
  <2>2. \A q \in Runs \ {r} : pc'[q] = pc[q] /\ work'[q] = work[q]
    BY <2>1 DEF SandboxTyped
  <2>3. \A q \in Runs \ {r}, s \in Slots : Owns(q, s) => Owns(q, s)'
    BY <1>1, <2>1, <2>2
  <2>4. CASE pc[r] = "dispose" /\ isDocker(r)
    <3> DEFINE dir == IF spec(r).repo = "mount" THEN {} ELSE {work[r].slot}
    <3>1. removeContainer(r) /\ scratch' = scratch \ dir /\ stale' = stale \ dir
      BY <1>10, <2>4 DEF RunSettles, dispose
    <3>2. containers' = containers \ {r} /\ \A s \in Slots : leaked'[s] <= lost'[s]
      BY <3>1, RemovalCounted DEF Held
    <3>3. \A q \in containers' : pc'[q] \in holding
      BY <2>2, <3>2 DEF Held, SandboxTyped
    <3>4. ASSUME NEW s \in scratch' \ stale' PROVE \E q \in Runs : Owns(q, s)'
      <4>1. s \in scratch \ stale /\ s \notin dir
        BY <3>1, <3>4
      <4>2. PICK q \in Runs : Owns(q, s)
        BY <4>1 DEF Held, Owns
      <4>3. q # r
        BY <4>1, <4>2 DEF Owns
      <4> QED
        BY <2>3, <4>1, <4>2, <4>3 DEF SandboxTyped
    <3> QED
      BY <3>2, <3>3, <3>4 DEF Held, Owns
  <2>5. CASE ~(pc[r] = "dispose" /\ isDocker(r))
    <3>1. UNCHANGED <<containers, leaked, lost, scratch, stale>>
      BY <1>10, <2>5 DEF RunSettles, dispose
    <3>2. (\A s \in Slots : ~Owns(r, s)) /\ r \notin containers
      BY <1>10, <2>5 DEF RunSettles, Owns, holding, Held, DockerOnly
    <3>3. \A q \in containers' : pc'[q] \in holding
      BY <2>2, <3>1, <3>2 DEF Held, SandboxTyped
    <3> QED
      BY <2>3, <3>1, <3>2, <3>3, HeldKept
  <2> QED
    BY <2>4, <2>5
<1> QED
  BY <1>2, <1>3, <1>4, <1>5, <1>6, <1>7, <1>8, <1>9, <1>10 DEF IsolateStep

----------------------------------------------------------------------------
(* Policies.                                                               *)

(* A runtime that enforces admission uses only tools the policy lets it.   *)
LEMMA ToolsRespectPolicy ==
  ASSUME NEW rt, NEW s, NEW p, NEW h, NEW calls, NEW approved, bootWorker(rt, s, p, h),
         enforced(rt, h),
         NEW tool \in executedTools(rt, s, p, h, admitCalls(p, calls, approved)["allow"])
  PROVE  tool \notin p.deny /\ (tool \in p.requireApproval => tool \in approved)
<1> DEFINE allowed == admitCalls(p, calls, approved)["allow"]
<1>1. \A c \in allowed : c \notin p.deny /\ (c \in p.requireApproval => c \in approved)
  <2>1. allowed = {c \in calls : admitTool(p, c, approved) = "allow"}
    BY DEF admitCalls
  <2> QED
    BY <2>1 DEF admitTool
<1> HIDE DEF allowed
<1>2. CASE rt.kind = "dsh"
  <2>1. tool \in allowed
    BY <1>2 DEF executedTools, loopPlugin, enforced, asksModel, runLiveHermesTask, allowed
  <2> QED
    BY <1>1, <2>1
<1>3. CASE rt.kind # "dsh"
  <2> DEFINE denies == classifyPolicy(p)
  <2>1. denies \ (flagged[rt.kind] \cup {"memory"}) = {}
    BY <1>3 DEF bootWorker, bootCliRuntime, unmappable, mapDenies
  <2>2. tool \in permissionPlan(rt.kind, p, s.provider = "docker")
    BY <1>3 DEF executedTools, enforced, runLiveHermesTask
  <2>3. tool \in KnownTools \ {"memory"} /\ tool \notin denies
    <3>1. CASE rt.kind = "codex"
      <4>1. flagged["codex"] = workspaceTools
        BY DEF flagged, CliKinds
      <4>2. denies \subseteq workspaceTools \cup {"memory"}
        BY <2>1, <3>1, <4>1
      <4>3. tool \in (KnownTools \ (workspaceTools \cup {"memory"}))
                       \cup (IF denies \cap workspaceTools # {} THEN {} ELSE workspaceTools)
        BY <2>2, <3>1 DEF permissionPlan, codexPermissions, codexContainerArgs, codexBlocked
      <4>4. workspaceTools \subseteq KnownTools \ {"memory"}
        BY DEF workspaceTools, KnownTools
      <4> HIDE DEF denies
      <4> QED
        BY <4>2, <4>3, <4>4
    <3>2. CASE rt.kind = "cursor"
      <4>1. flagged["cursor"] = {}
        BY DEF flagged, CliKinds
      <4>2. denies \subseteq {"memory"}
        BY <2>1, <3>2, <4>1
      <4>3. tool \in KnownTools \ {"memory"}
        BY <2>2, <3>2 DEF permissionPlan, cursorPermissions, cursorContainerArgs
      <4> HIDE DEF denies
      <4> QED
        BY <4>2, <4>3
    <3>3. CASE rt.kind # "codex" /\ rt.kind # "cursor"
      BY <2>2, <3>3 DEF permissionPlan
    <3> QED
      BY <3>1, <3>2, <3>3
  <2> QED
    BY <2>3 DEF classifyPolicy
<1> QED
  BY <1>2, <1>3

(* A step leaves what was used and granted, or is one of four.             *)
LEMMA StepsOfApprovals ==
  ASSUME [Next]_vars
  PROVE  /\ UNCHANGED setup
         /\ \/ UNCHANGED <<approvals, saved, executed>>
            \/ \E r \in Runs : executeTask(r)
            \/ \E r \in Runs : savesWhenOver(r) /\ UNCHANGED <<approvals, executed>>
            \/ \E rec \in approvals, decision \in {"approved", "rejected"} :
                 decideApproval(rec, decision) /\ UNCHANGED executed
            \/ approvals' = saved /\ UNCHANGED <<saved, executed>>
<1> DEFINE Kept == UNCHANGED <<approvals, saved, executed>>
<1>1. CASE UNCHANGED vars
  BY <1>1 DEF vars, sandboxVars, sandboxButPc, taskVars
<1>2. ASSUME NEW t \in TaskIds, NEW desired \in BOOLEAN, RefusedTask(t, desired)
      PROVE  UNCHANGED setup /\ Kept
  BY <1>2 DEF RefusedTask, sandboxVars, sandboxButPc
<1>3. ASSUME NEW r \in Runs, NEW t \in TaskIds, NEW slot \in Slots, RunTask(r, t, slot)
      PROVE  UNCHANGED setup /\ Kept
  BY <1>3 DEF RunTask
<1>4. ASSUME NEW r \in Runs, SandboxStep(r) PROVE UNCHANGED setup /\ Kept
  <2>1. Kept
    BY <1>4 DEF SandboxStep, taskVars
  <2>2. UNCHANGED setup
    BY <1>4 DEF SandboxStep, ImageReady, restoreSnapshot, createContainer, Checkout, CommitWarm,
       AcquireFails, ReleaseSandbox, CommitTask, Evict, sandboxButPc
  <2> QED
    BY <2>1, <2>2
<1>5. ASSUME NEW r \in Runs, executeTask(r) PROVE UNCHANGED setup
  BY <1>5 DEF executeTask, sandboxButPc
<1>6. ASSUME NEW r \in Runs,
             BootFails(r) \/ ProcessTimesOut(r) \/ KillProcess(r) \/ forceExit(r)
      PROVE  UNCHANGED setup /\ Kept
  BY <1>6 DEF BootFails, ProcessTimesOut, KillProcess, forceExit, keepsTheRest, taskVars, sandboxButPc
<1>7. ASSUME NEW r \in Runs, RunSettles(r)
      PROVE  UNCHANGED setup /\ savesWhenOver(r) /\ UNCHANGED <<approvals, executed>>
  BY <1>7 DEF RunSettles
<1>8. ASSUME NEW r \in Runs, NEW ok \in BOOLEAN, ProcessCloses(r, ok)
      PROVE  UNCHANGED setup /\ Kept
  BY <1>8 DEF ProcessCloses, keepsTheRest, taskVars
<1>9. ASSUME NEW rec \in approvals, CliApprove(rec)
      PROVE  UNCHANGED setup /\ decideApproval(rec, "approved") /\ UNCHANGED executed
  BY <1>9 DEF CliApprove, sandboxVars, sandboxButPc
<1>10. ASSUME NEW rec \in approvals, NEW decision \in {"approved", "rejected"}, Decide(rec, decision)
       PROVE  UNCHANGED setup /\ decideApproval(rec, decision) /\ UNCHANGED executed
  BY <1>10 DEF Decide, sandboxVars, sandboxButPc
<1>11. CASE BesideTheDrain
  <2>1. Kept
    BY <1>11 DEF BesideTheDrain, keepsTasks, taskVars
  <2>2. UNCHANGED setup
    BY <1>11 DEF BesideTheDrain, GcOrphanSandboxes, PruneSandboxSnapshots, Evict
  <2> QED
    BY <2>1, <2>2
<1>12. CASE Crash
  BY <1>12 DEF Crash, crashes
<1> QED
  BY <1>1, <1>2, <1>3, <1>4, <1>5, <1>6, <1>7, <1>8, <1>9, <1>10, <1>11, <1>12 DEF Next, Advance

(* A request for approval grants nothing. *)
LEMMA RequestsAreNoGrants ==
  ASSUME NEW t, NEW a, NEW tools, requestApprovals(t, a, tools)
  PROVE  grants(approvals') = grants(approvals)
<1> DEFINE asked == {[task |-> t, agent |-> a, tool |-> tool, status |-> "pending"] : tool \in tools}
<1>1. approvals' = approvals \cup asked
  BY DEF requestApprovals
<1>2. \A rec \in asked : rec.status = "pending"
  OBVIOUS
<1> HIDE DEF asked
<1> QED
  BY <1>1, <1>2 DEF grants

(* A gated tool is used when it was approved, and stays so.                *)
LEMMA GatedStep ==
  ASSUME GatedCallsApproved, GrantsSaved, [Next]_vars
  PROVE  GatedCallsApproved' /\ GrantsSaved'
<1> DEFINE Granted(use, records) ==
      \E rec \in records : rec.status = "approved" /\ rec.tool = use[2] /\ rec.task = use[1]
           Enforced(use) == enforced(setup.runtime[AgentOf[use[1][1]]], host)
<1>1. UNCHANGED setup
  BY StepsOfApprovals
<1>2. CASE UNCHANGED <<approvals, saved, executed>>
  BY <1>1, <1>2 DEF GatedCallsApproved, GrantsSaved, grants, policy, host
<1>3. ASSUME NEW r \in Runs, executeTask(r) PROVE GatedCallsApproved' /\ GrantsSaved'
  <2> DEFINE w == work[r]
             approved == {tool \in KnownTools : isToolApproved(tool, w.task, w.agent)}
             Tools(calls) == executedTools(runtime(r), spec(r), policy, host,
                                           admitCalls(policy, calls, approved)["allow"])
  <2>1. PICK calls : /\ requestApprovals(w.task, w.agent, admitCalls(policy, calls, approved)["approval"])
                     /\ executed' = executed \cup ({w.task} \X Tools(calls))
    BY <1>3 DEF executeTask
  <2>2. UNCHANGED saved /\ bootWorker(runtime(r), spec(r), policy, host)
    BY <1>3 DEF executeTask, boots
  <2>3. grants(approvals') = grants(approvals)
    BY <2>1, RequestsAreNoGrants
  <2>4. ASSUME NEW tool \in Tools(calls), enforced(runtime(r), host)
        PROVE  /\ tool \notin policy.deny
               /\ tool \in policy.requireApproval => tool \in approved
    BY <2>2, <2>4, ToolsRespectPolicy
  <2>5. ASSUME NEW tool \in approved PROVE Granted(<<w.task, tool>>, saved)
    <3>1. PICK rec \in approvals : rec.status = "approved" /\ rec.tool = tool /\ rec.task = w.task
      BY <2>5 DEF isToolApproved
    <3>2. rec \in saved
      BY <3>1 DEF GrantsSaved, grants
    <3> QED
      BY <3>1, <3>2
  <2> HIDE DEF Tools, approved
  <2>6. ASSUME NEW use \in executed', Enforced(use)
        PROVE  use[2] \notin policy.deny /\ (use[2] \in policy.requireApproval => Granted(use, saved))
    <3>1. CASE use \in executed
      BY <2>6, <3>1 DEF GatedCallsApproved
    <3>2. CASE use \notin executed
      <4>1. PICK tool \in Tools(calls) : use = <<w.task, tool>>
        BY <2>1, <2>6, <3>2
      <4>2. enforced(runtime(r), host)
        BY <2>6, <4>1 DEF runtime
      <4> QED
        BY <2>4, <2>5, <4>1, <4>2
    <3> QED
      BY <3>1, <3>2
  <2> QED
    BY <1>1, <2>2, <2>3, <2>6 DEF GatedCallsApproved, GrantsSaved, policy, host
<1>4. ASSUME grants(saved) \subseteq grants(saved'), grants(approvals') = grants(saved'),
             UNCHANGED executed
      PROVE  GatedCallsApproved' /\ GrantsSaved'
  <2>1. ASSUME NEW use, Granted(use, saved) PROVE Granted(use, saved')
    BY <1>4, <2>1 DEF grants
  <2> QED
    BY <1>1, <1>4, <2>1 DEF GatedCallsApproved, GrantsSaved, policy, host
<1>5. ASSUME NEW r \in Runs, savesWhenOver(r), UNCHANGED <<approvals, executed>>
      PROVE  GatedCallsApproved' /\ GrantsSaved'
  <2>1. saved' = approvals \/ saved' = saved
    BY <1>5 DEF savesWhenOver
  <2> QED
    BY <1>4, <1>5, <2>1 DEF GrantsSaved
<1>6. ASSUME NEW rec \in approvals, NEW decision, decideApproval(rec, decision),
             UNCHANGED executed
      PROVE  GatedCallsApproved' /\ GrantsSaved'
  <2>1. rec.status # "approved" /\ saved' = approvals' /\ approvals \ {rec} \subseteq approvals'
    BY <1>6 DEF decideApproval
  <2>2. grants(approvals) \subseteq grants(approvals')
    BY <2>1 DEF grants
  <2> QED
    BY <1>4, <1>6, <2>1, <2>2 DEF GrantsSaved
<1>7. CASE approvals' = saved /\ UNCHANGED <<saved, executed>>
  BY <1>4, <1>7
<1> QED
  BY <1>2, <1>3, <1>5, <1>6, <1>7, StepsOfApprovals

----------------------------------------------------------------------------
(* Types of the tasks.                                                     *)

(* A plan calls tools that are known, and no others are used. *)
LEMMA ToolsKnown ==
  ASSUME NEW kind, NEW h, NEW calls \in plans(kind, h), NEW p, NEW approved, NEW rt, NEW s
  PROVE  /\ admitCalls(p, calls, approved)["approval"] \subseteq KnownTools
         /\ executedTools(rt, s, p, h, admitCalls(p, calls, approved)["allow"]) \subseteq KnownTools
<1>1. calls \subseteq KnownTools
  BY DEF plans, planCalls, KnownTools
<1>2. /\ admitCalls(p, calls, approved)["approval"] \subseteq KnownTools
      /\ admitCalls(p, calls, approved)["allow"] \subseteq KnownTools
  BY <1>1 DEF admitCalls
<1>3. permissionPlan(rt.kind, p, s.provider = "docker") \subseteq KnownTools
  <2>1. workspaceTools \subseteq KnownTools
    BY DEF workspaceTools, KnownTools
  <2> QED
    BY <2>1 DEF permissionPlan, codexContainerArgs, codexPermissions, cursorContainerArgs,
       cursorPermissions
<1> DEFINE allowed == admitCalls(p, calls, approved)["allow"]
<1> HIDE DEF allowed
<1>4. executedTools(rt, s, p, h, allowed) \subseteq KnownTools
  BY <1>2, <1>3 DEF executedTools, loopPlugin, runLiveHermesTask, runHeadlessDsh, allowed
<1> QED
  BY <1>2, <1>4 DEF allowed

(* The end of a run is one of three. *)
LEMMA EndsTyped ==
  ASSUME TaskTyped, NEW r, NEW t, NEW ok, NEW n, ends(r, t, ok, n)
  PROVE  status' \in [TaskIds -> {"absent", "pending", "running", "done", "failed"}]
BY DEF ends, TaskTyped

(* A decision leaves requests for approval what they are. *)
LEMMA DecisionTyped ==
  ASSUME TaskTyped, NEW rec \in approvals, NEW decision \in {"approved", "rejected"},
         decideApproval(rec, decision)
  PROVE  approvals' \subseteq Approval /\ saved' \subseteq Approval
<1>1. rec \in Approval
  BY DEF TaskTyped
<1>2. [rec EXCEPT !.status = decision] \in Approval
  BY <1>1 DEF Approval
<1> QED
  BY <1>2 DEF decideApproval, TaskTyped

(* Every step keeps the types. *)
LEMMA TaskTypedStep ==
  ASSUME SandboxTyped, TaskTyped, [Next]_vars
  PROVE  TaskTyped'
<1> USE DEF TaskTyped
<1>1. CASE UNCHANGED vars
  BY <1>1 DEF vars, taskVars
<1>2. MaxTries \in Nat /\ MaxEvents \in Nat
  BY TaskRunAssumption
<1>3. ASSUME NEW t \in TaskIds, tries' = [tries EXCEPT ![t] = @ + 1], startable(t)
      PROVE  tries' \in [TaskIds -> 0..MaxTries]
  <2>1. tries[t] + 1 \in 0..MaxTries
    BY <1>2, <1>3 DEF startable
  <2> QED
    BY <1>3, <2>1
<1>4. ASSUME NEW t \in TaskIds, NEW desired \in BOOLEAN, RefusedTask(t, desired)
      PROVE  TaskTyped'
  <2>1. startable(t) /\ tries' = [tries EXCEPT ![t] = @ + 1] /\ ends(Operator, t, FALSE, tries[t] + 1)
        /\ UNCHANGED <<approvals, saved, events, executed>>
    BY <1>4 DEF RefusedTask
  <2> QED
    BY <1>3, <2>1, EndsTyped
<1>5. ASSUME NEW r \in Runs, NEW t \in TaskIds, NEW slot \in Slots, RunTask(r, t, slot)
      PROVE  TaskTyped'
  <2>1. startable(t) /\ tries' = [tries EXCEPT ![t] = @ + 1]
        /\ status' = [status EXCEPT ![t] = "running"]
        /\ UNCHANGED <<approvals, saved, events, executed>>
    BY <1>5 DEF RunTask
  <2> QED
    BY <1>3, <2>1
<1>6. ASSUME NEW r \in Runs, SandboxStep(r) \/ BootFails(r) \/ ProcessTimesOut(r)
                            \/ KillProcess(r) \/ forceExit(r)
      PROVE  TaskTyped'
  BY <1>6 DEF SandboxStep, BootFails, ProcessTimesOut, KillProcess, forceExit, keepsTheRest, taskVars
<1>7. ASSUME NEW r \in Runs, executeTask(r) PROVE TaskTyped'
  <2> DEFINE w == work[r]
             approved == {tool \in KnownTools : isToolApproved(tool, w.task, w.agent)}
  <2>1. w.task \in TaskIds /\ w.agent \in Agents
    BY <1>7 DEF executeTask, SandboxTyped, Engaged
  <2>2. PICK calls \in plans(KindOf[w.task[1]], host) :
          /\ requestApprovals(w.task, w.agent, admitCalls(policy, calls, approved)["approval"])
          /\ executed' = executed \cup ({w.task} \X
               executedTools(runtime(r), spec(r), policy, host,
                             admitCalls(policy, calls, approved)["allow"]))
    BY <1>7 DEF executeTask
  <2> HIDE DEF w, approved
  <2>3. executed' \subseteq TaskIds \X KnownTools
    <3> DEFINE Used == executedTools(runtime(r), spec(r), policy, host,
                                     admitCalls(policy, calls, approved)["allow"])
    <3>1. Used \subseteq KnownTools
      BY ToolsKnown
    <3> HIDE DEF Used
    <3>2. executed' = executed \cup ({w.task} \X Used)
      BY <2>2 DEF Used
    <3> QED
      BY <2>1, <3>1, <3>2
  <2>4. approvals' \subseteq Approval
    <3> DEFINE Asked == admitCalls(policy, calls, approved)["approval"]
    <3>1. Asked \subseteq KnownTools
      BY ToolsKnown
    <3> HIDE DEF Asked
    <3>2. requestApprovals(w.task, w.agent, Asked)
      BY <2>2 DEF Asked
    <3>3. \A tool \in Asked : [task |-> w.task, agent |-> w.agent, tool |-> tool,
                               status |-> "pending"] \in Approval
      BY <2>1, <3>1 DEF Approval
    <3> QED
      BY <3>2, <3>3 DEF requestApprovals
  <2>5. UNCHANGED <<status, saved, tries, events>>
    BY <1>7 DEF executeTask
  <2> QED
    BY <2>3, <2>4, <2>5
<1>8. ASSUME NEW r \in Runs, RunSettles(r) PROVE TaskTyped'
  <2>1. ends(r, work[r].task, work[r].ok, tries[work[r].task]) /\ savesWhenOver(r)
        /\ UNCHANGED <<approvals, tries, events, executed>>
    BY <1>8 DEF RunSettles
  <2>2. saved' \subseteq Approval
    BY <2>1 DEF savesWhenOver
  <2> QED
    BY <2>1, <2>2, EndsTyped
<1>9. ASSUME NEW r \in Runs, NEW ok \in BOOLEAN, ProcessCloses(r, ok) PROVE TaskTyped'
  BY <1>9 DEF ProcessCloses, keepsTheRest, taskVars
<1>10. ASSUME NEW rec \in approvals, CliApprove(rec) PROVE TaskTyped'
  <2>1. approvals' \subseteq Approval /\ saved' \subseteq Approval
    BY <1>10, DecisionTyped DEF CliApprove
  <2>2. status' = [status EXCEPT ![afterApprove(rec.task)] = "pending"]
        /\ UNCHANGED <<tries, events, executed>>
    BY <1>10 DEF CliApprove
  <2> QED
    BY <2>1, <2>2
<1>11. ASSUME NEW rec \in approvals, NEW decision \in {"approved", "rejected"}, Decide(rec, decision)
       PROVE  TaskTyped'
  BY <1>11, DecisionTyped DEF Decide
<1>12. ASSUME Event PROVE events' \in 0..MaxEvents
  BY <1>2, <1>12 DEF Event
<1>13. CASE BesideTheDrain
  <2>1. events' \in 0..MaxEvents
    BY <1>12, <1>13 DEF BesideTheDrain, taskVars
  <2> QED
    BY <1>13, <2>1 DEF BesideTheDrain, keepsTasks, taskVars
<1>14. CASE Crash
  <2>1. status' = [t \in TaskIds |-> IF status[t] # "running" THEN status[t]
                                     ELSE IF tries[t] < MaxTries THEN "pending" ELSE "failed"]
    BY <1>14 DEF Crash
  <2>2. status' \in [TaskIds -> {"absent", "pending", "running", "done", "failed"}]
    BY <2>1
  <2>3. approvals' = saved /\ Event /\ UNCHANGED <<saved, tries, executed>>
    BY <1>14 DEF Crash
  <2> QED
    BY <1>12, <2>2, <2>3
<1> QED
  BY <1>1, <1>4, <1>5, <1>6, <1>7, <1>8, <1>9, <1>10, <1>11, <1>13, <1>14 DEF Next, Advance

----------------------------------------------------------------------------
(* The theorems.                                                           *)

(* What every state of a drain satisfies. *)
RunInv ==
  /\ SandboxTyped /\ TaskTyped
  /\ BuilderKnown /\ DockerOnly /\ Held
  /\ GatedCallsApproved /\ GrantsSaved

LEMMA RunInvInit == Init => RunInv
<1> SUFFICES ASSUME Init PROVE RunInv
  OBVIOUS
<1>1. SandboxTyped
  BY InitSandboxTyped
<1>2. TaskTyped
  BY TaskRunAssumption DEF Init, TaskTyped
<1>3. /\ \A r \in Runs : pc[r] = "free"
      /\ \A a \in Agents : inflight[a] = Operator
      /\ containers = {} /\ scratch = {}
      /\ \A s \in Slots : leaked[s] = 0 /\ lost[s] = 0
  BY DEF Init, Init_Sandbox
<1>4. BuilderKnown /\ DockerOnly /\ Held
  BY <1>3 DEF BuilderKnown, building, DockerOnly, Held
<1>5. GatedCallsApproved /\ GrantsSaved
  BY DEF Init, GatedCallsApproved, GrantsSaved, grants
<1> QED
  BY <1>1, <1>2, <1>4, <1>5 DEF RunInv

LEMMA RunInvStep == RunInv /\ [Next]_vars => RunInv'
<1> SUFFICES ASSUME RunInv, [Next]_vars PROVE RunInv'
  OBVIOUS
<1>1. IsolateStep
  BY StepsOfIsolates DEF RunInv
<1>2. SandboxTyped' /\ BuilderKnown' /\ DockerOnly' /\ Held'
  BY <1>1, SandboxTypedStep, BuilderStep, DockerOnlyStep, HeldStep DEF RunInv
<1>3. TaskTyped' /\ GatedCallsApproved' /\ GrantsSaved'
  BY TaskTypedStep, GatedStep DEF RunInv
<1> QED
  BY <1>2, <1>3 DEF RunInv

(* Every reachable state satisfies the invariant. *)
THEOREM RunInvariant == Spec => []RunInv
<1> QED
  BY RunInvInit, RunInvStep, PTL DEF Spec

(* The types: no step of runtime.ts or of the sandbox leaves the states    *)
(* the module is written for.                                              *)
THEOREM RunTyped == Spec => []TypeOK
<1>1. RunInv => TypeOK
  BY DEF RunInv, SandboxTyped, TaskTyped, TypeOK
<1> QED
  BY <1>1, RunInvariant, PTL

(* With the embedded brain and either the embedded harness or a coding     *)
(* agent, whatever a policy denies is not used, and what needs approval    *)
(* only when the task has it: approval.ts, plugins.ts and cli-runtimes.    *)
THEOREM RunsStayGated == Spec => []GatedCallsApproved
<1>1. RunInv => GatedCallsApproved
  BY DEF RunInv
<1> QED
  BY <1>1, RunInvariant, PTL

(* Concurrent runs of an agent share one build: the in-flight map of       *)
(* sandbox/image.ts.                                                       *)
THEOREM ImagesBuiltOnce == Spec => []OneBuild
<1>1. RunInv => OneBuild
  BY DEF RunInv, BuilderKnown, OneBuild
<1> QED
  BY <1>1, RunInvariant, PTL

(* However a run ends, it leaves no container and no scratch directory but *)
(* what docker refused to remove or a crash left: sandbox/docker.ts.       *)
THEOREM NothingLeaks == Spec => []ContainersAccountedFor
<1>1. RunInv => ContainersAccountedFor
  BY DEF RunInv, Held, Owns, ContainersAccountedFor
<1> QED
  BY <1>1, RunInvariant, PTL

----------------------------------------------------------------------------
(* Recursion over 0..n: what the lemmas on sequences rest on.              *)

(* A set of natural numbers that is not empty has a least element.         *)
LEMMA LeastNatural ==
  ASSUME NEW T, T \subseteq Nat, T # {}
  PROVE  \E x \in T : \A y \in T : x <= y
<1> DEFINE R == {p \in Nat \X Nat : p[1] < p[2]}
<1>1. IsWellFoundedOn(R, Nat)
  BY NatLessThanWellFounded DEF OpToRel
<1>2. PICK x \in T : \A y \in T : ~(<<y, x>> \in R)
  BY <1>1, WFMin
<1>3. ASSUME NEW y \in T, y < x PROVE FALSE
  <2>1. <<y, x>> \in R
    BY <1>3
  <2> QED
    BY <1>2, <2>1
<1>4. \A y \in T : x <= y
  BY <1>3
<1> QED
  BY <1>4

(* What a recursion over 0..n keeps from one value to the next, it keeps.  *)
LEMMA StaysIn ==
  ASSUME NEW n \in Nat, NEW T, NEW f, f[0] \in T[0],
         \A k \in 1..n : f[k - 1] \in T[k - 1] => f[k] \in T[k]
  PROVE  \A k \in 0..n : f[k] \in T[k]
<1> DEFINE Wrong == {k \in Nat : k \in 0..n /\ f[k] \notin T[k]}
<1>1. ASSUME Wrong # {} PROVE FALSE
  <2>1. PICK k \in Wrong : \A j \in Wrong : k <= j
    BY <1>1, LeastNatural
  <2>2. k # 0
    BY <2>1
  <2>3. f[k - 1] \in T[k - 1] /\ k \in 1..n
    BY <2>1, <2>2
  <2> QED
    BY <2>1, <2>3
<1> QED
  BY <1>1

Steppers(n, S) == [1..n -> [S -> S]]

Recurs(f, n, S, base, g) ==
  f \in [0..n -> S] /\ f[0] = base /\ \A k \in 1..n : f[k] = g[k][f[k - 1]]

(* A recursion over 0..n whose steps stay in a set has a solution there.   *)
LEMMA RecursionExists ==
  ASSUME NEW n \in Nat, NEW S, NEW base \in S, NEW g \in Steppers(n, S)
  PROVE  \E f : Recurs(f, n, S, base, g)
<1> DEFINE Solves(f, m) == Recurs(f, m, S, base, g)
           Unsolved == {m \in Nat : m <= n /\ ~(\E f : Solves(f, m))}
<1>1. ASSUME Unsolved # {} PROVE FALSE
  <2>1. PICK m \in Unsolved : \A j \in Unsolved : m <= j
    BY <1>1, LeastNatural
  <2>2. m # 0
    <3>1. Solves([k \in 0..0 |-> base], 0)
      BY DEF Recurs
    <3> QED
      BY <2>1, <3>1
  <2>3. m \in 1..n /\ m - 1 \in Nat /\ m - 1 <= n /\ m - 1 \notin Unsolved
    <3>1. m \in Nat /\ m <= n
      BY <2>1
    <3> HIDE DEF Unsolved
    <3> QED
      BY <2>1, <2>2, <3>1
  <2>4. PICK f : Solves(f, m - 1)
    BY <2>3
  <2>5. PICK last : last = g[m][f[m - 1]]
    OBVIOUS
  <2>6. PICK h : h = [k \in 0..m |-> IF k = m THEN last ELSE f[k]]
    OBVIOUS
  <2>7. \A j \in 0..(m - 1) : h[j] = f[j] /\ f[j] \in S
    BY <2>3, <2>4, <2>6 DEF Recurs
  <2>8. last \in S
    <3>1. f[m - 1] \in S
      BY <2>3, <2>7
    <3> QED
      BY <2>3, <2>5, <3>1 DEF Steppers
  <2>9. ASSUME NEW k \in 1..m
        PROVE  h[k] = g[k][h[k - 1]]
    <3>1. k - 1 \in 0..(m - 1) /\ h[k - 1] = f[k - 1]
      BY <2>3, <2>7
    <3>2. CASE k = m
      BY <2>3, <2>5, <2>6, <3>1, <3>2
    <3>3. CASE k # m
      BY <2>3, <2>4, <2>7, <3>1, <3>3 DEF Recurs
    <3> QED
      BY <3>2, <3>3
  <2>10. h \in [0..m -> S] /\ h[0] = base
    BY <2>3, <2>4, <2>6, <2>7, <2>8 DEF Recurs
  <2>11. Solves(h, m)
    BY <2>9, <2>10 DEF Recurs
  <2> QED
    BY <2>1, <2>11
<1>2. n \notin Unsolved
  BY <1>1
<1> QED
  BY <1>2

----------------------------------------------------------------------------
(* Sequences of snapshots.  The operators on them are recursive functions; *)
(* what is true of the empty sequence and stays true as records are        *)
(* appended is true of all of them.                                        *)

Snapshot == [kind : {"warm", "task"}, of : Agents \cup {idle.agent} \cup TaskIds \cup {<<>>},
             env : Agents \cup {idle.agent}]

(* Every sequence is reached from the empty one by appending.              *)
LEMMA ReachedByAppend ==
  ASSUME NEW R, NEW T, <<>> \in T,
         \A s \in Seq(R), x \in R : s \in T => Append(s, x) \in T
  PROVE  Seq(R) \subseteq T
<1> SUFFICES ASSUME NEW s \in Seq(R)
             PROVE  s \in T
  OBVIOUS
<1> DEFINE part(k) == SubSeq(s, 1, k)
           Wrong == {k \in Nat : k <= Len(s) /\ part(k) \notin T}
<1>1. Len(s) \in Nat
  OBVIOUS
<1>2. ASSUME Wrong # {} PROVE FALSE
  <2>1. PICK k \in Wrong : \A j \in Wrong : k <= j
    BY <1>2, LeastNatural
  <2>2. k \in Nat /\ k <= Len(s) /\ part(k) \notin T
    BY <2>1
  <2>3. k # 0
    <3>1. part(0) = <<>>
      OBVIOUS
    <3> QED
      BY <2>2, <3>1
  <2>4. k - 1 \in Nat /\ k - 1 <= Len(s) /\ part(k - 1) \in T
    <3>1. k - 1 \in Nat /\ k - 1 <= Len(s) /\ ~(k <= k - 1)
      BY <1>1, <2>2, <2>3
    <3> QED
      BY <2>1, <3>1
  <2>5. s[k] \in R /\ part(k - 1) \in Seq(R)
    BY <1>1, <2>2, <2>3, <2>4
  <2>6. part(k) = Append(part(k - 1), s[k])
    BY <1>1, <2>2, <2>3, <2>4
  <2> HIDE DEF part
  <2> QED
    BY <2>2, <2>4, <2>5, <2>6
<1>3. part(Len(s)) \in T
  BY <1>1, <1>2
<1>4. part(Len(s)) = s
  BY <1>1
<1> QED
  BY <1>3, <1>4

Weight(rec) == SizeOf[rec.kind]

(* A snapshot has a size.                                                  *)
LEMMA SizesNatural ==
  ASSUME NEW rec \in Snapshot
  PROVE  Weight(rec) \in Nat
BY SandboxAssumption DEF Snapshot, Weight

(* The size of a sequence is that of its records.                          *)
LEMMA BytesUnfold ==
  ASSUME NEW s \in Seq(Snapshot)
  PROVE  \E f \in [0..Len(s) -> Nat] :
           /\ f[0] = 0 /\ bytes(s) = f[Len(s)]
           /\ \A k \in 1..Len(s) : f[k] = f[k - 1] + Weight(s[k])
<1> DEFINE g == [k \in 1..Len(s) |-> [m \in Nat |-> m + Weight(s[k])]]
           f == CHOOSE h : h = [k \in 0..Len(s) |-> IF k = 0 THEN 0 ELSE h[k - 1] + Weight(s[k])]
<1>1. Len(s) \in Nat /\ \A k \in 1..Len(s) : s[k] \in Snapshot
  OBVIOUS
<1>2. g \in Steppers(Len(s), Nat)
  BY <1>1, SizesNatural DEF Steppers
<1>3. PICK e : Recurs(e, Len(s), Nat, 0, g)
  BY <1>1, <1>2, RecursionExists
<1>4. \A k \in 1..Len(s) : k - 1 \in 0..Len(s)
  BY <1>1
<1>5. \A k \in 1..Len(s) : e[k] = e[k - 1] + Weight(s[k])
  BY <1>3, <1>4 DEF Recurs
<1>6. e \in [0..Len(s) -> Nat] /\ e[0] = 0 /\ \A k \in 1..Len(s) : e[k] = e[k - 1] + Weight(s[k])
  BY <1>3, <1>5 DEF Recurs
<1>7. e = [k \in 0..Len(s) |-> IF k = 0 THEN 0 ELSE e[k - 1] + Weight(s[k])]
  BY <1>1, <1>6
<1>8. f = [k \in 0..Len(s) |-> IF k = 0 THEN 0 ELSE f[k - 1] + Weight(s[k])]
  BY <1>7
<1>9. bytes(s) = f[Len(s)]
  BY DEF bytes, Weight
<1> HIDE DEF f
<1>10. /\ f[0] = 0 /\ \A k \in 1..Len(s) : f[k] = f[k - 1] + Weight(s[k])
  <2>1. \A k \in 0..Len(s) : f[k] = IF k = 0 THEN 0 ELSE f[k - 1] + Weight(s[k])
    BY <1>8
  <2> QED
    BY <1>1, <2>1
<1>11. \A k \in 0..Len(s) : f[k] \in Nat
  <2>1. PICK T : T = [k \in 0..Len(s) |-> Nat]
    OBVIOUS
  <2>2. f[0] \in T[0] /\ \A k \in 1..Len(s) : f[k - 1] \in T[k - 1] => f[k] \in T[k]
    BY <1>1, <1>10, <2>1, SizesNatural
  <2> QED
    BY <1>1, <2>1, <2>2, StaysIn
<1> QED
  BY <1>8, <1>9, <1>10, <1>11

(* A record adds its size.                                                 *)
LEMMA BytesOfMore ==
  ASSUME NEW s \in Seq(Snapshot), NEW rec \in Snapshot
  PROVE  bytes(Append(s, rec)) = bytes(s) + Weight(rec) /\ bytes(s) \in Nat
<1>1. PICK f \in [0..Len(s) -> Nat] :
        /\ f[0] = 0 /\ bytes(s) = f[Len(s)]
        /\ \A k \in 1..Len(s) : f[k] = f[k - 1] + Weight(s[k])
  BY BytesUnfold
<1>2. PICK t : t = Append(s, rec)
  OBVIOUS
<1>3. t \in Seq(Snapshot) /\ Len(t) = Len(s) + 1 /\ t[Len(t)] = rec /\ Len(s) \in Nat
      /\ \A k \in 1..Len(s) : t[k] = s[k]
  BY <1>2
<1>4. PICK h \in [0..Len(t) -> Nat] :
        /\ h[0] = 0 /\ bytes(t) = h[Len(t)]
        /\ \A k \in 1..Len(t) : h[k] = h[k - 1] + Weight(t[k])
  BY <1>3, BytesUnfold
<1>5. \A k \in 0..Len(s) : h[k] = f[k]
  <2>1. PICK T : T = [k \in 0..Len(s) |-> {f[k]}]
    OBVIOUS
  <2>2. h[0] \in T[0]
    BY <1>1, <1>3, <1>4, <2>1
  <2>3. ASSUME NEW k \in 1..Len(s), h[k - 1] \in T[k - 1]
        PROVE  h[k] \in T[k]
    <3>1. k \in 0..Len(s) /\ k - 1 \in 0..Len(s) /\ k \in 1..Len(t)
      BY <1>3
    <3> QED
      BY <1>1, <1>3, <1>4, <2>1, <2>3, <3>1
  <2>4. \A k \in 0..Len(s) : h[k] \in T[k]
    BY <1>3, <2>2, <2>3, StaysIn
  <2> QED
    BY <2>1, <2>4
<1>6. h[Len(t)] = h[Len(s)] + Weight(rec)
  BY <1>3, <1>4
<1> QED
  BY <1>1, <1>2, <1>3, <1>4, <1>5, <1>6

(* Nothing has no size.                                                    *)
LEMMA BytesOfNone == bytes(<<>>) = 0
<1>1. <<>> \in Seq(Snapshot) /\ Len(<<>>) = 0
  OBVIOUS
<1> QED
  BY <1>1, BytesUnfold

(* What is left of the parts of a sequence without some records.           *)
Filters(f, s, keys) ==
  /\ f \in [0..Len(s) -> Seq(Snapshot)]
  /\ f[0] = <<>> /\ without(s, keys) = f[Len(s)]
  /\ \A k \in 1..Len(s) : f[k] = IF s[k] \in keys THEN f[k - 1] ELSE Append(f[k - 1], s[k])

(* There is such a function.                                               *)
LEMMA WithoutUnfolds ==
  ASSUME NEW s \in Seq(Snapshot), NEW keys
  PROVE  \E f : Filters(f, s, keys)
<1> DEFINE S == Seq(Snapshot)
           step(k, v) == IF s[k] \in keys THEN v ELSE Append(v, s[k])
           g == [k \in 1..Len(s) |-> [v \in S |-> step(k, v)]]
           all == CHOOSE h : h = [k \in 0..Len(s) |-> IF k = 0 THEN <<>> ELSE step(k, h[k - 1])]
<1>1. Len(s) \in Nat /\ \A k \in 1..Len(s) : s[k] \in Snapshot
  OBVIOUS
<1>2. g \in Steppers(Len(s), S) /\ <<>> \in S
  BY <1>1 DEF Steppers
<1>3. PICK e : Recurs(e, Len(s), S, <<>>, g)
  <2> HIDE DEF g, S
  <2> QED
    BY <1>1, <1>2, RecursionExists
<1>4. \A k \in 1..Len(s) : k - 1 \in 0..Len(s)
  BY <1>1
<1>5. \A k \in 1..Len(s) : e[k] = step(k, e[k - 1])
  <2> HIDE DEF S, step
  <2> QED
    BY <1>3, <1>4 DEF Recurs
<1>6. e \in [0..Len(s) -> S] /\ e[0] = <<>>
  BY <1>3 DEF Recurs
<1> HIDE DEF S, step, g
<1>7. \A k \in 0..Len(s) : e[k] = IF k = 0 THEN <<>> ELSE step(k, e[k - 1])
  BY <1>1, <1>5, <1>6
<1>8. e = [k \in 0..Len(s) |-> IF k = 0 THEN <<>> ELSE step(k, e[k - 1])]
  BY <1>6, <1>7
<1>9. all = [k \in 0..Len(s) |-> IF k = 0 THEN <<>> ELSE step(k, all[k - 1])]
  BY <1>8
<1>10. without(s, keys) = all[Len(s)]
  BY DEF without, step
<1> HIDE DEF all
<1>11. /\ all[0] = <<>> /\ \A k \in 1..Len(s) : all[k] = step(k, all[k - 1])
  <2>1. \A k \in 0..Len(s) : all[k] = IF k = 0 THEN <<>> ELSE step(k, all[k - 1])
    BY <1>9
  <2> QED
    BY <1>1, <2>1
<1>12. \A k \in 0..Len(s) : all[k] \in S
  <2>1. PICK T : T = [k \in 0..Len(s) |-> S]
    OBVIOUS
  <2>2. \A k \in 1..Len(s), v \in S : step(k, v) \in S
    BY <1>1 DEF step, S
  <2>3. all[0] \in T[0] /\ \A k \in 1..Len(s) : all[k - 1] \in T[k - 1] => all[k] \in T[k]
    BY <1>1, <1>2, <1>11, <2>1, <2>2
  <2> QED
    BY <1>1, <2>1, <2>3, StaysIn
<1>13. all \in [0..Len(s) -> S]
  BY <1>9, <1>12
<1>14. all[0] = <<>> /\ \A k \in 1..Len(s) :
         all[k] = IF s[k] \in keys THEN all[k - 1] ELSE Append(all[k - 1], s[k])
  BY <1>11 DEF step
<1>15. all \in [0..Len(s) -> Seq(Snapshot)]
  BY <1>13 DEF S
<1> QED
  BY <1>10, <1>14, <1>15 DEF Filters

(* A record that is not to go stays at the end.                            *)
LEMMA WithoutMore ==
  ASSUME NEW s \in Seq(Snapshot), NEW rec \in Snapshot, NEW keys
  PROVE  /\ without(s, keys) \in Seq(Snapshot)
         /\ without(Append(s, rec), keys)
              = IF rec \in keys THEN without(s, keys) ELSE Append(without(s, keys), rec)
<1>1. PICK f : Filters(f, s, keys)
  BY WithoutUnfolds
<1>2. PICK t : t = Append(s, rec)
  OBVIOUS
<1>3. t \in Seq(Snapshot) /\ Len(t) = Len(s) + 1 /\ t[Len(t)] = rec /\ Len(s) \in Nat
      /\ \A k \in 1..Len(s) : t[k] = s[k]
  BY <1>2
<1>4. PICK h : Filters(h, t, keys)
  BY <1>3, WithoutUnfolds
<1>5. \A k \in 0..Len(s) : h[k] = f[k]
  <2>1. PICK T : T = [k \in 0..Len(s) |-> {f[k]}]
    OBVIOUS
  <2>2. h[0] \in T[0]
    BY <1>1, <1>3, <1>4, <2>1 DEF Filters
  <2>3. ASSUME NEW k \in 1..Len(s), h[k - 1] \in T[k - 1]
        PROVE  h[k] \in T[k]
    <3>1. k \in 0..Len(s) /\ k - 1 \in 0..Len(s) /\ k \in 1..Len(t) /\ t[k] = s[k]
      BY <1>3
    <3>2. h[k - 1] = f[k - 1]
      BY <2>1, <2>3, <3>1
    <3>3. h[k] = f[k]
      BY <1>1, <1>4, <3>1, <3>2 DEF Filters
    <3> QED
      BY <2>1, <3>1, <3>3
  <2>4. \A k \in 0..Len(s) : h[k] \in T[k]
    BY <1>3, <2>2, <2>3, StaysIn
  <2> QED
    BY <2>1, <2>4
<1>6. h[Len(t)] = IF rec \in keys THEN h[Len(s)] ELSE Append(h[Len(s)], rec)
  <2>1. Len(t) \in 1..Len(t) /\ Len(t) - 1 = Len(s)
    BY <1>3
  <2> QED
    BY <1>3, <1>4, <2>1 DEF Filters
<1>7. h[Len(s)] = f[Len(s)] /\ f[Len(s)] \in Seq(Snapshot)
  BY <1>1, <1>3, <1>5 DEF Filters
<1> QED
  BY <1>1, <1>2, <1>4, <1>6, <1>7 DEF Filters

(* Nothing is left of nothing.                                             *)
LEMMA WithoutOfNone == \A keys : without(<<>>, keys) = <<>>
<1> TAKE keys
<1>1. PICK none \in Seq(Snapshot) : none = <<>>
  <2>1. <<>> \in Seq(Snapshot)
    OBVIOUS
  <2> QED
    BY <2>1, Zenon
<1>2. Len(none) = 0
  BY <1>1
<1>3. PICK f : Filters(f, none, keys)
  BY WithoutUnfolds
<1> QED
  BY <1>1, <1>2, <1>3 DEF Filters

(* Records are left out one set after the other.                           *)
LEMMA WithoutTwice ==
  ASSUME NEW s \in Seq(Snapshot), NEW keys, NEW more
  PROVE  without(without(s, keys), more) = without(s, keys \cup more)
<1> DEFINE T == {q \in Seq(Snapshot) : without(without(q, keys), more) = without(q, keys \cup more)}
<1>1. <<>> \in T
  <2>1. <<>> \in Seq(Snapshot)
    OBVIOUS
  <2> QED
    BY <2>1, WithoutOfNone
<1>2. ASSUME NEW q \in Seq(Snapshot), NEW rec \in Snapshot, q \in T
      PROVE  Append(q, rec) \in T
  <2>1. PICK left : left = without(q, keys)
    OBVIOUS
  <2>2. left \in Seq(Snapshot) /\ without(left, more) = without(q, keys \cup more)
    BY <1>2, <2>1, WithoutMore
  <2>3. without(Append(q, rec), keys) = IF rec \in keys THEN left ELSE Append(left, rec)
    BY <2>1, WithoutMore
  <2>4. without(Append(left, rec), more)
          = IF rec \in more THEN without(left, more) ELSE Append(without(left, more), rec)
    BY <2>2, WithoutMore
  <2>5. without(Append(q, rec), keys \cup more)
          = IF rec \in keys \cup more THEN without(q, keys \cup more)
            ELSE Append(without(q, keys \cup more), rec)
    BY WithoutMore
  <2>6. Append(q, rec) \in Seq(Snapshot)
    OBVIOUS
  <2>7. without(without(Append(q, rec), keys), more) = without(Append(q, rec), keys \cup more)
    <3>1. CASE rec \in keys
      BY <2>2, <2>3, <2>5, <3>1
    <3>2. CASE rec \notin keys
      BY <2>2, <2>3, <2>4, <2>5, <3>2
    <3> QED
      BY <3>1, <3>2
  <2> QED
    BY <2>6, <2>7
<1> HIDE DEF T
<1>3. Seq(Snapshot) \subseteq T
  BY <1>1, <1>2, ReachedByAppend
<1> QED
  BY <1>3 DEF T

(* The more is left out, the less is left.                                 *)
LEMMA LessIsLeft ==
  ASSUME NEW s \in Seq(Snapshot), NEW keys, NEW more, keys \subseteq more
  PROVE  bytes(without(s, more)) <= bytes(without(s, keys))
<1> DEFINE T == {q \in Seq(Snapshot) : bytes(without(q, more)) <= bytes(without(q, keys))}
<1>1. <<>> \in T
  <2>1. <<>> \in Seq(Snapshot)
    OBVIOUS
  <2> QED
    BY <2>1, WithoutOfNone, BytesOfNone
<1>2. ASSUME NEW q \in Seq(Snapshot), NEW rec \in Snapshot, q \in T
      PROVE  Append(q, rec) \in T
  <2>1. PICK less : less = without(q, more)
    OBVIOUS
  <2>2. PICK left : left = without(q, keys)
    OBVIOUS
  <2>3. less \in Seq(Snapshot) /\ left \in Seq(Snapshot) /\ bytes(less) <= bytes(left)
    BY <1>2, <2>1, <2>2, WithoutMore
  <2>4. /\ bytes(less) \in Nat /\ bytes(left) \in Nat /\ Weight(rec) \in Nat
        /\ bytes(Append(less, rec)) = bytes(less) + Weight(rec)
        /\ bytes(Append(left, rec)) = bytes(left) + Weight(rec)
    BY <2>3, BytesOfMore, SizesNatural
  <2>5. without(Append(q, rec), more) = IF rec \in more THEN less ELSE Append(less, rec)
    BY <2>1, WithoutMore
  <2>6. without(Append(q, rec), keys) = IF rec \in keys THEN left ELSE Append(left, rec)
    BY <2>2, WithoutMore
  <2>7. bytes(without(Append(q, rec), more)) <= bytes(without(Append(q, rec), keys))
    <3>1. CASE rec \in more
      <4>1. bytes(without(Append(q, rec), keys)) \in {bytes(left), bytes(left) + Weight(rec)}
        BY <2>4, <2>6
      <4> QED
        BY <2>3, <2>4, <2>5, <3>1, <4>1
    <3>2. CASE rec \notin more
      BY <2>3, <2>4, <2>5, <2>6, <3>2
    <3> QED
      BY <3>1, <3>2
  <2>8. Append(q, rec) \in Seq(Snapshot)
    OBVIOUS
  <2> QED
    BY <2>7, <2>8
<1> HIDE DEF T
<1>3. Seq(Snapshot) \subseteq T
  BY <1>1, <1>2, ReachedByAppend
<1> QED
  BY <1>3 DEF T

(* What is left out of nothing else stays.                                 *)
LEMMA AllIsLeft ==
  ASSUME NEW s \in Seq(Snapshot)
  PROVE  without(s, {}) = s
<1> DEFINE T == {q \in Seq(Snapshot) : without(q, {}) = q}
<1>1. <<>> \in T
  <2>1. <<>> \in Seq(Snapshot)
    OBVIOUS
  <2> QED
    BY <2>1, WithoutOfNone
<1>2. ASSUME NEW q \in Seq(Snapshot), NEW rec \in Snapshot, q \in T
      PROVE  Append(q, rec) \in T
  <2>1. without(Append(q, rec), {}) = Append(q, rec)
    <3>1. PICK none : none = {}
      OBVIOUS
    <3>2. without(Append(q, rec), none) = Append(without(q, none), rec)
      BY <3>1, WithoutMore
    <3> QED
      BY <1>2, <3>1, <3>2
  <2>2. Append(q, rec) \in Seq(Snapshot)
    OBVIOUS
  <2> QED
    BY <2>1, <2>2
<1> HIDE DEF T
<1>3. Seq(Snapshot) \subseteq T
  BY <1>1, <1>2, ReachedByAppend
<1> QED
  BY <1>3 DEF T

(* A record that is left out takes its size with it.                       *)
LEMMA RecordCounts ==
  ASSUME NEW s \in Seq(Snapshot), NEW keys, NEW rec \in ToSet(s), rec \notin keys
  PROVE  bytes(without(s, keys \cup {rec})) + Weight(rec) <= bytes(without(s, keys))
<1> DEFINE more == keys \cup {rec}
           T == {q \in Seq(Snapshot) : rec \in ToSet(q) =>
                   bytes(without(q, more)) + Weight(rec) <= bytes(without(q, keys))}
<1>1. <<>> \in T
  <2>1. <<>> \in Seq(Snapshot) /\ ToSet(<<>>) = {}
    BY DEF ToSet
  <2> QED
    BY <2>1
<1>2. ASSUME NEW q \in Seq(Snapshot), NEW x \in Snapshot, q \in T, rec \in ToSet(Append(q, x))
      PROVE  bytes(without(Append(q, x), more)) + Weight(rec) <= bytes(without(Append(q, x), keys))
  <2>1. PICK less : less = without(q, more)
    OBVIOUS
  <2>2. PICK left : left = without(q, keys)
    OBVIOUS
  <2>3. less \in Seq(Snapshot) /\ left \in Seq(Snapshot) /\ bytes(less) <= bytes(left)
    BY <2>1, <2>2, WithoutMore, LessIsLeft
  <2>4. /\ bytes(less) \in Nat /\ bytes(left) \in Nat /\ Weight(x) \in Nat
        /\ bytes(Append(less, x)) = bytes(less) + Weight(x)
        /\ bytes(Append(left, x)) = bytes(left) + Weight(x)
    BY <2>3, BytesOfMore, SizesNatural
  <2>5. without(Append(q, x), more) = IF x \in more THEN less ELSE Append(less, x)
    BY <2>1, WithoutMore
  <2>6. without(Append(q, x), keys) = IF x \in keys THEN left ELSE Append(left, x)
    BY <2>2, WithoutMore
  <2>7. CASE x = rec
    BY <2>3, <2>4, <2>5, <2>6, <2>7
  <2>8. CASE x # rec
    <3>1. rec \in ToSet(q)
      BY <1>2, <2>8 DEF ToSet
    <3>2. bytes(less) + Weight(rec) <= bytes(left) /\ rec \in Snapshot
      BY <1>2, <2>1, <2>2, <3>1 DEF ToSet
    <3>3. Weight(rec) \in Nat
      BY <3>2, SizesNatural
    <3>4. CASE x \in keys
      BY <2>5, <2>6, <3>2, <3>4
    <3>5. CASE x \notin keys
      <4>1. without(Append(q, x), more) = Append(less, x)
            /\ without(Append(q, x), keys) = Append(left, x)
        BY <2>5, <2>6, <2>8, <3>5
      <4>2. bytes(less) + Weight(x) + Weight(rec) <= bytes(left) + Weight(x)
        BY <2>4, <3>2, <3>3
      <4>3. bytes(without(Append(q, x), more)) = bytes(less) + Weight(x)
            /\ bytes(without(Append(q, x), keys)) = bytes(left) + Weight(x)
        BY <2>4, <4>1
      <4> QED
        BY <4>2, <4>3
    <3> QED
      BY <3>4, <3>5
  <2> QED
    BY <2>7, <2>8
<1>3. \A q \in Seq(Snapshot), x \in Snapshot : q \in T => Append(q, x) \in T
  <2> TAKE q \in Seq(Snapshot), x \in Snapshot
  <2> HAVE q \in T
  <2>1. Append(q, x) \in Seq(Snapshot)
    OBVIOUS
  <2> QED
    BY <1>2, <2>1
<1> HIDE DEF T
<1>4. Seq(Snapshot) \subseteq T
  BY <1>1, <1>3, ReachedByAppend
<1> QED
  BY <1>4 DEF T

(* Without its first records a sequence is no larger than the rest of it.  *)
LEMMA RestIsLeft ==
  ASSUME NEW s \in Seq(Snapshot), NEW n \in 0..Len(s), NEW keys, ToSet(SubSeq(s, 1, n)) \subseteq keys
  PROVE  bytes(without(s, keys)) <= bytes(SubSeq(s, n + 1, Len(s)))
<1> DEFINE Fits(q, k) == bytes(without(q, keys)) <= bytes(SubSeq(q, k + 1, Len(q)))
           T == {q \in Seq(Snapshot) :
                   \A k \in 0..Len(q) : ToSet(SubSeq(q, 1, k)) \subseteq keys => Fits(q, k)}
<1>1. <<>> \in T
  <2>1. <<>> \in Seq(Snapshot) /\ Len(<<>>) = 0
    OBVIOUS
  <2>2. PICK none : none = <<>>
    OBVIOUS
  <2>3. bytes(without(none, keys)) = 0 /\ bytes(none) = 0
    BY <2>2, WithoutOfNone, BytesOfNone
  <2>4. ASSUME NEW k \in 0..Len(none) PROVE Fits(none, k)
    <3>1. k = 0 /\ Len(none) = 0
      BY <2>1, <2>2, <2>4
    <3>2. SubSeq(none, k + 1, Len(none)) = none
      BY <2>2, <3>1
    <3>3. bytes(SubSeq(none, k + 1, Len(none))) = 0
      BY <2>3, <3>2
    <3> QED
      BY <2>3, <3>3
  <2>5. <<>> \in Seq(Snapshot) /\ \A k \in 0..Len(<<>>) : Fits(<<>>, k)
    BY <2>1, <2>2, <2>4
  <2> HIDE DEF Fits
  <2> QED
    BY <2>5
<1>2. ASSUME NEW q \in Seq(Snapshot), NEW x \in Snapshot, q \in T,
             NEW k \in 0..Len(Append(q, x)), ToSet(SubSeq(Append(q, x), 1, k)) \subseteq keys
      PROVE  Fits(Append(q, x), k)
  <2>1. PICK left : left = without(q, keys)
    OBVIOUS
  <2>2. PICK t : t = Append(q, x)
    OBVIOUS
  <2>3. t \in Seq(Snapshot) /\ Len(t) = Len(q) + 1 /\ Len(q) \in Nat /\ t[Len(t)] = x
        /\ \A j \in 1..Len(q) : t[j] = q[j]
    BY <2>2
  <2>4. /\ left \in Seq(Snapshot) /\ bytes(left) \in Nat
        /\ without(t, keys) = IF x \in keys THEN left ELSE Append(left, x)
        /\ bytes(Append(left, x)) = bytes(left) + Weight(x) /\ Weight(x) \in Nat
    BY <2>1, <2>2, WithoutMore, BytesOfMore, SizesNatural
  <2>5. CASE k = Len(t)
    <3>1. x \in keys /\ ToSet(SubSeq(q, 1, Len(q))) \subseteq keys
      <4>1. SubSeq(t, 1, k) = t /\ SubSeq(q, 1, Len(q)) = q
        BY <2>3, <2>5
      <4>2. x \in ToSet(t) /\ ToSet(q) \subseteq ToSet(t)
        BY <2>3 DEF ToSet
      <4> QED
        BY <1>2, <2>2, <4>1, <4>2
    <3>2. Len(q) \in 0..Len(q)
      BY <2>3
    <3>3. bytes(left) <= bytes(SubSeq(q, Len(q) + 1, Len(q)))
      BY <1>2, <2>1, <3>1, <3>2
    <3>4. SubSeq(q, Len(q) + 1, Len(q)) = <<>> /\ SubSeq(t, k + 1, Len(t)) = <<>>
      BY <2>3, <2>5
    <3>5. without(t, keys) = left
      BY <2>4, <3>1
    <3> QED
      BY <2>2, <3>3, <3>4, <3>5
  <2>6. CASE k # Len(t)
    <3>1. k \in 0..Len(q)
      BY <2>2, <2>3, <2>6
    <3>2. SubSeq(t, 1, k) = SubSeq(q, 1, k)
      BY <2>3, <3>1
    <3>3. bytes(left) <= bytes(SubSeq(q, k + 1, Len(q)))
      BY <1>2, <2>1, <2>2, <3>1, <3>2
    <3>4. PICK rest : rest = SubSeq(q, k + 1, Len(q))
      OBVIOUS
    <3>5. rest \in Seq(Snapshot) /\ SubSeq(t, k + 1, Len(t)) = Append(rest, x)
      <4>1. rest \in Seq(Snapshot) /\ Len(rest) = Len(q) - k
            /\ \A j \in 1..Len(rest) : rest[j] = q[k + j]
        BY <2>3, <3>1, <3>4
      <4>2. PICK tail : tail = SubSeq(t, k + 1, Len(t))
        OBVIOUS
      <4>3. tail \in Seq(Snapshot) /\ Len(tail) = Len(rest) + 1
            /\ \A j \in 1..Len(tail) : tail[j] = t[k + j]
        BY <2>3, <3>1, <4>1, <4>2
      <4>4. tail[Len(tail)] = x
        BY <2>3, <3>1, <4>1, <4>3
      <4>5. \A j \in 1..Len(rest) : tail[j] = rest[j]
        BY <2>3, <3>1, <4>1, <4>3
      <4>6. \A j \in 1..Len(tail) : tail[j] = Append(rest, x)[j]
        BY <4>1, <4>3, <4>4, <4>5
      <4>7. Append(rest, x) \in Seq(Snapshot) /\ Len(Append(rest, x)) = Len(tail)
        BY <4>1, <4>3
      <4>8. tail = Append(rest, x)
        BY <4>3, <4>6, <4>7, SeqEqual
      <4> QED
        BY <4>1, <4>2, <4>8
    <3>6. bytes(Append(rest, x)) = bytes(rest) + Weight(x) /\ bytes(rest) \in Nat
      BY <3>5, BytesOfMore
    <3>7. bytes(without(t, keys)) <= bytes(left) + Weight(x)
      <4>1. bytes(without(t, keys)) \in {bytes(left), bytes(left) + Weight(x)}
        BY <2>4
      <4> QED
        BY <2>4, <4>1
    <3>8. bytes(without(t, keys)) \in Nat
      BY <2>3, <2>4
    <3>9. bytes(SubSeq(t, k + 1, Len(t))) = bytes(rest) + Weight(x) /\ bytes(left) <= bytes(rest)
      BY <3>3, <3>4, <3>5, <3>6
    <3>10. bytes(without(t, keys)) <= bytes(SubSeq(t, k + 1, Len(t)))
      BY <2>4, <3>6, <3>7, <3>8, <3>9
    <3> QED
      BY <2>2, <3>10
  <2> QED
    BY <2>5, <2>6
<1>3. \A q \in Seq(Snapshot), x \in Snapshot : q \in T => Append(q, x) \in T
  <2> TAKE q \in Seq(Snapshot), x \in Snapshot
  <2> HAVE q \in T
  <2>1. Append(q, x) \in Seq(Snapshot)
    OBVIOUS
  <2>2. \A k \in 0..Len(Append(q, x)) :
          ToSet(SubSeq(Append(q, x), 1, k)) \subseteq keys => Fits(Append(q, x), k)
    BY <1>2
  <2> HIDE DEF Fits
  <2> QED
    BY <2>1, <2>2
<1>4. Seq(Snapshot) \subseteq T
  <2> HIDE DEF T
  <2> QED
    BY <1>1, <1>3, ReachedByAppend
<1>5. s \in T
  BY <1>4
<1> QED
  BY <1>5

(* What is left is a sequence of snapshots.                                *)
LEMMA WithoutTyped ==
  ASSUME NEW s \in Seq(Snapshot), NEW keys
  PROVE  without(s, keys) \in Seq(Snapshot) /\ bytes(s) \in Nat
<1>1. PICK f : Filters(f, s, keys)
  BY WithoutUnfolds
<1>2. Len(s) \in 0..Len(s) /\ Len(s) \in Nat
  OBVIOUS
<1>3. bytes(s) \in Nat
  BY <1>2, BytesUnfold
<1> QED
  BY <1>1, <1>2, <1>3 DEF Filters

(* The eviction that is planned brings the rest under the cap.             *)
LEMMA PlanFits ==
  ASSUME NEW s \in Seq(Snapshot), NEW expired, NEW keep, NEW cap \in Nat
  PROVE  bytes(without(s, planEviction(s, expired, keep, cap))) <= cap
<1>1. PICK old : old = ToSet(SubSeq(s, 1, expired)) \cup beyondKeep(s, keep)
  OBVIOUS
<1>2. PICK young : young = without(s, old)
  OBVIOUS
<1>3. young \in Seq(Snapshot)
  BY <1>2, WithoutTyped
<1> DEFINE N == {n \in 0..Len(young) : bytes(SubSeq(young, n + 1, Len(young))) <= cap}
<1>4. Len(young) \in N
  <2>1. SubSeq(young, Len(young) + 1, Len(young)) = <<>> /\ Len(young) \in 0..Len(young)
    BY <1>3
  <2>2. bytes(SubSeq(young, Len(young) + 1, Len(young))) = 0
    BY <2>1, BytesOfNone
  <2>3. bytes(SubSeq(young, Len(young) + 1, Len(young))) <= cap
    BY <2>2
  <2> QED
    BY <2>1, <2>3
<1>5. PICK n \in N : n = Min(N)
  <2>1. N \subseteq Nat /\ N # {}
    BY <1>4
  <2>2. \E x \in N : \A y \in N : x <= y
    BY <2>1, LeastNatural
  <2> HIDE DEF N
  <2> QED
    BY <2>2 DEF Min
<1>6. beyondCap(young, cap) = ToSet(SubSeq(young, 1, n))
  BY <1>5 DEF beyondCap
<1>7. bytes(without(young, beyondCap(young, cap))) <= bytes(SubSeq(young, n + 1, Len(young)))
  BY <1>3, <1>6, RestIsLeft
<1>8. without(young, beyondCap(young, cap)) = without(s, planEviction(s, expired, keep, cap))
  <2>1. planEviction(s, expired, keep, cap) = old \cup beyondCap(young, cap)
    BY <1>1, <1>2 DEF planEviction
  <2> QED
    BY <1>2, <2>1, WithoutTwice
<1>9. bytes(SubSeq(young, n + 1, Len(young))) <= cap
  BY <1>5
<1>10. bytes(SubSeq(young, n + 1, Len(young))) \in Nat
       /\ bytes(without(young, beyondCap(young, cap))) \in Nat
  <2>1. SubSeq(young, n + 1, Len(young)) \in Seq(Snapshot)
    BY <1>3
  <2>2. without(young, beyondCap(young, cap)) \in Seq(Snapshot)
    BY <1>3, WithoutTyped
  <2> QED
    BY <2>1, <2>2, WithoutTyped
<1> QED
  BY <1>7, <1>8, <1>9, <1>10
----------------------------------------------------------------------------
(* The store of snapshots.                                                 *)

(* What some actor is removing from the catalog.                           *)
planned == UNION {doomed[a] : a \in Actors}

(* Without what is on its way out, the store is within the cap.            *)
StoreInv ==
  /\ catalog \in Seq(Snapshot)
  /\ doomed = [a \in Actors |-> doomed[a]]
  /\ ~overdue => bytes(without(catalog, planned)) <= snapshotByteCap

Registers == \E r \in Runs, rec \in Snapshot : registerSnapshot(r, rec) /\ overdue' = FALSE
Drops == \E a \in Actors : dropFromCatalog(a) /\ UNCHANGED overdue
Touches ==
  \E rec \in Snapshot : /\ catalog' \in {touchSnapshot(rec), without(catalog, {rec})}
                        /\ UNCHANGED <<doomed, overdue>>
Plans ==
  \E more : /\ doomed[Operator] = {} /\ doomed' = [doomed EXCEPT ![Operator] = more]
            /\ UNCHANGED <<catalog, overdue>>

StoreStep ==
  UNCHANGED setup /\ (UNCHANGED <<catalog, doomed, overdue>> \/ Registers \/ Drops \/ Touches \/ Plans
                      \/ crashes)

(* What a run makes is a snapshot.                                         *)
LEMMA KeysAreSnapshots ==
  ASSUME SandboxTyped, NEW r \in Runs
  PROVE  /\ warmKey(work[r].agent) \in Snapshot
         /\ taskKey(work[r].task, work[r].agent) \in Snapshot
BY DEF SandboxTyped, Work, warmKey, taskKey, Snapshot

(* A commit registers the snapshot or leaves the store alone.              *)
LEMMA CommitSteps ==
  ASSUME NEW r \in Runs, NEW rec \in Snapshot, NEW evicting, NEW failing,
         commit(r, rec, evicting, failing)
  PROVE  UNCHANGED <<catalog, doomed, overdue>> \/ Registers
BY DEF commit, Registers

(* Every step of the specification is one of these.                        *)
LEMMA StepsOfStore ==
  ASSUME SandboxTyped, [Next]_vars
  PROVE  StoreStep
<1> DEFINE Kept == UNCHANGED <<catalog, doomed, overdue>>
<1>1. UNCHANGED setup
  BY StepsOfApprovals
<1>2. CASE UNCHANGED vars
  BY <1>2 DEF vars, sandboxVars, sandboxButPc, dockerVars, StoreStep
<1>3. ASSUME NEW t \in TaskIds, NEW desired \in BOOLEAN, RefusedTask(t, desired) PROVE Kept
  BY <1>3 DEF RefusedTask, sandboxVars, sandboxButPc, dockerVars
<1>4. ASSUME NEW r \in Runs, NEW t \in TaskIds, NEW slot \in Slots, RunTask(r, t, slot) PROVE Kept
  BY <1>4 DEF RunTask, dockerVars
<1>5. ASSUME NEW r \in Runs, NEW ok \in BOOLEAN, ImageReady(r, ok) PROVE Kept
  BY <1>5 DEF ImageReady
<1>6. ASSUME NEW r \in Runs,
             \/ createContainer(r) \/ Checkout(r) \/ AcquireFails(r) \/ ReleaseSandbox(r)
             \/ executeTask(r) \/ BootFails(r)
      PROVE  Kept
  BY <1>6 DEF createContainer, Checkout, AcquireFails, ReleaseSandbox, executeTask, BootFails,
     sandboxButPc, dockerVars
<1>7. ASSUME NEW r \in Runs,
             \/ ProcessTimesOut(r) \/ KillProcess(r) \/ forceExit(r) \/ RunSettles(r)
             \/ \E ok \in BOOLEAN : ProcessCloses(r, ok)
      PROVE  Kept
  BY <1>7 DEF ProcessTimesOut, KillProcess, forceExit, RunSettles, ProcessCloses, keepsTheRest,
     dockerVars
<1>8. ASSUME NEW r \in Runs, CommitWarm(r) \/ CommitTask(r) PROVE Kept \/ Registers
  <2>1. CASE CommitWarm(r)
    BY <2>1, KeysAreSnapshots, CommitSteps DEF CommitWarm
  <2>2. CASE CommitTask(r)
    BY <2>2, KeysAreSnapshots, CommitSteps DEF CommitTask
  <2> QED
    BY <1>8, <2>1, <2>2
<1>9. ASSUME NEW r \in Runs, restoreSnapshot(r) PROVE Touches
  <2>1. warmKey(work[r].agent) \in Snapshot
    BY KeysAreSnapshots
  <2> QED
    BY <1>9, <2>1 DEF restoreSnapshot, Touches
<1>10. ASSUME NEW a \in Actors, Evict(a) PROVE Kept \/ Drops
  BY <1>10 DEF Evict, EvictionStep, Drops
<1>11. ASSUME NEW r \in Runs, Advance(r) PROVE StoreStep
  <2>1. r \in Actors
    BY DEF Actors
  <2> QED
    BY <1>1, <1>5, <1>6, <1>7, <1>8, <1>9, <1>10, <1>11, <2>1 DEF Advance, SandboxStep, StoreStep
<1>12. ASSUME NEW rec \in approvals, NEW decision, CliApprove(rec) \/ Decide(rec, decision) PROVE Kept
  BY <1>12 DEF CliApprove, Decide, sandboxVars, sandboxButPc, dockerVars
<1>13. CASE BesideTheDrain
  <2>1. CASE GcOrphanSandboxes
    BY <1>1, <2>1 DEF GcOrphanSandboxes, StoreStep
  <2>2. CASE PruneSandboxSnapshots(0)
    BY <1>1, <2>2 DEF PruneSandboxSnapshots, dockerVars, StoreStep, Plans
  <2>3. CASE Evict(Operator)
    BY <1>1, <1>10, <2>3 DEF Actors, StoreStep
  <2> QED
    BY <1>13, <2>1, <2>2, <2>3 DEF BesideTheDrain
<1>14. CASE Crash
  BY <1>1, <1>14 DEF Crash, StoreStep
<1> QED
  BY <1>1, <1>2, <1>3, <1>4, <1>7, <1>11, <1>12, <1>13, <1>14 DEF Next, StoreStep

(* Leaving out a superset keeps the rest within the cap.                   *)
LEMMA StillFits ==
  ASSUME NEW s \in Seq(Snapshot), NEW keys, NEW more, NEW cap \in Nat, keys \subseteq more,
         bytes(without(s, keys)) <= cap
  PROVE  bytes(without(s, more)) <= cap
<1>1. bytes(without(s, more)) <= bytes(without(s, keys))
  BY LessIsLeft
<1>2. bytes(without(s, more)) \in Nat /\ bytes(without(s, keys)) \in Nat
  BY WithoutTyped
<1> QED
  BY <1>1, <1>2

(* A record put last leaves the size as it was.                            *)
LEMMA TouchFits ==
  ASSUME NEW s \in Seq(Snapshot), NEW keys, NEW rec \in ToSet(s)
  PROVE  bytes(without(Append(without(s, {rec}), rec), keys)) <= bytes(without(s, keys))
<1>1. rec \in Snapshot
  BY DEF ToSet
<1>2. PICK rest : rest = without(s, {rec})
  OBVIOUS
<1>3. rest \in Seq(Snapshot) /\ without(rest, keys) = without(s, {rec} \cup keys)
  BY <1>2, WithoutTyped, WithoutTwice
<1>4. without(Append(rest, rec), keys)
        = IF rec \in keys THEN without(rest, keys) ELSE Append(without(rest, keys), rec)
  BY <1>1, <1>3, WithoutMore
<1>5. CASE rec \in keys
  <2>1. bytes(without(s, {rec} \cup keys)) <= bytes(without(s, keys))
    BY LessIsLeft
  <2> QED
    BY <1>2, <1>3, <1>4, <1>5, <2>1
<1>6. CASE rec \notin keys
  <2>1. bytes(without(s, keys \cup {rec})) + Weight(rec) <= bytes(without(s, keys))
    BY <1>6, RecordCounts
  <2>2. {rec} \cup keys = keys \cup {rec}
    OBVIOUS
  <2>3. bytes(Append(without(rest, keys), rec)) = bytes(without(rest, keys)) + Weight(rec)
    BY <1>1, <1>3, WithoutTyped, BytesOfMore
  <2> QED
    BY <1>2, <1>3, <1>4, <1>6, <2>1, <2>2, <2>3
<1> QED
  BY <1>5, <1>6

(* A set of one actor is among what is planned.                            *)
LEMMA PlannedByAll == \A a \in Actors : doomed[a] \subseteq planned
BY DEF planned

(* Every step keeps the store within the cap but for what is on its way    *)
(* out of it.                                                              *)
LEMMA StoreInvStep ==
  ASSUME SandboxTyped, StoreInv, [Next]_vars
  PROVE  StoreInv'
<1> DEFINE cap == snapshotByteCap
<1>1. StoreStep
  BY StepsOfStore
<1>2. cap \in Nat /\ cap' = cap
  BY <1>1, TaskRunAssumption DEF SandboxTyped, StoreStep, snapshotByteCap, Policy
<1> HIDE DEF cap
<1>3. SUFFICES /\ catalog' \in Seq(Snapshot)
               /\ doomed' = [a \in Actors |-> doomed'[a]]
               /\ ~overdue' => bytes(without(catalog', planned')) <= cap
  BY <1>2 DEF StoreInv, cap
<1>4. ~overdue => bytes(without(catalog, planned)) <= cap
  BY DEF StoreInv, cap
<1>5. CASE UNCHANGED <<catalog, doomed, overdue>>
  BY <1>4, <1>5 DEF StoreInv, planned
<1>6. CASE Registers
  <2>1. PICK r \in Runs, rec \in Snapshot : registerSnapshot(r, rec)
    BY <1>6 DEF Registers
  <2>2. PICK expired \in 0..Len(catalog) :
          /\ catalog' = registered(rec)
          /\ doomed' = [doomed EXCEPT ![r] =
               planEviction(registered(rec), expired, spec(r).keep, snapshotByteCap)]
    BY <2>1 DEF registerSnapshot
  <2>3. without(catalog, {rec}) \in Seq(Snapshot)
    BY WithoutTyped DEF StoreInv
  <2>4. catalog' \in Seq(Snapshot)
    BY <2>2, <2>3 DEF registered
  <2> DEFINE plan == planEviction(registered(rec), expired, spec(r).keep, cap)
  <2>5. bytes(without(catalog', plan)) <= cap
    BY <1>2, <2>2, <2>4, PlanFits
  <2>6. doomed' = [doomed EXCEPT ![r] = plan]
    BY <2>2 DEF cap
  <2> HIDE DEF plan
  <2>7. doomed' = [a \in Actors |-> doomed'[a]] /\ doomed'[r] = plan /\ r \in Actors
    BY <2>6 DEF StoreInv, Actors
  <2>8. plan \subseteq planned'
    BY <2>7 DEF planned
  <2> QED
    BY <1>2, <2>4, <2>5, <2>7, <2>8, StillFits
<1>7. CASE Drops
  <2>1. PICK a \in Actors : dropFromCatalog(a) /\ UNCHANGED overdue
    BY <1>7 DEF Drops
  <2>2. /\ catalog' = without(catalog, doomed[a])
        /\ doomed' = [doomed EXCEPT ![a] = {}]
    BY <2>1 DEF dropFromCatalog
  <2>3. planned = doomed[a] \cup planned'
    <3>1. \A b \in Actors : doomed'[b] = IF b = a THEN {} ELSE doomed[b]
      BY <2>2 DEF StoreInv
    <3> QED
      BY <3>1 DEF planned
  <2>4. without(catalog', planned') = without(catalog, planned)
    BY <2>2, <2>3, WithoutTwice DEF StoreInv
  <2>5. catalog' \in Seq(Snapshot)
    BY <2>2, WithoutTyped DEF StoreInv
  <2>6. doomed' = [b \in Actors |-> doomed'[b]]
    BY <2>2 DEF StoreInv
  <2> QED
    BY <1>4, <2>1, <2>4, <2>5, <2>6
<1>8. CASE Touches
  <2>1. PICK rec \in Snapshot : /\ catalog' \in {touchSnapshot(rec), without(catalog, {rec})}
                                /\ UNCHANGED <<doomed, overdue>>
    BY <1>8 DEF Touches
  <2>2. catalog \in Seq(Snapshot) /\ without(catalog, {rec}) \in Seq(Snapshot)
    BY WithoutTyped DEF StoreInv
  <2>3. planned' = planned /\ doomed' = [a \in Actors |-> doomed'[a]]
    BY <2>1 DEF planned, StoreInv
  <2>4. CASE catalog' = catalog
    BY <1>4, <2>1, <2>2, <2>3, <2>4
  <2>5. CASE catalog' = without(catalog, {rec})
    <3>1. without(catalog', planned) = without(catalog, {rec} \cup planned)
      BY <2>2, <2>5, WithoutTwice
    <3>2. ~overdue => bytes(without(catalog, {rec} \cup planned)) <= cap
      BY <1>2, <1>4, <2>2, StillFits
    <3> QED
      BY <2>1, <2>2, <2>3, <2>5, <3>1, <3>2
  <2>6. CASE rec \in ToSet(catalog) /\ catalog' = registered(rec)
    <3>1. bytes(without(catalog', planned)) <= bytes(without(catalog, planned))
      BY <2>2, <2>6, TouchFits DEF registered
    <3>2. catalog' \in Seq(Snapshot)
      BY <2>2, <2>6 DEF registered
    <3>3. bytes(without(catalog', planned)) \in Nat /\ bytes(without(catalog, planned)) \in Nat
      BY <2>2, <3>2, WithoutTyped
    <3>4. ~overdue => bytes(without(catalog', planned)) <= cap
      BY <1>2, <1>4, <3>1, <3>3
    <3> QED
      BY <2>1, <2>3, <3>2, <3>4
  <2> QED
    BY <2>1, <2>4, <2>5, <2>6 DEF touchSnapshot
<1>9. CASE Plans
  <2>1. PICK more : /\ doomed[Operator] = {} /\ doomed' = [doomed EXCEPT ![Operator] = more]
                    /\ UNCHANGED <<catalog, overdue>>
    BY <1>9 DEF Plans
  <2>2. \A a \in Actors : doomed[a] \subseteq doomed'[a]
    BY <2>1 DEF StoreInv
  <2>3. planned \subseteq planned'
    BY <2>2 DEF planned
  <2>4. doomed' = [a \in Actors |-> doomed'[a]]
    BY <2>1 DEF StoreInv
  <2>5. ~overdue => bytes(without(catalog, planned')) <= cap
    BY <1>2, <1>4, <2>3, StillFits DEF StoreInv
  <2> QED
    BY <2>1, <2>4, <2>5 DEF StoreInv
<1>10. CASE crashes
  <2>1. /\ doomed' = [a \in Actors |-> IF a = Operator THEN doomed[a] ELSE {}]
        /\ overdue' = (overdue \/ \E r \in Runs : doomed[r] # {})
        /\ catalog' = catalog
    BY <1>10 DEF crashes
  <2>2. ASSUME ~overdue' PROVE bytes(without(catalog', planned')) <= cap
    <3>1. ~overdue /\ \A r \in Runs : doomed[r] = {}
      BY <2>1, <2>2
    <3>2. \A a \in Actors : doomed'[a] = doomed[a]
      BY <2>1, <3>1 DEF Actors
    <3>3. planned' = planned
      BY <3>2 DEF planned
    <3> QED
      BY <1>4, <2>1, <3>1, <3>3
  <2> QED
    BY <2>1, <2>2 DEF StoreInv
<1> QED
  BY <1>1, <1>5, <1>6, <1>7, <1>8, <1>9, <1>10 DEF StoreStep

(* Nothing is stored at first.                                             *)
LEMMA StoreInvInit ==
  ASSUME Init
  PROVE  StoreInv
<1>1. catalog = <<>> /\ doomed = [a \in Actors |-> {}]
  BY DEF Init, Init_Sandbox
<1>2. catalog \in Seq(Snapshot) /\ doomed = [a \in Actors |-> doomed[a]]
  BY <1>1
<1>3. bytes(without(catalog, planned)) = 0
  BY <1>1, WithoutOfNone, BytesOfNone
<1>4. snapshotByteCap \in Nat
  BY TaskRunAssumption DEF Init, snapshotByteCap, Policy
<1> QED
  BY <1>2, <1>3, <1>4 DEF StoreInv

(* However the evictions of runs and of the operator overlap, the catalog  *)
(* is within the byte cap of the policy whenever none is under way and no  *)
(* crash cut one short: sandbox/store.ts.                                  *)
THEOREM StoreStaysWithinCap == Spec => []StoreWithinCap
<1>1. RunInv /\ StoreInv /\ [Next]_vars => StoreInv'
  BY StoreInvStep DEF RunInv
<1>2. StoreInv => StoreWithinCap
  <2> SUFFICES ASSUME StoreInv, ~overdue, \A a \in Actors : doomed[a] = {}
               PROVE  bytes(catalog) <= snapshotByteCap
    BY DEF StoreWithinCap
  <2>1. planned = {}
    BY DEF planned
  <2> QED
    BY <2>1, AllIsLeft DEF StoreInv
<1>3. Spec => []StoreInv
  BY <1>1, StoreInvInit, RunInvariant, PTL DEF Spec
<1> QED
  BY <1>2, <1>3, PTL
=============================================================================
