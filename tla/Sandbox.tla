------------------------------ MODULE Sandbox -------------------------------
(***************************************************************************)
(* The isolates tasks run in: the environment image that concurrent runs   *)
(* build once, the container and scratch directory of a run, the warm and  *)
(* task snapshots with their catalog, images and tarballs, the eviction    *)
(* that awaits docker between its plan and its effect, and the collection  *)
(* of what is left over.                                                   *)
(*                                                                         *)
(* Sources: sandbox/docker.ts, sandbox/store.ts, sandbox/image.ts,         *)
(* sandbox/index.ts, sandbox/local.ts and worktree.ts of src/src.  Each    *)
(* action is the code between two awaits.  A docker command that fails,    *)
(* times out or finds no runtime is a failure like any other (client.ts).  *)
(***************************************************************************)
EXTENDS Runtimes, Sequences, SequencesExt

CONSTANTS
  Agents,
  Slots,         \* worker ids; the scratch directory is named after one
  Runs,          \* runs that a drain has in progress at a time
  Operator,      \* a `sandboxes prune` of the operator
  LiveInFile,    \* slots the state file shows as pending or running
  SizeOf,        \* size of a tarball, by kind of snapshot
  InSession      \* whether the control plane runs in a session container

Actors == Runs \cup {Operator}

ASSUME SandboxAssumption ==
  /\ Operator \notin Runs /\ IsFiniteSet(Runs)
  /\ LiveInFile \subseteq Slots
  /\ SizeOf \in [{"warm", "task"} -> Nat] /\ InSession \in BOOLEAN

VARIABLES
  setup,      \* sandbox and runtime block of each agent, policy, environment
  pc,         \* what each run awaits
  work,       \* the task, agent, slot and outcome of each run
  inflight,   \* the run that builds the environment image of an agent
  envImages,  \* agents whose environment image is present
  containers, \* runs whose container is up
  leaked,     \* containers of a slot whose run is over
  scratch,    \* slots with a scratch directory
  catalog,    \* the snapshots, least recently used first
  images,     \* snapshot images present
  tars,       \* tarballs present
  doomed,     \* what each actor is evicting
  \* history
  lost,       \* failed removals of a container of a slot, and crashes
  stale,      \* slots whose scratch a crash left
  overdue     \* a crash cut an eviction short

dockerVars == <<envImages, containers, leaked, scratch, catalog, images, tars, lost, stale>>
sandboxButPc == <<setup, work, inflight, doomed, overdue, dockerVars>>
sandboxVars == <<pc, sandboxButPc>>

spec(r) == setup.spec[work[r].agent]
isDocker(r) == spec(r).provider = "docker"
clones(r) == spec(r).repo = "clone"

warmKey(a) == [kind |-> "warm", of |-> a, env |-> a]
taskKey(t, a) == [kind |-> "task", of |-> t, env |-> a]

(* Phases in which a run owns a scratch directory.                         *)
holding == {"create", "checkout", "commitWarm", "evictWarm", "boot", "execute", "term", "kill",
            "release", "commitTask", "evictTask", "dispose"}
awaited == holding \cup {"image", "restore", "end"}

idle == [task |-> <<>>, agent |-> CHOOSE a \in Agents : TRUE, slot |-> CHOOSE s \in Slots : TRUE,
         ok |-> FALSE, hit |-> FALSE, build |-> Operator]

goes(r, phase) == pc' = [pc EXCEPT ![r] = phase]

Init_Sandbox ==
  /\ pc = [r \in Runs |-> "free"] /\ work = [r \in Runs |-> idle]
  /\ inflight = [a \in Agents |-> Operator]
  /\ envImages = {} /\ containers = {} /\ leaked = [s \in Slots |-> 0] /\ scratch = {}
  /\ catalog = <<>> /\ images = {} /\ tars = {} /\ doomed = [a \in Actors |-> {}]
  /\ lost = [s \in Slots |-> 0] /\ stale = {} /\ overdue = FALSE

----------------------------------------------------------------------------
(* Retention.  Ages only matter for the time to live: whatever is older    *)
(* than some record is older than all used after it.                       *)

bytes(records) ==
  LET upTo[n \in 0..Len(records)] == IF n = 0 THEN 0 ELSE upTo[n - 1] + SizeOf[records[n].kind]
  IN  upTo[Len(records)]

without(records, keys) ==
  LET upTo[n \in 0..Len(records)] ==
        IF n = 0 THEN <<>>
        ELSE IF records[n] \in keys THEN upTo[n - 1] ELSE Append(upTo[n - 1], records[n])
  IN  upTo[Len(records)]

(* Newest records kept for each environment.                               *)
beyondKeep(records, keep) ==
  {records[i] : i \in {i \in DOMAIN records :
     Cardinality({j \in DOMAIN records : j > i /\ records[j].env = records[i].env}) >= keep}}

(* The fewest of the least recently used that bring the rest under the cap.*)
beyondCap(records, cap) ==
  LET n == Min({n \in 0..Len(records) : bytes(SubSeq(records, n + 1, Len(records))) <= cap})
  IN  ToSet(SubSeq(records, 1, n))

planEviction(records, expired, keep, cap) ==
  LET old == ToSet(SubSeq(records, 1, expired)) \cup beyondKeep(records, keep)
  IN  old \cup beyondCap(without(records, old), cap)

noCap == bytes(catalog)
snapshotByteCap == setup.policy.maxSnapshotBytes

registered(rec) == Append(without(catalog, {rec}), rec)

(* Evict before the new record is registered.                              *)
planBeforeRegister(r, rec) ==
  \E expired \in 0..Len(catalog) :
    /\ catalog' = registered(rec)
    /\ doomed' = [doomed EXCEPT ![r] = planEviction(catalog, expired, spec(r).keep, snapshotByteCap)]

registerSnapshot(r, rec) ==
  \E expired \in 0..Len(catalog) :
    /\ catalog' = registered(rec)
    /\ doomed' = [doomed EXCEPT ![r] = planEviction(registered(rec), expired, spec(r).keep,
                                                    snapshotByteCap)]

(* `docker commit`, `docker save`, then the catalog.  A save that fails    *)
(* leaves an image that no entry names.                                    *)
commit(r, rec, evicting, failing) ==
  \/ /\ images' \in {images} \cup (IF r \in containers THEN {images \cup {rec}} ELSE {})
     /\ goes(r, failing)
     /\ UNCHANGED <<catalog, tars, doomed, overdue>>
  \/ /\ r \in containers
     /\ images' = images \cup {rec} /\ tars' = tars \cup {rec}
     /\ registerSnapshot(r, rec) /\ overdue' = FALSE
     /\ goes(r, evicting)

inUse(rec) == \E r \in containers : work[r].hit /\ rec = warmKey(work[r].agent)

(* Tarball and image of one record; an image in use is not removed.        *)
evictSnapshots(actor) ==
  \E rec \in doomed[actor] \cap tars :
    /\ tars' = tars \ {rec}
    /\ images' = IF inUse(rec) THEN images ELSE images \ {rec}

dropFromCatalog(actor) ==
  /\ catalog' = without(catalog, doomed[actor])
  /\ doomed' = [doomed EXCEPT ![actor] = {}]

(* What the actor still has to remove; the catalog is last.                *)
EvictionStep(actor) ==
  \/ evictSnapshots(actor) /\ UNCHANGED <<catalog, doomed, pc>>
  \/ /\ doomed[actor] \cap tars = {} /\ dropFromCatalog(actor)
     /\ UNCHANGED <<images, tars>>
     /\ IF actor \in Runs THEN goes(actor, IF pc[actor] = "evictWarm" THEN "boot" ELSE "dispose")
                          ELSE UNCHANGED pc

Evict(actor) ==
  /\ actor \in Runs => pc[actor] \in {"evictWarm", "evictTask"}
  /\ actor = Operator => doomed[Operator] # {}
  /\ EvictionStep(actor)
  /\ UNCHANGED <<setup, work, inflight, overdue, envImages, containers, leaked, scratch, lost, stale>>

PruneSandboxSnapshots(keep) ==
  /\ doomed[Operator] = {} /\ planEviction(catalog, 0, keep, noCap) # {}
  /\ doomed' = [doomed EXCEPT ![Operator] = planEviction(catalog, 0, keep, noCap)]
  /\ UNCHANGED <<setup, pc, work, inflight, overdue, dockerVars>>

----------------------------------------------------------------------------
(* The environment image.                                                  *)

building(r) == pc[r] = "image" /\ work[r].build = r

(* Every run asks docker and builds for itself.                            *)
buildAgain(r, a, given) ==
  /\ work' = [work EXCEPT ![r] = [given EXCEPT !.build = r]]
  /\ inflight' = [inflight EXCEPT ![a] = r]

ensureEnvImage(r, a, given) ==
  /\ work' = [work EXCEPT ![r] = [given EXCEPT !.build = IF inflight[a] = Operator THEN r
                                                         ELSE inflight[a]]]
  /\ inflight' = [inflight EXCEPT ![a] = IF @ = Operator THEN r ELSE @]

(* The catalog entry is read now and used after the image is inspected.    *)
afterImage(r) ==
  IF clones(r) /\ spec(r).warmSnapshot /\ warmKey(work[r].agent) \in ToSet(catalog)
    THEN "restore" ELSE "create"

(* A run that starts its container makes its scratch directory first.      *)
makesScratch(rs) ==
  scratch' = scratch \cup {work[r].slot : r \in {r \in rs : pc'[r] = "create" /\ spec(r).repo # "mount"}}

(* The image is there, or was built; a build that fails fails every run    *)
(* that awaits it.                                                         *)
ImageReady(r, ok) ==
  LET a == work[r].agent
      waiting == {q \in Runs : pc[q] = "image" /\ work[q].build = r}
  IN  /\ building(r) /\ (a \in envImages => ok)
      /\ envImages' = IF ok THEN envImages \cup {a} ELSE envImages
      /\ inflight' = [inflight EXCEPT ![a] = IF @ = r THEN Operator ELSE @]
      /\ pc' = [q \in Runs |-> IF q \in waiting THEN IF ok THEN afterImage(q) ELSE "end"
                               ELSE pc[q]]
      /\ makesScratch(waiting)
      /\ UNCHANGED <<setup, work, doomed, overdue, containers, leaked, catalog, images, tars,
                     lost, stale>>

----------------------------------------------------------------------------
(* The container.                                                          *)

touchSnapshot(rec) == IF rec \in ToSet(catalog) THEN registered(rec) ELSE catalog

restoreSnapshot(r) ==
  LET rec == warmKey(work[r].agent)
  IN  /\ pc[r] = "restore" /\ goes(r, "create") /\ makesScratch({r})
      /\ \/ /\ rec \in images \cup tars
            /\ images' = images \cup {rec} /\ catalog' = touchSnapshot(rec)
            /\ work' = [work EXCEPT ![r].hit = TRUE]
         \/ /\ rec \notin images
            /\ catalog' = without(catalog, {rec})
            /\ UNCHANGED <<images, work>>
      /\ UNCHANGED <<setup, inflight, doomed, overdue, envImages, containers, leaked, tars, lost, stale>>

startImagePresent(r) == work[r].hit => warmKey(work[r].agent) \in images

createContainer(r) ==
  /\ pc[r] = "create" /\ startImagePresent(r)
  /\ containers' = containers \cup {r}
  /\ goes(r, IF clones(r) THEN "checkout" ELSE "boot")
  /\ UNCHANGED <<setup, work, inflight, doomed, overdue, envImages, leaked, scratch, catalog, images,
                 tars, lost, stale>>

Checkout(r) ==
  /\ pc[r] = "checkout" /\ r \in containers
  /\ goes(r, IF spec(r).warmSnapshot /\ ~work[r].hit THEN "commitWarm" ELSE "boot")
  /\ UNCHANGED sandboxButPc

(* A warm snapshot is an optimisation: the task goes on without it.        *)
CommitWarm(r) ==
  /\ pc[r] = "commitWarm" /\ commit(r, warmKey(work[r].agent), "evictWarm", "boot")
  /\ UNCHANGED <<setup, work, inflight, envImages, containers, leaked, scratch, lost, stale>>

(* The error of a failed acquisition ends the run.                         *)
failsWithoutDispose(r) ==
  /\ pc[r] \in {"create", "checkout"} /\ goes(r, "end")
  /\ UNCHANGED sandboxButPc

(* Creation or checkout fails: the container goes, the error stays.        *)
AcquireFails(r) ==
  /\ pc[r] \in {"create", "checkout"} /\ goes(r, "dispose")
  /\ UNCHANGED sandboxButPc

ReleaseSandbox(r) ==
  /\ pc[r] = "release"
  /\ goes(r, IF isDocker(r) /\ spec(r).after = "snapshot" THEN "commitTask" ELSE "dispose")
  /\ UNCHANGED sandboxButPc

CommitTask(r) ==
  /\ pc[r] = "commitTask"
  /\ commit(r, taskKey(work[r].task, work[r].agent), "evictTask", "dispose")
  /\ UNCHANGED <<setup, work, inflight, envImages, containers, leaked, scratch, lost, stale>>

(* `docker rm -f` is best effort.                                          *)
removeContainer(r) ==
  \E removed \in IF r \in containers THEN BOOLEAN ELSE {TRUE} :
    /\ containers' = containers \ {r}
    /\ leaked' = [leaked EXCEPT ![work[r].slot] = IF removed THEN @ ELSE @ + 1]
    /\ lost' = [lost EXCEPT ![work[r].slot] = IF removed THEN @ ELSE @ + 1]

dispose(r) ==
  IF ~isDocker(r) THEN UNCHANGED <<containers, leaked, lost, scratch, stale>>
  ELSE /\ removeContainer(r)
       /\ LET dir == IF spec(r).repo = "mount" THEN {} ELSE {work[r].slot}
          IN  scratch' = scratch \ dir /\ stale' = stale \ dir

----------------------------------------------------------------------------
(* `gc` of another command.  What is live comes from the state file, and a *)
(* drain writes its claims there only when it is over.                     *)

usesDockerSandbox == \E a \in Agents : setup.spec[a].provider = "docker"

listSandboxContainers ==
  {s \in Slots : leaked[s] > 0 \/ \E r \in containers : work[r].slot = s}

GcOrphanSandboxes ==
  LET orphans == listSandboxContainers \ LiveInFile
  IN  /\ usesDockerSandbox /\ orphans \cup (scratch \ LiveInFile) # {}
      /\ scratch' = scratch \cap LiveInFile /\ stale' = stale \cap LiveInFile
      /\ containers' = {r \in containers : work[r].slot \notin orphans}
      /\ leaked' = [s \in Slots |-> IF s \in orphans THEN 0 ELSE leaked[s]]
      /\ UNCHANGED <<setup, pc, work, inflight, doomed, overdue, envImages, catalog, images, tars, lost>>

(* The drain is abandoned.                                                 *)
crashes ==
  LET open == {r \in Runs : pc[r] \in holding}
  IN  /\ pc' = [r \in Runs |-> "free"] /\ work' = [r \in Runs |-> idle]
      /\ inflight' = [a \in Agents |-> Operator] /\ containers' = {}
      /\ leaked' = [s \in Slots |-> leaked[s] + Cardinality({r \in containers : work[r].slot = s})]
      /\ lost' = [s \in Slots |-> lost[s] + Cardinality({r \in containers : work[r].slot = s})]
      /\ stale' = stale \cup (scratch \cap {work[r].slot : r \in open})
      /\ overdue' = (overdue \/ \E r \in Runs : doomed[r] # {})
      /\ doomed' = [a \in Actors |-> IF a = Operator THEN doomed[a] ELSE {}]
      /\ UNCHANGED <<setup, envImages, scratch, catalog, images, tars>>

----------------------------------------------------------------------------
(* Every container and every scratch directory belongs to a run that is    *)
(* not over, whichever of its steps failed; what is left otherwise is left *)
(* by a removal that docker refused or by a crash.                         *)
ContainersAccountedFor ==
  /\ \A r \in containers : pc[r] \in holding
  /\ \A s \in Slots : leaked[s] <= lost[s]
  /\ \A s \in scratch \ stale : \E r \in Runs : work[r].slot = s /\ pc[r] \in holding

(* However evictions of concurrent runs and of the operator overlap, the   *)
(* catalog is within the byte cap whenever none is under way.              *)
StoreWithinCap ==
  (~overdue /\ \A a \in Actors : doomed[a] = {}) => bytes(catalog) <= snapshotByteCap

(* Concurrent runs of an agent build its environment image once.           *)
OneBuild ==
  \A q, r \in Runs : building(q) /\ building(r) /\ work[q].agent = work[r].agent => q = r
============================================================================
