----------------------------- MODULE WorkQueue -----------------------------
(***************************************************************************)
(* The work queue of one cluster-state object: enqueue, drain (sweep,      *)
(* reclaim, claim, run in bounded batches), retry and dead-letter, and the *)
(* on-demand worker pool the claims spawn from and release into.           *)
(*                                                                         *)
(* Sources: src/src/queue.ts, scale.ts, scheduler.ts, lifecycle.ts and the *)
(* outcome of runTask in runtime.ts.                                       *)
(*                                                                         *)
(* Time is relative: a lease, a retry delay and an idle worker's warmth    *)
(* are the ticks they have left, so the model needs no clock bound.  The   *)
(* loops of reclaimExpiredLeases and claimPending are one step per         *)
(* iteration; the calls are synchronous, so nothing else moves while pc is *)
(* inside one of them.                                                     *)
(***************************************************************************)
EXTENDS Integers, Sequences, FiniteSets

CONSTANTS
  TaskIds,       \* ids a task may be submitted under
  Agents,        \* names of the desired agents
  TaskAgent,     \* the agent each task is addressed to
  Workers,       \* worker ids agent:replica with replica < maxConcurrent
  WorkerAgent,   \* the agent a worker id belongs to
  OnDemand,      \* the agents whose scale is onDemand; the others are static
  Placeable,     \* the workers that pass canPlace for a task, see pickable
  OldImage,      \* standing workers a canary holds on an earlier image
  IdleTTL,       \* ticks an idle on-demand worker of an agent is kept warm
  PolicyCap,     \* Policy.maxReplicas, the cluster-wide ceiling
  MaxAttempts,   \* claims before a failing item is dead-lettered
  LeaseTime,     \* ticks a claim's lease lasts
  Backoff,       \* ticks before the retry that follows the n-th attempt
  Concurrency,   \* runs awaited together, after clampDrainConcurrency
  Limits,        \* claim limits a drain may be called with
  Scopes,        \* sets of ids a drain may be restricted to (taskIdPrefix)
  MaxItems,      \* bound: items ever pushed on the queue
  Hazards        \* the adverse conditions admitted, see HazardKinds

(* redelivery: an id is submitted again after its first item left pending. *)
(* deliveryThrows: writing the outcome to the task manifest throws.        *)
(* drainDies: a drain is abandoned, its claims stay behind.                *)
(* sharedObject: commands run on the object while a drain awaits its runs. *)
HazardKinds == {"redelivery", "deliveryThrows", "drainDies", "sharedObject"}

NoWorker == "none"

(* Bound: budget charges of one item are counted up to two. *)
MaxCharges == 2

ASSUME QueueAssumption ==
  /\ TaskAgent \in [TaskIds -> Agents]
  /\ IsFiniteSet(Workers) /\ NoWorker \notin Workers
  /\ WorkerAgent \in [Workers -> Agents]
  /\ OnDemand \subseteq Agents
  /\ Placeable \in [TaskIds -> SUBSET Workers]
  /\ OldImage \subseteq {w \in Workers : WorkerAgent[w] \notin OnDemand}
  /\ IdleTTL \in [Agents -> Nat]
  /\ PolicyCap \in Nat
  /\ MaxAttempts \in Nat \ {0}
  /\ LeaseTime \in Nat \ {0}
  /\ Backoff \in [1..MaxAttempts -> Nat]
  /\ Concurrency \in Nat \ {0}
  /\ Limits \subseteq Nat \ {0}
  /\ Scopes \subseteq SUBSET TaskIds
  /\ MaxItems \in Nat
  /\ Hazards \subseteq HazardKinds

(* Standing pools that the policy admits: applyReplicaCap has capped them. *)
ASSUME StandingPoolFits ==
  Cardinality({w \in Workers : WorkerAgent[w] \notin OnDemand}) <= PolicyCap

VARIABLES
  queue,     \* state.queue, in enqueue order
  workers,   \* state.workers by id; a retired record counts as absent
  paused,    \* state.queuePaused
  pc,        \* the queue call in progress
  job,       \* options of the drain in progress
  expired,   \* indexes whose lease the reclaim in progress found expired
  todo,      \* indexes the claim loop still has to visit
  waiting,   \* claims of the drain whose run has not started
  flight     \* claims whose run is being awaited

vars == <<queue, workers, paused, pc, job, expired, todo, waiting, flight>>

drainVars == <<pc, job, expired, todo, waiting, flight>>

----------------------------------------------------------------------------
(* Types. *)

ItemStatus == {"pending", "claimed", "done", "failed", "dead"}

Item == [id : TaskIds, st : ItemStatus, attempts : 0..MaxAttempts,
         worker : Workers \cup {NoWorker}, lease : 0..LeaseTime, wait : Nat,
         charges : 0..MaxCharges]

Worker == [st : {"retired", "idle", "running"}, cordoned : BOOLEAN, warm : Nat]

ClaimRecord == [id : TaskIds, worker : Workers]

Phases == {"rest", "reclaim", "sweepReclaim", "claimReclaim", "claim", "run"}

NoJob == [limit |-> 0, scope |-> {}]

TypeOK ==
  /\ queue \in Seq(Item)
  /\ workers \in [Workers -> Worker]
  /\ paused \in BOOLEAN
  /\ pc \in Phases
  /\ job \in [limit : Nat, scope : SUBSET TaskIds]
  /\ expired \subseteq DOMAIN queue
  /\ todo \subseteq DOMAIN queue
  /\ waiting \subseteq ClaimRecord
  /\ flight \subseteq ClaimRecord

----------------------------------------------------------------------------
(* The worker pool.  A definition named for a slip (keepIdleWorkers,       *)
(* pickBusyToo...) is the form its successor would take with a plausible   *)
(* bug; it is used by no action.                                           *)

RetiredWorker == [st |-> "retired", cordoned |-> FALSE, warm |-> 0]

FreshWorker == [st |-> "running", cordoned |-> FALSE, warm |-> 0]

IdleWorker == [st |-> "idle", cordoned |-> FALSE, warm |-> 0]

isOnDemand(w) == WorkerAgent[w] \in OnDemand

Live == {w \in Workers : workers[w].st # "retired"}

(* The hard gates of a pick: the labels the agent requires and the taints  *)
(* the task has to tolerate, both copied to a worker when it is created,   *)
(* and the image of the agent's definition.  No agent is redefined here,   *)
(* so both are constants.                                                  *)
mayServe(w, id) ==
  WorkerAgent[w] = TaskAgent[id] /\ w \in Placeable[id] /\ w \notin OldImage

pickBusyToo(id) == {w \in Workers : mayServe(w, id) /\ ~workers[w].cordoned}

pickable(id) ==
  {w \in Workers : /\ mayServe(w, id)
                   /\ workers[w].st = "idle"
                   /\ ~workers[w].cordoned}

spawnOverCap(id) ==
  {w \in Workers : /\ WorkerAgent[w] = TaskAgent[id]
                   /\ isOnDemand(w)
                   /\ workers[w].st = "retired"}

(* Slots a claim may spawn into: the agent is below maxConcurrent when one *)
(* of its slots is free, and the cluster below the policy ceiling.         *)
spawnable(id) ==
  {w \in Workers : /\ WorkerAgent[w] = TaskAgent[id]
                   /\ isOnDemand(w)
                   /\ workers[w].st = "retired"
                   /\ Cardinality(Live) < PolicyCap}

(* An idle worker if there is one, else a spawned one, which is not asked  *)
(* whether the task can be placed on it, else none.                        *)
acquireWorker(id) == IF pickable(id) # {} THEN pickable(id) ELSE spawnable(id)

releaseOnDemandOnly(ws, w) ==
  IF w = NoWorker \/ ws[w].st = "retired" \/ ~isOnDemand(w) THEN ws
  ELSE [ws EXCEPT ![w] = RetiredWorker]

(* A worker goes back to the pool: static ones become idle, on-demand ones *)
(* stay warm for their idleTTL (losing their cordon) or are destroyed.     *)
releaseOrDestroyWorker(ws, w) ==
  IF w = NoWorker \/ ws[w].st = "retired" THEN ws
  ELSE [ws EXCEPT ![w] =
          IF ~isOnDemand(w) THEN [@ EXCEPT !.st = "idle"]
          ELSE IF IdleTTL[WorkerAgent[w]] > 0
               THEN [IdleWorker EXCEPT !.warm = IdleTTL[WorkerAgent[w]]]
               ELSE RetiredWorker]

keepIdleWorkers(ws) == ws

(* On-demand idle workers past their idleTTL are destroyed. *)
sweepIdleWorkers(ws) ==
  [w \in Workers |->
     IF isOnDemand(w) /\ ws[w].st = "idle" /\ ~ws[w].cordoned /\ ws[w].warm = 0
     THEN RetiredWorker
     ELSE ws[w]]

(* runTask marks its worker record idle when the run succeeds, whatever    *)
(* became of the record meanwhile.                                         *)
runReturned(ws, w) ==
  [ws EXCEPT ![w].st = "idle",
             ![w].warm = IF isOnDemand(w) THEN IdleTTL[WorkerAgent[w]] ELSE 0]

----------------------------------------------------------------------------
(* The queue items. *)

newItem(id, st) ==
  [id |-> id, st |-> st, attempts |-> 0, worker |-> NoWorker,
   lease |-> 0, wait |-> 0, charges |-> 0]

(* queue.find(q => q.id === id): the oldest item with the id. *)
itemOf(q, id) ==
  CHOOSE i \in DOMAIN q : /\ q[i].id = id
                          /\ \A j \in DOMAIN q : q[j].id = id => i <= j

hasId(id, statuses) == \E i \in DOMAIN queue : queue[i].id = id /\ queue[i].st \in statuses

claimedItem(it, w) ==
  [it EXCEPT !.st = "claimed", !.attempts = it.attempts + 1, !.worker = w,
             !.lease = LeaseTime, !.wait = 0]

(* Success also charges the budget of the task, once per completion. *)
doneItem(it) ==
  [it EXCEPT !.st = "done", !.lease = 0, !.wait = 0,
             !.charges = IF it.charges < MaxCharges THEN it.charges + 1 ELSE it.charges]

failedButCharged(it) ==
  IF it.attempts > 0 /\ it.attempts < MaxAttempts
  THEN [it EXCEPT !.st = "pending", !.worker = NoWorker, !.lease = 0,
                  !.wait = Backoff[it.attempts], !.charges = @ + 1]
  ELSE [it EXCEPT !.st = "dead", !.lease = 0, !.wait = 0]

(* The failure path of completeQueued: retry later, or the dead letters. *)
failedItem(it) ==
  IF it.attempts > 0 /\ it.attempts < MaxAttempts
  THEN [it EXCEPT !.st = "pending", !.worker = NoWorker, !.lease = 0,
                  !.wait = Backoff[it.attempts]]
  ELSE [it EXCEPT !.st = "dead", !.lease = 0, !.wait = 0]

(* completeQueued, on the queue and on the pool it releases the item's     *)
(* worker to.  It looks the item up by id alone.                           *)
completedQueue(q, id, ok) ==
  LET i == itemOf(q, id)
  IN  [q EXCEPT ![i] = IF ok THEN doneItem(@) ELSE failedItem(@)]

completedPool(q, ws, id) == releaseOrDestroyWorker(ws, q[itemOf(q, id)].worker)

noExpiredLeases(q) == {}

expiredLeases(q) == {i \in DOMAIN q : q[i].st = "claimed" /\ q[i].lease = 0}

claimable(q, scope) ==
  {i \in DOMAIN q : q[i].st = "pending" /\ q[i].wait = 0 /\ q[i].id \in scope}

(* heartbeatClaim: the oldest claimed item of each id gets a full lease. *)
heartbeat(q, ids) ==
  [i \in DOMAIN q |->
     IF /\ q[i].id \in ids /\ q[i].st = "claimed"
        /\ \A j \in DOMAIN q : q[j].id = q[i].id /\ q[j].st = "claimed" => i <= j
     THEN [q[i] EXCEPT !.lease = LeaseTime]
     ELSE q[i]]

----------------------------------------------------------------------------
Init ==
  /\ queue = <<>>
  /\ workers = [w \in Workers |-> IF isOnDemand(w) THEN RetiredWorker ELSE IdleWorker]
  /\ paused = FALSE
  /\ pc = "rest"
  /\ job = NoJob
  /\ expired = {} /\ todo = {} /\ waiting = {} /\ flight = {}

(* Commands run between the queue's own calls: on an object of their own,  *)
(* or on one shared with a drain that is awaiting its runs.                *)
Quiet == pc = "rest" \/ (pc = "run" /\ "sharedObject" \in Hazards)

----------------------------------------------------------------------------
(* Commands of clients and operators. *)

(* A task is admitted or denied; one whose id is pending is not pushed. *)
enqueueTask(id, verdict) ==
  /\ Quiet
  /\ Len(queue) < MaxItems
  /\ ~hasId(id, {"pending"})
  /\ hasId(id, ItemStatus) => "redelivery" \in Hazards
  /\ queue' = Append(queue, newItem(id, verdict))
  /\ UNCHANGED <<workers, paused, drainVars>>

setPaused(p) ==
  /\ Quiet
  /\ paused # p
  /\ paused' = p
  /\ UNCHANGED <<queue, workers, drainVars>>

requeueSpent(i) ==
  /\ Quiet
  /\ queue[i].st = "dead"
  /\ queue' = [queue EXCEPT ![i].st = "pending", ![i].worker = NoWorker]
  /\ UNCHANGED <<workers, paused, drainVars>>

(* The oldest dead item of the id starts a new cycle of attempts. *)
requeueDead(i) ==
  /\ Quiet
  /\ queue[i].st = "dead"
  /\ \A j \in 1..(i - 1) : ~(queue[j].id = queue[i].id /\ queue[j].st = "dead")
  /\ queue' = [queue EXCEPT ![i] = [newItem(queue[i].id, "pending")
                                     EXCEPT !.charges = queue[i].charges]]
  /\ UNCHANGED <<workers, paused, drainVars>>

setCordon(w, c) ==
  /\ Quiet
  /\ workers[w].st # "retired"
  /\ workers[w].cordoned # c
  /\ workers' = [workers EXCEPT ![w].cordoned = c]
  /\ UNCHANGED <<queue, paused, drainVars>>

(* A running worker is only cordoned, to be evicted again once idle. *)
evictWorker(w) ==
  /\ Quiet
  /\ workers[w].st # "retired"
  /\ workers' = [workers EXCEPT ![w] = IF @.st = "running"
                                       THEN [@ EXCEPT !.cordoned = TRUE]
                                       ELSE RetiredWorker]
  /\ UNCHANGED <<queue, paused, drainVars>>

Command ==
  \/ \E id \in TaskIds, verdict \in {"pending", "failed"} : enqueueTask(id, verdict)
  \/ \E p \in BOOLEAN : setPaused(p)
  \/ \E i \in DOMAIN queue : requeueDead(i)
  \/ \E w \in Workers : (\E c \in BOOLEAN : setCordon(w, c)) \/ evictWorker(w)

----------------------------------------------------------------------------
(* Lease reclaim: a pass over the leases found expired when it starts. *)

startReclaim(phase) ==
  /\ pc' = phase
  /\ expired' = expiredLeases(queue)

(* `ropex reclaim` and the tick: one pass on its own. *)
Reclaim ==
  /\ pc = "rest"
  /\ startReclaim("reclaim")
  /\ UNCHANGED <<queue, workers, paused, job, todo, waiting, flight>>

reclaimNext ==
  \E i \in expired :
    LET id == queue[i].id
    IN  /\ \A j \in expired : i <= j
        /\ expired' = expired \ {i}
        /\ queue' = completedQueue(queue, id, FALSE)
        /\ workers' = completedPool(queue, workers, id)
        /\ UNCHANGED <<paused, pc, job, todo, waiting, flight>>

(* After its own pass a drain calls claimPending, which returns at once on *)
(* a paused queue and otherwise makes a second pass before it claims.      *)
reclaimDone ==
  /\ pc \in {"reclaim", "sweepReclaim", "claimReclaim"}
  /\ expired = {}
  /\ \/ /\ pc = "reclaim" \/ (pc = "sweepReclaim" /\ paused)
        /\ pc' = "rest" /\ job' = NoJob
        /\ UNCHANGED <<expired, todo>>
     \/ /\ pc = "sweepReclaim" /\ ~paused
        /\ startReclaim("claimReclaim")
        /\ UNCHANGED <<job, todo>>
     \/ /\ pc = "claimReclaim"
        /\ pc' = "claim"
        /\ todo' = claimable(queue, job.scope)
        /\ UNCHANGED <<job, expired>>
  /\ UNCHANGED <<queue, workers, paused, waiting, flight>>

----------------------------------------------------------------------------
(* drainQueue: sweep, reclaim, claim, then run the claims in batches. *)

startDrain(limit, scope) ==
  /\ pc = "rest"
  /\ startReclaim("sweepReclaim")
  /\ workers' = sweepIdleWorkers(workers)
  /\ job' = [limit |-> limit, scope |-> scope]
  /\ UNCHANGED <<queue, paused, todo, waiting, flight>>

(* One turn of the claim loop.  The order of the loop is the subject of    *)
(* module QueueOrder; here it visits the claimable items in any order.     *)
claimNext ==
  /\ pc = "claim"
  /\ Cardinality(waiting) < job.limit
  /\ \E i \in todo :
       LET id == queue[i].id
       IN  /\ todo' = todo \ {i}
           /\ \/ /\ acquireWorker(id) = {}
                 /\ UNCHANGED <<queue, workers, waiting>>
              \/ \E w \in acquireWorker(id) :
                   /\ queue' = [queue EXCEPT ![i] = claimedItem(@, w)]
                   /\ workers' = [workers EXCEPT ![w] = FreshWorker]
                   /\ waiting' = waiting \cup {[id |-> id, worker |-> w]}
  /\ UNCHANGED <<paused, pc, job, expired, flight>>

claimDone ==
  /\ pc = "claim"
  /\ todo = {} \/ Cardinality(waiting) >= job.limit
  /\ pc' = "run"
  /\ todo' = {}
  /\ UNCHANGED <<queue, workers, paused, job, expired, waiting, flight>>

(* The next batch: at most Concurrency claims, heartbeaten and started,    *)
(* once every run of the batch before has settled.                         *)
startBatch ==
  /\ pc = "run" /\ flight = {} /\ waiting # {}
  /\ \E batch \in SUBSET waiting :
       /\ batch # {}
       /\ Cardinality(batch) <= Concurrency
       /\ Cardinality(batch) = Concurrency \/ batch = waiting
       /\ flight' = batch
       /\ waiting' = waiting \ batch
       /\ queue' = heartbeat(queue, {c.id : c \in batch})
  /\ UNCHANGED <<workers, paused, pc, job, expired, todo>>

runSucceeds(c) ==
  /\ queue' = completedQueue(queue, c.id, TRUE)
  /\ workers' = completedPool(queue, runReturned(workers, c.worker), c.id)
  /\ UNCHANGED waiting

(* Delivering a buried item from the catch block may throw too: drainQueue *)
(* rejects and no further batch is started.                                *)
rejects(q, id) ==
  /\ "deliveryThrows" \in Hazards
  /\ q[itemOf(q, id)].st = "dead"
  /\ waiting' = {}

runFails(c) ==
  /\ queue' = completedQueue(queue, c.id, FALSE)
  /\ workers' = completedPool(queue, workers, c.id)
  /\ UNCHANGED waiting \/ rejects(queue', c.id)

(* deliverTaskOutcome throws after the completion was recorded: the catch  *)
(* block completes the same item once more, as a failure.                  *)
deliveryThrows(c) ==
  LET q == completedQueue(queue, c.id, TRUE)
      ws == completedPool(queue, runReturned(workers, c.worker), c.id)
  IN  /\ "deliveryThrows" \in Hazards
      /\ queue' = completedQueue(q, c.id, FALSE)
      /\ workers' = completedPool(q, ws, c.id)
      /\ UNCHANGED waiting \/ rejects(queue', c.id)

settleRun(c) ==
  /\ runSucceeds(c) \/ runFails(c) \/ deliveryThrows(c)
  /\ flight' = flight \ {c}
  /\ UNCHANGED <<paused, pc, job, expired, todo>>

drainDone ==
  /\ pc = "run" /\ flight = {} /\ waiting = {}
  /\ pc' = "rest" /\ job' = NoJob
  /\ UNCHANGED <<queue, workers, paused, expired, todo, waiting, flight>>

(* The drain never reports back; what it claimed is left to the leases. *)
drainDies ==
  /\ "drainDies" \in Hazards
  /\ pc = "run"
  /\ pc' = "rest" /\ job' = NoJob
  /\ waiting' = {} /\ flight' = {}
  /\ UNCHANGED <<queue, workers, paused, expired, todo>>

(* What a call in progress does next. *)
drainStep ==
  \/ reclaimNext \/ reclaimDone
  \/ claimNext \/ claimDone
  \/ startBatch
  \/ \E c \in flight : settleRun(c)
  \/ drainDone

Drain == drainStep \/ \E limit \in Limits, scope \in Scopes : startDrain(limit, scope)

----------------------------------------------------------------------------
(* Time passes while nothing synchronous runs. *)

less(n) == IF n > 0 THEN n - 1 ELSE 0

olderItem(it) == [it EXCEPT !.lease = less(it.lease), !.wait = less(it.wait)]

Tick ==
  /\ pc \in {"rest", "run"}
  /\ queue' = [i \in DOMAIN queue |-> olderItem(queue[i])]
  /\ workers' = [w \in Workers |-> [workers[w] EXCEPT !.warm = less(@)]]
  /\ <<queue', workers'>> # <<queue, workers>>
  /\ UNCHANGED <<paused, drainVars>>

----------------------------------------------------------------------------
Next == Command \/ Reclaim \/ Drain \/ drainDies \/ Tick

Spec == Init /\ [][Next]_vars

----------------------------------------------------------------------------
(* Safety. *)

isClaimed(i) == queue[i].st = "claimed"

(* No worker executes two claims: two claimed items never name the same    *)
(* worker, although on-demand worker ids are reused and completeQueued     *)
(* releases whatever worker the item it finds by id still names.           *)
WorkerExclusive ==
  \A i, j \in DOMAIN queue :
    isClaimed(i) /\ isClaimed(j) /\ queue[i].worker = queue[j].worker => i = j

(* No phantom: a worker is running exactly while a claimed item holds it,  *)
(* whatever drains were abandoned, leases reclaimed and workers evicted.   *)
RunningIffClaimed ==
  \A w \in Workers :
    workers[w].st = "running" <=> \E i \in DOMAIN queue : isClaimed(i) /\ queue[i].worker = w

(* A run that has yet to report back still owns what it will complete: the *)
(* item its id resolves to is claimed, by the worker of the run.           *)
RunsOwnTheirItem ==
  \A c \in waiting \cup flight :
    LET it == queue[itemOf(queue, c.id)]
    IN  it.st = "claimed" /\ it.worker = c.worker

(* Attempts are spent by claims alone: a dead item has used all of them, a *)
(* pending one has some left, a claimed or done one has used at least one. *)
AttemptsAccounted ==
  \A i \in DOMAIN queue :
    /\ queue[i].st = "dead" => queue[i].attempts = MaxAttempts
    /\ queue[i].st = "pending" => queue[i].attempts < MaxAttempts
    /\ queue[i].st \in {"claimed", "done"} => queue[i].attempts > 0

(* The budget is charged for a task exactly when its work is accepted as   *)
(* done: no retry, reclaim or dead letter charges it and no task pays      *)
(* twice.                                                                  *)
ChargedOnceWhenDone ==
  \A i \in DOMAIN queue :
    queue[i].charges = IF queue[i].st = "done" THEN 1 ELSE 0

(* Spawning under acquireWorker and returning workers to the pool never    *)
(* exceed the cluster-wide ceiling of Policy.maxReplicas.                  *)
PolicyCapHolds == Cardinality(Live) <= PolicyCap

(* The queue implements the task lifecycle. *)
Lifecycle == INSTANCE TaskLifecycle WITH
  tasks <- [i \in DOMAIN queue |-> [st |-> queue[i].st, attempts |-> queue[i].attempts]]

(* Every status change is an edge of the documented lifecycle; in          *)
(* particular done is final and only an operator revives a dead task.      *)
ImplementsLifecycle == Lifecycle!LifecycleSpec

----------------------------------------------------------------------------
(* Liveness, when the operator has left the queue alone. *)

unattended ==
  \/ \E id \in TaskIds, verdict \in {"pending", "failed"} : enqueueTask(id, verdict)
  \/ Reclaim \/ Drain \/ drainDies \/ Tick

(* The tick loop keeps draining the whole queue, a started call returns,   *)
(* a run settles (runtimes have a timeout), and the clock advances.        *)
LiveSpec ==
  /\ Init /\ [][unattended]_vars
  /\ WF_vars(drainStep)
  /\ SF_vars(\E limit \in Limits : startDrain(limit, TaskIds))
  /\ SF_vars(Tick)

(* A task that some worker may serve: a standing one through the gates of  *)
(* the pick, or one spawned in a slot that standing pools leave room for.  *)
servable(id) ==
  \E w \in Workers :
    /\ WorkerAgent[w] = TaskAgent[id]
    /\ IF isOnDemand(w)
       THEN Cardinality({v \in Workers : ~isOnDemand(v)}) < PolicyCap
       ELSE mayServe(w, id)

(* Every admitted task that some worker may serve ends done or in the dead *)
(* letters, also when drains are abandoned with the task claimed, when the *)
(* slot it needs is kept warm by a worker it cannot be placed on, and when *)
(* tasks that no worker may serve stay on the queue beside it.             *)
EveryTaskSettles ==
  \A i \in 1..MaxItems :
    (i \in DOMAIN queue /\ queue[i].st = "pending" /\ servable(queue[i].id))
      ~> (i \in DOMAIN queue /\ queue[i].st \in {"done", "dead"})

(* A warm on-demand worker is reused or destroyed, never kept for good.    *)
WarmWorkersLeave ==
  \A w \in Workers :
    (isOnDemand(w) /\ workers[w].st = "idle") ~> workers[w].st # "idle"
=============================================================================
