-------------------------- MODULE WorkQueueProofs --------------------------
(***************************************************************************)
(* Lemmas on the operators of WorkQueue and the two invariants that hold   *)
(* for all tasks, agents, pools and caps and under every hazard: the types *)
(* and the cluster-wide ceiling on workers.                                *)
(*                                                                         *)
(* Then claims and workers, while every id is submitted once: which item a *)
(* claim, a completion and a reclaim write, and which worker they hold.    *)
(* All other hazards are admitted: drains that die, deliveries that throw, *)
(* commands on the object of a drain.  On the same invariant rest that the *)
(* queue implements the documented task lifecycle and that the budget is   *)
(* charged once; the latter needs deliveries that do not throw.            *)
(***************************************************************************)
EXTENDS WorkQueue, SequenceTheorems, FiniteSetTheorems, WellFoundedInduction, TLAPS

----------------------------------------------------------------------------
(* Lemmas on sequences and on the operators of the model. *)

(* A function on 1..n is a sequence of length n. *)
LEMMA FunctionIsSeq ==
  ASSUME NEW S, NEW n \in Nat, NEW f \in [1..n -> S]
  PROVE  f \in Seq(S) /\ Len(f) = n /\ DOMAIN f = 1..n
<1>1. f \in Seq(S)
  BY SeqDef
<1>2. DOMAIN f = 1..Len(f) /\ Len(f) \in Nat
  BY <1>1, LenProperties
<1> QED
  BY <1>1, <1>2

(* A nonempty set of naturals has a least element. *)
LEMMA LeastNatural ==
  ASSUME NEW T, T \subseteq Nat, T # {}
  PROVE  \E x \in T : \A y \in T : x <= y
<1> DEFINE R == {p \in Nat \X Nat : p[1] < p[2]}
<1>1. IsWellFoundedOn(R, Nat)
  BY NatLessThanWellFounded DEF OpToRel
<1>2. PICK x \in T : \A y \in T : ~(<<y, x>> \in R)
  BY <1>1, WFMin
<1>3. ASSUME NEW y \in T, y < x PROVE FALSE
  <2>1. <<y, x>> \in R
    BY <1>3
  <2> QED
    BY <1>2, <2>1
<1>4. \A y \in T : x <= y
  BY <1>3
<1> QED
  BY <1>4

(* The lookup by id finds an item with the id, and no older one has it. *)
LEMMA ItemOfFinds ==
  ASSUME NEW q \in Seq(Item), NEW id, NEW k \in DOMAIN q, q[k].id = id
  PROVE  /\ itemOf(q, id) \in DOMAIN q
         /\ q[itemOf(q, id)].id = id
         /\ q[itemOf(q, id)].worker \in Workers \cup {NoWorker}
<1> DEFINE T == {i \in DOMAIN q : q[i].id = id}
<1>1. T \subseteq Nat /\ T # {}
  BY LenProperties
<1>2. PICK i \in T : \A j \in T : i <= j
  BY <1>1, LeastNatural
<1>3. itemOf(q, id) \in DOMAIN q /\ q[itemOf(q, id)].id = id
  BY <1>2 DEF itemOf
<1>4. q[itemOf(q, id)] \in Item
  BY <1>3, LenProperties
<1> QED
  BY <1>3, <1>4 DEF Item

(* Writing an item of a queue leaves its length and its other items alone. *)
LEMMA WriteItem ==
  ASSUME NEW q \in Seq(Item), NEW k \in DOMAIN q, NEW it \in Item
  PROVE  /\ [q EXCEPT ![k] = it] \in Seq(Item)
         /\ DOMAIN [q EXCEPT ![k] = it] = DOMAIN q
         /\ \A i \in DOMAIN q : [q EXCEPT ![k] = it][i] = IF i = k THEN it ELSE q[i]
<1>1. k \in 1..Len(q) /\ DOMAIN q = 1..Len(q)
  BY LenProperties
<1> QED
  BY <1>1, ExceptSeq, LenProperties

(* The three ways an item changes in a drain: what they keep of it. *)
LEMMA ItemChanges ==
  ASSUME NEW it \in Item
  PROVE  /\ doneItem(it) \in Item /\ doneItem(it).id = it.id
         /\ doneItem(it).st = "done" /\ doneItem(it).attempts = it.attempts
         /\ doneItem(it).worker = it.worker
         /\ failedItem(it) \in Item /\ failedItem(it).id = it.id
         /\ failedItem(it).attempts = it.attempts
         /\ failedItem(it).st \in {"pending", "dead"}
         /\ failedItem(it).st = "pending" => it.attempts < MaxAttempts
         /\ failedItem(it).st = "dead" /\ it.attempts > 0 => it.attempts = MaxAttempts
         /\ \A w \in Workers :
              it.attempts < MaxAttempts =>
                /\ claimedItem(it, w) \in Item
                /\ claimedItem(it, w).id = it.id
                /\ claimedItem(it, w).st = "claimed"
                /\ claimedItem(it, w).worker = w
                /\ claimedItem(it, w).attempts = it.attempts + 1
<1> USE QueueAssumption
<1>1. /\ it = [id |-> it.id, st |-> it.st, attempts |-> it.attempts,
              worker |-> it.worker, lease |-> it.lease, wait |-> it.wait,
              charges |-> it.charges]
      /\ it.id \in TaskIds /\ it.attempts \in 0..MaxAttempts
      /\ it.worker \in Workers \cup {NoWorker} /\ it.lease \in 0..LeaseTime
      /\ it.wait \in Nat /\ it.charges \in 0..MaxCharges
  BY DEF Item
<1> DEFINE paid == IF it.charges < MaxCharges THEN it.charges + 1 ELSE it.charges
           next == it.attempts + 1
<1>2. doneItem(it) =
        [id |-> it.id, st |-> "done", attempts |-> it.attempts,
         worker |-> it.worker, lease |-> 0, wait |-> 0, charges |-> paid]
  <2>1. doneItem(it) = [it EXCEPT !.st = "done", !.lease = 0, !.wait = 0, !.charges = paid]
    BY DEF doneItem
  <2> HIDE DEF paid
  <2> QED
    BY <1>1, <2>1
<1>3. /\ doneItem(it) \in Item /\ doneItem(it).id = it.id
      /\ doneItem(it).st = "done" /\ doneItem(it).attempts = it.attempts
      /\ doneItem(it).worker = it.worker
  BY <1>1, <1>2 DEF Item, ItemStatus, MaxCharges
<1>4. ASSUME NEW w \in Workers, it.attempts < MaxAttempts
      PROVE  /\ claimedItem(it, w) \in Item
             /\ claimedItem(it, w).id = it.id
             /\ claimedItem(it, w).st = "claimed"
             /\ claimedItem(it, w).worker = w
             /\ claimedItem(it, w).attempts = it.attempts + 1
  <2>1. claimedItem(it, w) =
          [it EXCEPT !.st = "claimed", !.attempts = next, !.worker = w,
                     !.lease = LeaseTime, !.wait = 0]
    BY DEF claimedItem
  <2>2. next \in 0..MaxAttempts
    BY <1>1, <1>4
  <2>3. claimedItem(it, w) =
          [id |-> it.id, st |-> "claimed", attempts |-> next,
           worker |-> w, lease |-> LeaseTime, wait |-> 0, charges |-> it.charges]
    <3> HIDE DEF next
    <3> QED
      BY <1>1, <2>1
  <2> QED
    BY <1>1, <2>2, <2>3 DEF Item, ItemStatus
<1>5. CASE it.attempts > 0 /\ it.attempts < MaxAttempts
  <2>1. failedItem(it) =
          [id |-> it.id, st |-> "pending", attempts |-> it.attempts,
           worker |-> NoWorker, lease |-> 0, wait |-> Backoff[it.attempts],
           charges |-> it.charges]
    BY <1>1, <1>5 DEF failedItem
  <2>2. failedItem(it) \in Item /\ failedItem(it).id = it.id
    BY <1>1, <1>5, <2>1 DEF Item, ItemStatus
  <2>3. failedItem(it).attempts = it.attempts /\ failedItem(it).st = "pending"
    BY <2>1
  <2> QED
    BY <1>3, <1>4, <1>5, <2>2, <2>3
<1>6. CASE ~(it.attempts > 0 /\ it.attempts < MaxAttempts)
  <2>1. failedItem(it) =
          [id |-> it.id, st |-> "dead", attempts |-> it.attempts,
           worker |-> it.worker, lease |-> 0, wait |-> 0, charges |-> it.charges]
    BY <1>1, <1>6 DEF failedItem
  <2>2. failedItem(it) \in Item /\ failedItem(it).id = it.id
    BY <1>1, <2>1 DEF Item, ItemStatus
  <2>3. failedItem(it).attempts = it.attempts /\ failedItem(it).st = "dead"
    BY <2>1
  <2>4. it.attempts > 0 => it.attempts = MaxAttempts
    BY <1>1, <1>6
  <2> QED
    BY <1>3, <1>4, <2>2, <2>3, <2>4
<1> QED
  BY <1>3, <1>4, <1>5, <1>6

(* A queue of items in which every pending one may still be attempted. *)
GoodQueue(q) ==
  /\ q \in Seq(Item)
  /\ \A i \in DOMAIN q : q[i].st = "pending" => q[i].attempts < MaxAttempts

(* Completion changes one item, the one the id is looked up to. *)
LEMMA CompletedQueueGood ==
  ASSUME NEW q, GoodQueue(q), NEW id, NEW k \in DOMAIN q, q[k].id = id,
         NEW ok \in BOOLEAN
  PROVE  /\ GoodQueue(completedQueue(q, id, ok))
         /\ DOMAIN completedQueue(q, id, ok) = DOMAIN q
         /\ \A i \in DOMAIN q : completedQueue(q, id, ok)[i].id = q[i].id
         /\ \A i \in DOMAIN q :
              completedQueue(q, id, ok)[i] =
                IF i # itemOf(q, id) THEN q[i]
                ELSE IF ok THEN doneItem(q[i]) ELSE failedItem(q[i])
<1> DEFINE m == itemOf(q, id)
           it == IF ok THEN doneItem(q[m]) ELSE failedItem(q[m])
           r == [q EXCEPT ![m] = it]
<1>1. q \in Seq(Item)
  BY DEF GoodQueue
<1>2. m \in DOMAIN q /\ q[m].id = id
  BY <1>1, ItemOfFinds
<1>3. q[m] \in Item
  BY <1>1, <1>2, LenProperties
<1>4. it \in Item /\ it.id = id /\ (it.st = "pending" => it.attempts < MaxAttempts)
  BY <1>2, <1>3, ItemChanges
<1>5. /\ r \in Seq(Item) /\ DOMAIN r = DOMAIN q
      /\ \A i \in DOMAIN q : r[i] = IF i = m THEN it ELSE q[i]
  <2> HIDE DEF m, it
  <2> QED
    BY <1>1, <1>2, <1>4, WriteItem
<1>6. completedQueue(q, id, ok) = r
  BY DEF completedQueue
<1>7. GoodQueue(r)
  <2> HIDE DEF m, it, r
  <2> QED
    BY <1>4, <1>5 DEF GoodQueue
<1>8. \A i \in DOMAIN q : r[i].id = q[i].id
  <2> HIDE DEF m, it, r
  <2> QED
    BY <1>2, <1>4, <1>5
<1> HIDE DEF r
<1> QED
  BY <1>5, <1>6, <1>7, <1>8

(* The pool stays typed, whichever worker an item names. *)
LEMMA ReleaseTyped ==
  ASSUME NEW ws \in [Workers -> Worker], NEW w \in Workers \cup {NoWorker}
  PROVE  releaseOrDestroyWorker(ws, w) \in [Workers -> Worker]
<1>1. CASE w = NoWorker \/ ws[w].st = "retired"
  BY <1>1 DEF releaseOrDestroyWorker
<1>2. CASE ~(w = NoWorker \/ ws[w].st = "retired")
  <2>1. w \in Workers /\ IdleTTL[WorkerAgent[w]] \in Nat
    BY <1>2, QueueAssumption
  <2> QED
    BY <1>2, <2>1 DEF releaseOrDestroyWorker, Worker, IdleWorker, RetiredWorker
<1> QED
  BY <1>1, <1>2

(* The worker that completeQueued releases, if any, stays a well-formed    *)
(* record.                                                                 *)
LEMMA CompletedPoolTyped ==
  ASSUME NEW q, GoodQueue(q), NEW id, NEW k \in DOMAIN q, q[k].id = id,
         NEW ws \in [Workers -> Worker]
  PROVE  completedPool(q, ws, id) \in [Workers -> Worker]
<1>1. q[itemOf(q, id)].worker \in Workers \cup {NoWorker}
  BY ItemOfFinds DEF GoodQueue
<1> QED
  BY <1>1, ReleaseTyped DEF completedPool

(* A run that returns leaves well-formed worker records. *)
LEMMA RunReturnedTyped ==
  ASSUME NEW ws \in [Workers -> Worker], NEW w \in Workers
  PROVE  runReturned(ws, w) \in [Workers -> Worker]
<1>1. IdleTTL[WorkerAgent[w]] \in Nat
  BY QueueAssumption
<1> QED
  BY <1>1 DEF runReturned, Worker

----------------------------------------------------------------------------
(* Type correctness, under every hazard. *)

(* Every claim in hand can still be looked up, and the claim loop visits   *)
(* pending items only: without these two completeQueued and claimPending   *)
(* could be shown nothing about the items they write.                      *)
ClaimsKnown == \A c \in waiting \cup flight : \E i \in DOMAIN queue : queue[i].id = c.id

TodoPending == \A i \in todo : queue[i].st = "pending"

(* What a queue call works on is there only while the call needs it. *)
PhaseData == /\ pc \notin {"reclaim", "sweepReclaim", "claimReclaim"} => expired = {}
             /\ pc # "claim" => todo = {}
             /\ pc \notin {"claim", "run"} => waiting = {}
             /\ pc # "run" => flight = {}

TypeInv == TypeOK /\ GoodQueue(queue) /\ ClaimsKnown /\ TodoPending /\ PhaseData

(* The items of q are still there in r, under the same ids. *)
Keeps(q, r) == DOMAIN q \subseteq DOMAIN r /\ \A i \in DOMAIN q : r[i].id = q[i].id

(* The empty state is well formed. *)
LEMMA InitTyped == Init => TypeInv
<1> SUFFICES ASSUME Init PROVE TypeInv
  OBVIOUS
<1>1. queue \in Seq(Item) /\ DOMAIN queue = {}
  BY EmptySeq DEF Init
<1>2. workers \in [Workers -> Worker]
  BY DEF Init, Worker, RetiredWorker, IdleWorker
<1>3. TypeOK
  BY <1>1, <1>2 DEF Init, TypeOK, Phases, NoJob
<1> QED
  BY <1>1, <1>3 DEF Init, TypeInv, GoodQueue, ClaimsKnown, TodoPending, PhaseData

(* What an action has to show to keep the type invariant. *)
LEMMA TypedStep ==
  ASSUME TypeInv,
         GoodQueue(queue'), Keeps(queue, queue'),
         workers' \in [Workers -> Worker],
         paused' \in BOOLEAN, pc' \in Phases,
         job' \in [limit : Nat, scope : SUBSET TaskIds],
         expired' \subseteq DOMAIN queue',
         todo' \subseteq DOMAIN queue',
         \A i \in todo' : queue'[i].st = "pending",
         PhaseData',
         waiting' \subseteq ClaimRecord, flight' \subseteq ClaimRecord,
         \A c \in (waiting' \cup flight') \ (waiting \cup flight) :
           \E i \in DOMAIN queue' : queue'[i].id = c.id
  PROVE  TypeInv'
<1>1. TypeOK'
  BY DEF TypeOK, GoodQueue
<1>2. ClaimsKnown'
  <2> SUFFICES ASSUME NEW c \in waiting' \cup flight'
               PROVE  \E i \in DOMAIN queue' : queue'[i].id = c.id
    BY DEF ClaimsKnown
  <2>1. CASE c \in waiting \cup flight
    <3>1. PICK i \in DOMAIN queue : queue[i].id = c.id
      BY <2>1 DEF TypeInv, ClaimsKnown
    <3> QED
      BY <3>1 DEF Keeps
  <2> QED
    BY <2>1
<1>3. TodoPending'
  BY DEF TodoPending
<1> QED
  BY <1>1, <1>2, <1>3 DEF TypeInv

(* Enqueue, pause, retry of dead letters, cordon and evict keep the types  *)
(* and the indexes a drain holds into the queue.                           *)
LEMMA CommandTyped == TypeInv /\ Command => TypeInv'
<1> SUFFICES ASSUME TypeInv, Command PROVE TypeInv'
  OBVIOUS
<1> USE DEF TypeInv, TypeOK
<1>0. DOMAIN queue = 1..Len(queue) /\ Len(queue) \in Nat /\ 0 < MaxAttempts
  BY LenProperties, QueueAssumption
<1>1. ASSUME NEW id \in TaskIds, NEW v \in {"pending", "failed"}, enqueueTask(id, v)
      PROVE  TypeInv'
  <2>1. newItem(id, v) \in Item /\ newItem(id, v).attempts = 0
    BY QueueAssumption DEF newItem, Item, ItemStatus, MaxCharges
  <2>2. /\ queue' \in Seq(Item)
        /\ DOMAIN queue' = 1..(Len(queue) + 1)
        /\ \A i \in DOMAIN queue : queue'[i] = queue[i]
        /\ queue'[Len(queue) + 1] = newItem(id, v)
    BY <1>0, <1>1, <2>1, AppendProperties, LenProperties DEF enqueueTask
  <2>3. \A i \in DOMAIN queue' : i \in DOMAIN queue \/ i = Len(queue) + 1
    BY <1>0, <2>2
  <2>4. GoodQueue(queue') /\ Keeps(queue, queue')
    <3>1. ASSUME NEW i \in DOMAIN queue', queue'[i].st = "pending"
          PROVE  queue'[i].attempts < MaxAttempts
      BY <1>0, <2>1, <2>2, <2>3, <3>1 DEF GoodQueue
    <3>2. DOMAIN queue \subseteq DOMAIN queue'
      BY <1>0, <2>2
    <3> QED
      BY <2>2, <3>1, <3>2 DEF GoodQueue, Keeps
  <2>5. pc # "claim"
    BY <1>1 DEF enqueueTask, Quiet
  <2> QED
    BY <1>1, <2>2, <2>4, <2>5, TypedStep DEF enqueueTask, drainVars, TodoPending, PhaseData, Keeps
<1>2. ASSUME NEW p \in BOOLEAN, setPaused(p)
      PROVE  TypeInv'
  BY <1>2, TypedStep DEF setPaused, drainVars, TodoPending, PhaseData, Keeps
<1>3. ASSUME NEW i \in DOMAIN queue, requeueDead(i)
      PROVE  TypeInv'
  <2> DEFINE it == [newItem(queue[i].id, "pending") EXCEPT !.charges = queue[i].charges]
  <2>1. queue[i] \in Item
    BY <1>0, LenProperties
  <2>2. it \in Item /\ it.id = queue[i].id /\ it.attempts = 0
    <3>1. queue[i].id \in TaskIds /\ queue[i].charges \in 0..MaxCharges
      BY <2>1 DEF Item
    <3>2. it = [id |-> queue[i].id, st |-> "pending", attempts |-> 0, worker |-> NoWorker,
                lease |-> 0, wait |-> 0, charges |-> queue[i].charges]
      BY DEF newItem
    <3>3. it \in Item
      <4>1. 0 \in 0..MaxAttempts /\ 0 \in 0..LeaseTime /\ 0 \in Nat
        BY QueueAssumption
      <4> HIDE DEF it
      <4> QED
        BY <3>1, <3>2, <4>1 DEF Item, ItemStatus
    <3>4. it.id = queue[i].id /\ it.attempts = 0
      BY <3>2
    <3> QED
      BY <3>3, <3>4
  <2>3. /\ queue' \in Seq(Item) /\ DOMAIN queue' = DOMAIN queue
        /\ \A j \in DOMAIN queue : queue'[j] = IF j = i THEN it ELSE queue[j]
    <3>1. queue' = [queue EXCEPT ![i] = it]
      BY <1>3 DEF requeueDead
    <3> HIDE DEF it
    <3> QED
      BY <2>2, <3>1, WriteItem
  <2>4. GoodQueue(queue') /\ Keeps(queue, queue')
    <3> HIDE DEF it
    <3>1. ASSUME NEW j \in DOMAIN queue', queue'[j].st = "pending"
          PROVE  queue'[j].attempts < MaxAttempts
      BY <1>0, <2>2, <2>3, <3>1 DEF GoodQueue
    <3> QED
      BY <2>2, <2>3, <3>1 DEF GoodQueue, Keeps
  <2>5. pc # "claim"
    BY <1>3 DEF requeueDead, Quiet
  <2> QED
    BY <1>3, <2>3, <2>4, <2>5, TypedStep DEF requeueDead, drainVars, TodoPending, PhaseData
<1>4. ASSUME NEW w \in Workers, NEW c \in BOOLEAN, setCordon(w, c)
      PROVE  TypeInv'
  <2>1. workers' \in [Workers -> Worker]
    BY <1>4 DEF setCordon, Worker
  <2> QED
    BY <1>4, <2>1, TypedStep DEF setCordon, drainVars, TodoPending, PhaseData, Keeps
<1>5. ASSUME NEW w \in Workers, evictWorker(w)
      PROVE  TypeInv'
  <2>1. workers' \in [Workers -> Worker]
    BY <1>5 DEF evictWorker, Worker, RetiredWorker
  <2> QED
    BY <1>5, <2>1, TypedStep DEF evictWorker, drainVars, TodoPending, PhaseData, Keeps
<1> QED
  BY <1>1, <1>2, <1>3, <1>4, <1>5 DEF Command

(* A run that settles writes its item through completedQueue, at most once *)
(* more in the catch block.                                                *)
LEMMA SettledTyped ==
  ASSUME TypeInv, NEW c \in flight, settleRun(c)
  PROVE  TypeInv'
<1> USE DEF TypeInv, TypeOK
<1>1. c.id \in TaskIds /\ c.worker \in Workers
  BY DEF ClaimRecord
<1>2. PICK k \in DOMAIN queue : queue[k].id = c.id
  BY DEF ClaimsKnown
<1>3. runReturned(workers, c.worker) \in [Workers -> Worker]
  BY <1>1, RunReturnedTyped
<1>4. /\ GoodQueue(queue') /\ Keeps(queue, queue') /\ DOMAIN queue' = DOMAIN queue
      /\ workers' \in [Workers -> Worker]
  <2>1. CASE runSucceeds(c)
    <3>1. GoodQueue(queue) /\ queue[k].id = c.id /\ TRUE \in BOOLEAN
      BY <1>2
    <3>2. /\ GoodQueue(completedQueue(queue, c.id, TRUE))
          /\ DOMAIN completedQueue(queue, c.id, TRUE) = DOMAIN queue
          /\ \A i \in DOMAIN queue :
               completedQueue(queue, c.id, TRUE)[i].id = queue[i].id
      BY ONLY <3>1, k \in DOMAIN queue, CompletedQueueGood
    <3>3. /\ queue' = completedQueue(queue, c.id, TRUE)
          /\ workers' = completedPool(queue, runReturned(workers, c.worker), c.id)
      BY <2>1 DEF runSucceeds
    <3>4. workers' \in [Workers -> Worker]
      BY <1>3, <3>1, <3>3, CompletedPoolTyped
    <3> QED
      BY <3>2, <3>3, <3>4 DEF Keeps
  <2>2. CASE runFails(c)
    <3>1. GoodQueue(queue) /\ queue[k].id = c.id /\ FALSE \in BOOLEAN
      BY <1>2
    <3>2. /\ GoodQueue(completedQueue(queue, c.id, FALSE))
          /\ DOMAIN completedQueue(queue, c.id, FALSE) = DOMAIN queue
          /\ \A i \in DOMAIN queue :
               completedQueue(queue, c.id, FALSE)[i].id = queue[i].id
      BY ONLY <3>1, k \in DOMAIN queue, CompletedQueueGood
    <3>3. /\ queue' = completedQueue(queue, c.id, FALSE)
          /\ workers' = completedPool(queue, workers, c.id)
      BY <2>2 DEF runFails
    <3>4. workers' \in [Workers -> Worker]
      BY <3>1, <3>3, CompletedPoolTyped
    <3> QED
      BY <3>2, <3>3, <3>4 DEF Keeps
  <2>3. CASE deliveryThrows(c)
    <3> DEFINE q == completedQueue(queue, c.id, TRUE)
               ws == completedPool(queue, runReturned(workers, c.worker), c.id)
    <3>1. /\ GoodQueue(q) /\ DOMAIN q = DOMAIN queue
          /\ \A i \in DOMAIN queue : q[i].id = queue[i].id
      BY <1>2, CompletedQueueGood
    <3>2. ws \in [Workers -> Worker]
      BY <1>2, <1>3, CompletedPoolTyped
    <3>3. k \in DOMAIN q /\ q[k].id = c.id
      BY <1>2, <3>1
    <3>4. queue' = completedQueue(q, c.id, FALSE) /\ workers' = completedPool(q, ws, c.id)
      BY <2>3 DEF deliveryThrows
    <3> HIDE DEF q, ws
    <3>5. /\ GoodQueue(queue') /\ DOMAIN queue' = DOMAIN q
          /\ \A i \in DOMAIN q : queue'[i].id = q[i].id
      <4>1. GoodQueue(q) /\ FALSE \in BOOLEAN
        BY <3>1
      <4>2. /\ GoodQueue(completedQueue(q, c.id, FALSE))
            /\ DOMAIN completedQueue(q, c.id, FALSE) = DOMAIN q
            /\ \A i \in DOMAIN q : completedQueue(q, c.id, FALSE)[i].id = q[i].id
        BY ONLY <4>1, <3>3, CompletedQueueGood
      <4> QED
        BY <4>2, <3>4
    <3>6. workers' \in [Workers -> Worker]
      BY <3>1, <3>2, <3>3, <3>4, CompletedPoolTyped
    <3> QED
      BY <3>1, <3>5, <3>6 DEF Keeps
  <2> QED
    BY <2>1, <2>2, <2>3 DEF settleRun
<1>5. waiting' \subseteq waiting /\ flight' \subseteq flight
  BY DEF settleRun, runSucceeds, runFails, deliveryThrows, rejects
<1>6. todo' = todo /\ pc' = pc /\ paused' = paused /\ job' = job /\ expired' = expired
  BY DEF settleRun
<1>7. pc = "run" /\ todo = {} /\ expired = {}
  BY DEF PhaseData
<1>8. PhaseData'
  BY <1>6, <1>7 DEF PhaseData
<1> QED
  BY <1>4, <1>5, <1>6, <1>7, <1>8, TypedStep

(* So does every step of a drain. *)
LEMMA DrainStepTyped == TypeInv /\ drainStep => TypeInv'
<1> SUFFICES ASSUME TypeInv, drainStep PROVE TypeInv'
  OBVIOUS
<1> USE DEF TypeInv, TypeOK
<1>0. DOMAIN queue = 1..Len(queue) /\ Len(queue) \in Nat
  BY LenProperties
<1>1. CASE reclaimNext
  <2>1. PICK i \in expired :
          /\ expired' = expired \ {i}
          /\ queue' = completedQueue(queue, queue[i].id, FALSE)
          /\ workers' = completedPool(queue, workers, queue[i].id)
          /\ UNCHANGED <<paused, pc, job, todo, waiting, flight>>
    BY <1>1 DEF reclaimNext
  <2>2. GoodQueue(queue') /\ Keeps(queue, queue') /\ DOMAIN queue' = DOMAIN queue
    <3>1. GoodQueue(queue) /\ i \in DOMAIN queue /\ FALSE \in BOOLEAN
      OBVIOUS
    <3>2. /\ GoodQueue(completedQueue(queue, queue[i].id, FALSE))
          /\ DOMAIN completedQueue(queue, queue[i].id, FALSE) = DOMAIN queue
          /\ \A j \in DOMAIN queue :
               completedQueue(queue, queue[i].id, FALSE)[j].id = queue[j].id
      BY ONLY <3>1, CompletedQueueGood
    <3> QED
      BY <2>1, <3>2 DEF Keeps
  <2>3. workers' \in [Workers -> Worker]
    BY <2>1, CompletedPoolTyped
  <2>4. todo' = {} /\ PhaseData'
    BY <2>1 DEF PhaseData
  <2> QED
    BY <2>1, <2>2, <2>3, <2>4, TypedStep
<1>2. CASE reclaimDone
  <2>1. /\ expired' \subseteq DOMAIN queue /\ pc' \in Phases
        /\ job' \in [limit : Nat, scope : SUBSET TaskIds]
        /\ todo' \subseteq DOMAIN queue
        /\ \A i \in todo' : queue[i].st = "pending"
    BY <1>2 DEF reclaimDone, startReclaim, expiredLeases, claimable, Phases, NoJob, TodoPending
  <2>2. PhaseData'
    BY <1>2 DEF reclaimDone, startReclaim, PhaseData
  <2> QED
    BY <1>2, <2>1, <2>2, TypedStep DEF reclaimDone, Keeps
<1>3. CASE claimNext
  <2>1. PICK i \in todo :
          /\ todo' = todo \ {i}
          /\ \/ UNCHANGED <<queue, workers, waiting>>
             \/ \E w \in acquireWorker(queue[i].id) :
                  /\ queue' = [queue EXCEPT ![i] = claimedItem(@, w)]
                  /\ workers' = [workers EXCEPT ![w] = FreshWorker]
                  /\ waiting' = waiting \cup {[id |-> queue[i].id, worker |-> w]}
    BY <1>3 DEF claimNext
  <2>2. UNCHANGED <<paused, pc, job, expired, flight>> /\ pc = "claim"
    BY <1>3 DEF claimNext
  <2>3. CASE UNCHANGED <<queue, workers, waiting>>
    BY <2>1, <2>2, <2>3, TypedStep DEF Keeps, TodoPending, PhaseData
  <2>4. CASE \E w \in acquireWorker(queue[i].id) :
               /\ queue' = [queue EXCEPT ![i] = claimedItem(@, w)]
               /\ workers' = [workers EXCEPT ![w] = FreshWorker]
               /\ waiting' = waiting \cup {[id |-> queue[i].id, worker |-> w]}
    <3>1. PICK w \in Workers :
            /\ queue' = [queue EXCEPT ![i] = claimedItem(queue[i], w)]
            /\ workers' = [workers EXCEPT ![w] = FreshWorker]
            /\ waiting' = waiting \cup {[id |-> queue[i].id, worker |-> w]}
      BY <2>4 DEF acquireWorker, pickable, spawnable
    <3> DEFINE it == claimedItem(queue[i], w)
    <3>2. i \in DOMAIN queue /\ queue[i] \in Item /\ queue[i].attempts < MaxAttempts
      BY <2>1, LenProperties DEF TodoPending, GoodQueue
    <3>3. it \in Item /\ it.id = queue[i].id /\ it.st = "claimed"
      BY <3>2, ItemChanges
    <3> HIDE DEF it
    <3>4. /\ queue' \in Seq(Item) /\ DOMAIN queue' = DOMAIN queue
          /\ \A j \in DOMAIN queue : queue'[j] = IF j = i THEN it ELSE queue[j]
      <4>1. queue' = [queue EXCEPT ![i] = it]
        BY <3>1 DEF it
      <4> QED
        BY <4>1, <3>2, <3>3, WriteItem
    <3>5. GoodQueue(queue') /\ Keeps(queue, queue')
      BY <3>3, <3>4 DEF GoodQueue, Keeps
    <3>6. workers' \in [Workers -> Worker]
      BY <3>1 DEF FreshWorker, Worker
    <3>7. \A j \in todo' : queue'[j].st = "pending"
      BY <2>1, <3>4 DEF TodoPending
    <3>8. waiting' \subseteq ClaimRecord
      BY <3>1, <3>2 DEF ClaimRecord, Item
    <3>9. \A c \in waiting' \ waiting : queue'[i].id = c.id
      BY <3>1, <3>2, <3>3, <3>4
    <3>10. PhaseData'
      BY <2>2 DEF PhaseData
    <3> QED
      BY <2>1, <2>2, <3>2, <3>4, <3>5, <3>6, <3>7, <3>8, <3>9, <3>10, TypedStep
  <2> QED
    BY <2>1, <2>3, <2>4
<1>4. CASE claimDone
  <2>1. PhaseData' /\ pc' \in Phases
    BY <1>4 DEF claimDone, PhaseData, Phases
  <2> QED
    BY <1>4, <2>1, TypedStep DEF claimDone, Keeps
<1>5. CASE startBatch
  <2>1. PICK batch \in SUBSET waiting :
          /\ flight' = batch /\ waiting' = waiting \ batch
          /\ queue' = heartbeat(queue, {c.id : c \in batch})
          /\ UNCHANGED <<workers, paused, pc, job, expired, todo>>
          /\ pc = "run"
    BY <1>5 DEF startBatch
  <2>2. \A i \in DOMAIN queue : queue[i] \in Item /\ [queue[i] EXCEPT !.lease = LeaseTime] \in Item
    <3>1. LeaseTime \in 0..LeaseTime
      BY QueueAssumption
    <3>2. \A i \in DOMAIN queue : queue[i] \in Item
      BY LenProperties
    <3> QED
      BY <3>1, <3>2 DEF Item
  <2>3. /\ DOMAIN queue' = DOMAIN queue
        /\ \A i \in DOMAIN queue :
             queue'[i] \in {queue[i], [queue[i] EXCEPT !.lease = LeaseTime]}
    BY <2>1 DEF heartbeat
  <2>4. \A i \in DOMAIN queue :
          /\ queue'[i] \in Item /\ queue'[i].id = queue[i].id
          /\ queue'[i].st = queue[i].st /\ queue'[i].attempts = queue[i].attempts
    BY <2>2, <2>3 DEF Item
  <2>5. queue' \in Seq(Item)
    <3>1. queue' \in [1..Len(queue) -> Item]
      BY <1>0, <2>1, <2>3, <2>4 DEF heartbeat
    <3> QED
      BY <1>0, <3>1, FunctionIsSeq
  <2>6. GoodQueue(queue') /\ Keeps(queue, queue')
    BY <2>3, <2>4, <2>5 DEF GoodQueue, Keeps
  <2>7. todo' = {} /\ PhaseData'
    BY <2>1 DEF PhaseData
  <2> QED
    BY <2>1, <2>3, <2>6, <2>7, TypedStep
<1>6. ASSUME NEW c \in flight, settleRun(c)
      PROVE  TypeInv'
  BY <1>6, SettledTyped
<1>7. CASE drainDone
  <2>1. PhaseData' /\ pc' \in Phases /\ job' \in [limit : Nat, scope : SUBSET TaskIds]
    BY <1>7 DEF drainDone, PhaseData, Phases, NoJob
  <2> QED
    BY <1>7, <2>1, TypedStep DEF drainDone, Keeps, TodoPending
<1> QED
  BY <1>1, <1>2, <1>3, <1>4, <1>5, <1>6, <1>7 DEF drainStep

(* So does every step of the system. *)
LEMMA NextTyped == TypeInv /\ [Next]_vars => TypeInv'
<1> SUFFICES ASSUME TypeInv, [Next]_vars PROVE TypeInv'
  OBVIOUS
<1> USE DEF TypeInv, TypeOK
<1>1. CASE Command
  BY <1>1, CommandTyped
<1>2. CASE Reclaim
  <2>1. PhaseData' /\ pc' \in Phases /\ expired' \subseteq DOMAIN queue
    BY <1>2 DEF Reclaim, startReclaim, expiredLeases, PhaseData, Phases
  <2> QED
    BY <1>2, <2>1, TypedStep DEF Reclaim, Keeps, TodoPending
<1>3. CASE drainStep
  BY <1>3, DrainStepTyped
<1>4. ASSUME NEW limit \in Limits, NEW scope \in Scopes, startDrain(limit, scope)
      PROVE  TypeInv'
  <2>1. PhaseData' /\ pc' \in Phases /\ expired' \subseteq DOMAIN queue
    BY <1>4 DEF startDrain, startReclaim, expiredLeases, PhaseData, Phases
  <2>2. workers' \in [Workers -> Worker]
    BY <1>4 DEF startDrain, sweepIdleWorkers, RetiredWorker, Worker
  <2>3. job' \in [limit : Nat, scope : SUBSET TaskIds]
    BY <1>4, QueueAssumption DEF startDrain
  <2> QED
    BY <1>4, <2>1, <2>2, <2>3, TypedStep DEF startDrain, Keeps, TodoPending
<1>5. CASE drainDies
  <2>1. PhaseData' /\ pc' \in Phases /\ job' \in [limit : Nat, scope : SUBSET TaskIds]
    BY <1>5 DEF drainDies, PhaseData, Phases, NoJob
  <2> QED
    BY <1>5, <2>1, TypedStep DEF drainDies, Keeps, TodoPending
<1>6. CASE Tick
  <2>0. DOMAIN queue = 1..Len(queue) /\ Len(queue) \in Nat
    BY LenProperties
  <2>1. ASSUME NEW it \in Item
        PROVE  /\ olderItem(it) \in Item /\ olderItem(it).id = it.id
               /\ olderItem(it).st = it.st /\ olderItem(it).attempts = it.attempts
    <3>1. less(it.lease) \in 0..LeaseTime /\ less(it.wait) \in Nat
      BY QueueAssumption DEF Item, less
    <3> QED
      BY <3>1 DEF Item, olderItem
  <2>2. /\ queue' = [i \in DOMAIN queue |-> olderItem(queue[i])]
        /\ workers' = [w \in Workers |-> [workers[w] EXCEPT !.warm = less(@)]]
        /\ UNCHANGED <<paused, pc, job, expired, todo, waiting, flight>>
        /\ pc # "claim"
    BY <1>6 DEF Tick, drainVars
  <2>3. \A i \in DOMAIN queue :
          /\ queue'[i] \in Item /\ queue'[i].id = queue[i].id
          /\ queue'[i].st = queue[i].st /\ queue'[i].attempts = queue[i].attempts
    BY <2>1, <2>2, LenProperties
  <2>4. queue' \in Seq(Item) /\ DOMAIN queue' = DOMAIN queue
    <3>1. queue' \in [1..Len(queue) -> Item]
      BY <2>0, <2>2, <2>3
    <3> QED
      BY <2>0, <3>1, FunctionIsSeq
  <2>5. GoodQueue(queue') /\ Keeps(queue, queue')
    BY <2>3, <2>4 DEF GoodQueue, Keeps
  <2>6. workers' \in [Workers -> Worker]
    <3>1. ASSUME NEW w \in Workers
          PROVE  [workers[w] EXCEPT !.warm = less(@)] \in Worker
      BY DEF Worker, less
    <3> QED
      BY <2>2, <3>1
  <2>7. todo' = {} /\ PhaseData'
    BY <2>2 DEF PhaseData
  <2> QED
    BY <2>2, <2>4, <2>5, <2>6, <2>7, TypedStep
<1>7. CASE UNCHANGED vars
  <2>1. PhaseData'
    BY <1>7 DEF vars, PhaseData
  <2> QED
    BY <1>7, <2>1, TypedStep DEF vars, Keeps, TodoPending
<1> QED
  BY <1>1, <1>2, <1>3, <1>4, <1>5, <1>6, <1>7 DEF Next, Drain

(* What the later theorems need of the types. *)
THEOREM TypeInvHolds == Spec => []TypeInv
<1> QED
  BY InitTyped, NextTyped, PTL DEF Spec

(* The state stays typed for all tasks, agents, pools and drains, also if  *)
(* ids are redelivered, deliveries throw, drains die or commands run on    *)
(* the object of a drain: every id that completeQueued is given is found,  *)
(* and no item is attempted more than MaxAttempts times in a cycle.        *)
THEOREM TypeCorrect == Spec => []TypeOK
<1>1. TypeInv => TypeOK
  BY DEF TypeInv
<1> QED
  BY <1>1, TypeInvHolds, PTL

----------------------------------------------------------------------------
(* The policy ceiling, under every hazard. *)

LiveIn(ws) == {w \in Workers : ws[w].st # "retired"}

Committed == Live \cup {c.worker : c \in waiting \cup flight}

(* A run that succeeds turns its worker idle even when the record was      *)
(* retired meanwhile: not Live but Live with the workers of the claims in  *)
(* hand stays below the ceiling.  Claiming looks at Live alone, which is   *)
(* enough because no claimed worker is retired before the claim loop ends. *)
CapInv ==
  /\ Cardinality(Committed) <= PolicyCap
  /\ pc = "claim" => \A c \in waiting : workers[c.worker].st # "retired"

(* The committed workers are a finite set of worker ids. *)
LEMMA CommittedFinite ==
  ASSUME TypeOK
  PROVE  Committed \subseteq Workers /\ IsFiniteSet(Committed) /\ Cardinality(Committed) \in Nat
<1>1. Committed \subseteq Workers
  BY DEF Committed, Live, TypeOK, ClaimRecord
<1> QED
  BY <1>1, FS_Subset, FS_CardinalityType, QueueAssumption

(* Releases and sweeps revive nobody. *)
LEMMA ReleaseRevivesNobody ==
  ASSUME NEW ws \in [Workers -> Worker], NEW w \in Workers \cup {NoWorker}
  PROVE  LiveIn(releaseOrDestroyWorker(ws, w)) \subseteq LiveIn(ws)
BY DEF LiveIn, releaseOrDestroyWorker, Worker

(* Completing a task does not bring a retired worker back. *)
LEMMA CompletionRevivesNobody ==
  ASSUME NEW q, GoodQueue(q), NEW id, NEW k \in DOMAIN q, q[k].id = id,
         NEW ws \in [Workers -> Worker]
  PROVE  LiveIn(completedPool(q, ws, id)) \subseteq LiveIn(ws)
<1>1. q[itemOf(q, id)].worker \in Workers \cup {NoWorker}
  BY ItemOfFinds DEF GoodQueue
<1> QED
  BY <1>1, ReleaseRevivesNobody DEF completedPool

(* A run that returns brings back at most its own worker. *)
LEMMA ReturnRevivesItsWorker ==
  ASSUME NEW ws \in [Workers -> Worker], NEW w \in Workers
  PROVE  LiveIn(runReturned(ws, w)) \subseteq LiveIn(ws) \cup {w}
BY DEF LiveIn, runReturned, Worker

(* An action that commits nobody keeps the ceiling. *)
LEMMA NobodyCommitted ==
  ASSUME TypeOK, CapInv, Committed' \subseteq Committed,
         pc' = "claim" => \A c \in waiting' : workers'[c.worker].st # "retired"
  PROVE  CapInv'
<1>1. Cardinality(Committed') <= Cardinality(Committed)
  BY CommittedFinite, FS_Subset
<1>2. Cardinality(Committed') \in Nat
  BY CommittedFinite, FS_Subset, FS_CardinalityType
<1> QED
  BY <1>1, <1>2, CommittedFinite, QueueAssumption DEF CapInv

(* The standing pools that reconcile admitted are below the ceiling. *)
LEMMA InitCapped == Init => CapInv
<1> SUFFICES ASSUME Init PROVE CapInv
  OBVIOUS
<1>1. Committed = {w \in Workers : WorkerAgent[w] \notin OnDemand}
  BY DEF Init, Committed, Live, isOnDemand, RetiredWorker, IdleWorker
<1> QED
  BY <1>1, StandingPoolFits DEF Init, CapInv

(* Completing a run: its own worker was committed already. *)
LEMMA SettledCapped ==
  ASSUME TypeInv, CapInv, NEW c \in flight, settleRun(c)
  PROVE  CapInv'
<1> USE DEF TypeInv, TypeOK
<1>1. c.id \in TaskIds /\ c.worker \in Workers
  BY DEF ClaimRecord
<1>2. PICK k \in DOMAIN queue : queue[k].id = c.id
  BY DEF ClaimsKnown
<1>3. runReturned(workers, c.worker) \in [Workers -> Worker]
  BY <1>1, RunReturnedTyped
<1>4. LiveIn(workers') \subseteq LiveIn(workers) \cup {c.worker}
  <2>1. CASE runSucceeds(c)
    BY <1>1, <1>2, <1>3, <2>1, CompletionRevivesNobody, ReturnRevivesItsWorker
    DEF runSucceeds
  <2>2. CASE runFails(c)
    BY <1>2, <2>2, CompletionRevivesNobody DEF runFails
  <2>3. CASE deliveryThrows(c)
    <3> DEFINE q == completedQueue(queue, c.id, TRUE)
               ws == completedPool(queue, runReturned(workers, c.worker), c.id)
    <3>1. GoodQueue(q) /\ k \in DOMAIN q /\ q[k].id = c.id
      BY <1>2, CompletedQueueGood
    <3>2. ws \in [Workers -> Worker]
      BY <1>2, <1>3, CompletedPoolTyped
    <3>3. LiveIn(ws) \subseteq LiveIn(workers) \cup {c.worker}
      BY <1>1, <1>2, <1>3, CompletionRevivesNobody, ReturnRevivesItsWorker
    <3>4. workers' = completedPool(q, ws, c.id)
      BY <2>3 DEF deliveryThrows
    <3> HIDE DEF q, ws
    <3>5. LiveIn(workers') \subseteq LiveIn(ws)
      BY <3>1, <3>2, <3>4, CompletionRevivesNobody
    <3> QED
      BY <3>3, <3>5
  <2> QED
    BY <2>1, <2>2, <2>3 DEF settleRun
<1>5. waiting' \subseteq waiting /\ flight' \subseteq flight /\ pc' = pc /\ pc # "claim"
  BY DEF settleRun, runSucceeds, runFails, deliveryThrows, rejects, PhaseData
<1>6. Committed' \subseteq Committed
  BY <1>4, <1>5 DEF Committed, Live, LiveIn
<1> QED
  BY <1>5, <1>6, NobodyCommitted

(* A claim commits an idle worker, which is live, or spawns below the cap. *)
LEMMA ClaimCapped ==
  ASSUME TypeInv, CapInv, claimNext
  PROVE  CapInv'
<1> USE DEF TypeInv, TypeOK
<1>1. pc = "claim" /\ pc' = pc /\ flight' = flight /\ flight = {}
  BY DEF claimNext, PhaseData
<1>2. PICK i \in todo :
        \/ UNCHANGED <<queue, workers, waiting>>
        \/ \E w \in acquireWorker(queue[i].id) :
             /\ workers' = [workers EXCEPT ![w] = FreshWorker]
             /\ waiting' = waiting \cup {[id |-> queue[i].id, worker |-> w]}
  BY DEF claimNext
<1>3. CASE UNCHANGED <<queue, workers, waiting>>
  BY <1>1, <1>3, NobodyCommitted DEF Committed, Live, CapInv
<1>4. CASE \E w \in acquireWorker(queue[i].id) :
             /\ workers' = [workers EXCEPT ![w] = FreshWorker]
             /\ waiting' = waiting \cup {[id |-> queue[i].id, worker |-> w]}
  <2>1. PICK w \in acquireWorker(queue[i].id) :
          /\ workers' = [workers EXCEPT ![w] = FreshWorker]
          /\ waiting' = waiting \cup {[id |-> queue[i].id, worker |-> w]}
    BY <1>4
  <2>2. /\ w \in Workers
        /\ workers[w].st # "retired" \/ Cardinality(Live) < PolicyCap
    BY <2>1 DEF acquireWorker, pickable, spawnable
  <2>3. Committed = Live
    BY <1>1 DEF Committed, CapInv, Live, ClaimRecord
  <2>4. \A c \in waiting' : workers'[c.worker].st # "retired"
    BY <1>1, <2>1, <2>2 DEF CapInv, FreshWorker, ClaimRecord
  <2>5. Committed' \subseteq Live \cup {w}
    BY <1>1, <2>1, <2>2, <2>3 DEF Committed, Live
  <2>6. CASE workers[w].st # "retired"
    BY <2>2, <2>3, <2>4, <2>5, <2>6, NobodyCommitted DEF Live
  <2>7. CASE Cardinality(Live) < PolicyCap
    <3>1. IsFiniteSet(Live) /\ Cardinality(Live) \in Nat
      BY <2>3, CommittedFinite
    <3>2. /\ IsFiniteSet(Live \cup {w}) /\ Cardinality(Live \cup {w}) \in Nat
          /\ Cardinality(Live \cup {w}) <= Cardinality(Live) + 1
      <4>1. /\ IsFiniteSet(Live \cup {w})
            /\ Cardinality(Live \cup {w}) =
                 IF w \in Live THEN Cardinality(Live) ELSE Cardinality(Live) + 1
        BY ONLY <3>1, FS_AddElement
      <4> QED
        BY <3>1, <4>1
    <3>3. /\ Cardinality(Committed') \in Nat
          /\ Cardinality(Committed') <= Cardinality(Live \cup {w})
      BY <2>5, <3>2, FS_Subset, FS_CardinalityType
    <3>4. Cardinality(Committed') <= PolicyCap
      BY <2>7, <3>1, <3>2, <3>3, QueueAssumption
    <3> QED
      BY <2>4, <3>4 DEF CapInv
  <2> QED
    BY <2>2, <2>6, <2>7
<1> QED
  BY <1>2, <1>3, <1>4

(* Every step keeps the ceiling on the committed workers; the claim loop   *)
(* spawns only below it.                                                   *)
LEMMA NextCapped == TypeInv /\ CapInv /\ [Next]_vars => CapInv'
<1> SUFFICES ASSUME TypeInv, CapInv, [Next]_vars PROVE CapInv'
  OBVIOUS
<1> USE DEF TypeInv, TypeOK
<1>1. CASE Command
  <2>1. LiveIn(workers') \subseteq LiveIn(workers)
    BY <1>1 DEF Command, enqueueTask, setPaused, requeueDead, setCordon, evictWorker,
                LiveIn, RetiredWorker, Worker
  <2>2. UNCHANGED <<pc, waiting, flight>> /\ pc # "claim"
    BY <1>1 DEF Command, enqueueTask, setPaused, requeueDead, setCordon, evictWorker,
                drainVars, Quiet
  <2> QED
    BY <2>1, <2>2, NobodyCommitted DEF Committed, Live, LiveIn
<1>2. CASE Reclaim
  BY <1>2, NobodyCommitted DEF Reclaim, startReclaim, Committed, Live
<1>3. CASE reclaimNext
  <2>1. PICK i \in expired :
          /\ workers' = completedPool(queue, workers, queue[i].id)
          /\ UNCHANGED <<pc, waiting, flight>>
    BY <1>3 DEF reclaimNext
  <2>2. LiveIn(workers') \subseteq LiveIn(workers) /\ pc # "claim"
    BY <2>1, CompletionRevivesNobody DEF PhaseData
  <2> QED
    BY <2>1, <2>2, NobodyCommitted DEF Committed, Live, LiveIn
<1>4. CASE reclaimDone
  <2>1. waiting = {} /\ UNCHANGED <<workers, waiting, flight>>
    BY <1>4 DEF reclaimDone, PhaseData
  <2> QED
    BY <2>1, NobodyCommitted DEF Committed, Live
<1>5. CASE claimNext
  BY <1>5, ClaimCapped
<1>6. CASE claimDone
  BY <1>6, NobodyCommitted DEF claimDone, Committed, Live
<1>7. CASE startBatch
  <2>1. /\ flight' \subseteq waiting /\ waiting' \subseteq waiting
        /\ pc' # "claim" /\ UNCHANGED workers
    BY <1>7 DEF startBatch
  <2> QED
    BY <2>1, NobodyCommitted DEF Committed, Live
<1>8. ASSUME NEW c \in flight, settleRun(c)
      PROVE  CapInv'
  BY <1>8, SettledCapped
<1>9. CASE drainDone
  BY <1>9, NobodyCommitted DEF drainDone, Committed, Live
<1>10. ASSUME NEW limit \in Limits, NEW scope \in Scopes, startDrain(limit, scope)
       PROVE  CapInv'
  <2>1. LiveIn(workers') \subseteq LiveIn(workers)
    BY <1>10 DEF startDrain, sweepIdleWorkers, LiveIn, RetiredWorker
  <2>2. UNCHANGED <<waiting, flight>> /\ pc' # "claim"
    BY <1>10 DEF startDrain, startReclaim
  <2> QED
    BY <2>1, <2>2, NobodyCommitted DEF Committed, Live, LiveIn
<1>11. CASE drainDies
  BY <1>11, NobodyCommitted DEF drainDies, Committed, Live
<1>12. CASE Tick
  <2>1. LiveIn(workers') \subseteq LiveIn(workers)
    BY <1>12 DEF Tick, LiveIn, Worker
  <2>2. UNCHANGED <<pc, waiting, flight>> /\ pc # "claim"
    BY <1>12 DEF Tick, drainVars
  <2> QED
    BY <2>1, <2>2, NobodyCommitted DEF Committed, Live, LiveIn
<1>13. CASE UNCHANGED vars
  BY <1>13, NobodyCommitted DEF vars, Committed, Live, CapInv
<1> QED
  BY <1>1, <1>2, <1>3, <1>4, <1>5, <1>6, <1>7, <1>8, <1>9, <1>10, <1>11, <1>12, <1>13
  DEF Next, Drain, drainStep

(* The cluster-wide ceiling of the policy is never exceeded, whatever is   *)
(* redelivered, throws, dies or is evicted meanwhile, for every pool whose *)
(* standing workers fit under it.                                          *)
THEOREM PolicyCapKept == Spec => []PolicyCapHolds
<1>1. TypeInv /\ CapInv => PolicyCapHolds
  <2> SUFFICES ASSUME TypeInv, CapInv PROVE PolicyCapHolds
    OBVIOUS
  <2>1. /\ Cardinality(Live) \in Nat
        /\ Cardinality(Live) <= Cardinality(Committed)
    BY CommittedFinite, FS_Subset, FS_CardinalityType DEF Committed, TypeInv
  <2> QED
    BY <2>1, CommittedFinite, QueueAssumption DEF CapInv, PolicyCapHolds, TypeInv
<1> QED
  BY <1>1, TypeInvHolds, InitCapped, NextCapped, PTL DEF Spec

----------------------------------------------------------------------------
(* Claims and workers.                                                     *)

RunningIn(ws) == {w \in Workers : ws[w].st = "running"}

Accounted(it) ==
  /\ it.st = "dead" => it.attempts = MaxAttempts
  /\ it.st = "pending" => it.attempts < MaxAttempts
  /\ it.st \in {"claimed", "done"} => it.attempts > 0

(* Ids are unique, and the workers in R are held by a claimed item each.   *)
Held(q, R) ==
  /\ \A i, j \in DOMAIN q : q[i].id = q[j].id => i = j
  /\ \A i, j \in DOMAIN q :
       q[i].st = "claimed" /\ q[j].st = "claimed" /\ q[i].worker = q[j].worker => i = j
  /\ \A i \in DOMAIN q : q[i].st = "claimed" => q[i].worker \in R
  /\ \A w \in R : \E i \in DOMAIN q : q[i].st = "claimed" /\ q[i].worker = w
  /\ \A i \in DOMAIN q : Accounted(q[i])

ClaimsHeld(q, C) ==
  \A c \in C : \E i \in DOMAIN q :
    q[i].id = c.id /\ q[i].st = "claimed" /\ q[i].worker = c.worker

(* With one item to an id a completion finds the item its claim is about;  *)
(* the claims in hand are those of claimed items, each in hand once, and a *)
(* reclaim works on items that are still claimed.                          *)
FreshInv ==
  /\ Held(queue, RunningIn(workers))
  /\ ClaimsHeld(queue, waiting \cup flight)
  /\ \A i \in expired : queue[i].st = "claimed"
  /\ waiting \cap flight = {}

(* With one item to an id, the lookup of completeQueued by id finds the    *)
(* item that was meant.                                                    *)
LEMMA ItemOfUnique ==
  ASSUME NEW q \in Seq(Item), NEW R, Held(q, R), NEW k \in DOMAIN q
  PROVE  itemOf(q, q[k].id) = k
BY ItemOfFinds DEF Held

(* Nobody is running in the pool that was not, and who is released is not. *)
LEMMA ReleaseStops ==
  ASSUME NEW ws \in [Workers -> Worker], NEW w \in Workers \cup {NoWorker}
  PROVE  RunningIn(releaseOrDestroyWorker(ws, w)) = RunningIn(ws) \ {w}
BY QueueAssumption
DEF RunningIn, releaseOrDestroyWorker, Worker, IdleWorker, RetiredWorker

(* The worker a run returned to is no longer running, and no other is      *)
(* touched.                                                                *)
LEMMA ReturnStops ==
  ASSUME NEW ws \in [Workers -> Worker], NEW w \in Workers
  PROVE  RunningIn(runReturned(ws, w)) = RunningIn(ws) \ {w}
BY DEF RunningIn, runReturned, Worker

(* An item written with another status than "claimed": if it was claimed,  *)
(* its worker leaves the running ones.                                     *)
LEMMA LeaveHeld ==
  ASSUME NEW q, NEW r, NEW R, NEW k \in DOMAIN q,
         Held(q, R), DOMAIN r = DOMAIN q,
         \A i \in DOMAIN q : i # k => r[i] = q[i],
         r[k].id = q[k].id, r[k].st # "claimed", Accounted(r[k])
  PROVE  Held(r, IF q[k].st = "claimed" THEN R \ {q[k].worker} ELSE R)
<1> DEFINE S == IF q[k].st = "claimed" THEN R \ {q[k].worker} ELSE R
<1>1. \A i, j \in DOMAIN r : r[i].id = r[j].id => i = j
  <2>1. \A i \in DOMAIN q : r[i].id = q[i].id
    OBVIOUS
  <2> QED
    BY <2>1 DEF Held
<1>2. \A i \in DOMAIN r : r[i].st = "claimed" => i # k /\ r[i] = q[i]
  OBVIOUS
<1>3. \A i, j \in DOMAIN r :
        r[i].st = "claimed" /\ r[j].st = "claimed" /\ r[i].worker = r[j].worker => i = j
  BY <1>2 DEF Held
<1>4. \A i \in DOMAIN r : r[i].st = "claimed" => r[i].worker \in S
  BY <1>2 DEF Held
<1>5. ASSUME NEW w \in S
      PROVE  \E i \in DOMAIN r : r[i].st = "claimed" /\ r[i].worker = w
  <2>1. PICK i \in DOMAIN q : q[i].st = "claimed" /\ q[i].worker = w
    BY DEF Held
  <2> QED
    BY <2>1
<1>6. \A i \in DOMAIN r : Accounted(r[i])
  BY DEF Held
<1> HIDE DEF S
<1>7. Held(r, S)
  BY <1>1, <1>3, <1>4, <1>5, <1>6 DEF Held
<1> QED
  BY <1>7 DEF S

(* Leases, retry delays and charges may change, the rest stays held.       *)
LEMMA SameHeld ==
  ASSUME NEW q, NEW r, NEW R, NEW C, DOMAIN r = DOMAIN q,
         Held(q, R), ClaimsHeld(q, C),
         \A i \in DOMAIN q : /\ r[i].id = q[i].id /\ r[i].st = q[i].st
                             /\ r[i].worker = q[i].worker /\ r[i].attempts = q[i].attempts
  PROVE  Held(r, R) /\ ClaimsHeld(r, C)
<1>1. ClaimsHeld(r, C)
  BY DEF ClaimsHeld
<1>2. \A i \in DOMAIN r : Accounted(r[i])
  BY DEF Held, Accounted
<1>3. /\ \A i, j \in DOMAIN r : r[i].id = r[j].id => i = j
      /\ \A i, j \in DOMAIN r :
           r[i].st = "claimed" /\ r[j].st = "claimed" /\ r[i].worker = r[j].worker => i = j
      /\ \A i \in DOMAIN r : r[i].st = "claimed" => r[i].worker \in R
      /\ \A w \in R : \E i \in DOMAIN r : r[i].st = "claimed" /\ r[i].worker = w
  BY DEF Held
<1> QED
  BY <1>1, <1>2, <1>3 DEF Held

Without(R, w) == R \ {w}

(* completeQueued on a claimed item, or once more on an item whose worker  *)
(* has been released: queue and pool stay in step.                         *)
LEMMA CompletedHeld ==
  ASSUME NEW q, NEW R, NEW id, NEW k \in DOMAIN q, NEW ok \in BOOLEAN,
         NEW ws \in [Workers -> Worker],
         GoodQueue(q), Held(q, R), q[k].id = id,
         q[k].st \in {"claimed", "done"},
         q[k].st = "claimed" \/ q[k].worker \notin R,
         Without(RunningIn(ws), q[k].worker) = Without(R, q[k].worker)
  PROVE  /\ Held(completedQueue(q, id, ok), RunningIn(completedPool(q, ws, id)))
         /\ RunningIn(completedPool(q, ws, id)) = Without(R, q[k].worker)
<1> DEFINE r  == completedQueue(q, id, ok)
           us == completedPool(q, ws, id)
<1>1. q \in Seq(Item) /\ q[k] \in Item /\ itemOf(q, id) = k
  BY ItemOfUnique, LenProperties DEF GoodQueue
<1>2. /\ DOMAIN r = DOMAIN q
      /\ \A i \in DOMAIN q : i # k => r[i] = q[i]
      /\ r[k] = IF ok THEN doneItem(q[k]) ELSE failedItem(q[k])
  BY <1>1, CompletedQueueGood
<1>3. Accounted(q[k])
  BY DEF Held
<1>4. /\ q[k].attempts > 0 /\ q[k].attempts \in 0..MaxAttempts
      /\ q[k].worker \in Workers \cup {NoWorker}
  BY <1>1, <1>3 DEF Accounted, Item
<1>5. r[k].id = q[k].id /\ r[k].st # "claimed" /\ Accounted(r[k])
  BY <1>1, <1>2, <1>4, ItemChanges DEF Accounted
<1>6. RunningIn(us) = Without(R, q[k].worker)
  BY <1>1, <1>4, ReleaseStops DEF completedPool, Without
<1> HIDE DEF r, us
<1>7. Held(r, Without(R, q[k].worker))
  <2>1. Held(r, IF q[k].st = "claimed" THEN R \ {q[k].worker} ELSE R)
    BY <1>2, <1>5, LeaveHeld
  <2>2. q[k].st # "claimed" => R = R \ {q[k].worker}
    OBVIOUS
  <2> QED
    BY <2>1, <2>2 DEF Without
<1> QED
  BY <1>6, <1>7 DEF r, us

(* r is q but for its item k. *)
OnlyChanges(q, r, k) ==
  DOMAIN r = DOMAIN q /\ \A i \in DOMAIN q : i # k => r[i] = q[i]

(* completeQueued writes the one item with the id: done, or failed. *)
LEMMA CompletedItems ==
  ASSUME NEW q, NEW R, NEW id, NEW k \in DOMAIN q, NEW ok \in BOOLEAN,
         GoodQueue(q), Held(q, R), q[k].id = id
  PROVE  /\ OnlyChanges(q, completedQueue(q, id, ok), k)
         /\ completedQueue(q, id, ok)[k] = IF ok THEN doneItem(q[k]) ELSE failedItem(q[k])
<1>1. itemOf(q, id) = k
  BY ItemOfUnique DEF GoodQueue
<1>2. completedQueue(q, id, ok) = [q EXCEPT ![k] = IF ok THEN doneItem(q[k]) ELSE failedItem(q[k])]
  BY <1>1 DEF completedQueue
<1>3. q \in [1..Len(q) -> Item] /\ DOMAIN q = 1..Len(q)
  BY LenProperties DEF GoodQueue
<1> QED
  BY <1>2, <1>3 DEF OnlyChanges

(* The commands of clients and operators write no claimed item and start   *)
(* or stop no worker.                                                      *)
LEMMA CommandHeld ==
  ASSUME "redelivery" \notin Hazards, TypeInv, FreshInv, Command
  PROVE  Held(queue', RunningIn(workers)) /\ ClaimsHeld(queue', waiting \cup flight)
<1> USE DEF TypeInv, TypeOK, FreshInv
<1> DEFINE R == RunningIn(workers)
           C == waiting \cup flight
<1> HIDE DEF R, C
<1>0. /\ DOMAIN queue = 1..Len(queue) /\ Len(queue) \in Nat /\ 0 < MaxAttempts
      /\ Held(queue, R) /\ ClaimsHeld(queue, C)
  BY LenProperties, QueueAssumption DEF R, C
<1>1. ASSUME NEW id \in TaskIds, NEW v \in {"pending", "failed"}, enqueueTask(id, v)
      PROVE  Held(queue', R) /\ ClaimsHeld(queue', C)
  <2> DEFINE n == Len(queue) + 1
  <2>1. /\ DOMAIN queue' = 1..n /\ \A i \in DOMAIN queue : queue'[i] = queue[i]
        /\ queue'[n] = newItem(id, v)
    <3>1. newItem(id, v) \in Item
      BY QueueAssumption DEF newItem, Item, ItemStatus, MaxCharges
    <3> QED
      BY <1>0, <1>1, <3>1, AppendProperties, LenProperties DEF enqueueTask
  <2>2. \A i \in DOMAIN queue : queue[i].id # id
    <3>1. ~hasId(id, ItemStatus)
      BY <1>1 DEF enqueueTask
    <3>2. \A i \in DOMAIN queue : queue[i].st \in ItemStatus
      <4>1. \A i \in DOMAIN queue : queue[i] \in Item
        BY LenProperties
      <4> QED
        BY <4>1 DEF Item
    <3> QED
      BY <3>1, <3>2 DEF hasId
  <2>3. \A i \in DOMAIN queue' : i \in DOMAIN queue \/ i = n
    BY <1>0, <2>1
  <2>4. n \notin DOMAIN queue /\ DOMAIN queue \subseteq DOMAIN queue'
    BY <1>0, <2>1
  <2>5. queue'[n].id = id /\ queue'[n].st # "claimed" /\ Accounted(queue'[n])
    BY <1>0, <2>1 DEF newItem, Accounted
  <2> HIDE DEF n
  <2>6. \A i, j \in DOMAIN queue' : queue'[i].id = queue'[j].id => i = j
    BY <1>0, <2>1, <2>2, <2>3, <2>5 DEF Held
  <2>7. /\ \A i, j \in DOMAIN queue' :
             queue'[i].st = "claimed" /\ queue'[j].st = "claimed"
               /\ queue'[i].worker = queue'[j].worker => i = j
        /\ \A i \in DOMAIN queue' : queue'[i].st = "claimed" => queue'[i].worker \in R
    BY <1>0, <2>1, <2>3, <2>5 DEF Held
  <2>8. /\ \A w \in R : \E i \in DOMAIN queue' :
             queue'[i].st = "claimed" /\ queue'[i].worker = w
        /\ ClaimsHeld(queue', C)
    BY <1>0, <2>1, <2>4 DEF Held, ClaimsHeld
  <2>9. \A i \in DOMAIN queue' : Accounted(queue'[i])
    BY <1>0, <2>1, <2>3, <2>5 DEF Held
  <2> QED
    BY <2>6, <2>7, <2>8, <2>9 DEF Held
<1>2. ASSUME NEW i \in DOMAIN queue, requeueDead(i)
      PROVE  Held(queue', R) /\ ClaimsHeld(queue', C)
  <2> DEFINE it == [newItem(queue[i].id, "pending") EXCEPT !.charges = queue[i].charges]
  <2>1. it.id = queue[i].id /\ it.st = "pending" /\ it.attempts = 0
    BY DEF newItem
  <2>2. /\ queue[i].st = "dead"
        /\ DOMAIN queue' = DOMAIN queue /\ queue'[i] = it
        /\ \A j \in DOMAIN queue : j # i => queue'[j] = queue[j]
    BY <1>2 DEF requeueDead
  <2> HIDE DEF it
  <2>3. Held(queue', R)
    <3>1. Accounted(queue'[i])
      BY <1>0, <2>1, <2>2 DEF Accounted
    <3> QED
      BY <1>0, <2>1, <2>2, <3>1, LeaveHeld
  <2>4. ClaimsHeld(queue', C)
    BY <1>0, <2>2 DEF ClaimsHeld
  <2> QED
    BY <2>3, <2>4
<1>3. CASE UNCHANGED queue
  BY <1>0, <1>3
<1> QED
  BY <1>1, <1>2, <1>3 DEF Command, setPaused, setCordon, evictWorker, R, C

(* A run that settles, also one whose delivery throws after the success    *)
(* was recorded, frees exactly the worker of its claim.                    *)
LEMMA SettledHeld ==
  ASSUME TypeInv, FreshInv, NEW c \in flight, settleRun(c)
  PROVE  /\ Held(queue', RunningIn(workers'))
         /\ ClaimsHeld(queue', waiting' \cup flight')
<1> USE DEF TypeInv, TypeOK
<1>1. c.id \in TaskIds /\ c.worker \in Workers
  BY DEF ClaimRecord
<1>2. PICK k \in DOMAIN queue :
        queue[k].id = c.id /\ queue[k].st = "claimed" /\ queue[k].worker = c.worker
  BY DEF FreshInv, ClaimsHeld
<1> DEFINE R  == RunningIn(workers)
           ws == runReturned(workers, c.worker)
<1>3. Held(queue, R) /\ ws \in [Workers -> Worker] /\ RunningIn(ws) = R \ {queue[k].worker}
  BY <1>1, <1>2, RunReturnedTyped, ReturnStops DEF FreshInv
<1>4. /\ Held(queue', RunningIn(workers'))
      /\ OnlyChanges(queue, queue', k)
  <2>0. /\ GoodQueue(queue) /\ queue[k].st \in {"claimed", "done"}
        /\ workers \in [Workers -> Worker] /\ TRUE \in BOOLEAN /\ FALSE \in BOOLEAN
        /\ Without(RunningIn(ws), queue[k].worker) = Without(R, queue[k].worker)
        /\ RunningIn(workers) = R
    BY <1>2, <1>3 DEF Without
  <2> HIDE DEF R, ws
  <2>1. CASE runSucceeds(c)
    <3>1. queue' = completedQueue(queue, c.id, TRUE) /\ workers' = completedPool(queue, ws, c.id)
      BY <2>1 DEF runSucceeds, ws
    <3>2. Held(queue', RunningIn(workers'))
      BY <1>2, <1>3, <2>0, <3>1, CompletedHeld
    <3>3. OnlyChanges(queue, queue', k)
      BY <1>2, <1>3, <2>0, <3>1, CompletedItems
    <3> QED
      BY <3>2, <3>3
  <2>2. CASE runFails(c)
    <3>1. queue' = completedQueue(queue, c.id, FALSE) /\ workers' = completedPool(queue, workers, c.id)
      BY <2>2 DEF runFails
    <3>2. Held(queue', RunningIn(workers'))
      BY <1>2, <1>3, <2>0, <3>1, CompletedHeld
    <3>3. OnlyChanges(queue, queue', k)
      BY <1>2, <1>3, <2>0, <3>1, CompletedItems
    <3> QED
      BY <3>2, <3>3
  <2>3. CASE deliveryThrows(c)
    <3> DEFINE q == completedQueue(queue, c.id, TRUE)
               us == completedPool(queue, ws, c.id)
    <3>1. queue' = completedQueue(q, c.id, FALSE) /\ workers' = completedPool(q, us, c.id)
      BY <2>3 DEF deliveryThrows, ws
    <3>2. Held(q, RunningIn(us)) /\ RunningIn(us) = Without(R, queue[k].worker)
      <4>1. Held(q, RunningIn(us))
        BY <1>2, <1>3, <2>0, CompletedHeld
      <4>2. us = releaseOrDestroyWorker(ws, c.worker)
        BY <1>2, <1>3, ItemOfUnique DEF completedPool
      <4>3. RunningIn(us) = Without(RunningIn(ws), c.worker)
        BY <1>1, <1>3, <4>2, ReleaseStops DEF Without
      <4>4. RunningIn(us) = Without(R, queue[k].worker)
        BY <1>2, <2>0, <4>3
      <4> QED
        BY <4>1, <4>4
    <3>3. OnlyChanges(queue, q, k) /\ q[k] = doneItem(queue[k])
      <4>1. OnlyChanges(queue, q, k)
        BY <1>2, <1>3, <2>0, CompletedItems
      <4>2. itemOf(queue, c.id) = k /\ DOMAIN queue = 1..Len(queue)
        BY <1>2, <1>3, ItemOfUnique, LenProperties
      <4>3. q[k] = doneItem(queue[k])
        BY <1>2, <4>2 DEF completedQueue
      <4> QED
        BY <4>1, <4>3
    <3>4. us \in [Workers -> Worker] /\ GoodQueue(q)
      BY <1>2, <1>3, <2>0, CompletedPoolTyped, CompletedQueueGood
    <3> HIDE DEF q, us
    <3>5. q[k].id = c.id /\ q[k].st = "done" /\ q[k].worker = queue[k].worker
      <4>1. queue[k] \in Item
        BY <1>2, LenProperties
      <4> QED
        BY <1>2, <3>3, <4>1, ItemChanges
    <3>6. k \in DOMAIN q /\ q[k].st \in {"claimed", "done"} /\ q[k].worker \notin RunningIn(us)
      BY <3>2, <3>3, <3>5 DEF Without, OnlyChanges
    <3>7. Held(queue', RunningIn(workers'))
      BY <2>0, <3>1, <3>2, <3>3, <3>4, <3>5, <3>6, CompletedHeld
    <3>8. OnlyChanges(q, queue', k)
      BY <2>0, <3>1, <3>2, <3>4, <3>5, <3>6, CompletedItems
    <3> QED
      BY <3>3, <3>7, <3>8 DEF OnlyChanges
  <2> QED
    BY <2>1, <2>2, <2>3 DEF settleRun
<1>5. waiting' \subseteq waiting /\ flight' = flight \ {c}
  BY DEF settleRun, runSucceeds, runFails, deliveryThrows, rejects
<1>6. ASSUME NEW d \in waiting' \cup flight'
      PROVE  \E i \in DOMAIN queue' :
               queue'[i].id = d.id /\ queue'[i].st = "claimed" /\ queue'[i].worker = d.worker
  <2>1. d \in waiting \cup flight /\ d # c /\ d \in ClaimRecord /\ c \in ClaimRecord
    BY <1>5 DEF FreshInv
  <2>2. PICK i \in DOMAIN queue :
          queue[i].id = d.id /\ queue[i].st = "claimed" /\ queue[i].worker = d.worker
    BY <2>1 DEF FreshInv, ClaimsHeld
  <2>3. i # k
    BY <1>2, <2>1, <2>2 DEF ClaimRecord
  <2> QED
    BY <1>4, <2>2, <2>3 DEF OnlyChanges
<1> QED
  BY <1>4, <1>6 DEF ClaimsHeld

(* A claim takes a pending item and a worker that nothing holds. *)
LEMMA ClaimedHeld ==
  ASSUME TypeInv, FreshInv, claimNext
  PROVE  FreshInv'
<1> USE DEF TypeInv, TypeOK
<1>1. /\ pc = "claim" /\ UNCHANGED <<pc, expired, flight>>
      /\ flight = {} /\ expired = {}
      /\ Held(queue, RunningIn(workers)) /\ ClaimsHeld(queue, waiting)
  BY DEF claimNext, PhaseData, FreshInv
<1>2. PICK i \in todo :
        \/ UNCHANGED <<queue, workers, waiting>>
        \/ \E w \in acquireWorker(queue[i].id) :
             /\ queue' = [queue EXCEPT ![i] = claimedItem(@, w)]
             /\ workers' = [workers EXCEPT ![w] = FreshWorker]
             /\ waiting' = waiting \cup {[id |-> queue[i].id, worker |-> w]}
  BY DEF claimNext
<1>3. CASE UNCHANGED <<queue, workers, waiting>>
  BY <1>1, <1>3 DEF FreshInv
<1>4. CASE \E w \in acquireWorker(queue[i].id) :
             /\ queue' = [queue EXCEPT ![i] = claimedItem(@, w)]
             /\ workers' = [workers EXCEPT ![w] = FreshWorker]
             /\ waiting' = waiting \cup {[id |-> queue[i].id, worker |-> w]}
  <2>1. PICK w \in Workers :
          /\ w \in acquireWorker(queue[i].id)
          /\ queue' = [queue EXCEPT ![i] = claimedItem(queue[i], w)]
          /\ workers' = [workers EXCEPT ![w] = FreshWorker]
          /\ waiting' = waiting \cup {[id |-> queue[i].id, worker |-> w]}
    BY <1>4 DEF acquireWorker, pickable, spawnable
  <2> DEFINE R == RunningIn(workers)
             it == claimedItem(queue[i], w)
  <2>2. /\ i \in DOMAIN queue /\ queue[i].st = "pending" /\ queue[i] \in Item
        /\ queue[i].attempts < MaxAttempts /\ queue[i].attempts \in Nat
    <3>1. i \in DOMAIN queue /\ queue[i].st = "pending" /\ queue[i] \in Item
      BY <1>2, LenProperties DEF TodoPending
    <3>2. queue[i].attempts \in Nat
      BY <3>1 DEF Item
    <3>3. queue[i].attempts < MaxAttempts
      BY <3>1 DEF GoodQueue
    <3> QED
      BY <3>1, <3>2, <3>3
  <2>3. /\ it.id = queue[i].id /\ it.st = "claimed" /\ it.worker = w
        /\ it.attempts = queue[i].attempts + 1
    BY <2>2, ItemChanges
  <2>4. DOMAIN queue' = DOMAIN queue /\ queue'[i] = it
        /\ \A j \in DOMAIN queue : j # i => queue'[j] = queue[j]
    BY <2>1, <2>2
  <2>5. w \notin R /\ RunningIn(workers') = R \cup {w}
    BY <2>1 DEF RunningIn, acquireWorker, pickable, spawnable, FreshWorker
  <2>6. Held(queue, R)
    BY <1>1
  <2> HIDE DEF R, it
  <2>7. \A j, k \in DOMAIN queue' : queue'[j].id = queue'[k].id => j = k
    <3>1. \A j \in DOMAIN queue : queue'[j].id = queue[j].id
      BY <2>3, <2>4
    <3> QED
      BY <2>4, <2>6, <3>1 DEF Held
  <2>8. \A j \in DOMAIN queue : queue[j].st = "claimed" => j # i /\ queue[j].worker # w
    BY <2>2, <2>5, <2>6 DEF Held
  <2>9. /\ \A j, k \in DOMAIN queue' :
             queue'[j].st = "claimed" /\ queue'[k].st = "claimed"
               /\ queue'[j].worker = queue'[k].worker => j = k
        /\ \A j \in DOMAIN queue' : queue'[j].st = "claimed" => queue'[j].worker \in R \cup {w}
    BY <2>3, <2>4, <2>6, <2>8 DEF Held
  <2>10. ASSUME NEW v \in R \cup {w}
         PROVE  \E j \in DOMAIN queue' : queue'[j].st = "claimed" /\ queue'[j].worker = v
    <3>1. CASE v = w
      BY <2>2, <2>3, <2>4, <3>1
    <3>2. CASE v \in R
      <4>1. PICK j \in DOMAIN queue : queue[j].st = "claimed" /\ queue[j].worker = v
        BY <2>6, <3>2 DEF Held
      <4> QED
        BY <2>4, <2>8, <4>1
    <3> QED
      BY <3>1, <3>2
  <2>11. \A j \in DOMAIN queue' : Accounted(queue'[j])
    <3>1. Accounted(it)
      BY <2>2, <2>3 DEF Accounted
    <3> QED
      BY <2>4, <2>6, <3>1 DEF Held
  <2>12. Held(queue', RunningIn(workers'))
    BY <2>5, <2>7, <2>9, <2>10, <2>11 DEF Held
  <2>13. ClaimsHeld(queue', waiting')
    <3>1. ASSUME NEW c \in waiting
          PROVE  \E j \in DOMAIN queue' :
                   queue'[j].id = c.id /\ queue'[j].st = "claimed" /\ queue'[j].worker = c.worker
      <4>1. PICK j \in DOMAIN queue :
              queue[j].id = c.id /\ queue[j].st = "claimed" /\ queue[j].worker = c.worker
        BY <1>1 DEF ClaimsHeld
      <4> QED
        BY <2>4, <2>8, <4>1
    <3>2. \A c \in waiting' : c \in waiting \/ (c.id = queue[i].id /\ c.worker = w)
      BY <2>1
    <3>3. i \in DOMAIN queue' /\ queue'[i].id = queue[i].id /\ queue'[i].st = "claimed"
            /\ queue'[i].worker = w
      BY <2>2, <2>3, <2>4
    <3> QED
      BY <3>1, <3>2, <3>3 DEF ClaimsHeld
  <2> QED
    BY <1>1, <2>12, <2>13 DEF FreshInv
<1> QED
  BY <1>2, <1>3, <1>4

(* Reclaiming an expired lease frees exactly the worker of the claim that  *)
(* was left behind.                                                        *)
LEMMA ReclaimedHeld ==
  ASSUME TypeInv, FreshInv, reclaimNext
  PROVE  FreshInv'
<1> USE DEF TypeInv, TypeOK
<1>1. PICK i \in expired :
        /\ expired' = expired \ {i}
        /\ queue' = completedQueue(queue, queue[i].id, FALSE)
        /\ workers' = completedPool(queue, workers, queue[i].id)
        /\ UNCHANGED <<paused, pc, job, todo, waiting, flight>>
  BY DEF reclaimNext
<1>2. waiting = {} /\ flight = {}
  BY DEF PhaseData
<1> DEFINE id == queue[i].id
           R == RunningIn(workers)
<1>3. /\ i \in DOMAIN queue /\ queue[i].st \in {"claimed", "done"} /\ queue[i].st = "claimed"
      /\ GoodQueue(queue) /\ Held(queue, R) /\ FALSE \in BOOLEAN
      /\ queue[i].id = id /\ R = RunningIn(workers)
  BY DEF FreshInv
<1>4. queue' = completedQueue(queue, id, FALSE) /\ workers' = completedPool(queue, workers, id)
  BY <1>1
<1> HIDE DEF id, R
<1>5. Held(queue', RunningIn(workers'))
  BY <1>3, <1>4, CompletedHeld
<1>6. OnlyChanges(queue, queue', i)
  BY <1>3, <1>4, CompletedItems
<1>7. \A j \in expired' : queue'[j].st = "claimed"
  BY <1>1, <1>6 DEF OnlyChanges, FreshInv
<1> QED
  BY <1>1, <1>2, <1>5, <1>7 DEF FreshInv, ClaimsHeld

(* Before anything is queued nobody runs: a static worker starts idle. *)
LEMMA InitHeld == Init => FreshInv
<1> SUFFICES ASSUME Init PROVE FreshInv
  OBVIOUS
<1>1. DOMAIN queue = {} /\ RunningIn(workers) = {}
  BY DEF Init, RunningIn, RetiredWorker, IdleWorker
<1> QED
  BY <1>1 DEF Init, FreshInv, Held, ClaimsHeld

(* An action that leaves the running workers alone and gives up claims. *)
LEMMA FreshStep ==
  ASSUME Held(queue', RunningIn(workers)),
         RunningIn(workers') = RunningIn(workers),
         ClaimsHeld(queue', waiting \cup flight),
         waiting' \cup flight' \subseteq waiting \cup flight,
         \A i \in expired' : queue'[i].st = "claimed",
         waiting' \cap flight' = {}
  PROVE  FreshInv'
BY DEF FreshInv, ClaimsHeld

(* With fresh ids every step keeps the claims and the running workers in   *)
(* step; one case per action.                                              *)
LEMMA NextHeld ==
  ASSUME "redelivery" \notin Hazards, TypeInv, FreshInv, [Next]_vars
  PROVE  FreshInv'
<1> USE DEF TypeInv, TypeOK
<1>0. /\ Held(queue, RunningIn(workers)) /\ ClaimsHeld(queue, waiting \cup flight)
      /\ \A i \in expired : queue[i].st = "claimed"
      /\ waiting \cap flight = {}
  BY DEF FreshInv
<1>1. CASE Command
  <2>1. RunningIn(workers') = RunningIn(workers)
    <3>1. ASSUME NEW w \in Workers, NEW c \in BOOLEAN, setCordon(w, c)
          PROVE  RunningIn(workers') = RunningIn(workers)
      BY <3>1 DEF setCordon, RunningIn, Worker
    <3>2. ASSUME NEW w \in Workers, evictWorker(w)
          PROVE  RunningIn(workers') = RunningIn(workers)
      BY <3>2 DEF evictWorker, RunningIn, Worker, RetiredWorker
    <3>3. CASE UNCHANGED workers
      BY <3>3 DEF RunningIn
    <3> QED
      BY <1>1, <3>1, <3>2, <3>3 DEF Command, enqueueTask, setPaused, requeueDead
  <2>2. UNCHANGED <<expired, waiting, flight>> /\ expired = {}
    BY <1>1 DEF Command, enqueueTask, setPaused, requeueDead, setCordon, evictWorker,
                drainVars, Quiet, PhaseData
  <2>3. Held(queue', RunningIn(workers)) /\ ClaimsHeld(queue', waiting \cup flight)
    BY <1>1, CommandHeld
  <2> QED
    BY <1>0, <2>1, <2>2, <2>3, FreshStep
<1>2. CASE Reclaim
  BY <1>0, <1>2, FreshStep DEF Reclaim, startReclaim, expiredLeases
<1>3. CASE reclaimNext
  BY <1>3, ReclaimedHeld
<1>4. CASE reclaimDone
  <2>1. \A i \in expired' : queue[i].st = "claimed"
    BY <1>0, <1>4 DEF reclaimDone, startReclaim, expiredLeases
  <2> QED
    BY <1>0, <1>4, <2>1, FreshStep DEF reclaimDone
<1>5. CASE claimNext
  BY <1>5, ClaimedHeld
<1>6. CASE claimDone
  BY <1>0, <1>6, FreshStep DEF claimDone
<1>7. CASE startBatch
  <2>1. PICK batch \in SUBSET waiting :
          /\ flight' = batch /\ waiting' = waiting \ batch
          /\ queue' = heartbeat(queue, {c.id : c \in batch})
          /\ UNCHANGED <<workers, paused, pc, job, expired, todo>>
    BY <1>7 DEF startBatch
  <2>2. /\ DOMAIN queue' = DOMAIN queue
        /\ \A i \in DOMAIN queue :
             /\ queue'[i].id = queue[i].id /\ queue'[i].st = queue[i].st
             /\ queue'[i].worker = queue[i].worker
             /\ queue'[i].attempts = queue[i].attempts
    <3>1. /\ DOMAIN queue' = DOMAIN queue
          /\ \A i \in DOMAIN queue :
               queue'[i] \in {queue[i], [queue[i] EXCEPT !.lease = LeaseTime]}
      BY <2>1 DEF heartbeat
    <3>2. \A i \in DOMAIN queue : queue[i] \in Item
      BY LenProperties
    <3> QED
      BY <3>1, <3>2 DEF Item
  <2>3. Held(queue', RunningIn(workers)) /\ ClaimsHeld(queue', waiting \cup flight)
    BY <1>0, <2>2, SameHeld
  <2>4. expired' = {}
    BY <1>7, <2>1 DEF startBatch, PhaseData
  <2> QED
    BY <2>1, <2>3, <2>4, FreshStep
<1>8. ASSUME NEW c \in flight, settleRun(c)
      PROVE  FreshInv'
  <2>1. /\ Held(queue', RunningIn(workers'))
        /\ ClaimsHeld(queue', waiting' \cup flight')
    BY <1>8, SettledHeld
  <2>2. waiting' \subseteq waiting /\ flight' \subseteq flight /\ expired' = {}
    BY <1>8 DEF settleRun, runSucceeds, runFails, deliveryThrows, rejects, PhaseData
  <2> QED
    BY <1>0, <2>1, <2>2 DEF FreshInv
<1>9. CASE drainDone
  BY <1>0, <1>9, FreshStep DEF drainDone
<1>10. ASSUME NEW limit \in Limits, NEW scope \in Scopes, startDrain(limit, scope)
       PROVE  FreshInv'
  <2>1. RunningIn(workers') = RunningIn(workers)
    BY <1>10 DEF startDrain, sweepIdleWorkers, RunningIn, RetiredWorker
  <2>2. \A i \in expired' : queue[i].st = "claimed"
    BY <1>10 DEF startDrain, startReclaim, expiredLeases
  <2> QED
    BY <1>0, <1>10, <2>1, <2>2, FreshStep DEF startDrain
<1>11. CASE drainDies
  BY <1>0, <1>11, FreshStep DEF drainDies
<1>12. CASE Tick
  <2>1. /\ queue' = [i \in DOMAIN queue |-> olderItem(queue[i])]
        /\ workers' = [w \in Workers |-> [workers[w] EXCEPT !.warm = less(@)]]
        /\ UNCHANGED <<pc, expired, waiting, flight>>
    BY <1>12 DEF Tick, drainVars
  <2>2. /\ DOMAIN queue' = DOMAIN queue
        /\ \A i \in DOMAIN queue :
             /\ queue'[i].id = queue[i].id /\ queue'[i].st = queue[i].st
             /\ queue'[i].worker = queue[i].worker
             /\ queue'[i].attempts = queue[i].attempts
    <3>1. \A i \in DOMAIN queue : queue[i] \in Item
      BY LenProperties
    <3> QED
      BY <2>1, <3>1 DEF Item, olderItem
  <2>3. Held(queue', RunningIn(workers)) /\ ClaimsHeld(queue', waiting \cup flight)
    BY <1>0, <2>2, SameHeld
  <2>4. RunningIn(workers') = RunningIn(workers)
    BY <2>1 DEF RunningIn, Worker
  <2>5. \A i \in expired' : queue'[i].st = "claimed"
    BY <1>0, <2>1, <2>2
  <2> QED
    BY <1>0, <2>1, <2>3, <2>4, <2>5, FreshStep
<1>13. CASE UNCHANGED vars
  BY <1>0, <1>13, FreshStep DEF vars
<1> QED
  BY <1>1, <1>2, <1>3, <1>4, <1>5, <1>6, <1>7, <1>8, <1>9, <1>10, <1>11, <1>12, <1>13
  DEF Next, Drain, drainStep

(* While every id is submitted once, claims, running workers and the       *)
(* drain's lists agree in every reachable state.                           *)
THEOREM FreshInvHolds ==
  ASSUME "redelivery" \notin Hazards
  PROVE  Spec => []FreshInv
<1>1. TypeInv /\ FreshInv /\ [Next]_vars => FreshInv'
  BY NextHeld
<1> QED
  BY <1>1, TypeInvHolds, InitHeld, PTL DEF Spec

(* No worker executes two claims, for every pool and every interleaving of *)
(* drains that die, deliveries that throw and commands, while no id is     *)
(* submitted a second time.                                                *)
THEOREM OneClaimPerWorker ==
  ASSUME "redelivery" \notin Hazards
  PROVE  Spec => []WorkerExclusive
<1>1. FreshInv => WorkerExclusive
  BY DEF FreshInv, Held, WorkerExclusive, isClaimed
<1> QED
  BY <1>1, FreshInvHolds, PTL

(* A worker is running exactly while a claimed item holds it: no phantom   *)
(* keeps a slot after its drain died or its lease was reclaimed.           *)
THEOREM NoPhantomWorkers ==
  ASSUME "redelivery" \notin Hazards
  PROVE  Spec => []RunningIffClaimed
<1>1. FreshInv => RunningIffClaimed
  BY DEF FreshInv, Held, RunningIffClaimed, isClaimed, RunningIn
<1> QED
  BY <1>1, FreshInvHolds, PTL

(* A run completes the item it claimed and none else. *)
THEOREM RunsKeepTheirItem ==
  ASSUME "redelivery" \notin Hazards
  PROVE  Spec => []RunsOwnTheirItem
<1>1. TypeInv /\ FreshInv => RunsOwnTheirItem
  <2> SUFFICES ASSUME TypeInv, FreshInv, NEW c \in waiting \cup flight
               PROVE  /\ queue[itemOf(queue, c.id)].st = "claimed"
                      /\ queue[itemOf(queue, c.id)].worker = c.worker
    BY DEF RunsOwnTheirItem
  <2>1. PICK i \in DOMAIN queue :
          queue[i].id = c.id /\ queue[i].st = "claimed" /\ queue[i].worker = c.worker
    BY DEF FreshInv, ClaimsHeld
  <2>2. itemOf(queue, queue[i].id) = i
    BY ItemOfUnique DEF FreshInv, TypeInv, TypeOK
  <2> QED
    BY <2>1, <2>2
<1> QED
  BY <1>1, TypeInvHolds, FreshInvHolds, PTL

(* Attempts are spent by claims alone and dead items have spent them all. *)
THEOREM AttemptsAreSpent ==
  ASSUME "redelivery" \notin Hazards
  PROVE  Spec => []AttemptsAccounted
<1>1. FreshInv => AttemptsAccounted
  BY DEF FreshInv, Held, Accounted, AttemptsAccounted
<1> QED
  BY <1>1, FreshInvHolds, PTL

----------------------------------------------------------------------------
(* The refinement: each step of WorkQueue is a lifecycle step of one task, *)
(* or leaves every task's status and attempts as they are.                 *)

TaskOf(it) == [st |-> it.st, attempts |-> it.attempts]

(* What the refinement mapping of Lifecycle makes of a queue. *)
TasksOf(q) == [i \in DOMAIN q |-> TaskOf(q[i])]

(* What a settled or reclaimed claim may have become. *)
Settles(it, r) ==
  /\ r.attempts = it.attempts
  /\ r.st \in {"done", "pending", "dead"}
  /\ r.st = "pending" => it.attempts < MaxAttempts
  /\ r.st = "dead" => it.attempts = MaxAttempts

SettlesOne(q, r) ==
  \E k \in DOMAIN q : q[k].st = "claimed" /\ OnlyChanges(q, r, k) /\ Settles(q[k], r[k])

(* What a completion makes of a claimed item is a success, a retry or a    *)
(* burial, also when the delivery throws in between.                       *)
LEMMA SettledItem ==
  ASSUME NEW it \in Item, it.attempts > 0
  PROVE  /\ Settles(it, doneItem(it))
         /\ Settles(it, failedItem(it))
         /\ Settles(it, failedItem(doneItem(it)))
<1>1. /\ doneItem(it) \in Item /\ doneItem(it).attempts = it.attempts
      /\ doneItem(it).st = "done"
  BY ItemChanges
<1>2. /\ failedItem(it).attempts = it.attempts
      /\ failedItem(it).st \in {"pending", "dead"}
      /\ failedItem(it).st = "pending" => it.attempts < MaxAttempts
      /\ failedItem(it).st = "dead" => it.attempts = MaxAttempts
  BY ItemChanges
<1>3. /\ failedItem(doneItem(it)).attempts = it.attempts
      /\ failedItem(doneItem(it)).st \in {"pending", "dead"}
      /\ failedItem(doneItem(it)).st = "pending" => it.attempts < MaxAttempts
      /\ failedItem(doneItem(it)).st = "dead" => it.attempts = MaxAttempts
  <2> DEFINE d == doneItem(it)
  <2>1. d \in Item /\ d.attempts = it.attempts
    BY <1>1
  <2> HIDE DEF d
  <2>2. /\ failedItem(d).attempts = it.attempts
        /\ failedItem(d).st \in {"pending", "dead"}
        /\ failedItem(d).st = "pending" => it.attempts < MaxAttempts
        /\ failedItem(d).st = "dead" => it.attempts = MaxAttempts
    BY <2>1, ItemChanges
  <2> QED
    BY <2>2 DEF d
<1> QED
  BY <1>1, <1>2, <1>3 DEF Settles

(* A run that settles makes one such change to the item of its claim. *)
LEMMA SettledTask ==
  ASSUME TypeInv, FreshInv, NEW c \in flight, settleRun(c)
  PROVE  SettlesOne(queue, queue')
<1> USE DEF TypeInv, TypeOK
<1>1. PICK k \in DOMAIN queue :
        queue[k].id = c.id /\ queue[k].st = "claimed" /\ queue[k].worker = c.worker
  BY DEF FreshInv, ClaimsHeld
<1> DEFINE R == RunningIn(workers)
<1>2. /\ GoodQueue(queue) /\ Held(queue, R)
      /\ TRUE \in BOOLEAN /\ FALSE \in BOOLEAN
      /\ itemOf(queue, c.id) = k /\ DOMAIN queue = 1..Len(queue)
  BY <1>1, ItemOfUnique, LenProperties DEF FreshInv
<1>3. queue[k] \in Item /\ queue[k].attempts > 0
  <2>1. queue[k] \in Item
    BY <1>1, LenProperties
  <2>2. Accounted(queue[k])
    BY <1>1, <1>2 DEF Held
  <2> QED
    BY <1>1, <2>1, <2>2 DEF Accounted
<1> HIDE DEF R
<1>4. /\ OnlyChanges(queue, queue', k)
      /\ queue'[k] \in {doneItem(queue[k]), failedItem(queue[k]), failedItem(doneItem(queue[k]))}
  <2>1. CASE runSucceeds(c)
    <3>1. queue' = [queue EXCEPT ![k] = doneItem(queue[k])]
      BY <1>2, <2>1 DEF runSucceeds, completedQueue
    <3> QED
      BY <1>1, <1>2, <3>1 DEF OnlyChanges
  <2>2. CASE runFails(c)
    <3>1. queue' = [queue EXCEPT ![k] = failedItem(queue[k])]
      BY <1>2, <2>2 DEF runFails, completedQueue
    <3> QED
      BY <1>1, <1>2, <3>1 DEF OnlyChanges
  <2>3. CASE deliveryThrows(c)
    <3> DEFINE q == [queue EXCEPT ![k] = doneItem(queue[k])]
    <3>1. q = completedQueue(queue, c.id, TRUE)
      BY <1>2 DEF completedQueue
    <3>2. queue' = completedQueue(q, c.id, FALSE)
      BY <2>3, <3>1 DEF deliveryThrows
    <3>3. /\ GoodQueue(q) /\ DOMAIN q = DOMAIN queue /\ q[k] = doneItem(queue[k])
          /\ \A i \in DOMAIN queue : q[i].id = queue[i].id
          /\ \A i \in DOMAIN queue : i # k => q[i] = queue[i]
      <4>0. GoodQueue(completedQueue(queue, c.id, TRUE))
        BY <1>1, <1>2, CompletedQueueGood
      <4>1. GoodQueue(q)
        BY ONLY <3>1, <4>0
      <4>2. /\ DOMAIN q = DOMAIN queue /\ q[k] = doneItem(queue[k])
            /\ \A i \in DOMAIN queue : i # k => q[i] = queue[i]
        BY <1>1, <1>2
      <4>3. doneItem(queue[k]).id = queue[k].id
        BY <1>3, ItemChanges
      <4> HIDE DEF q
      <4> QED
        BY <4>1, <4>2, <4>3
    <3> HIDE DEF q
    <3>4. itemOf(q, c.id) = k
      <4>1. itemOf(q, c.id) \in DOMAIN q /\ q[itemOf(q, c.id)].id = c.id
        BY <1>1, <3>3, ItemOfFinds DEF GoodQueue
      <4>2. queue[itemOf(q, c.id)].id = queue[k].id
        BY <1>1, <3>3, <4>1
      <4> QED
        BY <1>1, <1>2, <3>3, <4>1, <4>2 DEF Held
    <3>5. queue' = [q EXCEPT ![k] = failedItem(q[k])]
      BY <3>2, <3>4 DEF completedQueue
    <3> QED
      BY <1>1, <3>3, <3>5 DEF OnlyChanges
  <2> QED
    BY <2>1, <2>2, <2>3 DEF settleRun
<1>5. Settles(queue[k], queue'[k])
  BY <1>3, <1>4, SettledItem
<1> QED
  BY <1>1, <1>4, <1>5 DEF SettlesOne

(* A reclaimed lease makes one such change to a claimed item. *)
LEMMA ReclaimedTask ==
  ASSUME TypeInv, FreshInv, reclaimNext
  PROVE  SettlesOne(queue, queue')
<1> USE DEF TypeInv, TypeOK
<1>1. PICK k \in expired : queue' = completedQueue(queue, queue[k].id, FALSE)
  BY DEF reclaimNext
<1>2. /\ k \in DOMAIN queue /\ queue[k].st = "claimed"
      /\ itemOf(queue, queue[k].id) = k /\ DOMAIN queue = 1..Len(queue)
  BY ItemOfUnique, LenProperties DEF FreshInv
<1>3. queue[k] \in Item /\ queue[k].attempts > 0
  <2>1. queue[k] \in Item
    BY <1>2, LenProperties
  <2>2. Accounted(queue[k])
    BY <1>2 DEF FreshInv, Held
  <2> QED
    BY <1>2, <2>1, <2>2 DEF Accounted
<1>4. queue' = [queue EXCEPT ![k] = failedItem(queue[k])]
  BY <1>1, <1>2 DEF completedQueue
<1>5. OnlyChanges(queue, queue', k) /\ queue'[k] = failedItem(queue[k])
  BY <1>2, <1>4 DEF OnlyChanges
<1>6. Settles(queue[k], queue'[k])
  BY <1>3, <1>5, SettledItem
<1> QED
  BY <1>2, <1>5, <1>6 DEF SettlesOne

(* A queue whose items keep status and attempts maps to the same tasks. *)
LEMMA SameTasks ==
  ASSUME NEW q, NEW r, DOMAIN r = DOMAIN q,
         \A i \in DOMAIN q : r[i].st = q[i].st /\ r[i].attempts = q[i].attempts
  PROVE  TasksOf(r) = TasksOf(q)
BY DEF TasksOf, TaskOf

(* Writing one item of the queue writes one task. *)
LEMMA OneTask ==
  ASSUME NEW q, NEW r, NEW k \in DOMAIN q, OnlyChanges(q, r, k)
  PROVE  TasksOf(r) = [TasksOf(q) EXCEPT ![k] = TaskOf(r[k])]
BY DEF TasksOf, OnlyChanges

(* Such a change is an edge of the lifecycle. *)
LEMMA SettlesIsLifecycle ==
  ASSUME SettlesOne(queue, queue')
  PROVE  Lifecycle!LifecycleNext
<1>1. PICK k \in DOMAIN queue :
        queue[k].st = "claimed" /\ OnlyChanges(queue, queue', k) /\ Settles(queue[k], queue'[k])
  BY DEF SettlesOne
<1>2. /\ TasksOf(queue') = [TasksOf(queue) EXCEPT ![k] = TaskOf(queue'[k])]
      /\ k \in DOMAIN TasksOf(queue) /\ TasksOf(queue)[k] = TaskOf(queue[k])
  BY <1>1, OneTask DEF TasksOf
<1>3. \/ queue'[k].st = "done"
      \/ queue'[k].st = "pending" /\ queue[k].attempts < MaxAttempts
      \/ queue'[k].st = "dead" /\ queue[k].attempts = MaxAttempts
  BY <1>1 DEF Settles
<1>4. Lifecycle!Succeed(k) \/ Lifecycle!Retry(k) \/ Lifecycle!Bury(k)
  BY <1>1, <1>2, <1>3
  DEF Settles, TaskOf, TasksOf, Lifecycle!Succeed, Lifecycle!Retry, Lifecycle!Bury,
      Lifecycle!Become
<1> QED
  BY <1>2, <1>4 DEF Lifecycle!LifecycleNext, TasksOf

(* Enqueueing, admitted, denied or dropped as a duplicate, submits one     *)
(* task or none.                                                           *)
LEMMA SubmitIsLifecycle ==
  ASSUME TypeInv, NEW id \in TaskIds, NEW v \in {"pending", "failed"}, enqueueTask(id, v)
  PROVE  Lifecycle!LifecycleNext
<1> DEFINE n == Len(queue)
           s == TasksOf(queue)
           e == [st |-> v, attempts |-> 0]
<1>1. /\ queue \in Seq(Item) /\ DOMAIN queue = 1..n /\ n \in Nat
      /\ queue' = Append(queue, newItem(id, v))
  BY LenProperties DEF TypeInv, TypeOK, enqueueTask
<1>2. newItem(id, v) \in Item /\ TaskOf(newItem(id, v)) = e
  BY QueueAssumption DEF newItem, Item, ItemStatus, MaxCharges, TaskOf
<1>3. /\ queue' \in Seq(Item) /\ DOMAIN queue' = 1..(n + 1) /\ Len(queue') = n + 1
      /\ \A i \in 1..n : queue'[i] = queue[i]
      /\ queue'[n + 1] = newItem(id, v)
  BY <1>1, <1>2, AppendProperties, LenProperties
<1> DEFINE S == {TaskOf(it) : it \in Item}
<1>4. /\ s \in [1..n -> S] /\ s \in Seq(S) /\ Len(s) = n
      /\ \A i \in 1..n : s[i] = TaskOf(queue[i])
  <2>1. s \in [1..n -> S] /\ \A i \in 1..n : s[i] = TaskOf(queue[i])
    BY <1>1, LenProperties DEF TasksOf
  <2> HIDE DEF s, S
  <2> QED
    BY <1>1, <2>1, FunctionIsSeq
<1>5. e \in S
  BY <1>2
<1>6. /\ Append(s, e) \in Seq(S) /\ Len(Append(s, e)) = n + 1
      /\ \A i \in 1..n : Append(s, e)[i] = s[i]
      /\ Append(s, e)[n + 1] = e
  <2> HIDE DEF s, e, S, n
  <2> QED
    BY <1>4, <1>5, AppendProperties
<1>7. TasksOf(queue') = Append(s, e)
  <2>1. /\ DOMAIN TasksOf(queue') = 1..(n + 1)
        /\ \A i \in 1..(n + 1) : TasksOf(queue')[i] = TaskOf(queue'[i])
    BY <1>3 DEF TasksOf
  <2>2. DOMAIN Append(s, e) = 1..(n + 1)
    <3> HIDE DEF s, e, S, n
    <3> QED
      BY <1>6, LenProperties
  <2>3. \A i \in 1..(n + 1) : TasksOf(queue')[i] = Append(s, e)[i]
    <3>1. \A i \in 1..(n + 1) : i \in 1..n \/ i = n + 1
      BY <1>1
    <3> HIDE DEF s, e, S, n
    <3> QED
      BY <1>2, <1>3, <1>4, <1>6, <2>1, <3>1
  <2>4. TasksOf(queue') \in Seq(S)
    <3>1. TasksOf(queue') \in [1..(n + 1) -> S] /\ n + 1 \in Nat
      BY <1>1, <1>3, <2>1, LenProperties DEF TasksOf
    <3> HIDE DEF s, e, S, n
    <3> QED
      BY <3>1, FunctionIsSeq
  <2>5. Len(TasksOf(queue')) = n + 1
    <3>1. TasksOf(queue') \in [1..(n + 1) -> S] /\ n + 1 \in Nat
      BY <1>1, <1>3, <2>1, LenProperties DEF TasksOf
    <3> HIDE DEF s, e, S, n
    <3> QED
      BY <3>1, FunctionIsSeq
  <2> HIDE DEF s, e, S, n
  <2> QED
    BY <1>6, <2>3, <2>4, <2>5, SeqEqual
<1>8. Lifecycle!Submit
  BY <1>7 DEF Lifecycle!Submit, TasksOf, TaskOf
<1> QED
  BY <1>8 DEF Lifecycle!LifecycleNext

(* A claim takes one pending task that has attempts left. *)
LEMMA ClaimIsLifecycle ==
  ASSUME TypeInv, NEW i \in todo, NEW w \in Workers,
         queue' = [queue EXCEPT ![i] = claimedItem(queue[i], w)]
  PROVE  Lifecycle!LifecycleNext
<1> USE DEF TypeInv, TypeOK
<1>1. /\ i \in DOMAIN queue /\ queue[i] \in Item /\ queue[i].st = "pending"
      /\ queue[i].attempts < MaxAttempts
  BY LenProperties DEF TodoPending, GoodQueue
<1>2. OnlyChanges(queue, queue', i) /\ queue'[i] = claimedItem(queue[i], w)
  BY <1>1 DEF OnlyChanges
<1>3. queue'[i].st = "claimed" /\ queue'[i].attempts = queue[i].attempts + 1
  BY <1>1, <1>2, ItemChanges
<1>4. /\ TasksOf(queue') = [TasksOf(queue) EXCEPT ![i] = TaskOf(queue'[i])]
      /\ i \in DOMAIN TasksOf(queue) /\ TasksOf(queue)[i] = TaskOf(queue[i])
  BY <1>1, <1>2, OneTask DEF TasksOf
<1>5. Lifecycle!Claim(i)
  BY <1>1, <1>3, <1>4 DEF TaskOf, TasksOf, Lifecycle!Claim, Lifecycle!Become
<1> QED
  BY <1>4, <1>5 DEF Lifecycle!LifecycleNext, TasksOf

(* Requeueing a dead letter starts its attempts again. *)
LEMMA ReviveIsLifecycle ==
  ASSUME TypeInv, NEW i \in DOMAIN queue, requeueDead(i)
  PROVE  Lifecycle!LifecycleNext
<1> DEFINE it == [newItem(queue[i].id, "pending") EXCEPT !.charges = queue[i].charges]
<1>1. it.st = "pending" /\ it.attempts = 0
  BY DEF newItem
<1>2. queue[i].st = "dead" /\ OnlyChanges(queue, queue', i) /\ queue'[i] = it
  BY DEF requeueDead, OnlyChanges
<1> HIDE DEF it
<1>3. /\ TasksOf(queue') = [TasksOf(queue) EXCEPT ![i] = TaskOf(queue'[i])]
      /\ i \in DOMAIN TasksOf(queue) /\ TasksOf(queue)[i] = TaskOf(queue[i])
  BY <1>2, OneTask DEF TasksOf
<1>4. Lifecycle!Revive(i)
  BY <1>1, <1>2, <1>3 DEF TaskOf, TasksOf, Lifecycle!Revive, Lifecycle!Become
<1> QED
  BY <1>3, <1>4 DEF Lifecycle!LifecycleNext, TasksOf

(* Every step of the queue is an edge of the lifecycle of one task, or     *)
(* changes none; one case per action.                                      *)
LEMMA NextIsLifecycle ==
  ASSUME "redelivery" \notin Hazards, TypeInv, FreshInv, [Next]_vars
  PROVE  Lifecycle!LifecycleNext \/ TasksOf(queue') = TasksOf(queue)
<1>1. CASE UNCHANGED queue
  BY <1>1
<1>2. CASE Command
  BY <1>1, <1>2, SubmitIsLifecycle, ReviveIsLifecycle
  DEF Command, setPaused, setCordon, evictWorker
<1>3. CASE reclaimNext
  BY <1>3, ReclaimedTask, SettlesIsLifecycle
<1>4. CASE claimNext
  <2>1. PICK i \in todo :
          \/ UNCHANGED queue
          \/ \E w \in Workers : queue' = [queue EXCEPT ![i] = claimedItem(queue[i], w)]
    BY <1>4 DEF claimNext, acquireWorker, pickable, spawnable
  <2> QED
    BY <1>1, <2>1, ClaimIsLifecycle
<1>5. CASE startBatch
  <2>1. \A i \in DOMAIN queue : queue[i] \in Item
    BY LenProperties DEF TypeInv, TypeOK
  <2>2. /\ DOMAIN queue' = DOMAIN queue
        /\ \A i \in DOMAIN queue :
             queue'[i] \in {queue[i], [queue[i] EXCEPT !.lease = LeaseTime]}
    BY <1>5 DEF startBatch, heartbeat
  <2>3. \A i \in DOMAIN queue :
          queue'[i].st = queue[i].st /\ queue'[i].attempts = queue[i].attempts
    BY <2>1, <2>2 DEF Item
  <2> QED
    BY <2>2, <2>3, SameTasks
<1>6. ASSUME NEW c \in flight, settleRun(c)
      PROVE  Lifecycle!LifecycleNext
  BY <1>6, SettledTask, SettlesIsLifecycle
<1>7. CASE Tick
  <2>1. \A i \in DOMAIN queue : queue[i] \in Item
    BY LenProperties DEF TypeInv, TypeOK
  <2>2. queue' = [i \in DOMAIN queue |-> olderItem(queue[i])]
    BY <1>7 DEF Tick
  <2>3. \A i \in DOMAIN queue :
          queue'[i].st = queue[i].st /\ queue'[i].attempts = queue[i].attempts
    BY <2>1, <2>2 DEF Item, olderItem
  <2> QED
    BY <2>2, <2>3, SameTasks
<1> QED
  BY <1>1, <1>2, <1>3, <1>4, <1>5, <1>6, <1>7
  DEF Next, Drain, drainStep, Reclaim, reclaimDone, claimDone, drainDone, startDrain,
      drainDies, vars

(* Every status change of an item is an edge of the documented lifecycle,  *)
(* for every pool, drain and interleaving in which ids are submitted once: *)
(* done is final, the dead letters are left by an operator only, and the   *)
(* attempts of a task grow by its claims alone.                            *)
THEOREM QueueImplementsLifecycle ==
  ASSUME "redelivery" \notin Hazards
  PROVE  Spec => ImplementsLifecycle
<1>1. Init => Lifecycle!LifecycleInit
  <2> SUFFICES ASSUME Init PROVE TasksOf(queue) = <<>>
    BY DEF Lifecycle!LifecycleInit, TasksOf, TaskOf
  <2> QED
    BY DEF Init, TasksOf
<1>2. TypeInv /\ FreshInv /\ [Next]_vars =>
        [Lifecycle!LifecycleNext]_([i \in DOMAIN queue |-> [st |-> queue[i].st, attempts |-> queue[i].attempts]])
  BY NextIsLifecycle DEF TasksOf, TaskOf
<1> QED
  BY <1>1, <1>2, TypeInvHolds, FreshInvHolds, PTL
  DEF Spec, ImplementsLifecycle, Lifecycle!LifecycleSpec

----------------------------------------------------------------------------
(* The budget. *)

Paid(it) == it.charges = IF it.st = "done" THEN 1 ELSE 0

ChargeInv == \A i \in DOMAIN queue : Paid(queue[i])

(* What the changes of an item charge: only a completion charges it. *)
LEMMA ItemCharges ==
  ASSUME NEW it \in Item, Paid(it), it.st # "done"
  PROVE  /\ Paid(doneItem(it))
         /\ Paid(failedItem(it))
         /\ \A w \in Workers : Paid(claimedItem(it, w))
<1>1. it.charges = 0 /\ it.charges < MaxCharges
  BY DEF Paid, MaxCharges
<1>2. Paid(doneItem(it))
  <2> DEFINE paid == IF it.charges < MaxCharges THEN it.charges + 1 ELSE it.charges
  <2>1. paid = 1
    BY <1>1
  <2>2. doneItem(it) = [it EXCEPT !.st = "done", !.lease = 0, !.wait = 0, !.charges = paid]
    BY DEF doneItem
  <2> HIDE DEF paid
  <2>3. doneItem(it).st = "done" /\ doneItem(it).charges = paid
    BY <2>2 DEF Item
  <2> QED
    BY <2>1, <2>3 DEF Paid
<1>3. Paid(failedItem(it))
  <2>1. CASE it.attempts > 0 /\ it.attempts < MaxAttempts
    <3>1. failedItem(it).charges = it.charges /\ failedItem(it).st = "pending"
      BY <2>1 DEF failedItem, Item
    <3> QED
      BY <1>1, <3>1 DEF Paid
  <2>2. CASE ~(it.attempts > 0 /\ it.attempts < MaxAttempts)
    <3>1. failedItem(it).charges = it.charges /\ failedItem(it).st = "dead"
      BY <2>2 DEF failedItem, Item
    <3> QED
      BY <1>1, <3>1 DEF Paid
  <2> QED
    BY <2>1, <2>2
<1>4. ASSUME NEW w \in Workers
      PROVE  Paid(claimedItem(it, w))
  <2> DEFINE next == it.attempts + 1
  <2>1. claimedItem(it, w) =
          [it EXCEPT !.st = "claimed", !.attempts = next, !.worker = w,
                     !.lease = LeaseTime, !.wait = 0]
    BY DEF claimedItem
  <2> HIDE DEF next
  <2>2. claimedItem(it, w).charges = it.charges /\ claimedItem(it, w).st = "claimed"
    BY <2>1 DEF Item
  <2> QED
    BY <1>1, <2>2 DEF Paid
<1> QED
  BY <1>2, <1>3, <1>4

(* A step that writes one item, and an item that is paid for as it should. *)
LEMMA OneItemCharged ==
  ASSUME ChargeInv, NEW k \in DOMAIN queue, NEW it, Paid(it), queue' = [queue EXCEPT ![k] = it]
  PROVE  ChargeInv'
BY DEF ChargeInv

(* A completion finds the claimed item that the run or the lease is about. *)
LEMMA CompletionCharges ==
  ASSUME TypeInv, FreshInv, ChargeInv, NEW k \in DOMAIN queue, queue[k].st = "claimed",
         NEW ok \in BOOLEAN, queue' = completedQueue(queue, queue[k].id, ok)
  PROVE  ChargeInv'
<1>1. queue[k] \in Item /\ itemOf(queue, queue[k].id) = k
  BY ItemOfUnique, LenProperties DEF TypeInv, TypeOK, FreshInv
<1>2. queue' = [queue EXCEPT ![k] = IF ok THEN doneItem(queue[k]) ELSE failedItem(queue[k])]
  BY <1>1 DEF completedQueue
<1>3. Paid(doneItem(queue[k])) /\ Paid(failedItem(queue[k]))
  BY <1>1, ItemCharges DEF ChargeInv
<1> QED
  BY <1>2, <1>3, OneItemCharged

(* Every step keeps the charges right; one case per action that writes the *)
(* queue.                                                                  *)
LEMMA NextCharges ==
  ASSUME Hazards \cap {"redelivery", "deliveryThrows"} = {},
         TypeInv, FreshInv, ChargeInv, [Next]_vars
  PROVE  ChargeInv'
<1>0. \A i \in DOMAIN queue : queue[i] \in Item
  BY LenProperties DEF TypeInv, TypeOK
<1>1. CASE UNCHANGED queue
  BY <1>1 DEF ChargeInv
<1>2. ASSUME NEW id \in TaskIds, NEW v \in {"pending", "failed"}, enqueueTask(id, v)
      PROVE  ChargeInv'
  <2>1. PICK it : it = newItem(id, v)
    OBVIOUS
  <2>2. it \in Item /\ Paid(it)
    BY <2>1, QueueAssumption DEF newItem, Paid, Item, ItemStatus, MaxCharges
  <2>3. queue' = Append(queue, it) /\ queue \in Seq(Item)
    BY <1>2, <2>1 DEF enqueueTask, TypeInv, TypeOK
  <2>4. \A i \in DOMAIN queue' :
          \/ i \in DOMAIN queue /\ queue'[i] = queue[i]
          \/ queue'[i] = it
    BY <2>2, <2>3, AppendProperties, LenProperties
  <2> QED
    BY <2>2, <2>4 DEF ChargeInv
<1>3. ASSUME NEW i \in DOMAIN queue, requeueDead(i)
      PROVE  ChargeInv'
  <2> DEFINE it == [newItem(queue[i].id, "pending") EXCEPT !.charges = queue[i].charges]
  <2>1. queue[i].st = "dead" /\ queue' = [queue EXCEPT ![i] = it]
    BY <1>3 DEF requeueDead
  <2>2. it.st = "pending" /\ it.charges = queue[i].charges
    BY DEF newItem
  <2> HIDE DEF it
  <2>3. Paid(it)
    BY <2>1, <2>2 DEF ChargeInv, Paid
  <2> QED
    BY <2>1, <2>3, OneItemCharged
<1>4. CASE reclaimNext
  <2>1. PICK k \in expired : queue' = completedQueue(queue, queue[k].id, FALSE)
    BY <1>4 DEF reclaimNext
  <2>2. k \in DOMAIN queue /\ queue[k].st = "claimed" /\ FALSE \in BOOLEAN
    BY DEF FreshInv, TypeInv, TypeOK
  <2> QED
    BY <2>1, <2>2, CompletionCharges
<1>5. CASE claimNext
  <2>1. PICK i \in todo :
          \/ UNCHANGED queue
          \/ \E w \in Workers : queue' = [queue EXCEPT ![i] = claimedItem(queue[i], w)]
    BY <1>5 DEF claimNext, acquireWorker, pickable, spawnable
  <2>2. i \in DOMAIN queue /\ queue[i].st = "pending"
    BY DEF TypeInv, TypeOK, TodoPending
  <2>3. \A w \in Workers : Paid(claimedItem(queue[i], w))
    BY <1>0, <2>2, ItemCharges DEF ChargeInv
  <2> QED
    BY <1>1, <2>1, <2>2, <2>3, OneItemCharged
<1>6. CASE startBatch
  <2>1. /\ DOMAIN queue' = DOMAIN queue
        /\ \A i \in DOMAIN queue :
             queue'[i] \in {queue[i], [queue[i] EXCEPT !.lease = LeaseTime]}
    BY <1>6 DEF startBatch, heartbeat
  <2>2. \A i \in DOMAIN queue :
          queue'[i].st = queue[i].st /\ queue'[i].charges = queue[i].charges
    BY <1>0, <2>1 DEF Item
  <2> QED
    BY <2>1, <2>2 DEF ChargeInv, Paid
<1>7. ASSUME NEW c \in flight, settleRun(c)
      PROVE  ChargeInv'
  <2>1. PICK k \in DOMAIN queue : queue[k].id = c.id /\ queue[k].st = "claimed"
    BY DEF FreshInv, ClaimsHeld
  <2>2. \E ok \in BOOLEAN : queue' = completedQueue(queue, c.id, ok)
    BY <1>7 DEF settleRun, runSucceeds, runFails, deliveryThrows
  <2> QED
    BY <2>1, <2>2, CompletionCharges
<1>8. CASE Tick
  <2>1. queue' = [i \in DOMAIN queue |-> olderItem(queue[i])]
    BY <1>8 DEF Tick
  <2>2. \A i \in DOMAIN queue :
          queue'[i].st = queue[i].st /\ queue'[i].charges = queue[i].charges
    BY <1>0, <2>1 DEF Item, olderItem
  <2> QED
    BY <2>1, <2>2 DEF ChargeInv, Paid
<1> QED
  BY <1>1, <1>2, <1>3, <1>4, <1>5, <1>6, <1>7, <1>8
  DEF Next, Command, setPaused, setCordon, evictWorker, Drain, drainStep, Reclaim, reclaimDone,
      claimDone, drainDone, startDrain, drainDies, vars

(* The budget is charged for a task exactly when its work is accepted as   *)
(* done, whatever retries, reclaims, abandoned drains and dead letters     *)
(* there are, while ids are submitted once and deliveries do not throw:    *)
(* both let completeQueued complete a task a second time.                  *)
THEOREM BudgetChargedOnce ==
  ASSUME Hazards \cap {"redelivery", "deliveryThrows"} = {}
  PROVE  Spec => []ChargedOnceWhenDone
<1>1. Init => ChargeInv
  BY DEF Init, ChargeInv
<1>2. TypeInv /\ FreshInv /\ ChargeInv /\ [Next]_vars => ChargeInv'
  BY NextCharges
<1>3. ChargeInv => ChargedOnceWhenDone
  BY DEF ChargeInv, Paid, ChargedOnceWhenDone
<1>4. Spec => []FreshInv
  BY FreshInvHolds
<1> QED
  BY <1>1, <1>2, <1>3, <1>4, TypeInvHolds, PTL DEF Spec
============================================================================
