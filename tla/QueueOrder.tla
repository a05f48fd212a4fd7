----------------------------- MODULE QueueOrder -----------------------------
(***************************************************************************)
(* The order in which claimPending serves the pending items: priority,     *)
(* raised by the time an item has waited, and among equals the older item  *)
(* first.  WorkQueue visits the same items in any order and models the     *)
(* workers; here acquireWorker may or may not return one, as far as what   *)
(* it returned before in the same call of claimPending allows.             *)
(*                                                                         *)
(* Sources: src/src/queue.ts, effectivePriority, ageQueuePriorities and    *)
(* the claim loop of claimPending.                                         *)
(***************************************************************************)
EXTENDS Integers, Sequences, FiniteSets

CONSTANTS
  Kinds,         \* kinds of tasks: an agent, and what its workers are asked for
  Priorities,    \* priorities clients ask for
  BoostTicks,    \* ticks of waiting worth one step of priority
  BoostMax,      \* steps of priority waiting is worth at most
  MaxAttempts,   \* claims before a failing item is dead-lettered
  Backoff,       \* ticks before the retry that follows the n-th attempt
  Limits,        \* claim limits a drain may be called with
  MaxItems,      \* bound: items ever pushed on the queue
  Horizon,       \* bound: ticks of the clock
  Ceiling        \* bound: priority an item may be raised to

ASSUME OrderAssumption ==
  /\ Priorities \subseteq Int
  /\ BoostTicks \in Nat \ {0}
  /\ BoostMax \in Nat
  /\ MaxAttempts \in Nat \ {0}
  /\ Backoff \in [1..MaxAttempts -> Nat]
  /\ Limits \subseteq Nat \ {0}
  /\ MaxItems \in Nat /\ Horizon \in Nat /\ Ceiling \in Int

VARIABLES
  queue,     \* state.queue, in the order of enqueuedAt
  clock,     \* the time
  todo,      \* claimable items the claim loop has still to visit
  quota,     \* claims the loop may still make; 0 between calls
  refused    \* the kinds of tasks the call found no worker for; {} between calls

vars == <<queue, clock, todo, quota, refused>>

loopVars == <<todo, quota, refused>>

----------------------------------------------------------------------------
Item == [kind : Kinds, st : {"pending", "claimed", "done", "dead"},
         priority : Int, enqueuedAt : Nat, nextRetryAt : Nat, attempts : 0..MaxAttempts,
         asked : Priorities,      \* the last priority a client gave the item
         past : {"none", "raised", "claimed"}]   \* what last disturbed its wait

TypeOK ==
  /\ queue \in Seq(Item)
  /\ clock \in Nat
  /\ todo \subseteq DOMAIN queue
  /\ quota \in Nat
  /\ refused \subseteq Kinds

Smaller(a, b) == IF a < b THEN a ELSE b

(* A definition named for a slip (newestFirst, breakOff...) is its         *)
(* successor with a plausible bug; no action uses it.                      *)

(* Steps of priority that an item's wait is worth. *)
ageBoost(it) == Smaller(BoostMax, (clock - it.enqueuedAt) \div BoostTicks)

effectivePriority(it) == it.priority + ageBoost(it)

agedItem(it) ==
  IF it.st = "pending" THEN [it EXCEPT !.priority = effectivePriority(it)] ELSE it

(* The boost becomes part of the stored priority of every pending item. *)
aged(q) == [i \in DOMAIN q |-> agedItem(q[i])]

claimedItem(it) ==
  [it EXCEPT !.st = "claimed", !.attempts = it.attempts + 1, !.nextRetryAt = 0,
             !.past = "claimed"]

raisedItem(it, p) ==
  [it EXCEPT !.priority = p, !.asked = p, !.past = "raised"]

doneItem(it) == [it EXCEPT !.st = "done"]

(* A failed run or an expired lease. *)
failedItem(it) ==
  IF it.attempts < MaxAttempts
  THEN [it EXCEPT !.st = "pending", !.nextRetryAt = clock + Backoff[it.attempts]]
  ELSE [it EXCEPT !.st = "dead", !.nextRetryAt = 0]

(* A revived item keeps its enqueue time and its priority. *)
revivedItem(it) == [it EXCEPT !.st = "pending", !.attempts = 0]

claimable(q) == {i \in DOMAIN q : q[i].st = "pending" /\ q[i].nextRetryAt <= clock}

(* acquireWorker may return a worker for the i-th item: an idle one of its *)
(* agent through the hard gates of placement and image, or a spawned one.  *)
(* Tasks of one kind pass the same gates, and no worker is given back in a *)
(* call, so a kind that was refused once is refused again.                 *)
mayGetWorker(i) == queue[i].kind \notin refused

(* The comparison of the sort: higher effective priority, then older. *)
ahead(i, j) ==
  \/ effectivePriority(queue[i]) > effectivePriority(queue[j])
  \/ effectivePriority(queue[i]) = effectivePriority(queue[j]) /\ i < j

newestFirst(i, S) ==
  \A j \in S \ {i} :
    \/ effectivePriority(queue[i]) > effectivePriority(queue[j])
    \/ effectivePriority(queue[i]) = effectivePriority(queue[j]) /\ i > j

isFirst(i, S) == \A j \in S \ {i} : ahead(i, j)

----------------------------------------------------------------------------
Init == queue = <<>> /\ clock = 0 /\ todo = {} /\ quota = 0 /\ refused = {}

Idle == quota = 0

Enqueue(kind, p) ==
  /\ Idle
  /\ Len(queue) < MaxItems
  /\ queue' = Append(queue, [kind |-> kind, st |-> "pending", priority |-> p,
                             enqueuedAt |-> clock, nextRetryAt |-> 0, attempts |-> 0,
                             asked |-> p, past |-> "none"])
  /\ UNCHANGED <<clock, loopVars>>

(* A pending id submitted again with a higher priority only raises it. *)
Raise(i, p) ==
  /\ Idle
  /\ queue[i].st = "pending"
  /\ p > queue[i].priority
  /\ queue' = [queue EXCEPT ![i] = raisedItem(queue[i], p)]
  /\ UNCHANGED <<clock, loopVars>>

(* `ropex age`, the tick and the hygiene pass. *)
AgeQueue ==
  /\ Idle
  /\ queue' = aged(queue)
  /\ \A i \in DOMAIN queue' : queue'[i].priority <= Ceiling
  /\ UNCHANGED <<clock, loopVars>>

(* claimPending ages the queue unless agePriorities is false, then sorts   *)
(* what it may claim.  Its lease reclaim is Fail: it delays what it frees. *)
startClaim(limit, age) ==
  /\ Idle
  /\ queue' = IF age THEN aged(queue) ELSE queue
  /\ \A i \in DOMAIN queue' : queue'[i].priority <= Ceiling
  /\ todo' = claimable(queue)
  /\ quota' = limit
  /\ UNCHANGED <<clock, refused>>

serve(i) ==
  /\ mayGetWorker(i)
  /\ queue' = [queue EXCEPT ![i] = claimedItem(queue[i])]
  /\ quota' = quota - 1
  /\ todo' = IF quota = 1 THEN {} ELSE todo \ {i}
  /\ refused' = IF quota = 1 THEN {} ELSE refused

breakOff(i) ==
  /\ refused' = refused \cup {queue[i].kind}
  /\ todo' = {}
  /\ UNCHANGED <<queue, quota>>

passOver(i) ==
  /\ refused' = refused \cup {queue[i].kind}
  /\ todo' = todo \ {i}
  /\ UNCHANGED <<queue, quota>>

(* One turn of the loop; an item without a worker is passed over. *)
claimNext ==
  /\ quota > 0
  /\ \E i \in todo : isFirst(i, todo) /\ (serve(i) \/ passOver(i))
  /\ UNCHANGED clock

claimDone ==
  /\ quota > 0 /\ todo = {}
  /\ quota' = 0 /\ refused' = {}
  /\ UNCHANGED <<queue, clock, todo>>

Complete(i) ==
  /\ Idle
  /\ queue[i].st = "claimed"
  /\ queue' = [queue EXCEPT ![i] = doneItem(queue[i])]
  /\ UNCHANGED <<clock, loopVars>>

Fail(i) ==
  /\ Idle
  /\ queue[i].st = "claimed"
  /\ queue' = [queue EXCEPT ![i] = failedItem(queue[i])]
  /\ UNCHANGED <<clock, loopVars>>

RequeueDead(i) ==
  /\ Idle
  /\ queue[i].st = "dead"
  /\ queue' = [queue EXCEPT ![i] = revivedItem(queue[i])]
  /\ UNCHANGED <<clock, loopVars>>

Tick ==
  /\ Idle
  /\ clock < Horizon
  /\ clock' = clock + 1
  /\ UNCHANGED <<queue, loopVars>>

Next ==
  \/ \E kind \in Kinds, p \in Priorities : Enqueue(kind, p)
  \/ \E i \in DOMAIN queue :
       (\E p \in Priorities : Raise(i, p)) \/ Complete(i) \/ Fail(i) \/ RequeueDead(i)
  \/ AgeQueue
  \/ \E limit \in Limits, age \in BOOLEAN : startClaim(limit, age)
  \/ claimNext \/ claimDone
  \/ Tick

Spec == Init /\ [][Next]_vars

----------------------------------------------------------------------------
(* Overtaking: an item never claimed nor raised is passed by a later one of*)
(* its kind only if the later one was asked for with a priority lead that  *)
(* exceeds what the longer wait is worth.  Between equal requests this is  *)
(* first come, first served, however often the stored priorities were      *)
(* aged and whatever else was retried or raised meanwhile.  Of two tasks   *)
(* of an agent that differ in what workers they may be placed on, either   *)
(* may pass the other.                                                     *)
OvertakenOnlyByLead ==
  [][\A i, j \in DOMAIN queue :
       (/\ i < j /\ queue[i].kind = queue[j].kind
        /\ queue[j].st = "pending" /\ queue'[j].st = "claimed"
        /\ queue[i].st = "pending" /\ queue[i].past = "none")
         => queue[j].asked - queue[i].asked > ageBoost(queue[i]) - ageBoost(queue[j])]_vars

(* No head-of-line blocking: a claim call that ends below its limit leaves *)
(* no claimable item behind but of the kinds acquireWorker had no worker   *)
(* for, wherever in the order these stood.                                 *)
WorkConserving ==
  [][claimDone => \A i \in claimable(queue) : queue[i].kind \in refused]_vars
=============================================================================
