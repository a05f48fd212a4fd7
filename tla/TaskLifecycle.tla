--------------------------- MODULE TaskLifecycle ---------------------------
(***************************************************************************)
(* What the durable queue promises its users, without workers, leases or   *)
(* drains: the status and the attempt count of every submitted task.       *)
(* WorkQueue is shown to implement this module while task ids are fresh    *)
(* and deliveries do not fail.                                             *)
(*                                                                         *)
(* The edges are the ones of completeQueued, claimPending and requeueDead  *)
(* in src/src/queue.ts when each call finds the item it was meant for.     *)
(***************************************************************************)
EXTENDS Naturals, Sequences

CONSTANT MaxAttempts     \* claims before a failing task is dead-lettered

VARIABLE tasks           \* the submitted tasks, oldest first

ItemStatus == {"pending", "claimed", "done", "failed", "dead"}

TaskState == [st : ItemStatus, attempts : 0..MaxAttempts]

LifecycleInit == tasks = <<>>

(* A task is admitted as pending, or refused by policy as failed. *)
Submit ==
  \E st \in {"pending", "failed"} :
    tasks' = Append(tasks, [st |-> st, attempts |-> 0])

(* A task moves to another status with another attempt count. *)
Become(i, st, attempts) ==
  tasks' = [tasks EXCEPT ![i] = [st |-> st, attempts |-> attempts]]

Claim(i) ==
  /\ tasks[i].st = "pending"
  /\ tasks[i].attempts < MaxAttempts
  /\ Become(i, "claimed", tasks[i].attempts + 1)

Succeed(i) ==
  /\ tasks[i].st = "claimed"
  /\ Become(i, "done", tasks[i].attempts)

(* A failure or an expired lease: another attempt while some are left. *)
Retry(i) ==
  /\ tasks[i].st = "claimed"
  /\ tasks[i].attempts < MaxAttempts
  /\ Become(i, "pending", tasks[i].attempts)

Bury(i) ==
  /\ tasks[i].st = "claimed"
  /\ tasks[i].attempts = MaxAttempts
  /\ Become(i, "dead", tasks[i].attempts)

(* An operator gives a dead task a new cycle of attempts. *)
Revive(i) ==
  /\ tasks[i].st = "dead"
  /\ Become(i, "pending", 0)

LifecycleNext ==
  \/ Submit
  \/ \E i \in DOMAIN tasks :
       Claim(i) \/ Succeed(i) \/ Retry(i) \/ Bury(i) \/ Revive(i)

LifecycleSpec == LifecycleInit /\ [][LifecycleNext]_tasks
=============================================================================
