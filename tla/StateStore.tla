----------------------------- MODULE StateStore -----------------------------
(***************************************************************************)
(* The cluster state as its users picture it: a store that every command   *)
(* changes in one step.  A drain runs some of the pending tasks of the     *)
(* store it found and records how they ended.  StateFile implements this   *)
(* module as long as commands do not overlap and a write is not cut short. *)
(***************************************************************************)
EXTENDS Naturals

CONSTANTS
  Tasks,         \* tasks that may be submitted
  MaxAttempts    \* runs before a failing task is dead-lettered

VARIABLE store

TaskState == [st : {"absent", "pending", "claimed", "done", "dead"}, attempts : 0..MaxAttempts]

Store == [tasks : [Tasks -> TaskState], paused : BOOLEAN]

(* loadState of a missing or unreadable file. *)
EmptyStore == [tasks |-> [t \in Tasks |-> [st |-> "absent", attempts |-> 0]], paused |-> FALSE]

StoreInit == store = EmptyStore

Submitted(s, t) == [s EXCEPT !.tasks[t] = [st |-> "pending", attempts |-> 0]]

Submit(t) ==
  /\ store.tasks[t].st = "absent"
  /\ store' = Submitted(store, t)

SetPaused(p) == store' = [store EXCEPT !.paused = p]

(* A task that has run once more. *)
RanOnceMore(old, new) ==
  /\ old.st = "pending"
  /\ new.attempts = old.attempts + 1
  /\ \/ new.st = "done"
     \/ new.st = "pending" /\ new.attempts < MaxAttempts
     \/ new.st = "dead" /\ new.attempts = MaxAttempts

Drained ==
  /\ ~store.paused
  /\ store' \in Store
  /\ store'.paused = store.paused
  /\ \A t \in Tasks :
       store'.tasks[t] = store.tasks[t] \/ RanOnceMore(store.tasks[t], store'.tasks[t])

StoreNext ==
  \/ \E t \in Tasks : Submit(t)
  \/ \E p \in BOOLEAN : SetPaused(p)
  \/ Drained

StoreSpec == StoreInit /\ [][StoreNext]_store
=============================================================================
