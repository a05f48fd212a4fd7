--------------------------- MODULE PipelineProofs ---------------------------
(***************************************************************************)
(* For any number of pipelines and stages, whatever other drains, retries  *)
(* and operators do between the requests: stages run in order, a reported  *)
(* success was earned, outputs are handed on, and a run ends once.         *)
(*                                                                         *)
(* The same in sessions, however many of them end, fail or are lost: what  *)
(* the host reports was earned, a run ends once, and completed work is     *)
(* carried over.  A session's own steps are steps of Pipeline, so what is  *)
(* proved of them is used again: TypeStep and BackStep.                    *)
(***************************************************************************)
EXTENDS PipelineSession, SequenceTheorems, TLAPS

(* The items of one task id: a pending one can still be claimed. *)
ItemsOK(items) ==
  /\ items \in Seq(Item)
  /\ \A k \in DOMAIN items : items[k].st = "pending" => items[k].attempts < MaxAttempts

----------------------------------------------------------------------------
(* The operators on the items of a task id. *)

(* A failed item is retried only with attempts left. *)
LEMMA FailedItemSound ==
  ASSUME NEW it \in Item
  PROVE  /\ failedItem(it) \in Item
         /\ failedItem(it).st # "done"
         /\ failedItem(it).st = "pending" => failedItem(it).attempts < MaxAttempts
BY PipelineAssumption DEF failedItem, Item

(* A claim counts an attempt. *)
LEMMA ClaimedItemSound ==
  ASSUME NEW it \in Item, it.attempts < MaxAttempts
  PROVE  /\ [it EXCEPT !.st = "claimed", !.attempts = @ + 1] \in Item
         /\ [it EXCEPT !.st = "claimed", !.attempts = @ + 1].st = "claimed"
<1>1. it.attempts + 1 \in 0..MaxAttempts
  BY PipelineAssumption DEF Item
<1> DEFINE n == it.attempts + 1
<1>2. n \in 0..MaxAttempts
  BY <1>1
<1> HIDE DEF n
<1>3. [it EXCEPT !.st = "claimed", !.attempts = n] \in Item
  BY <1>2 DEF Item
<1>4. [it EXCEPT !.st = "claimed", !.attempts = n].st = "claimed"
  BY <1>2 DEF Item
<1> QED
  BY <1>3, <1>4 DEF n

(* A completion touches the first item only, and marks nothing done that   *)
(* did not succeed.                                                        *)
LEMMA CompletedSound ==
  ASSUME NEW items, ItemsOK(items), items # <<>>, NEW ok \in BOOLEAN
  PROVE  /\ ItemsOK(completed(items, ok))
         /\ completed(items, ok) # <<>>
         /\ DOMAIN completed(items, ok) = DOMAIN items
         /\ ok => completed(items, ok)[1].st = "done"
         /\ \A k \in DOMAIN items :
              completed(items, ok)[k].st = "done" => ok \/ items[k].st = "done"
<1> DEFINE new == IF ok THEN [items[1] EXCEPT !.st = "done"] ELSE failedItem(items[1])
<1>1. items \in Seq(Item) /\ 1 \in DOMAIN items /\ items[1] \in Item
  BY DEF ItemsOK
<1>2. completed(items, ok) = [items EXCEPT ![1] = new]
  BY DEF completed
<1>3. /\ new \in Item
      /\ new.st = "done" <=> ok
      /\ new.st = "pending" => new.attempts < MaxAttempts
  <2>1. CASE ok
    BY <1>1, <2>1 DEF Item
  <2>2. CASE ~ok
    BY <1>1, <2>2, FailedItemSound
  <2> QED
    BY <2>1, <2>2
<1> HIDE DEF new
<1>4. [items EXCEPT ![1] = new] \in Seq(Item)
  BY <1>1, <1>3
<1> QED
  BY <1>1, <1>2, <1>3, <1>4 DEF ItemsOK

(* So does a claim with the run that follows it. *)
LEMMA ServedSound ==
  ASSUME NEW items, ItemsOK(items), NEW k \in claimable(items), NEW ok \in BOOLEAN
  PROVE  /\ ItemsOK(served(items, k, ok))
         /\ served(items, k, ok) # <<>>
         /\ DOMAIN served(items, k, ok) = DOMAIN items
         /\ ok => served(items, k, ok)[1].st = "done"
         /\ \A j \in DOMAIN items :
              served(items, k, ok)[j].st = "done" => ok \/ items[j].st = "done"
<1> DEFINE it == [items[k] EXCEPT !.st = "claimed", !.attempts = @ + 1]
           mid == [items EXCEPT ![k] = it]
<1>1. /\ items \in Seq(Item) /\ k \in DOMAIN items /\ items[k] \in Item
      /\ items[k].attempts < MaxAttempts
  BY DEF ItemsOK, claimable
<1>2. it \in Item /\ it.st = "claimed"
  BY <1>1, ClaimedItemSound
<1>3. served(items, k, ok) = completed(mid, ok)
  BY <1>1 DEF served
<1> HIDE DEF it
<1>4. ItemsOK(mid) /\ mid # <<>> /\ DOMAIN mid = DOMAIN items
  BY <1>1, <1>2 DEF ItemsOK
<1>5. \A j \in DOMAIN items : mid[j].st = "done" => items[j].st = "done"
  BY <1>1, <1>2
<1> HIDE DEF mid
<1> QED
  BY <1>3, <1>4, <1>5, CompletedSound

(* A new item is put after the others. *)
LEMMA AppendSound ==
  ASSUME NEW items, ItemsOK(items), NEW verdict \in {"pending", "failed"}
  PROVE  LET new == Append(items, [st |-> verdict, attempts |-> 0, wait |-> FALSE])
         IN  /\ ItemsOK(new) /\ new # <<>>
             /\ \A k \in DOMAIN new :
                  new[k].st = "done" => k \in DOMAIN items /\ items[k].st = "done"
<1> DEFINE it == [st |-> verdict, attempts |-> 0, wait |-> FALSE]
<1>1. it \in Item /\ it.st # "done" /\ it.attempts < MaxAttempts
  BY PipelineAssumption DEF Item
<1>2. items \in Seq(Item)
  BY DEF ItemsOK
<1> HIDE DEF it
<1>3. /\ Append(items, it) \in Seq(Item)
      /\ Len(Append(items, it)) = Len(items) + 1
      /\ Append(items, it) # <<>>
  BY <1>1, <1>2, AppendProperties, EmptySeq
<1>4. \A k \in DOMAIN Append(items, it) :
        Append(items, it)[k] = IF k = Len(items) + 1 THEN it ELSE items[k]
  BY <1>1, <1>2
<1>5. \A k \in DOMAIN Append(items, it) : k = Len(items) + 1 \/ k \in DOMAIN items
  BY <1>1, <1>2
<1> QED
  BY <1>1, <1>3, <1>4, <1>5 DEF ItemsOK, it

----------------------------------------------------------------------------
(* The operators on stages and runs. *)

(* Reading the statuses back from the queue keeps the outputs, and a stage *)
(* is done only if its last item is, or if it was and has no item.         *)
LEMMA SyncedSound ==
  ASSUME NEW p \in Pipelines, NEW ss \in [Stages(p) -> Stage],
         NEW items \in [Stages(p) -> Seq(Item)]
  PROVE  /\ synced(ss, items) \in [Stages(p) -> Stage]
         /\ \A i \in Stages(p) :
              /\ synced(ss, items)[i].output = ss[i].output
              /\ synced(ss, items)[i].st = "done" =>
                   ss[i].st = "done" \/ \E k \in DOMAIN items[i] : items[i][k].st = "done"
<1>1. synced(ss, items) = [i \in Stages(p) |-> syncedStage(ss[i], items[i])]
  BY DEF synced
<1> SUFFICES ASSUME NEW i \in Stages(p)
             PROVE  /\ syncedStage(ss[i], items[i]) \in Stage
                    /\ syncedStage(ss[i], items[i]).output = ss[i].output
                    /\ syncedStage(ss[i], items[i]).st = "done" =>
                         \/ ss[i].st = "done"
                         \/ \E k \in DOMAIN items[i] : items[i][k].st = "done"
  BY <1>1
<1>2. CASE items[i] = <<>>
  BY <1>2 DEF syncedStage
<1>3. CASE items[i] # <<>>
  <2>1. Len(items[i]) \in DOMAIN items[i] /\ latest(items[i]) = items[i][Len(items[i])]
    BY <1>3 DEF latest
  <2>2. ss[i] \in Stage
    OBVIOUS
  <2>3. CASE latest(items[i]).st = "done"
    BY <1>3, <2>1, <2>2, <2>3 DEF syncedStage, Stage
  <2>4. CASE latest(items[i]).st \in {"claimed", "pending"}
    BY <1>3, <2>2, <2>4 DEF syncedStage, Stage
  <2>5. CASE latest(items[i]).st \notin {"claimed", "pending", "done"}
    BY <1>3, <2>2, <2>5 DEF syncedStage, Stage
  <2> QED
    BY <2>3, <2>4, <2>5
<1> QED
  BY <1>2, <1>3

(* A run between requests has the result of its status, and its end was    *)
(* announced once; a run that is being drained has neither.                *)
Settled(r) ==
  /\ r.result = (IF r.st \in Terminal THEN r.st ELSE "none")
  /\ r.ends = (IF r.st \in Terminal THEN 1 ELSE 0)

Draining(r) == r.st = "running" /\ r.result = "none" /\ r.ends = 0

(* The end of a request settles the run it drained, and reports success    *)
(* only when every stage is done.                                          *)
LEMMA FinishSound ==
  ASSUME run \in [Pipelines -> Run], DOMAIN stage = Pipelines,
         NEW p \in Pipelines, NEW ss, NEW items, finish(p, ss, items)
  PROVE  /\ stage' = [stage EXCEPT ![p] = synced(ss, items)]
         /\ run' \in [Pipelines -> Run]
         /\ \A q \in Pipelines \ {p} : run'[q] = run[q]
         /\ run'[p].st = "done" => \A i \in DOMAIN ss : synced(ss, items)[i].st = "done"
         /\ Draining(run[p]) => Settled(run'[p])
         /\ call' = NoCall
<1> DEFINE done == synced(ss, items)
           st == statusOf(done)
           r == syncedRun(run[p], done)
<1>1. /\ st \in {"running", "done", "failed"}
      /\ st = "done" => \A i \in DOMAIN done : done[i].st = "done"
  BY DEF statusOf
<1>2. DOMAIN done = DOMAIN ss
  BY DEF synced
<1>3. r = [run[p] EXCEPT !.st = st,
                         !.result = IF run[p].result = "none" /\ st \in Terminal THEN st ELSE @]
  BY DEF syncedRun
<1>4. /\ stage' = [stage EXCEPT ![p] = done]
      /\ run' = [run EXCEPT ![p] =
                   IF r.st \in Terminal /\ r.ends < 2 THEN [r EXCEPT !.ends = @ + 1] ELSE r]
      /\ call' = NoCall
  BY DEF finish
<1> HIDE DEF done, st, r
<1>5. /\ r \in Run /\ r.st = st /\ r.ends = run[p].ends
      /\ r.result = IF run[p].result = "none" /\ st \in Terminal THEN st ELSE run[p].result
  BY <1>1, <1>3 DEF Run, Terminal
<1>6. /\ run'[p] \in Run /\ run'[p].st = st /\ run'[p].result = r.result
      /\ run'[p].ends = IF st \in Terminal /\ r.ends < 2 THEN r.ends + 1 ELSE r.ends
  BY <1>4, <1>5 DEF Run
<1>7. run' \in [Pipelines -> Run] /\ \A q \in Pipelines \ {p} : run'[q] = run[q]
  BY <1>4, <1>6
<1>8. Draining(run[p]) => Settled(run'[p])
  BY <1>1, <1>5, <1>6 DEF Draining, Settled, Terminal
<1> QED
  BY <1>1, <1>2, <1>4, <1>6, <1>7, <1>8 DEF done

(* A request moves to the next place of the loop. *)
LEMMA CallSound ==
  ASSUME NEW p \in Pipelines, NEW i \in 1..(StageCount[p] + 1), NEW where \in {"visit", "await"}
  PROVE  [p |-> p, i |-> i, at |-> where] \in Call
BY DEF Call

----------------------------------------------------------------------------
(* Types.  The parts of TypeInv are kept apart: an action disturbs few.    *)

QueueOK ==
  /\ DOMAIN queue = Pipelines
  /\ \A p \in Pipelines :
       /\ queue[p] \in [Stages(p) -> Seq(Item)]
       /\ \A i \in Stages(p) : ItemsOK(queue[p][i])

StageOK == DOMAIN stage = Pipelines /\ \A p \in Pipelines : stage[p] \in [Stages(p) -> Stage]

AwaitOK ==
  \A p \in Pipelines : \A i \in 1..(StageCount[p] + 1) :
    at(p, i, "await") => i \in Stages(p) /\ queue[p][i] # <<>>

RestOK ==
  /\ run \in [Pipelines -> Run]
  /\ kept \in Seq(Pipelines)
  /\ call \in Call \cup {NoCall}

GoodOK ==
  /\ \A c \in good : c[1] \in Pipelines /\ c[2] \in Stages(c[1])
  /\ DOMAIN foreign = Pipelines
  /\ \A p \in Pipelines : foreign[p] \subseteq Stages(p) \X {"done", "dead"}

TypeInv == QueueOK /\ StageOK /\ AwaitOK /\ RestOK /\ GoodOK

(* A step that changes the items of one task id, and drops none. *)
LEMMA QueueStep ==
  ASSUME QueueOK, NEW p \in Pipelines, NEW i \in Stages(p), NEW new, ItemsOK(new),
         queue' = [queue EXCEPT ![p][i] = new]
  PROVE  /\ QueueOK'
         /\ queue'[p][i] = new
         /\ \A q \in Pipelines : \A j \in Stages(q) :
              <<q, j>> # <<p, i>> => queue'[q][j] = queue[q][j]
<1> DEFINE qp == [queue[p] EXCEPT ![i] = new]
<1>1. queue' = [queue EXCEPT ![p] = qp]
  OBVIOUS
<1>2. queue[p] \in [Stages(p) -> Seq(Item)] /\ new \in Seq(Item) /\ DOMAIN queue = Pipelines
  BY DEF QueueOK, ItemsOK
<1>3. /\ qp \in [Stages(p) -> Seq(Item)]
      /\ qp[i] = new
      /\ \A j \in Stages(p) \ {i} : qp[j] = queue[p][j]
  BY <1>2
<1> HIDE DEF qp
<1>4. /\ queue'[p] = qp /\ DOMAIN queue' = Pipelines
      /\ \A q \in Pipelines \ {p} : queue'[q] = queue[q]
  BY <1>1, <1>2
<1>5. QueueOK'
  BY <1>3, <1>4 DEF QueueOK
<1> QED
  BY <1>3, <1>4, <1>5

(* An outcome nobody waited for is added to those of its pipeline. *)
LEMMA RecordedSound ==
  ASSUME GoodOK, NEW p \in Pipelines, NEW i \in Stages(p), NEW items,
         foreign' = [foreign EXCEPT ![p] = @ \cup recorded(i, items)]
  PROVE  /\ DOMAIN foreign' = Pipelines
         /\ \A q \in Pipelines : foreign'[q] \subseteq Stages(q) \X {"done", "dead"}
         /\ \A q \in Pipelines : foreign[q] \subseteq foreign'[q]
         /\ items[1].st = "done" => <<i, "done">> \in foreign'[p]
<1>1. recorded(i, items) \subseteq Stages(p) \X {"done", "dead"}
  BY DEF recorded
<1>2. items[1].st = "done" => <<i, "done">> \in recorded(i, items)
  BY DEF recorded
<1> DEFINE new == foreign[p] \cup recorded(i, items)
<1>3. foreign' = [foreign EXCEPT ![p] = new] /\ DOMAIN foreign = Pipelines
  BY DEF GoodOK
<1>4. /\ DOMAIN foreign' = Pipelines /\ foreign'[p] = new
      /\ \A q \in Pipelines \ {p} : foreign'[q] = foreign[q]
  BY <1>3
<1>5. new \subseteq Stages(p) \X {"done", "dead"}
  BY <1>1 DEF GoodOK
<1> QED
  BY <1>2, <1>4, <1>5 DEF GoodOK

(* What a drain did for a request: the items of one task id served, and    *)
(* the outcome kept apart unless the request was waiting for it.           *)
LEMMA RunStageSound ==
  ASSUME TypeInv, NEW p \in Pipelines, NEW i \in Stages(p), NEW j \in Stages(p),
         NEW ok \in BOOLEAN, runStage(p, i, j, ok)
  PROVE  \E new :
           /\ ItemsOK(new) /\ DOMAIN new = DOMAIN queue[p][j] /\ queue[p][j] # <<>>
           /\ ok => new[1].st = "done"
           /\ \A k \in DOMAIN new : new[k].st = "done" => ok \/ queue[p][j][k].st = "done"
           /\ queue' = [queue EXCEPT ![p][j] = new]
           /\ foreign' = IF j = i THEN foreign
                         ELSE [foreign EXCEPT ![p] = @ \cup recorded(j, new)]
<1>1. PICK k \in claimable(queue[p][j]) :
        /\ queue' = [queue EXCEPT ![p][j] = served(queue[p][j], k, ok)]
        /\ foreign' = IF j = i THEN foreign
                      ELSE [foreign EXCEPT ![p] = @ \cup recorded(j, served(queue[p][j], k, ok))]
  BY DEF runStage
<1>2. ItemsOK(queue[p][j]) /\ queue[p][j] # <<>>
  BY DEF TypeInv, QueueOK, claimable
<1> DEFINE new == served(queue[p][j], k, ok)
<1>3. /\ ItemsOK(new) /\ DOMAIN new = DOMAIN queue[p][j]
      /\ ok => new[1].st = "done"
      /\ \A n \in DOMAIN new : new[n].st = "done" => ok \/ queue[p][j][n].st = "done"
  BY <1>2, ServedSound
<1>4. /\ queue' = [queue EXCEPT ![p][j] = new]
      /\ foreign' = IF j = i THEN foreign
                    ELSE [foreign EXCEPT ![p] = @ \cup recorded(j, new)]
  BY <1>1
<1> HIDE DEF new
<1> QED
  BY <1>2, <1>3, <1>4

(* A step that ends a request. *)
LEMMA FinishTypes ==
  ASSUME TypeInv, NEW p \in Pipelines, NEW ss \in [Stages(p) -> Stage],
         NEW items \in [Stages(p) -> Seq(Item)], finish(p, ss, items), UNCHANGED kept
  PROVE  StageOK' /\ AwaitOK' /\ RestOK'
<1>1. /\ stage' = [stage EXCEPT ![p] = synced(ss, items)]
      /\ run' \in [Pipelines -> Run]
      /\ call' = NoCall
  BY FinishSound DEF TypeInv, StageOK, RestOK
<1>2. synced(ss, items) \in [Stages(p) -> Stage]
  BY SyncedSound
<1>3. StageOK'
  BY <1>1, <1>2 DEF TypeInv, StageOK
<1>4. AwaitOK'
  BY <1>1 DEF AwaitOK, at, NoCall
<1>5. RestOK'
  BY <1>1 DEF TypeInv, RestOK
<1> QED
  BY <1>3, <1>4, <1>5

(* A step of the loop that goes on to the next stage. *)
LEMMA VisitTypes ==
  ASSUME RestOK, NEW p \in Pipelines, NEW i \in Stages(p),
         call' = [p |-> p, i |-> i + 1, at |-> "visit"], UNCHANGED <<run, kept>>
  PROVE  AwaitOK' /\ RestOK'
<1>2. i + 1 \in 1..(StageCount[p] + 1)
  BY PipelineAssumption DEF Stages
<1>3. call' \in Call
  <2>1. [p |-> p, i |-> i + 1, at |-> "visit"] \in Call
    BY <1>2, CallSound, Zenon
  <2> QED
    BY <2>1
<1>4. AwaitOK'
  BY DEF AwaitOK, at
<1> QED
  BY <1>3, <1>4 DEF RestOK

(* The end of a request that leaves a stage for later, or failed. *)
LEMMA LeaveTypes ==
  ASSUME TypeInv, NEW p \in Pipelines, NEW i \in Stages(p),
         NEW items \in [Stages(p) -> Seq(Item)], leaveStage(p, i, items), UNCHANGED kept
  PROVE  StageOK' /\ AwaitOK' /\ RestOK'
<1> DEFINE ss == synced(stage[p], items)
           st == IF latest(items[i]).st \in {"dead", "failed"} THEN "failed" ELSE "pending"
<1>1. ss \in [Stages(p) -> Stage]
  BY SyncedSound DEF TypeInv, StageOK
<1>2. st \in {"pending", "failed"} /\ finish(p, [ss EXCEPT ![i].st = st], items)
  BY DEF leaveStage
<1> HIDE DEF ss, st
<1>3. [ss EXCEPT ![i].st = st] \in [Stages(p) -> Stage]
  BY <1>1, <1>2 DEF Stage
<1> QED
  BY <1>2, <1>3, FinishTypes

(* A step of the rest of the control plane on the items of a stage. *)
LEMMA ItemsTypes ==
  ASSUME TypeInv, NEW p \in Pipelines, NEW i \in Stages(p), NEW new, ItemsOK(new), new # <<>>,
         queue' = [queue EXCEPT ![p][i] = new],
         UNCHANGED <<stage, run, kept, call, good, foreign>>
  PROVE  TypeInv'
<1>0. QueueOK
  BY DEF TypeInv
<1>1. /\ QueueOK'
      /\ queue'[p][i] = new
      /\ \A q \in Pipelines : \A j \in Stages(q) :
           <<q, j>> # <<p, i>> => queue'[q][j] = queue[q][j]
  <2>1. QueueOK'
    BY <1>0, QueueStep
  <2>2. queue'[p][i] = new
    BY <1>0 DEF QueueOK
  <2>3. \A q \in Pipelines : \A j \in Stages(q) :
          <<q, j>> # <<p, i>> => queue'[q][j] = queue[q][j]
    BY <1>0, QueueStep
  <2> QED
    BY <2>1, <2>2, <2>3
<1>2. AwaitOK'
  BY <1>1 DEF TypeInv, AwaitOK, at
<1> QED
  BY <1>1, <1>2 DEF TypeInv, StageOK, RestOK, GoodOK

(* Every action keeps the types. *)
LEMMA TypeStep == TypeInv /\ [Next]_vars => TypeInv'
<1> SUFFICES ASSUME TypeInv, [Next]_vars PROVE TypeInv'
  OBVIOUS
<1> USE DEF TypeInv
<1>1. ASSUME NEW p \in Pipelines, NEW drain \in BOOLEAN, submitPipeline(p, drain)
      PROVE TypeInv'
  <2>1. run' \in [Pipelines -> Run]
    BY <1>1 DEF submitPipeline, RestOK, Run
  <2>2. kept' \in Seq(Pipelines)
    <3>1. trimmed(kept) \in Seq(Pipelines)
      BY PipelineAssumption DEF trimmed, RestOK
    <3> QED
      BY <1>1, <3>1 DEF submitPipeline
  <2>3. call' \in Call \cup {NoCall} /\ \A q \in Pipelines, i \in Nat : ~at(q, i, "await")'
    <3>1. 1 \in 1..(StageCount[p] + 1)
      BY PipelineAssumption
    <3>2. [p |-> p, i |-> 1, at |-> "visit"] \in Call
      BY <3>1, CallSound
    <3> QED
      BY <1>1, <3>2 DEF submitPipeline, at, NoCall
  <2>4. AwaitOK'
    BY <2>3, PipelineAssumption DEF AwaitOK
  <2> QED
    BY <1>1, <2>1, <2>2, <2>3, <2>4 DEF submitPipeline, QueueOK, StageOK, RestOK, GoodOK
<1>2. ASSUME NEW p \in Pipelines, drainPipeline(p)
      PROVE TypeInv'
  <2>2. kept' \in Seq(Pipelines)
    BY <1>2, PipelineAssumption DEF drainPipeline, trimmed, RestOK
  <2>3. call' \in Call \cup {NoCall} /\ \A q \in Pipelines, i \in Nat : ~at(q, i, "await")'
    <3>1. 1 \in 1..(StageCount[p] + 1)
      BY PipelineAssumption
    <3>2. [p |-> p, i |-> 1, at |-> "visit"] \in Call
      BY <3>1, CallSound
    <3> QED
      BY <1>2, <3>2 DEF drainPipeline, at, NoCall
  <2>4. AwaitOK'
    BY <2>3, PipelineAssumption DEF AwaitOK
  <2> QED
    BY <1>2, <2>2, <2>3, <2>4 DEF drainPipeline, QueueOK, StageOK, RestOK, GoodOK
<1>3. ASSUME NEW p \in Pipelines, NEW i \in 1..(StageCount[p] + 1), skipStage(p, i)
      PROVE TypeInv'
  <2>1. i \in Stages(p) /\ call' = [p |-> p, i |-> i + 1, at |-> "visit"]
    BY <1>3 DEF skipStage, at
  <2>2. AwaitOK' /\ RestOK'
    BY <1>3, <2>1, VisitTypes DEF skipStage
  <2> QED
    BY <1>3, <2>2 DEF skipStage, QueueOK, StageOK, GoodOK
<1>4. ASSUME NEW p \in Pipelines, NEW i \in 1..(StageCount[p] + 1), endLoop(p, i)
      PROVE TypeInv'
  <2>1. StageOK' /\ AwaitOK' /\ RestOK'
    BY <1>4, FinishTypes DEF endLoop, QueueOK, StageOK
  <2> QED
    BY <1>4, <2>1 DEF endLoop, QueueOK, GoodOK
<1>5. ASSUME NEW p \in Pipelines, NEW i \in 1..(StageCount[p] + 1),
             NEW verdict \in {"pending", "failed"}, enterStage(p, i, verdict)
      PROVE TypeInv'
  <2>1. i \in Stages(p) /\ call = [p |-> p, i |-> i, at |-> "visit"]
    BY <1>5 DEF enterStage, at
  <2>2. QueueOK' /\ queue'[p][i] # <<>>
    <3>1. CASE toEnqueue(queue[p][i])
      <4> DEFINE new == Append(queue[p][i], [st |-> verdict, attempts |-> 0, wait |-> FALSE])
      <4>1. ItemsOK(new) /\ new # <<>>
        BY <2>1, AppendSound DEF QueueOK
      <4>2. queue' = [queue EXCEPT ![p][i] = new]
        BY <1>5, <3>1 DEF enterStage
      <4>3. QueueOK
        OBVIOUS
      <4> HIDE DEF new
      <4>4. QueueOK'
        BY <2>1, <4>1, <4>2, <4>3, QueueStep
      <4>5. queue'[p][i] = new
        BY <2>1, <4>2, <4>3 DEF QueueOK
      <4> QED
        BY <4>1, <4>4, <4>5
    <3>2. CASE ~toEnqueue(queue[p][i])
      BY <1>5, <3>2 DEF enterStage, toEnqueue, QueueOK
    <3> QED
      BY <3>1, <3>2
  <2>3. CASE latest(queue'[p][i]).st = "failed"
    <3>1. [stage[p] EXCEPT ![i].st = "failed"] \in [Stages(p) -> Stage]
      BY <2>1 DEF StageOK, Stage
    <3>2. StageOK' /\ AwaitOK' /\ RestOK'
      BY <1>5, <2>2, <2>3, <3>1, FinishTypes DEF enterStage, QueueOK
    <3> QED
      BY <1>5, <2>2, <3>2 DEF enterStage, GoodOK
  <2>4. CASE latest(queue'[p][i]).st # "failed"
    <3>1. /\ stage' = [stage EXCEPT ![p][i].st = "running"]
          /\ call' = [p |-> p, i |-> i, at |-> "await"]
          /\ UNCHANGED <<run, kept, good, foreign>>
      BY <1>5, <2>1, <2>4 DEF enterStage
    <3>2. StageOK'
      BY <2>1, <3>1 DEF StageOK, Stage
    <3>3. AwaitOK'
      BY <2>1, <2>2, <3>1 DEF AwaitOK, at
    <3>4. RestOK'
      BY <3>1, CallSound DEF RestOK
    <3> QED
      BY <2>2, <3>1, <3>2, <3>3, <3>4 DEF GoodOK
  <2> QED
    BY <2>3, <2>4
<1>6. ASSUME NEW p \in Pipelines, NEW i \in Stages(p), NEW j \in Stages(p),
             NEW ok \in BOOLEAN, runStage(p, i, j, ok)
      PROVE TypeInv'
  <2>1. PICK new :
          /\ ItemsOK(new)
          /\ queue' = [queue EXCEPT ![p][j] = new]
          /\ foreign' = IF j = i THEN foreign
                        ELSE [foreign EXCEPT ![p] = @ \cup recorded(j, new)]
    BY <1>6, RunStageSound
  <2>2. QueueOK'
    BY <2>1, QueueStep
  <2>3. StageOK' /\ AwaitOK' /\ RestOK'
    <3>1. CASE ok /\ j = i
      <4>1. completeStage(p, i) /\ UNCHANGED kept
        BY <1>6, <3>1 DEF runStage
      <4>2. StageOK'
        BY <4>1 DEF completeStage, StageOK, Stage
      <4>3. call' = [p |-> p, i |-> i + 1, at |-> "visit"]
        BY <1>6, <4>1 DEF completeStage, runStage, at
      <4>4. AwaitOK' /\ RestOK'
        BY <4>1, <4>3, VisitTypes DEF completeStage
      <4> QED
        BY <4>2, <4>4
    <3>2. CASE ~(ok /\ j = i)
      <4>1. leaveStage(p, i, queue'[p]) /\ UNCHANGED kept
        BY <1>6, <3>2 DEF runStage
      <4> QED
        BY <2>2, <4>1, LeaveTypes DEF QueueOK
    <3> QED
      BY <3>1, <3>2
  <2>4. \A c \in good' : c[1] \in Pipelines /\ c[2] \in Stages(c[1])
    BY <1>6 DEF runStage, GoodOK
  <2>5. GoodOK'
    <3>1. CASE j = i
      BY <2>1, <2>4, <3>1 DEF GoodOK
    <3>2. CASE j # i
      <4>1. foreign' = [foreign EXCEPT ![p] = @ \cup recorded(j, new)]
        BY <2>1, <3>2
      <4> QED
        BY <2>4, <4>1, RecordedSound DEF GoodOK
    <3> QED
      BY <3>1, <3>2
  <2> QED
    BY <2>2, <2>3, <2>5
<1>7. ASSUME NEW p \in Pipelines, NEW i \in Stages(p), claimNothing(p, i)
      PROVE TypeInv'
  <2>1. QueueOK'
    BY <1>7 DEF claimNothing, QueueOK
  <2>2. StageOK' /\ AwaitOK' /\ RestOK'
    BY <1>7, <2>1, LeaveTypes DEF claimNothing, QueueOK
  <2> QED
    BY <1>7, <2>1, <2>2 DEF claimNothing, GoodOK
<1>8. ASSUME NEW p \in Pipelines, NEW i \in Stages(p), NEW ok \in BOOLEAN, otherDrain(p, i, ok)
      PROVE TypeInv'
  <2>1. PICK k \in claimable(queue[p][i]) :
          /\ queue' = [queue EXCEPT ![p][i] = served(queue[p][i], k, ok)]
          /\ foreign' = [foreign EXCEPT ![p] =
               @ \cup recorded(i, served(queue[p][i], k, ok))]
    BY <1>8 DEF otherDrain
  <2> DEFINE new == served(queue[p][i], k, ok)
  <2>2. ItemsOK(new)
    BY ServedSound DEF QueueOK
  <2>3. queue' = [queue EXCEPT ![p][i] = new]
    BY <2>1
  <2> HIDE DEF new
  <2>4. QueueOK'
    BY <2>2, <2>3, QueueStep
  <2>5. GoodOK'
    <3>1. \A c \in good' : c[1] \in Pipelines /\ c[2] \in Stages(c[1])
      BY <1>8 DEF otherDrain, GoodOK
    <3> QED
      BY <2>1, <3>1, RecordedSound DEF GoodOK
  <2>6. AwaitOK'
    BY <1>8 DEF otherDrain, AwaitOK, at, NoCall
  <2> QED
    BY <1>8, <2>4, <2>5, <2>6 DEF otherDrain, StageOK, RestOK
<1>9. ASSUME NEW p \in Pipelines, NEW i \in Stages(p), reclaim(p, i)
      PROVE TypeInv'
  <2> DEFINE new == completed(queue[p][i], FALSE)
  <2>1. ItemsOK(queue[p][i]) /\ queue[p][i] # <<>>
    BY <1>9 DEF reclaim, QueueOK
  <2>2. ItemsOK(new) /\ new # <<>>
    BY <2>1, CompletedSound
  <2>3. queue' = [queue EXCEPT ![p][i] = new]
    BY <1>9 DEF reclaim
  <2> HIDE DEF new
  <2> QED
    BY <1>9, <2>2, <2>3, ItemsTypes DEF reclaim
<1>10. ASSUME NEW p \in Pipelines, NEW i \in Stages(p), requeueDead(p, i)
      PROVE TypeInv'
  <2>1. PICK k \in DOMAIN queue[p][i] :
          queue' = [queue EXCEPT ![p][i][k] = [st |-> "pending", attempts |-> 0, wait |-> FALSE]]
    BY <1>10 DEF requeueDead
  <2> DEFINE it == [st |-> "pending", attempts |-> 0, wait |-> FALSE]
             new == [queue[p][i] EXCEPT ![k] = it]
  <2>2. it \in Item /\ it.attempts < MaxAttempts
    BY PipelineAssumption DEF Item
  <2>3. queue' = [queue EXCEPT ![p][i] = new]
    BY <2>1
  <2> HIDE DEF it
  <2>4. ItemsOK(queue[p][i])
    BY DEF QueueOK
  <2>5. ItemsOK(new) /\ new # <<>>
    BY <2>2, <2>4 DEF ItemsOK
  <2> HIDE DEF new
  <2> QED
    BY <1>10, <2>3, <2>5, ItemsTypes DEF requeueDead
<1>11. ASSUME NEW p \in Pipelines, NEW i \in Stages(p), elapse(p, i)
      PROVE TypeInv'
  <2>1. PICK k \in DOMAIN queue[p][i] :
          /\ queue[p][i][k].st = "pending"
          /\ queue' = [queue EXCEPT ![p][i][k].wait = FALSE]
    BY <1>11 DEF elapse
  <2> DEFINE it == [queue[p][i][k] EXCEPT !.wait = FALSE]
             new == [queue[p][i] EXCEPT ![k] = it]
  <2>2. ItemsOK(queue[p][i])
    BY DEF QueueOK
  <2>3. queue[p][i][k] \in Item /\ queue[p][i][k].attempts < MaxAttempts
    BY <2>1, <2>2 DEF ItemsOK
  <2>4. it \in Item /\ it.attempts = queue[p][i][k].attempts
    BY <2>3 DEF Item
  <2>5. queue' = [queue EXCEPT ![p][i] = new]
    BY <2>1
  <2> HIDE DEF it
  <2>6. ItemsOK(new) /\ new # <<>>
    BY <2>2, <2>3, <2>4 DEF ItemsOK
  <2> HIDE DEF new
  <2> QED
    BY <1>11, <2>5, <2>6, ItemsTypes DEF elapse
<1>12. CASE UNCHANGED vars
  BY <1>12 DEF vars, QueueOK, StageOK, AwaitOK, RestOK, GoodOK, at, ItemsOK
<1> QED
  BY <1>1, <1>2, <1>3, <1>4, <1>5, <1>6, <1>7, <1>8, <1>9, <1>10, <1>11, <1>12
  DEF Next, loopStep

----------------------------------------------------------------------------
(* Results and ends. *)

InRequest(p) == call.at # "none" /\ call.p = p

ResultInv ==
  \A p \in Pipelines :
    /\ InRequest(p) => Draining(run[p])
    /\ ~InRequest(p) => Settled(run[p])

(* Every action keeps the results. *)
LEMMA ResultStep == TypeInv /\ ResultInv /\ [Next]_vars => ResultInv'
<1> SUFFICES ASSUME TypeInv, ResultInv, [Next]_vars PROVE ResultInv'
  OBVIOUS
<1>0. run \in [Pipelines -> Run] /\ DOMAIN stage = Pipelines
  BY DEF TypeInv, RestOK, StageOK
<1>1. ASSUME NEW p \in Pipelines, NEW drain \in BOOLEAN, submitPipeline(p, drain)
      PROVE ResultInv'
  <2>1. Settled(run[p]) /\ run[p].st = "absent"
    BY <1>1 DEF submitPipeline, ResultInv, InRequest, NoCall
  <2>2. Draining(run'[p]) /\ Settled(run'[p])
    BY <1>0, <1>1, <2>1 DEF submitPipeline, Settled, Draining, Terminal, Run
  <2>3. \A q \in Pipelines \ {p} : Settled(run'[q]) /\ ~InRequest(q)'
    BY <1>0, <1>1 DEF submitPipeline, ResultInv, InRequest, NoCall
  <2> QED
    BY <2>2, <2>3 DEF ResultInv
<1>2. ASSUME NEW p \in Pipelines, drainPipeline(p)
      PROVE ResultInv'
  <2>1. Draining(run[p]) /\ Settled(run[p])
    BY <1>2 DEF drainPipeline, ResultInv, InRequest, NoCall, Settled, Draining, Terminal
  <2>2. \A q \in Pipelines \ {p} : Settled(run[q]) /\ ~InRequest(q)'
    BY <1>2 DEF drainPipeline, ResultInv, InRequest, NoCall
  <2> QED
    BY <1>2, <2>1, <2>2 DEF drainPipeline, ResultInv
<1>3. ASSUME NEW p \in Pipelines, NEW ss, NEW items, finish(p, ss, items), call.at # "none", call.p = p
      PROVE ResultInv'
  <2>1. /\ \A q \in Pipelines \ {p} : run'[q] = run[q]
        /\ Draining(run[p]) => Settled(run'[p])
        /\ call' = NoCall
    BY <1>0, <1>3, FinishSound
  <2>2. Draining(run[p]) /\ \A q \in Pipelines \ {p} : Settled(run[q])
    BY <1>3 DEF ResultInv, InRequest
  <2>3. \A q \in Pipelines : Settled(run'[q]) /\ ~InRequest(q)'
    BY <2>1, <2>2 DEF InRequest, NoCall
  <2> QED
    BY <2>3 DEF ResultInv
<1>4. ASSUME UNCHANGED run, call'.at # "none" <=> call.at # "none", call.at # "none" => call'.p = call.p
      PROVE ResultInv'
  BY <1>4 DEF ResultInv, InRequest
<1>5. ASSUME NEW p \in Pipelines, NEW i \in 1..(StageCount[p] + 1), skipStage(p, i)
      PROVE ResultInv'
  BY <1>4, <1>5 DEF skipStage, at
<1>6. ASSUME NEW p \in Pipelines, NEW i \in 1..(StageCount[p] + 1), endLoop(p, i)
      PROVE ResultInv'
  BY <1>3, <1>6 DEF endLoop, at
<1>7. ASSUME NEW p \in Pipelines, NEW i \in 1..(StageCount[p] + 1),
             NEW verdict \in {"pending", "failed"}, enterStage(p, i, verdict)
      PROVE ResultInv'
  <2>1. call = [p |-> p, i |-> i, at |-> "visit"]
    BY <1>7 DEF enterStage, at
  <2>2. CASE latest(queue'[p][i]).st = "failed"
    BY <1>3, <1>7, <2>1, <2>2 DEF enterStage
  <2>3. CASE latest(queue'[p][i]).st # "failed"
    BY <1>4, <1>7, <2>1, <2>3 DEF enterStage
  <2> QED
    BY <2>2, <2>3
<1>8. ASSUME NEW p \in Pipelines, NEW i \in Stages(p), NEW j \in Stages(p),
             NEW ok \in BOOLEAN, runStage(p, i, j, ok)
      PROVE ResultInv'
  <2>1. call = [p |-> p, i |-> i, at |-> "await"]
    BY <1>8 DEF runStage, at
  <2>2. CASE ok /\ j = i
    BY <1>4, <1>8, <2>1, <2>2 DEF runStage, completeStage
  <2>3. CASE ~(ok /\ j = i)
    BY <1>3, <1>8, <2>1, <2>3 DEF runStage, leaveStage
  <2> QED
    BY <2>2, <2>3
<1>9. ASSUME NEW p \in Pipelines, NEW i \in Stages(p), claimNothing(p, i)
      PROVE ResultInv'
  BY <1>3, <1>9 DEF claimNothing, leaveStage, at
<1>10. ASSUME UNCHANGED <<run, call>>
       PROVE ResultInv'
  BY <1>10 DEF ResultInv, InRequest
<1> QED
  BY <1>1, <1>2, <1>5, <1>6, <1>7, <1>8, <1>9, <1>10
  DEF Next, loopStep, otherDrain, reclaim, requeueDead, elapse, vars

----------------------------------------------------------------------------
(* What stands behind a stage that counts as done: a successful run, and   *)
(* its output, unless the run brought it to a drain that was not waiting   *)
(* for it.                                                                 *)

Backed(p, i) ==
  /\ <<p, i>> \in good
  /\ <<i, "done">> \in foreign[p] \/ stage[p][i].output

BackedBefore(p, i) == \A j \in 1..(i - 1) : Backed(p, j)

ItemsBacked ==
  \A p \in Pipelines : \A i \in Stages(p) : \A k \in DOMAIN queue[p][i] :
    queue[p][i][k].st = "done" => Backed(p, i)

StagesBacked ==
  \A p \in Pipelines : \A i \in Stages(p) : stage[p][i].st = "done" => Backed(p, i)

CallBacked ==
  \A p \in Pipelines : \A i \in 1..(StageCount[p] + 1) :
    at(p, i, "visit") \/ at(p, i, "await") => BackedBefore(p, i)

QueuedBacked ==
  \A p \in Pipelines : \A i \in Stages(p) : queue[p][i] # <<>> => BackedBefore(p, i)

RunsBacked ==
  \A p \in Pipelines : run[p].st = "done" => \A i \in Stages(p) : Backed(p, i)

BackInv == ItemsBacked /\ StagesBacked /\ CallBacked /\ QueuedBacked /\ RunsBacked

(* Nothing a step does takes the backing of a stage away. *)
Kept ==
  /\ good \subseteq good'
  /\ \A p \in Pipelines : foreign[p] \subseteq foreign'[p]
  /\ \A p \in Pipelines : \A i \in Stages(p) : stage[p][i].output => stage'[p][i].output

GrowsOnly ==
  /\ good \subseteq good'
  /\ \A p \in Pipelines : foreign[p] \subseteq foreign'[p]

(* What a step has run, with the outputs from before it. *)
BackedNow(p, i) ==
  /\ <<p, i>> \in good'
  /\ <<i, "done">> \in foreign'[p] \/ stage[p][i].output

(* What was backed before the step is. *)
LEMMA BackedIsNow ==
  ASSUME GrowsOnly, NEW p \in Pipelines, NEW i \in Stages(p), Backed(p, i)
  PROVE  BackedNow(p, i)
BY DEF GrowsOnly, Backed, BackedNow

(* The outputs stay. *)
LEMMA NowBacked ==
  ASSUME Kept, NEW p \in Pipelines, NEW i \in Stages(p), BackedNow(p, i)
  PROVE  Backed(p, i)'
BY DEF Kept, Backed, BackedNow

(* The backing stays. *)
LEMMA BackedStays ==
  ASSUME Kept, NEW p \in Pipelines, NEW i \in Stages(p), Backed(p, i)
  PROVE  Backed(p, i)'
BY DEF Kept, Backed

(* So does the backing of all stages before one. *)
LEMMA BeforeStays ==
  ASSUME Kept, NEW p \in Pipelines, NEW i \in 1..(StageCount[p] + 1), BackedBefore(p, i)
  PROVE  BackedBefore(p, i)'
<1> SUFFICES ASSUME NEW j \in 1..(i - 1) PROVE Backed(p, j)'
  BY DEF BackedBefore
<1>1. j \in Stages(p)
  BY PipelineAssumption DEF Stages
<1> QED
  BY <1>1, BackedStays DEF BackedBefore

(* The end of a request: what it counts as done is backed. *)
LEMMA FinishBacked ==
  ASSUME TypeInv, BackInv, GrowsOnly, NEW p \in Pipelines,
         NEW ss \in [Stages(p) -> Stage], NEW items \in [Stages(p) -> Seq(Item)],
         finish(p, ss, items),
         \A i \in Stages(p) :
           /\ ss[i].output = stage[p][i].output
           /\ ss[i].st = "done" => BackedNow(p, i)
           /\ \A k \in DOMAIN items[i] : items[i][k].st = "done" => BackedNow(p, i)
  PROVE  Kept /\ StagesBacked' /\ CallBacked' /\ RunsBacked'
<1> DEFINE done == synced(ss, items)
<1>1. /\ stage' = [stage EXCEPT ![p] = done]
      /\ \A q \in Pipelines \ {p} : run'[q] = run[q]
      /\ run'[p].st = "done" => \A i \in Stages(p) : done[i].st = "done"
      /\ call' = NoCall
  BY FinishSound DEF TypeInv, RestOK, StageOK
<1>2. \A i \in Stages(p) :
        /\ done[i].output = ss[i].output
        /\ done[i].st = "done" =>
             ss[i].st = "done" \/ \E k \in DOMAIN items[i] : items[i][k].st = "done"
  BY SyncedSound
<1> HIDE DEF done
<1>3. /\ stage'[p] = done
      /\ \A q \in Pipelines \ {p} : stage'[q] = stage[q]
  BY <1>1 DEF TypeInv, StageOK
<1>4. \A i \in Stages(p) : done[i].output = stage[p][i].output
  BY <1>2
<1>5. Kept
  BY <1>3, <1>4 DEF Kept, GrowsOnly
<1>6. \A i \in Stages(p) : done[i].st = "done" => Backed(p, i)'
  BY <1>2, <1>5, NowBacked
<1>7. StagesBacked'
  <2>1. ASSUME NEW q \in Pipelines, NEW i \in Stages(q), stage'[q][i].st = "done"
        PROVE Backed(q, i)'
    BY <1>3, <1>5, <1>6, <2>1, BackedStays DEF BackInv, StagesBacked
  <2> QED
    BY <2>1 DEF StagesBacked
<1>8. CallBacked'
  BY <1>1 DEF CallBacked, at, NoCall
<1>9. RunsBacked'
  <2>1. ASSUME NEW q \in Pipelines, run'[q].st = "done", NEW i \in Stages(q)
        PROVE Backed(q, i)'
    BY <1>1, <1>5, <1>6, <2>1, BackedStays DEF BackInv, RunsBacked
  <2> QED
    BY <2>1 DEF RunsBacked
<1> QED
  BY <1>5, <1>7, <1>8, <1>9

(* Parts of the state that a step leaves alone stay backed. *)
LEMMA UnchangedBacked ==
  ASSUME BackInv, Kept
  PROVE  /\ UNCHANGED queue => ItemsBacked' /\ QueuedBacked'
         /\ UNCHANGED stage => StagesBacked'
         /\ UNCHANGED call => CallBacked'
         /\ UNCHANGED run => RunsBacked'
<1>1. ASSUME UNCHANGED queue PROVE ItemsBacked' /\ QueuedBacked'
  <2>1. ItemsBacked'
    BY <1>1, BackedStays DEF BackInv, ItemsBacked
  <2>2. ASSUME NEW p \in Pipelines, NEW i \in Stages(p), queue'[p][i] # <<>>
        PROVE BackedBefore(p, i)'
    <3>1. i \in 1..(StageCount[p] + 1)
      BY PipelineAssumption DEF Stages
    <3> QED
      BY <1>1, <2>2, <3>1, BeforeStays DEF BackInv, QueuedBacked
  <2> QED
    BY <2>1, <2>2 DEF QueuedBacked
<1>2. ASSUME UNCHANGED stage PROVE StagesBacked'
  BY <1>2, BackedStays DEF BackInv, StagesBacked
<1>3. ASSUME UNCHANGED call PROVE CallBacked'
  BY <1>3, BeforeStays DEF BackInv, CallBacked, at
<1>4. ASSUME UNCHANGED run PROVE RunsBacked'
  BY <1>4, BackedStays DEF BackInv, RunsBacked
<1> QED
  BY <1>1, <1>2, <1>3, <1>4

(* A step that changes the items of one task id, which has items already   *)
(* or whose earlier stages are backed.                                     *)
LEMMA ItemsStayBacked ==
  ASSUME TypeInv, BackInv, Kept, NEW p \in Pipelines, NEW i \in Stages(p), NEW new, ItemsOK(new),
         queue' = [queue EXCEPT ![p][i] = new],
         queue[p][i] # <<>> \/ BackedBefore(p, i),
         \A k \in DOMAIN new :
           new[k].st = "done" =>
             Backed(p, i)' \/ (k \in DOMAIN queue[p][i] /\ queue[p][i][k].st = "done")
  PROVE  ItemsBacked' /\ QueuedBacked'
<1>0. QueueOK
  BY DEF TypeInv
<1>1. \A q \in Pipelines : \A j \in Stages(q) :
        <<q, j>> # <<p, i>> => queue'[q][j] = queue[q][j]
  BY <1>0, QueueStep
<1>2. queue'[p][i] = new
  BY <1>0 DEF QueueOK
<1>3. ItemsBacked'
  <2>1. SUFFICES ASSUME NEW q \in Pipelines, NEW j \in Stages(q), NEW k \in DOMAIN queue'[q][j],
                        queue'[q][j][k].st = "done"
                 PROVE  Backed(q, j)'
    BY DEF ItemsBacked
  <2>2. CASE <<q, j>> = <<p, i>>
    BY <1>2, <2>1, <2>2, BackedStays DEF BackInv, ItemsBacked
  <2>3. CASE <<q, j>> # <<p, i>>
    BY <1>1, <2>1, <2>3, BackedStays DEF BackInv, ItemsBacked
  <2> QED
    BY <2>2, <2>3
<1>4. QueuedBacked'
  <2>1. SUFFICES ASSUME NEW q \in Pipelines, NEW j \in Stages(q), queue'[q][j] # <<>>
                 PROVE  BackedBefore(q, j)'
    BY DEF QueuedBacked
  <2>2. j \in 1..(StageCount[q] + 1)
    BY PipelineAssumption DEF Stages
  <2>3. BackedBefore(q, j)
    BY <1>1, <2>1 DEF BackInv, QueuedBacked
  <2> QED
    BY <2>2, <2>3, BeforeStays
<1> QED
  BY <1>3, <1>4

(* A drain that ends a request, whether it ran the stage in vain or not.   *)
LEMMA LeaveBacked ==
  ASSUME TypeInv, BackInv, GrowsOnly, NEW p \in Pipelines, NEW i \in Stages(p),
         NEW items \in [Stages(p) -> Seq(Item)], leaveStage(p, i, items),
         \A j \in Stages(p) : \A k \in DOMAIN items[j] :
           items[j][k].st = "done" => BackedNow(p, j)
  PROVE  Kept /\ StagesBacked' /\ CallBacked' /\ RunsBacked'
<1> DEFINE ss == synced(stage[p], items)
           st == IF latest(items[i]).st \in {"dead", "failed"} THEN "failed" ELSE "pending"
           left == [ss EXCEPT ![i].st = st]
<1>1. stage[p] \in [Stages(p) -> Stage]
  BY DEF TypeInv, StageOK
<1>2. /\ ss \in [Stages(p) -> Stage]
      /\ \A j \in Stages(p) :
           /\ ss[j].output = stage[p][j].output
           /\ ss[j].st = "done" =>
                stage[p][j].st = "done" \/ \E k \in DOMAIN items[j] : items[j][k].st = "done"
  BY <1>1, SyncedSound
<1>3. st \in {"pending", "failed"} /\ finish(p, left, items)
  BY DEF leaveStage
<1> HIDE DEF ss, st
<1>4. left \in [Stages(p) -> Stage]
  BY <1>2, <1>3 DEF Stage
<1>5. \A j \in Stages(p) :
        left[j].output = ss[j].output /\ (left[j].st = "done" => ss[j].st = "done")
  BY <1>2, <1>3 DEF Stage
<1> HIDE DEF left
<1>6. \A j \in Stages(p) :
        /\ left[j].output = stage[p][j].output
        /\ left[j].st = "done" => BackedNow(p, j)
  BY <1>2, <1>5, BackedIsNow DEF BackInv, StagesBacked
<1> QED
  BY <1>3, <1>4, <1>6, FinishBacked

(* A step of the rest of the control plane on the items of a stage. *)
LEMMA ItemsAloneBacked ==
  ASSUME TypeInv, BackInv, UNCHANGED <<stage, run, call, good, foreign>>,
         NEW p \in Pipelines, NEW i \in Stages(p), NEW new, ItemsOK(new),
         queue' = [queue EXCEPT ![p][i] = new], queue[p][i] # <<>>,
         \A k \in DOMAIN new :
           new[k].st = "done" => k \in DOMAIN queue[p][i] /\ queue[p][i][k].st = "done"
  PROVE  BackInv'
<1>1. Kept
  BY DEF Kept
<1>2. StagesBacked' /\ CallBacked' /\ RunsBacked'
  BY <1>1, UnchangedBacked
<1>3. ItemsBacked' /\ QueuedBacked'
  BY <1>1, ItemsStayBacked
<1> QED
  BY <1>2, <1>3 DEF BackInv

(* A stage of the loop is passed only when it is backed. *)
LEMMA VisitBacked ==
  ASSUME Kept, NEW p \in Pipelines, NEW i \in Stages(p), BackedBefore(p, i), Backed(p, i)',
         call' = [p |-> p, i |-> i + 1, at |-> "visit"]
  PROVE  CallBacked'
<1>1. i \in 1..(StageCount[p] + 1) /\ i \in Nat
  BY PipelineAssumption DEF Stages
<1>2. \A j \in 1..(i - 1) : Backed(p, j)'
  BY <1>1, BeforeStays DEF BackedBefore
<1>3. \A j \in 1..((i + 1) - 1) : j = i \/ j \in 1..(i - 1)
  BY <1>1
<1>4. BackedBefore(p, i + 1)'
  BY <1>2, <1>3 DEF BackedBefore
<1>5. \A q \in Pipelines : \A j \in 1..(StageCount[q] + 1) :
        at(q, j, "visit")' \/ at(q, j, "await")' => q = p /\ j = i + 1
  BY DEF at
<1> QED
  BY <1>4, <1>5 DEF CallBacked

(* Every action keeps what stands behind the stages. *)
LEMMA BackStep == TypeInv /\ BackInv /\ [Next]_vars => BackInv'
<1> SUFFICES ASSUME TypeInv, BackInv, [Next]_vars PROVE BackInv'
  OBVIOUS
<1>0. QueueOK /\ StageOK /\ GoodOK /\ run \in [Pipelines -> Run]
  BY DEF TypeInv, RestOK
<1>1. ASSUME NEW p \in Pipelines, NEW drain \in BOOLEAN, submitPipeline(p, drain)
      PROVE BackInv'
  <2>1. Kept
    BY <1>1 DEF submitPipeline, Kept
  <2>2. ItemsBacked' /\ QueuedBacked' /\ StagesBacked'
    BY <1>1, <2>1, UnchangedBacked DEF submitPipeline
  <2>3. CallBacked'
    BY <1>1 DEF submitPipeline, CallBacked, BackedBefore, at, NoCall
  <2>4. \A q \in Pipelines : run'[q].st = "done" => run[q].st = "done"
    BY <1>0, <1>1 DEF submitPipeline, Run
  <2>5. RunsBacked'
    BY <2>1, <2>4, BackedStays DEF BackInv, RunsBacked
  <2> QED
    BY <2>2, <2>3, <2>5 DEF BackInv
<1>2. ASSUME NEW p \in Pipelines, drainPipeline(p)
      PROVE BackInv'
  <2>1. Kept
    BY <1>2 DEF drainPipeline, Kept
  <2>2. ItemsBacked' /\ QueuedBacked' /\ StagesBacked' /\ RunsBacked'
    BY <1>2, <2>1, UnchangedBacked DEF drainPipeline
  <2>3. CallBacked'
    BY <1>2 DEF drainPipeline, CallBacked, BackedBefore, at
  <2> QED
    BY <2>2, <2>3 DEF BackInv
<1>3. ASSUME NEW p \in Pipelines, NEW i \in 1..(StageCount[p] + 1), skipStage(p, i)
      PROVE BackInv'
  <2>1. Kept
    BY <1>3 DEF skipStage, Kept
  <2>2. ItemsBacked' /\ QueuedBacked' /\ StagesBacked' /\ RunsBacked'
    BY <1>3, <2>1, UnchangedBacked DEF skipStage
  <2>3. i \in Stages(p) /\ call' = [p |-> p, i |-> i + 1, at |-> "visit"]
    BY <1>3 DEF skipStage, at
  <2>4. BackedBefore(p, i) /\ Backed(p, i)
    BY <1>3 DEF skipStage, BackInv, CallBacked, StagesBacked
  <2>5. CallBacked'
    BY <2>1, <2>3, <2>4, BackedStays, VisitBacked
  <2> QED
    BY <2>2, <2>5 DEF BackInv
<1>4. ASSUME NEW p \in Pipelines, NEW i \in 1..(StageCount[p] + 1), endLoop(p, i)
      PROVE BackInv'
  <2>0. GrowsOnly
    BY <1>4 DEF endLoop, GrowsOnly
  <2>1. \A j \in Stages(p) :
          /\ stage[p][j].st = "done" => BackedNow(p, j)
          /\ \A k \in DOMAIN queue[p][j] : queue[p][j][k].st = "done" => BackedNow(p, j)
    BY <2>0, BackedIsNow DEF BackInv, StagesBacked, ItemsBacked
  <2>2. Kept /\ StagesBacked' /\ CallBacked' /\ RunsBacked'
    <3>1. stage[p] \in [Stages(p) -> Stage] /\ queue[p] \in [Stages(p) -> Seq(Item)]
      BY <1>0 DEF QueueOK, StageOK
    <3>2. finish(p, stage[p], queue[p])
      BY <1>4 DEF endLoop
    <3> QED
      BY <2>0, <2>1, <3>1, <3>2, FinishBacked
  <2>3. ItemsBacked' /\ QueuedBacked'
    BY <1>4, <2>2, UnchangedBacked DEF endLoop
  <2> QED
    BY <2>2, <2>3 DEF BackInv
<1>5. ASSUME NEW p \in Pipelines, NEW i \in 1..(StageCount[p] + 1),
             NEW verdict \in {"pending", "failed"}, enterStage(p, i, verdict)
      PROVE BackInv'
  <2>1. i \in Stages(p) /\ at(p, i, "visit") /\ UNCHANGED <<kept, good, foreign>>
    BY <1>5 DEF enterStage
  <2>2. BackedBefore(p, i)
    BY <2>1 DEF BackInv, CallBacked
  <2>3. TypeInv' /\ QueueOK'
    BY TypeStep DEF TypeInv
  <2>4. /\ Kept => ItemsBacked' /\ QueuedBacked'
        /\ \A j \in Stages(p) : \A k \in DOMAIN queue'[p][j] :
             queue'[p][j][k].st = "done" => k \in DOMAIN queue[p][j] /\ queue[p][j][k].st = "done"
    <3>1. CASE toEnqueue(queue[p][i])
      <4> DEFINE it == [st |-> verdict, attempts |-> 0, wait |-> FALSE]
      <4>1. PICK new : new = Append(queue[p][i], it)
        OBVIOUS
      <4>2. /\ ItemsOK(new)
            /\ \A k \in DOMAIN new :
                 new[k].st = "done" => k \in DOMAIN queue[p][i] /\ queue[p][i][k].st = "done"
        <5> DEFINE n == Append(queue[p][i], it)
        <5>1. ItemsOK(queue[p][i])
          BY <1>0, <2>1 DEF QueueOK
        <5>2. ItemsOK(n)
          BY <5>1, AppendSound
        <5>3. \A k \in DOMAIN n :
                n[k].st = "done" => k \in DOMAIN queue[p][i] /\ queue[p][i][k].st = "done"
          BY <5>1, AppendSound
        <5> QED
          BY <4>1, <5>2, <5>3
      <4>3. queue' = [queue EXCEPT ![p][i] = new]
        BY <1>5, <3>1, <4>1 DEF enterStage
      <4>4. Kept => ItemsBacked' /\ QueuedBacked'
        BY <2>1, <2>2, <4>2, <4>3, ItemsStayBacked
      <4>5. queue'[p][i] = new /\ \A j \in Stages(p) \ {i} : queue'[p][j] = queue[p][j]
        BY <1>0, <2>1, <4>3 DEF QueueOK
      <4> QED
        BY <2>1, <4>2, <4>4, <4>5
    <3>2. CASE ~toEnqueue(queue[p][i])
      BY <1>5, <3>2, UnchangedBacked DEF enterStage
    <3> QED
      BY <3>1, <3>2
  <2>5. Kept /\ StagesBacked' /\ CallBacked' /\ RunsBacked'
    <3>1. CASE latest(queue'[p][i]).st = "failed"
      <4> DEFINE ss == [stage[p] EXCEPT ![i].st = "failed"]
      <4>0. stage[p] \in [Stages(p) -> Stage]
        BY <1>0 DEF StageOK
      <4>1. ss \in [Stages(p) -> Stage] /\ finish(p, ss, queue'[p])
        <5>1. ss \in [Stages(p) -> Stage]
          BY <2>1, <4>0 DEF Stage
        <5>2. finish(p, ss, queue'[p])
          BY <1>5, <3>1 DEF enterStage
        <5> QED
          BY <5>1, <5>2
      <4>2. \A j \in Stages(p) :
              /\ ss[j].output = stage[p][j].output
              /\ ss[j].st = "done" => stage[p][j].st = "done"
        BY <2>1, <4>0 DEF Stage
      <4> HIDE DEF ss
      <4>6. GrowsOnly
        BY <2>1 DEF GrowsOnly
      <4>3. \A j \in Stages(p) : ss[j].st = "done" => BackedNow(p, j)
        BY <4>2, <4>6, BackedIsNow DEF BackInv, StagesBacked
      <4>4. queue'[p] \in [Stages(p) -> Seq(Item)]
        BY <2>3 DEF QueueOK
      <4>5. \A j \in Stages(p) : \A k \in DOMAIN queue'[p][j] :
              queue'[p][j][k].st = "done" => BackedNow(p, j)
        BY <2>4, <4>6, BackedIsNow DEF BackInv, ItemsBacked
      <4> QED
        BY <4>1, <4>2, <4>3, <4>4, <4>5, <4>6, FinishBacked
    <3>2. CASE latest(queue'[p][i]).st # "failed"
      <4>1. /\ stage' = [stage EXCEPT ![p][i].st = "running"]
            /\ call' = [p |-> p, i |-> i, at |-> "await"]
            /\ UNCHANGED run
        BY <1>5, <3>2 DEF enterStage, at
      <4>2. \A q \in Pipelines : \A j \in Stages(q) :
              /\ stage'[q][j].output = stage[q][j].output
              /\ stage'[q][j].st = "done" => stage[q][j].st = "done"
        BY <1>0, <2>1, <4>1 DEF StageOK, Stage
      <4>3. Kept
        BY <2>1, <4>2 DEF Kept
      <4>4. StagesBacked'
        BY <4>2, <4>3, BackedStays DEF BackInv, StagesBacked
      <4>5. CallBacked'
        BY <2>2, <4>1, <4>3, BeforeStays DEF CallBacked, at
      <4>6. RunsBacked'
        BY <4>1, <4>3, UnchangedBacked
      <4> QED
        BY <4>3, <4>4, <4>5, <4>6
    <3> QED
      BY <3>1, <3>2
  <2>6. ItemsBacked' /\ QueuedBacked'
    BY <2>4, <2>5
  <2> QED
    BY <2>5, <2>6 DEF BackInv
<1>6. ASSUME NEW p \in Pipelines, NEW i \in Stages(p), NEW j \in Stages(p),
             NEW ok \in BOOLEAN, runStage(p, i, j, ok)
      PROVE BackInv'
  <2>1. PICK new :
          /\ ItemsOK(new) /\ DOMAIN new = DOMAIN queue[p][j] /\ queue[p][j] # <<>>
          /\ ok => new[1].st = "done"
          /\ \A k \in DOMAIN new : new[k].st = "done" => ok \/ queue[p][j][k].st = "done"
          /\ queue' = [queue EXCEPT ![p][j] = new]
          /\ foreign' = IF j = i THEN foreign
                        ELSE [foreign EXCEPT ![p] = @ \cup recorded(j, new)]
    BY <1>6, RunStageSound
  <2>2. good' = IF ok THEN good \cup {<<p, j>>} ELSE good
    BY <1>6 DEF runStage
  <2>3. /\ \A q \in Pipelines : foreign[q] \subseteq foreign'[q]
        /\ ok /\ j # i => <<j, "done">> \in foreign'[p]
    <3>1. CASE j = i
      BY <2>1, <3>1
    <3>2. CASE j # i
      <4>1. foreign' = [foreign EXCEPT ![p] = @ \cup recorded(j, new)]
        BY <2>1, <3>2
      <4> QED
        BY <1>0, <2>1, <4>1, RecordedSound
    <3> QED
      BY <3>1, <3>2
  <2>4. GrowsOnly
    BY <2>2, <2>3 DEF GrowsOnly
  <2>6. CASE ok /\ j = i
    <3>1. /\ stage' = [stage EXCEPT ![p][i] = [st |-> "done", output |-> TRUE]]
          /\ call' = [p |-> p, i |-> i + 1, at |-> "visit"]
          /\ UNCHANGED run
      BY <1>6, <2>6 DEF runStage, completeStage, at
    <3>2. /\ stage'[p][i] = [st |-> "done", output |-> TRUE]
          /\ \A q \in Pipelines : \A n \in Stages(q) :
               <<q, n>> # <<p, i>> => stage'[q][n] = stage[q][n]
      BY <1>0, <3>1 DEF StageOK
    <3>3. Kept
      BY <2>4, <3>2 DEF Kept, GrowsOnly
    <3>4. Backed(p, i)'
      BY <2>2, <2>6, <3>2 DEF Backed
    <3>5. ItemsBacked' /\ QueuedBacked'
      BY <2>1, <2>6, <3>3, <3>4, ItemsStayBacked
    <3>6. StagesBacked'
      <4>1. ASSUME NEW q \in Pipelines, NEW n \in Stages(q), stage'[q][n].st = "done"
            PROVE Backed(q, n)'
        BY <3>2, <3>3, <3>4, <4>1, BackedStays DEF BackInv, StagesBacked
      <4> QED
        BY <4>1 DEF StagesBacked
    <3>7. BackedBefore(p, i)
      <4>1. i \in 1..(StageCount[p] + 1)
        BY PipelineAssumption DEF Stages
      <4> QED
        BY <1>6, <4>1 DEF runStage, BackInv, CallBacked
    <3>8. CallBacked'
      BY <3>1, <3>3, <3>4, <3>7, VisitBacked
    <3>9. RunsBacked'
      BY <3>1, <3>3, UnchangedBacked
    <3> QED
      BY <3>5, <3>6, <3>8, <3>9 DEF BackInv
  <2>7. CASE ~(ok /\ j = i)
    <3>1. leaveStage(p, i, queue'[p])
      BY <1>6, <2>7 DEF runStage
    <3>2. queue'[p] \in [Stages(p) -> Seq(Item)]
      <4>1. QueueOK'
        BY <1>0, <2>1, QueueStep
      <4> QED
        BY <4>1 DEF QueueOK
    <3>3. queue'[p][j] = new /\ \A n \in Stages(p) \ {j} : queue'[p][n] = queue[p][n]
      BY <1>0, <2>1 DEF QueueOK
    <3>4. ok => BackedNow(p, j)
      BY <2>2, <2>3, <2>7 DEF BackedNow
    <3>5. \A n \in Stages(p) : \A k \in DOMAIN queue'[p][n] :
            queue'[p][n][k].st = "done" => BackedNow(p, n)
      <4>1. ASSUME NEW n \in Stages(p), NEW k \in DOMAIN queue'[p][n],
                   queue'[p][n][k].st = "done"
            PROVE  BackedNow(p, n)
        <5>1. CASE ok /\ n = j
          BY <3>4, <5>1
        <5>2. CASE ~(ok /\ n = j)
          <6>1. k \in DOMAIN queue[p][n] /\ queue[p][n][k].st = "done"
            BY <2>1, <3>3, <4>1, <5>2
          <6>2. Backed(p, n)
            BY <6>1 DEF BackInv, ItemsBacked
          <6> QED
            BY <2>4, <6>2, BackedIsNow
        <5> QED
          BY <5>1, <5>2
      <4> QED
        BY <4>1
    <3>6. Kept /\ StagesBacked' /\ CallBacked' /\ RunsBacked'
      BY <2>4, <3>1, <3>2, <3>5, LeaveBacked
    <3>7. ok => Backed(p, j)'
      BY <3>4, <3>6, NowBacked
    <3>8. ItemsBacked' /\ QueuedBacked'
      BY <2>1, <3>6, <3>7, ItemsStayBacked
    <3> QED
      BY <3>6, <3>8 DEF BackInv
  <2> QED
    BY <2>6, <2>7
<1>7. ASSUME NEW p \in Pipelines, NEW i \in Stages(p), claimNothing(p, i)
      PROVE BackInv'
  <2>1. leaveStage(p, i, queue[p]) /\ UNCHANGED <<queue, good, foreign>>
    BY <1>7 DEF claimNothing
  <2>4. GrowsOnly
    BY <2>1 DEF GrowsOnly
  <2>5. \A j \in Stages(p) : \A k \in DOMAIN queue[p][j] :
          queue[p][j][k].st = "done" => BackedNow(p, j)
    BY <2>4, BackedIsNow DEF BackInv, ItemsBacked
  <2>2. Kept /\ StagesBacked' /\ CallBacked' /\ RunsBacked'
    BY <1>0, <2>1, <2>4, <2>5, LeaveBacked DEF QueueOK
  <2>3. ItemsBacked' /\ QueuedBacked'
    BY <2>1, <2>2, UnchangedBacked
  <2> QED
    BY <2>2, <2>3 DEF BackInv
<1>8. ASSUME NEW p \in Pipelines, NEW i \in Stages(p), NEW ok \in BOOLEAN, otherDrain(p, i, ok)
      PROVE BackInv'
  <2>1. PICK k \in claimable(queue[p][i]) :
          /\ queue' = [queue EXCEPT ![p][i] = served(queue[p][i], k, ok)]
          /\ foreign' = [foreign EXCEPT ![p] =
               @ \cup recorded(i, served(queue[p][i], k, ok))]
    BY <1>8 DEF otherDrain
  <2>2. PICK new : new = served(queue[p][i], k, ok)
    OBVIOUS
  <2>3. /\ ItemsOK(new) /\ DOMAIN new = DOMAIN queue[p][i]
        /\ ok => new[1].st = "done"
        /\ \A j \in DOMAIN new : new[j].st = "done" => ok \/ queue[p][i][j].st = "done"
    BY <1>0, <2>2, ServedSound DEF QueueOK
  <2>4. /\ queue' = [queue EXCEPT ![p][i] = new]
        /\ foreign' = [foreign EXCEPT ![p] = @ \cup recorded(i, new)]
    BY <2>1, <2>2
  <2>5. queue[p][i] # <<>>
    BY DEF claimable
  <2>6. /\ UNCHANGED <<stage, run, call>>
        /\ good' = IF ok THEN good \cup {<<p, i>>} ELSE good
    BY <1>8 DEF otherDrain
  <2>11. /\ \A q \in Pipelines : foreign[q] \subseteq foreign'[q]
         /\ new[1].st = "done" => <<i, "done">> \in foreign'[p]
    BY <1>0, <2>4, RecordedSound
  <2>7. Kept
    BY <2>6, <2>11 DEF Kept
  <2>8. ok => Backed(p, i)'
    BY <2>3, <2>6, <2>11 DEF Backed
  <2>9. ItemsBacked' /\ QueuedBacked'
    BY <2>3, <2>4, <2>5, <2>7, <2>8, ItemsStayBacked
  <2>10. StagesBacked' /\ CallBacked' /\ RunsBacked'
    BY <2>6, <2>7, UnchangedBacked
  <2> QED
    BY <2>9, <2>10 DEF BackInv
<1>9. ASSUME NEW p \in Pipelines, NEW i \in Stages(p), reclaim(p, i)
      PROVE BackInv'
  <2>1. PICK new : new = completed(queue[p][i], FALSE)
    OBVIOUS
  <2>2. ItemsOK(queue[p][i]) /\ queue[p][i] # <<>>
    BY <1>0, <1>9 DEF reclaim, QueueOK
  <2>3. /\ ItemsOK(new) /\ DOMAIN new = DOMAIN queue[p][i]
        /\ \A k \in DOMAIN new : new[k].st = "done" => queue[p][i][k].st = "done"
    BY <2>1, <2>2, CompletedSound
  <2>4. queue' = [queue EXCEPT ![p][i] = new]
    BY <1>9, <2>1 DEF reclaim
  <2>20. UNCHANGED <<stage, run, call, good, foreign>>
    BY <1>9 DEF reclaim
  <2> QED
    BY <2>20, <2>2, <2>3, <2>4, ItemsAloneBacked
<1>10. ASSUME NEW p \in Pipelines, NEW i \in Stages(p), requeueDead(p, i)
      PROVE BackInv'
  <2>1. PICK k \in DOMAIN queue[p][i] :
          queue' = [queue EXCEPT ![p][i][k] = [st |-> "pending", attempts |-> 0, wait |-> FALSE]]
    BY <1>10 DEF requeueDead
  <2>2. PICK it : it = [st |-> "pending", attempts |-> 0, wait |-> FALSE]
    OBVIOUS
  <2>3. it \in Item /\ it.st # "done" /\ it.attempts < MaxAttempts
    BY <2>2, PipelineAssumption DEF Item
  <2>4. PICK new : new = [queue[p][i] EXCEPT ![k] = it]
    OBVIOUS
  <2>5. queue' = [queue EXCEPT ![p][i] = new]
    BY <2>1, <2>2, <2>4
  <2>6. ItemsOK(queue[p][i]) /\ queue[p][i] # <<>>
    BY <1>0 DEF QueueOK
  <2>7. /\ ItemsOK(new) /\ DOMAIN new = DOMAIN queue[p][i]
        /\ \A n \in DOMAIN new : new[n].st = "done" => queue[p][i][n].st = "done"
    BY <2>3, <2>4, <2>6 DEF ItemsOK
  <2>20. UNCHANGED <<stage, run, call, good, foreign>>
    BY <1>10 DEF requeueDead
  <2> QED
    BY <2>20, <2>5, <2>6, <2>7, ItemsAloneBacked
<1>11. ASSUME NEW p \in Pipelines, NEW i \in Stages(p), elapse(p, i)
      PROVE BackInv'
  <2>1. PICK k \in DOMAIN queue[p][i] :
          /\ queue[p][i][k].st = "pending"
          /\ queue' = [queue EXCEPT ![p][i][k].wait = FALSE]
    BY <1>11 DEF elapse
  <2>2. PICK it : it = [queue[p][i][k] EXCEPT !.wait = FALSE]
    OBVIOUS
  <2>3. ItemsOK(queue[p][i]) /\ queue[p][i] # <<>>
    BY <1>0 DEF QueueOK
  <2>4. queue[p][i][k] \in Item /\ queue[p][i][k].attempts < MaxAttempts
    BY <2>1, <2>3 DEF ItemsOK
  <2>5. it \in Item /\ it.st = "pending" /\ it.attempts = queue[p][i][k].attempts
    BY <2>1, <2>2, <2>4 DEF Item
  <2>6. PICK new : new = [queue[p][i] EXCEPT ![k] = it]
    OBVIOUS
  <2>7. queue' = [queue EXCEPT ![p][i] = new]
    BY <2>1, <2>2, <2>6
  <2>8. /\ ItemsOK(new) /\ DOMAIN new = DOMAIN queue[p][i]
        /\ \A n \in DOMAIN new : new[n].st = "done" => queue[p][i][n].st = "done"
    BY <2>3, <2>4, <2>5, <2>6 DEF ItemsOK
  <2>20. UNCHANGED <<stage, run, call, good, foreign>>
    BY <1>11 DEF elapse
  <2> QED
    BY <2>20, <2>3, <2>7, <2>8, ItemsAloneBacked
<1>12. CASE UNCHANGED vars
  <2>1. Kept
    BY <1>12 DEF vars, Kept
  <2> QED
    BY <1>12, <2>1, UnchangedBacked DEF vars, BackInv
<1> QED
  BY <1>1, <1>2, <1>3, <1>4, <1>5, <1>6, <1>7, <1>8, <1>9, <1>10, <1>11, <1>12
  DEF Next, loopStep

----------------------------------------------------------------------------
(* The theorems. *)

(* The initial state satisfies the invariants. *)
LEMMA InitInv == Init => TypeInv /\ ResultInv /\ BackInv
<1> SUFFICES ASSUME Init PROVE TypeInv /\ ResultInv /\ BackInv
  OBVIOUS
<1>1. TypeInv
  <2>1. \A p \in Pipelines : \A i \in Stages(p) : ItemsOK(queue[p][i])
    BY DEF Init, ItemsOK
  <2>2. QueueOK
    BY <2>1 DEF Init, QueueOK
  <2>3. StageOK /\ AwaitOK
    BY DEF Init, StageOK, Stage, AwaitOK, at, NoCall
  <2>4. RestOK /\ GoodOK
    BY DEF Init, RestOK, Run, GoodOK
  <2> QED
    BY <2>2, <2>3, <2>4 DEF TypeInv
<1>2. ResultInv
  BY DEF Init, ResultInv, InRequest, NoCall, Settled, Terminal
<1>3. BackInv
  BY DEF Init, BackInv, ItemsBacked, StagesBacked, CallBacked, QueuedBacked, RunsBacked,
         BackedBefore, at, NoCall
<1> QED
  BY <1>1, <1>2, <1>3

(* The three invariants hold together. *)
THEOREM PipelineInvHolds == Spec => [](TypeInv /\ ResultInv /\ BackInv)
<1> DEFINE Inv == TypeInv /\ ResultInv /\ BackInv
<1>1. Init => Inv
  BY InitInv
<1>2. Inv /\ [Next]_vars => Inv'
  BY TypeStep, ResultStep, BackStep
<1> QED
  BY <1>1, <1>2, PTL DEF Spec

(* The queue items, stages, runs and the request stay well formed, and no  *)
(* item counts more attempts than it may have.                             *)
THEOREM PipelineTypeCorrect == Spec => []TypeOK
<1>1. TypeInv => TypeOK
  BY DEF TypeInv, QueueOK, StageOK, RestOK, GoodOK, TypeOK
<1> QED
  BY <1>1, PipelineInvHolds, PTL

(* Whichever drains serve the queue, the task of a stage is not queued     *)
(* before every earlier stage has had a successful run.                    *)
THEOREM OneStageAtATime == Spec => []StagesInOrder
<1>1. BackInv => StagesInOrder
  BY DEF BackInv, QueuedBacked, BackedBefore, Backed, StagesInOrder
<1> QED
  BY <1>1, PipelineInvHolds, PTL

(* A pipeline reported as done has had a successful run of every stage.    *)
THEOREM SuccessIsEarned == Spec => []DoneIsEarned
<1>1. BackInv => DoneIsEarned
  BY DEF BackInv, RunsBacked, Backed, DoneIsEarned
<1> QED
  BY <1>1, PipelineInvHolds, PTL

(* Between requests a run has a result exactly when it is over, the result *)
(* of its status, and its end was announced exactly once.                  *)
THEOREM EndsOnce == Spec => []OneResult
<1>1. ResultInv => OneResult
  BY DEF ResultInv, InRequest, NoCall, Settled, OneResult
<1> QED
  BY <1>1, PipelineInvHolds, PTL

(* A stage's task carries the output of every earlier stage but those      *)
(* whose run brought it to a drain that was not waiting for it.            *)
THEOREM OutputsAreHandedOn == Spec => []ContextHandoff
<1>1. BackInv => ContextHandoff
  <2>1. SUFFICES ASSUME BackInv, NEW p \in Pipelines, NEW i \in Stages(p), queue[p][i] # <<>>,
                        NEW j \in 1..(i - 1)
                 PROVE  <<j, "done">> \in foreign[p] \/ stage[p][j].output
    BY DEF ContextHandoff
  <2>2. Backed(p, j)
    BY <2>1 DEF BackInv, QueuedBacked, BackedBefore
  <2> QED
    BY <2>2 DEF Backed
<1> QED
  BY <1>1, PipelineInvHolds, PTL

----------------------------------------------------------------------------
(* Sessions.                                                               *)

(* A session runs at a time, and only it has a request in progress. *)
BoxOK ==
  /\ box \subseteq Pipelines
  /\ \A p, q \in box : p = q
  /\ call # NoCall => call.p \in box

HostOK == DOMAIN host = Pipelines /\ \A p \in Pipelines : host[p] \in Host(p)

(* No drain of the host's own serves a session's queue. *)
NoForeign == \A p \in Pipelines : foreign[p] = {}

(* What the host has as done was run, and its output is there. *)
HostBacked ==
  \A p \in Pipelines : \A i \in Stages(p) :
    host[p].stage[i].st = "done" => <<p, i>> \in good /\ host[p].stage[i].output

(* What a run of the host's may be: the result can be a failure left by an *)
(* earlier session.                                                        *)
HostRunOK(p, h) ==
  /\ h.run.ends = (IF h.run.st \in Terminal THEN 1 ELSE 0)
  /\ h.run.result = "done" => h.run.st = "done"
  /\ h.run.st = "done" => \A i \in Stages(p) : h.stage[i].st = "done"

HostRuns == \A p \in Pipelines : HostRunOK(p, host[p])

(* The run of the session: its status is that of its stages at the end.    *)
RunOfSession(p) ==
  /\ call # NoCall => run[p].st = "running" /\ run[p].result # "done"
  /\ call = NoCall =>
       /\ run[p].st = statusOf(stage[p])
       /\ run[p].result = "done" => run[p].st = "done"

(* Stages the session found done are done, and have no task. *)
CarriedOver(p) ==
  \A i \in Stages(p) :
    host[p].stage[i].st = "done" => stage[p][i].st = "done" /\ queue[p][i] = <<>>

(* The session's queue was its own from the start: it holds no task of the *)
(* stages to come, one of the stage that is run, and none that could still *)
(* be claimed of the stages before.                                        *)
OneTask(p) ==
  \A j \in Stages(p) :
    /\ j > call.i \/ (j = call.i /\ call.at = "visit") => queue[p][j] = <<>>
    /\ j = call.i /\ call.at = "await" => Len(queue[p][j]) = 1
    /\ j < call.i => claimable(queue[p][j]) = {}

OwnQueue == call # NoCall => OneTask(call.p)

SessionsOK ==
  \A p \in box : host[p].run.st = "running" /\ RunOfSession(p) /\ CarriedOver(p)

SessionInv ==
  /\ TypeInv /\ BackInv
  /\ BoxOK /\ HostOK /\ NoForeign
  /\ HostBacked /\ HostRuns
  /\ SessionsOK /\ OwnQueue

----------------------------------------------------------------------------
(* The steps of a session's loop. *)

(* What a step of the loop may do to a pipeline that has the request: it   *)
(* goes on, or ends with a status that is that of its stages; a stage that *)
(* is done and has no task stays so.                                       *)
LoopShape(p) ==
  /\ call # NoCall /\ call.p = p
  /\ \A q \in Pipelines \ {p} : queue'[q] = queue[q] /\ stage'[q] = stage[q] /\ run'[q] = run[q]
  /\ UNCHANGED foreign /\ good \subseteq good'
  /\ \/ call' # NoCall /\ call'.p = p /\ UNCHANGED run
     \/ /\ call' = NoCall
        /\ run'[p].st = statusOf(stage'[p])
        /\ run'[p].result = "done" => run[p].result = "done" \/ run'[p].st = "done"
  /\ \A i \in Stages(p) :
       stage[p][i].st = "done" /\ queue[p][i] = <<>> =>
         stage'[p][i].st = "done" /\ queue'[p][i] = <<>>

(* The end of a request gives the run the status of its stages, and no     *)
(* success as the result of anything else.                                 *)
LEMMA FinishRun ==
  ASSUME TypeInv, NEW p \in Pipelines, NEW ss \in [Stages(p) -> Stage],
         NEW items \in [Stages(p) -> Seq(Item)], finish(p, ss, items)
  PROVE  /\ call' = NoCall
         /\ run'[p].st = statusOf(stage'[p])
         /\ run'[p].result = "done" => run[p].result = "done" \/ run'[p].st = "done"
         /\ \A q \in Pipelines \ {p} : stage'[q] = stage[q] /\ run'[q] = run[q]
         /\ stage'[p] = synced(ss, items)
<1> DEFINE done == synced(ss, items)
           st == statusOf(done)
           r == syncedRun(run[p], done)
<1>1. /\ DOMAIN stage = Pipelines
      /\ run \in [Pipelines -> Run]
  BY DEF TypeInv, StageOK, RestOK
<1>2. stage' = [stage EXCEPT ![p] = done] /\ call' = NoCall
  BY DEF finish
<1>3. st \in {"running", "done", "failed"}
  BY DEF statusOf
<1>4. r = [run[p] EXCEPT !.st = st,
                         !.result = IF run[p].result = "none" /\ st \in Terminal THEN st ELSE @]
  BY DEF syncedRun
<1>5. run' = [run EXCEPT ![p] =
                 IF r.st \in Terminal /\ r.ends < 2 THEN [r EXCEPT !.ends = @ + 1] ELSE r]
  BY DEF finish
<1> HIDE DEF done, st, r
<1>6. /\ r \in Run /\ r.st = st
      /\ r.result = IF run[p].result = "none" /\ st \in Terminal THEN st ELSE run[p].result
  BY <1>1, <1>3, <1>4 DEF Run, Terminal
<1>7. /\ run'[p].st = st /\ run'[p].result = r.result
      /\ \A q \in Pipelines \ {p} : run'[q] = run[q]
  BY <1>1, <1>5, <1>6 DEF Run
<1>8. stage'[p] = done /\ \A q \in Pipelines \ {p} : stage'[q] = stage[q]
  BY <1>1, <1>2
<1> QED
  BY <1>2, <1>6, <1>7, <1>8 DEF done, st

(* A stage without a task keeps its status at the end of a request. *)
LEMMA SyncedKeeps ==
  ASSUME NEW p \in Pipelines, NEW ss \in [Stages(p) -> Stage],
         NEW items \in [Stages(p) -> Seq(Item)], NEW i \in Stages(p), items[i] = <<>>
  PROVE  synced(ss, items)[i] = ss[i]
BY DEF synced, syncedStage

(* A step that ends the request of its pipeline. *)
LEMMA EndShape ==
  ASSUME TypeInv, NEW p \in Pipelines, call # NoCall, call.p = p,
         NEW ss \in [Stages(p) -> Stage], QueueOK', finish(p, ss, queue'[p]),
         UNCHANGED foreign, good \subseteq good',
         \A q \in Pipelines \ {p} : queue'[q] = queue[q],
         \A i \in Stages(p) :
           stage[p][i].st = "done" /\ queue[p][i] = <<>> =>
             ss[i].st = "done" /\ queue'[p][i] = <<>>
  PROVE  LoopShape(p)
<1>1. queue'[p] \in [Stages(p) -> Seq(Item)]
  BY DEF QueueOK
<1>2. /\ call' = NoCall
      /\ run'[p].st = statusOf(stage'[p])
      /\ run'[p].result = "done" => run[p].result = "done" \/ run'[p].st = "done"
      /\ \A q \in Pipelines \ {p} : stage'[q] = stage[q] /\ run'[q] = run[q]
      /\ stage'[p] = synced(ss, queue'[p])
  BY <1>1, FinishRun
<1>3. ASSUME NEW i \in Stages(p), stage[p][i].st = "done", queue[p][i] = <<>>
      PROVE  stage'[p][i].st = "done" /\ queue'[p][i] = <<>>
  <2>1. ss[i].st = "done" /\ queue'[p][i] = <<>>
    BY <1>3
  <2>2. synced(ss, queue'[p])[i] = ss[i]
    BY <1>1, <2>1, SyncedKeeps
  <2> QED
    BY <1>2, <2>1, <2>2
<1> QED
  BY <1>2, <1>3 DEF LoopShape

(* The end of a request that leaves its stage, which has a task. *)
LEMMA LeaveShape ==
  ASSUME TypeInv, NEW p \in Pipelines, NEW i \in Stages(p), call # NoCall, call.p = p,
         QueueOK', leaveStage(p, i, queue'[p]), UNCHANGED <<good, foreign>>,
         queue[p][i] # <<>>,
         \A q \in Pipelines \ {p} : queue'[q] = queue[q],
         \A j \in Stages(p) \ {i} : queue'[p][j] = queue[p][j]
  PROVE  LoopShape(p)
<1> DEFINE new == synced(stage[p], queue'[p])
           st == IF latest(queue'[p][i]).st \in {"dead", "failed"} THEN "failed" ELSE "pending"
           ss == [new EXCEPT ![i].st = st]
<1>1. queue'[p] \in [Stages(p) -> Seq(Item)] /\ stage[p] \in [Stages(p) -> Stage]
  BY DEF QueueOK, TypeInv, StageOK
<1>2. new \in [Stages(p) -> Stage]
  BY <1>1, SyncedSound
<1>3. st \in {"pending", "failed"} /\ finish(p, ss, queue'[p])
  BY DEF leaveStage
<1>4. ASSUME NEW j \in Stages(p), stage[p][j].st = "done", queue[p][j] = <<>>
      PROVE  j # i /\ new[j].st = "done" /\ queue'[p][j] = <<>>
  BY <1>1, <1>4, SyncedKeeps
<1> HIDE DEF new, st
<1>5. ss \in [Stages(p) -> Stage] /\ \A j \in Stages(p) \ {i} : ss[j] = new[j]
  BY <1>2, <1>3 DEF Stage
<1> HIDE DEF ss
<1>6. \A j \in Stages(p) :
        stage[p][j].st = "done" /\ queue[p][j] = <<>> => ss[j].st = "done" /\ queue'[p][j] = <<>>
  BY <1>4, <1>5
<1> QED
  BY <1>3, <1>5, <1>6, EndShape

(* In a session the drain claims the task it waits for, or nothing. *)
LEMMA OwnTaskOnly ==
  ASSUME TypeInv, OwnQueue, NEW p \in Pipelines, NEW i \in Stages(p), NEW j \in Stages(p),
         NEW ok \in BOOLEAN, runStage(p, i, j, ok)
  PROVE  /\ j = i /\ UNCHANGED foreign
         /\ \A n \in Stages(p) \ {i} : queue'[p][n] = queue[p][n]
         /\ ok => claimable(queue'[p][i]) = {}
<1>1. call = [p |-> p, i |-> i, at |-> "await"] /\ OneTask(p)
  BY DEF runStage, at, OwnQueue, NoCall
<1>2. j \in Int /\ i \in Int
  BY PipelineAssumption DEF Stages
<1>3. claimable(queue[p][j]) # {}
  BY DEF runStage
<1>4. j = i
  <2>1. j > i => queue[p][j] = <<>>
    BY <1>1 DEF OneTask
  <2>2. j < i => claimable(queue[p][j]) = {}
    BY <1>1 DEF OneTask
  <2>3. queue[p][j] = <<>> => claimable(queue[p][j]) = {}
    BY DEF claimable
  <2> QED
    BY <1>2, <1>3, <2>1, <2>2, <2>3
<1>5. PICK new :
        /\ ItemsOK(new) /\ DOMAIN new = DOMAIN queue[p][j]
        /\ ok => new[1].st = "done"
        /\ queue' = [queue EXCEPT ![p][j] = new]
        /\ foreign' = IF j = i THEN foreign
                      ELSE [foreign EXCEPT ![p] = @ \cup recorded(j, new)]
  BY RunStageSound
<1>6. queue'[p][i] = new /\ \A n \in Stages(p) \ {i} : queue'[p][n] = queue[p][n]
  BY <1>4, <1>5 DEF TypeInv, QueueOK
<1>7. ASSUME ok PROVE claimable(new) = {}
  <2>1. Len(queue[p][i]) = 1 /\ queue[p][i] \in Seq(Item)
    BY <1>1 DEF OneTask, TypeInv, QueueOK
  <2>2. DOMAIN new = {1}
    BY <1>4, <1>5, <2>1
  <2> QED
    BY <1>5, <1>7, <2>2 DEF claimable
<1> QED
  BY <1>4, <1>5, <1>6, <1>7

(* The queue of a session stays as it is said to be. *)
LEMMA OwnQueueStays ==
  ASSUME TypeInv, OwnQueue, loopStep
  PROVE  OwnQueue'
<1>0. QueueOK
  BY DEF TypeInv
<1>9. \A p \in Pipelines : \A i \in Stages(p) : i \in Int
  BY PipelineAssumption DEF Stages
<1>1. ASSUME NEW p \in Pipelines, NEW i \in Stages(p), call = [p |-> p, i |-> i, at |-> "visit"],
             call' = [p |-> p, i |-> i + 1, at |-> "visit"], UNCHANGED queue
      PROVE  OwnQueue'
  <2>1. OneTask(p)
    BY <1>1 DEF OwnQueue, NoCall
  <2>2. SUFFICES ASSUME NEW j \in Stages(p)
                 PROVE  /\ j > i => queue[p][j] = <<>>
                        /\ j < i + 1 => claimable(queue[p][j]) = {}
    BY <1>1, <1>9 DEF OwnQueue, OneTask
  <2>3. j \in Int /\ i \in Int
    BY <1>9
  <2>4. j > i \/ j = i => queue[p][j] = <<>>
    BY <1>1, <2>1 DEF OneTask
  <2>5. j < i => claimable(queue[p][j]) = {}
    BY <1>1, <2>1 DEF OneTask
  <2>6. queue[p][j] = <<>> => claimable(queue[p][j]) = {}
    BY DEF claimable
  <2> QED
    BY <2>3, <2>4, <2>5, <2>6
<1>2. ASSUME call' = NoCall PROVE OwnQueue'
  BY <1>2 DEF OwnQueue
<1>3. ASSUME NEW p \in Pipelines, NEW i \in 1..(StageCount[p] + 1), skipStage(p, i)
      PROVE OwnQueue'
  BY <1>1, <1>3 DEF skipStage, at
<1>4. ASSUME NEW p \in Pipelines, NEW i \in 1..(StageCount[p] + 1),
             NEW verdict \in {"pending", "failed"}, enterStage(p, i, verdict)
      PROVE OwnQueue'
  <2>1. i \in Stages(p) /\ call = [p |-> p, i |-> i, at |-> "visit"]
    BY <1>4 DEF enterStage, at
  <2>2. CASE latest(queue'[p][i]).st = "failed"
    BY <1>2, <1>4, <2>2 DEF enterStage, finish
  <2>3. CASE latest(queue'[p][i]).st # "failed"
    <3>1. call' = [p |-> p, i |-> i, at |-> "await"]
      BY <1>4, <2>1, <2>3 DEF enterStage
    <3>2. OneTask(p)
      BY <2>1 DEF OwnQueue, NoCall
    <3>3. queue[p][i] = <<>>
      BY <2>1, <3>2 DEF OneTask
    <3>4. PICK new : new = Append(queue[p][i], [st |-> verdict, attempts |-> 0, wait |-> FALSE])
      OBVIOUS
    <3>5. queue' = [queue EXCEPT ![p][i] = new]
      BY <1>4, <3>3, <3>4 DEF enterStage, toEnqueue
    <3>6. queue'[p][i] = new /\ \A j \in Stages(p) \ {i} : queue'[p][j] = queue[p][j]
      BY <1>0, <2>1, <3>5 DEF QueueOK
    <3>7. Len(new) = 1
      BY <3>3, <3>4
    <3> QED
      BY <1>9, <2>1, <3>1, <3>2, <3>6, <3>7 DEF OwnQueue, OneTask
  <2> QED
    BY <2>2, <2>3
<1>5. ASSUME NEW p \in Pipelines, NEW i \in Stages(p), NEW j \in Stages(p),
             NEW ok \in BOOLEAN, runStage(p, i, j, ok)
      PROVE OwnQueue'
  <2>1. /\ j = i
        /\ \A n \in Stages(p) \ {i} : queue'[p][n] = queue[p][n]
        /\ ok => claimable(queue'[p][i]) = {}
    BY <1>5, OwnTaskOnly
  <2>2. CASE ok
    <3>1. call = [p |-> p, i |-> i, at |-> "await"] /\ OneTask(p)
      BY <1>5 DEF runStage, at, OwnQueue, NoCall
    <3>2. call' = [p |-> p, i |-> i + 1, at |-> "visit"]
      BY <1>5, <2>1, <2>2, <3>1 DEF runStage, completeStage
    <3>3. SUFFICES ASSUME NEW n \in Stages(p)
                   PROVE  /\ n > i => queue'[p][n] = <<>>
                          /\ n < i + 1 => claimable(queue'[p][n]) = {}
      BY <1>9, <3>2 DEF OwnQueue, OneTask
    <3>4. n \in Int /\ i \in Int
      BY <1>9
    <3>5. n > i => queue[p][n] = <<>>
      BY <3>1 DEF OneTask
    <3>6. n < i => claimable(queue[p][n]) = {}
      BY <3>1 DEF OneTask
    <3> QED
      BY <2>1, <2>2, <3>4, <3>5, <3>6
  <2>3. CASE ~ok
    BY <1>2, <1>5, <2>3 DEF runStage, leaveStage, finish
  <2> QED
    BY <2>2, <2>3
<1>6. ASSUME NEW p \in Pipelines, NEW i \in 1..(StageCount[p] + 1), endLoop(p, i)
      PROVE OwnQueue'
  BY <1>2, <1>6 DEF endLoop, finish
<1>7. ASSUME NEW p \in Pipelines, NEW i \in Stages(p), claimNothing(p, i)
      PROVE OwnQueue'
  BY <1>2, <1>7 DEF claimNothing, leaveStage, finish
<1> QED
  BY <1>3, <1>4, <1>5, <1>6, <1>7 DEF loopStep

(* Every step of the loop has this shape. *)
LEMMA LoopSteps ==
  ASSUME TypeInv, OwnQueue, loopStep
  PROVE  \E p \in Pipelines : LoopShape(p)
<1>0. /\ QueueOK /\ QueueOK' /\ StageOK /\ AwaitOK
  BY TypeStep DEF TypeInv, Next
<1>1. ASSUME NEW p \in Pipelines, NEW i \in 1..(StageCount[p] + 1), skipStage(p, i)
      PROVE LoopShape(p)
  <2>1. call = [p |-> p, i |-> i, at |-> "visit"] /\ call' = [p |-> p, i |-> i + 1, at |-> "visit"]
    BY <1>1 DEF skipStage, at
  <2>2. call # NoCall /\ call.p = p /\ call' # NoCall /\ call'.p = p
    BY <2>1 DEF NoCall
  <2> QED
    BY <1>1, <2>2 DEF skipStage, LoopShape
<1>2. ASSUME NEW p \in Pipelines, NEW i \in 1..(StageCount[p] + 1), endLoop(p, i)
      PROVE LoopShape(p)
  <2>1. call # NoCall /\ call.p = p
    BY <1>2 DEF endLoop, at, NoCall
  <2>2. stage[p] \in [Stages(p) -> Stage]
    BY <1>0 DEF StageOK
  <2>3. UNCHANGED <<queue, good, foreign>> /\ finish(p, stage[p], queue'[p])
    BY <1>2 DEF endLoop
  <2> QED
    BY <1>0, <2>1, <2>2, <2>3, EndShape
<1>3. ASSUME NEW p \in Pipelines, NEW i \in 1..(StageCount[p] + 1),
             NEW verdict \in {"pending", "failed"}, enterStage(p, i, verdict)
      PROVE LoopShape(p)
  <2>1. /\ i \in Stages(p) /\ call = [p |-> p, i |-> i, at |-> "visit"]
        /\ stage[p][i].st # "done" /\ UNCHANGED <<good, foreign>>
    BY <1>3 DEF enterStage, at
  <2>2. call # NoCall /\ call.p = p
    BY <2>1 DEF NoCall
  <2>3. /\ \A q \in Pipelines \ {p} : queue'[q] = queue[q]
        /\ \A j \in Stages(p) \ {i} : queue'[p][j] = queue[p][j]
    <3>1. CASE toEnqueue(queue[p][i])
      <4>1. PICK new : new = Append(queue[p][i], [st |-> verdict, attempts |-> 0, wait |-> FALSE])
        OBVIOUS
      <4>2. queue' = [queue EXCEPT ![p][i] = new]
        BY <1>3, <3>1, <4>1 DEF enterStage
      <4> QED
        BY <1>0, <2>1, <4>2 DEF QueueOK
    <3>2. CASE ~toEnqueue(queue[p][i])
      BY <1>3, <3>2 DEF enterStage
    <3> QED
      BY <3>1, <3>2
  <2>4. stage[p] \in [Stages(p) -> Stage] /\ DOMAIN stage = Pipelines
    BY <1>0 DEF StageOK
  <2>5. CASE latest(queue'[p][i]).st = "failed"
    <3> DEFINE ss == [stage[p] EXCEPT ![i].st = "failed"]
    <3>1. finish(p, ss, queue'[p])
      BY <1>3, <2>5 DEF enterStage
    <3>2. ss \in [Stages(p) -> Stage] /\ \A j \in Stages(p) \ {i} : ss[j] = stage[p][j]
      BY <2>1, <2>4 DEF Stage
    <3> HIDE DEF ss
    <3>3. \A j \in Stages(p) :
            stage[p][j].st = "done" /\ queue[p][j] = <<>> => ss[j].st = "done" /\ queue'[p][j] = <<>>
      BY <2>1, <2>3, <3>2
    <3> QED
      BY <1>0, <2>1, <2>2, <2>3, <3>1, <3>2, <3>3, EndShape
  <2>6. CASE latest(queue'[p][i]).st # "failed"
    <3>1. /\ stage' = [stage EXCEPT ![p][i].st = "running"]
          /\ call' = [p |-> p, i |-> i, at |-> "await"]
          /\ UNCHANGED run
      BY <1>3, <2>1, <2>6 DEF enterStage
    <3>2. /\ \A q \in Pipelines \ {p} : stage'[q] = stage[q]
          /\ \A j \in Stages(p) \ {i} : stage'[p][j] = stage[p][j]
      BY <2>1, <2>4, <3>1
    <3>3. call' # NoCall /\ call'.p = p
      BY <3>1 DEF NoCall
    <3> QED
      BY <2>1, <2>2, <2>3, <3>1, <3>2, <3>3 DEF LoopShape
  <2> QED
    BY <2>5, <2>6
<1>4. ASSUME NEW p \in Pipelines, NEW i \in Stages(p), claimNothing(p, i)
      PROVE LoopShape(p)
  <2>1. at(p, i, "await") /\ UNCHANGED <<queue, good, foreign>> /\ leaveStage(p, i, queue'[p])
    BY <1>4 DEF claimNothing
  <2>2. i \in 1..(StageCount[p] + 1)
    BY PipelineAssumption DEF Stages
  <2>3. call # NoCall /\ call.p = p /\ queue[p][i] # <<>>
    BY <1>0, <2>1, <2>2 DEF at, NoCall, AwaitOK
  <2> QED
    BY <1>0, <2>1, <2>3, LeaveShape
<1>5. ASSUME NEW p \in Pipelines, NEW i \in Stages(p), NEW j \in Stages(p),
             NEW ok \in BOOLEAN, runStage(p, i, j, ok)
      PROVE LoopShape(p)
  <2>0. j = i /\ UNCHANGED foreign
    BY <1>5, OwnTaskOnly
  <2>1. at(p, i, "await") /\ UNCHANGED foreign /\ good' = IF ok THEN good \cup {<<p, i>>} ELSE good
    BY <1>5, <2>0 DEF runStage
  <2>2. i \in 1..(StageCount[p] + 1)
    BY PipelineAssumption DEF Stages
  <2>3. call # NoCall /\ call.p = p /\ queue[p][i] # <<>>
    BY <1>0, <2>1, <2>2 DEF at, NoCall, AwaitOK
  <2>4. \E new : queue' = [queue EXCEPT ![p][i] = new]
    BY <1>5, <2>0 DEF runStage
  <2>5. /\ \A q \in Pipelines \ {p} : queue'[q] = queue[q]
        /\ \A n \in Stages(p) \ {i} : queue'[p][n] = queue[p][n]
    BY <1>0, <2>4 DEF QueueOK
  <2>6. CASE ok
    <3>1. /\ stage' = [stage EXCEPT ![p][i] = [st |-> "done", output |-> TRUE]]
          /\ call' = [p |-> p, i |-> i + 1, at |-> "visit"]
          /\ UNCHANGED run
      BY <1>5, <2>0, <2>6 DEF runStage, completeStage, at
    <3>2. /\ \A q \in Pipelines \ {p} : stage'[q] = stage[q]
          /\ \A n \in Stages(p) \ {i} : stage'[p][n] = stage[p][n]
      BY <1>0, <3>1 DEF StageOK
    <3>3. call' # NoCall /\ call'.p = p
      BY <3>1 DEF NoCall
    <3> QED
      BY <2>1, <2>3, <2>5, <3>1, <3>2, <3>3 DEF LoopShape
  <2>7. CASE ~ok
    <3>1. leaveStage(p, i, queue'[p])
      BY <1>5, <2>7 DEF runStage
    <3> QED
      BY <1>0, <2>1, <2>3, <2>5, <2>7, <3>1, LeaveShape
  <2> QED
    BY <2>6, <2>7
<1> QED
  BY <1>1, <1>2, <1>3, <1>4, <1>5 DEF loopStep

----------------------------------------------------------------------------
(* The steps of a session keep the invariant. *)
LEMMA LoopKeeps ==
  ASSUME SessionInv, loopStep, box # {}, UNCHANGED <<host, box>>
  PROVE  SessionInv'
<1>1. TypeInv' /\ BackInv'
  BY TypeStep, BackStep DEF SessionInv, Next
<1>2. PICK p \in Pipelines : LoopShape(p)
  BY LoopSteps DEF SessionInv
<1>3. box = {p}
  BY <1>2 DEF LoopShape, SessionInv, BoxOK
<1>4. BoxOK' /\ HostOK' /\ NoForeign' /\ HostRuns'
  BY <1>2, <1>3 DEF LoopShape, SessionInv, BoxOK, HostOK, NoForeign, HostRuns, NoCall
<1>5. HostBacked'
  BY <1>2 DEF LoopShape, SessionInv, HostBacked
<1>6. RunOfSession(p)'
  BY <1>2, <1>3 DEF LoopShape, SessionInv, SessionsOK, RunOfSession, NoCall
<1>7. CarriedOver(p)'
  BY <1>2, <1>3 DEF LoopShape, SessionInv, SessionsOK, CarriedOver
<1>8. SessionsOK' /\ OwnQueue'
  BY <1>3, <1>6, <1>7, OwnQueueStays DEF SessionInv, SessionsOK
<1> QED
  BY <1>1, <1>4, <1>5, <1>8 DEF SessionInv

(* The submission of a run, which no session knows of yet. *)
LEMMA SubmitKeeps ==
  ASSUME SessionInv, NEW p \in Pipelines, submitForSession(p)
  PROVE  SessionInv'
<1> DEFINE r == [host[p].run EXCEPT !.st = "running"]
           h == [host[p] EXCEPT !.run = r]
<1>1. host' = [host EXCEPT ![p] = h] /\ box = {} /\ host[p].run.st = "absent"
  BY DEF submitForSession
<1>2. host[p] \in Host(p) /\ HostRunOK(p, host[p]) /\ DOMAIN host = Pipelines
  BY DEF SessionInv, HostOK, HostRuns
<1>3. r \in Run /\ r.st = "running" /\ r.ends = 0 /\ r.result # "done"
  BY <1>1, <1>2 DEF HostRunOK, Host, Run, Terminal
<1> HIDE DEF r
<1>4. h \in Host(p) /\ h.run = r /\ h.stage = host[p].stage
  BY <1>2, <1>3 DEF Host
<1>5. HostRunOK(p, h)
  BY <1>3, <1>4 DEF HostRunOK, Terminal
<1> HIDE DEF h
<1>6. host'[p] = h /\ \A q \in Pipelines \ {p} : host'[q] = host[q]
  BY <1>1, <1>2
<1>7. HostOK' /\ HostRuns' /\ HostBacked'
  BY <1>1, <1>4, <1>5, <1>6
  DEF SessionInv, HostOK, HostRuns, HostBacked, submitForSession, vars
<1>8. TypeInv' /\ BackInv'
  BY TypeStep, BackStep DEF SessionInv, submitForSession
<1>9. BoxOK' /\ NoForeign' /\ SessionsOK' /\ OwnQueue'
  BY <1>1 DEF SessionInv, BoxOK, NoForeign, SessionsOK, OwnQueue, OneTask, submitForSession, vars
<1> QED
  BY <1>7, <1>8, <1>9 DEF SessionInv

(* The start of a session: the types of its snapshot. *)
LEMMA SnapshotTypes ==
  ASSUME SessionInv, NEW p \in Pipelines, startSession(p)
  PROVE  /\ TypeInv'
         /\ stage'[p] = host[p].stage /\ queue'[p] = [i \in Stages(p) |-> <<>>]
         /\ run'[p].st = host[p].run.st /\ run'[p].result = host[p].run.result
         /\ \A q \in Pipelines \ {p} :
              stage'[q] = stage[q] /\ queue'[q] = queue[q] /\ run'[q] = run[q]
         /\ call' = [p |-> p, i |-> 1, at |-> "visit"]
<1>1. /\ stage' = [stage EXCEPT ![p] = host[p].stage]
      /\ run' = [run EXCEPT ![p] = [host[p].run EXCEPT !.ends = 0]]
      /\ queue' = [queue EXCEPT ![p] = [i \in Stages(p) |-> <<>>]]
      /\ call' = [p |-> p, i |-> 1, at |-> "visit"]
      /\ UNCHANGED <<kept, good, foreign>>
  BY DEF startSession, snapshotSession
<1>2. /\ DOMAIN queue = Pipelines /\ DOMAIN stage = Pipelines /\ run \in [Pipelines -> Run]
      /\ host[p].stage \in [Stages(p) -> Stage] /\ host[p].run \in Run
  BY DEF SessionInv, TypeInv, QueueOK, StageOK, RestOK, HostOK, Host
<1>3. PICK r : r = [host[p].run EXCEPT !.ends = 0]
  OBVIOUS
<1>4. r \in Run /\ r.st = host[p].run.st /\ r.result = host[p].run.result
  BY <1>2, <1>3 DEF Run
<1>5. /\ run' \in [Pipelines -> Run] /\ run'[p] = r
      /\ \A q \in Pipelines \ {p} : run'[q] = run[q]
  BY <1>1, <1>2, <1>3, <1>4
<1>6. StageOK' /\ stage'[p] = host[p].stage /\ \A q \in Pipelines \ {p} : stage'[q] = stage[q]
  BY <1>1, <1>2 DEF SessionInv, TypeInv, StageOK
<1>7. ItemsOK(<<>>)
  BY DEF ItemsOK
<1>8. /\ QueueOK' /\ queue'[p] = [i \in Stages(p) |-> <<>>]
      /\ \A q \in Pipelines \ {p} : queue'[q] = queue[q]
  <2> DEFINE none == [i \in Stages(p) |-> <<>>]
  <2>1. none \in [Stages(p) -> Seq(Item)] /\ \A i \in Stages(p) : ItemsOK(none[i])
    BY <1>7
  <2>2. queue' = [queue EXCEPT ![p] = none]
    BY <1>1
  <2> HIDE DEF none
  <2>3. queue'[p] = none /\ \A q \in Pipelines \ {p} : queue'[q] = queue[q]
    BY <1>2, <2>2
  <2>4. QueueOK'
    BY <1>2, <2>1, <2>2, <2>3 DEF SessionInv, TypeInv, QueueOK
  <2> QED
    BY <2>3, <2>4 DEF none
<1>9. AwaitOK'
  BY <1>1 DEF AwaitOK, at
<1>10. RestOK'
  <2>1. 1 \in 1..(StageCount[p] + 1)
    BY PipelineAssumption
  <2>2. [p |-> p, i |-> 1, at |-> "visit"] \in Call
    BY <2>1, CallSound
  <2> QED
    BY <1>1, <1>5, <2>2 DEF SessionInv, TypeInv, RestOK
<1>11. GoodOK'
  BY <1>1 DEF SessionInv, TypeInv, GoodOK
<1> QED
  BY <1>1, <1>4, <1>5, <1>6, <1>8, <1>9, <1>10, <1>11 DEF TypeInv

(* What the session starts from is backed. *)
LEMMA SnapshotBacked ==
  ASSUME SessionInv, NEW p \in Pipelines, startSession(p)
  PROVE  BackInv'
<1>1. /\ stage'[p] = host[p].stage /\ queue'[p] = [i \in Stages(p) |-> <<>>]
      /\ run'[p].st = "running"
      /\ \A q \in Pipelines \ {p} :
           stage'[q] = stage[q] /\ queue'[q] = queue[q] /\ run'[q] = run[q]
      /\ call' = [p |-> p, i |-> 1, at |-> "visit"]
      /\ UNCHANGED <<good, foreign>>
  BY SnapshotTypes DEF startSession, snapshotSession
<1>2. \A q \in Pipelines \ {p} : \A i \in Stages(q) : Backed(q, i) => Backed(q, i)'
  BY <1>1 DEF Backed
<1>3. ItemsBacked'
  <2>1. SUFFICES ASSUME NEW q \in Pipelines, NEW i \in Stages(q), NEW k \in DOMAIN queue'[q][i],
                        queue'[q][i][k].st = "done"
                 PROVE  Backed(q, i)'
    BY DEF ItemsBacked
  <2>2. q # p
    BY <1>1
  <2> QED
    BY <1>1, <1>2, <2>1, <2>2 DEF SessionInv, BackInv, ItemsBacked
<1>4. StagesBacked'
  <2>1. SUFFICES ASSUME NEW q \in Pipelines, NEW i \in Stages(q), stage'[q][i].st = "done"
                 PROVE  Backed(q, i)'
    BY DEF StagesBacked
  <2>2. CASE q = p
    BY <1>1, <2>1, <2>2 DEF SessionInv, HostBacked, Backed
  <2>3. CASE q # p
    BY <1>1, <1>2, <2>1, <2>3 DEF SessionInv, BackInv, StagesBacked
  <2> QED
    BY <2>2, <2>3
<1>5. CallBacked'
  BY <1>1 DEF CallBacked, BackedBefore, at
<1>6. QueuedBacked'
  <2>1. SUFFICES ASSUME NEW q \in Pipelines, NEW i \in Stages(q), queue'[q][i] # <<>>,
                        NEW j \in 1..(i - 1)
                 PROVE  Backed(q, j)'
    BY DEF QueuedBacked, BackedBefore
  <2>2. q # p
    BY <1>1, <2>1
  <2>3. j \in Stages(q)
    BY PipelineAssumption DEF Stages
  <2>4. Backed(q, j)
    BY <1>1, <2>1, <2>2 DEF SessionInv, BackInv, QueuedBacked, BackedBefore
  <2> QED
    BY <1>2, <2>2, <2>3, <2>4
<1>7. RunsBacked'
  BY <1>1, <1>2 DEF SessionInv, BackInv, RunsBacked
<1> QED
  BY <1>3, <1>4, <1>5, <1>6, <1>7 DEF BackInv

(* The start of a session. *)
LEMMA StartKeeps ==
  ASSUME SessionInv, NEW p \in Pipelines, startSession(p)
  PROVE  SessionInv'
<1>1. /\ stage'[p] = host[p].stage /\ queue'[p] = [i \in Stages(p) |-> <<>>]
      /\ run'[p].st = host[p].run.st /\ run'[p].result = host[p].run.result
      /\ call' = [p |-> p, i |-> 1, at |-> "visit"]
      /\ TypeInv'
  BY SnapshotTypes
<1>2. box = {} /\ box' = {p} /\ host[p].run.st = "running" /\ UNCHANGED <<good, foreign, host>>
  BY DEF startSession, snapshotSession
<1>3. BoxOK' /\ HostOK' /\ NoForeign' /\ HostRuns' /\ HostBacked'
  BY <1>1, <1>2 DEF SessionInv, BoxOK, HostOK, NoForeign, HostRuns, HostBacked
<1>4. RunOfSession(p)'
  <2>1. run'[p].st = "running" /\ run'[p].result # "done"
    BY <1>1, <1>2 DEF SessionInv, HostRuns, HostRunOK
  <2> QED
    BY <1>1, <2>1 DEF RunOfSession, NoCall
<1>5. CarriedOver(p)'
  BY <1>1, <1>2 DEF CarriedOver
<1>6. SessionsOK'
  BY <1>2, <1>4, <1>5 DEF SessionsOK
<1>7. OwnQueue'
  <2>1. \A j \in Stages(p) : j \in Nat /\ ~(j < 1) /\ queue'[p][j] = <<>>
    BY <1>1, PipelineAssumption DEF Stages
  <2> QED
    BY <1>1, <2>1 DEF OwnQueue, OneTask
<1> QED
  BY <1>1, <1>3, <1>6, <1>7, SnapshotBacked DEF SessionInv

(* The end of a session: the host's last steps, on stages that are backed  *)
(* and a run that has no success as its result unless the stages are done. *)
LEMMA HandBackKeeps ==
  ASSUME SessionInv, NEW p \in Pipelines, box = {p},
         NEW ss \in [Stages(p) -> Stage], NEW r \in Run, handBack(p, ss, r),
         r.ends = 0, r.result = "done" => statusOf(ss) = "done",
         \A i \in Stages(p) : ss[i].st = "done" => <<p, i>> \in good /\ ss[i].output
  PROVE  SessionInv'
<1> DEFINE st == statusOf(ss)
           s == syncedRun(r, ss)
           t == IF s.st \in Terminal /\ s.ends < 2 THEN [s EXCEPT !.ends = @ + 1] ELSE s
           h == [stage |-> ss, run |-> t]
<1>1. st \in {"running", "done", "failed"} /\ (st = "done" => \A i \in Stages(p) : ss[i].st = "done")
  BY DEF statusOf
<1>2. s = [r EXCEPT !.st = st,
                    !.result = IF r.result = "none" /\ st \in Terminal THEN st ELSE @]
  BY DEF syncedRun
<1>3. /\ host' = [host EXCEPT ![p] = h] /\ call' = NoCall /\ box' = {}
      /\ UNCHANGED <<queue, stage, run, kept, good, foreign>>
  BY DEF handBack
<1>4. r.result = "done" => st = "done"
  OBVIOUS
<1> HIDE DEF st, s
<1>5. /\ s \in Run /\ s.st = st /\ s.ends = 0
      /\ s.result = IF r.result = "none" /\ st \in Terminal THEN st ELSE r.result
  BY <1>1, <1>2 DEF Run, Terminal
<1>6. /\ t \in Run /\ t.st = st /\ t.result = s.result
      /\ t.ends = IF st \in Terminal THEN 1 ELSE 0
  BY <1>5 DEF Run
<1> HIDE DEF t
<1>7. h \in Host(p) /\ HostRunOK(p, h)
  BY <1>1, <1>4, <1>5, <1>6 DEF Host, HostRunOK
<1>8. h.stage = ss
  OBVIOUS
<1> HIDE DEF h
<1>9. host'[p] = h /\ DOMAIN host' = Pipelines /\ \A q \in Pipelines \ {p} : host'[q] = host[q]
  BY <1>3 DEF SessionInv, HostOK
<1>10. HostOK' /\ HostRuns' /\ HostBacked'
  BY <1>3, <1>7, <1>8, <1>9 DEF SessionInv, HostOK, HostRuns, HostBacked
<1>11. BoxOK' /\ NoForeign' /\ SessionsOK' /\ OwnQueue'
  BY <1>3 DEF SessionInv, BoxOK, NoForeign, SessionsOK, OwnQueue
<1>12. TypeInv'
  <2>1. AwaitOK'
    BY <1>3 DEF AwaitOK, at, NoCall
  <2> QED
    BY <1>3, <2>1 DEF SessionInv, TypeInv, QueueOK, StageOK, RestOK, GoodOK
<1>13. BackInv'
  <2>1. Kept
    BY <1>3 DEF Kept
  <2>2. CallBacked'
    BY <1>3 DEF CallBacked, at, NoCall
  <2> QED
    BY <1>3, <2>1, <2>2, UnchangedBacked DEF SessionInv, BackInv
<1> QED
  BY <1>10, <1>11, <1>12, <1>13 DEF SessionInv

(* A run that is not done keeps its ends and its result, or gets a failed  *)
(* one.                                                                    *)
LEMMA FailedRunSound ==
  ASSUME NEW r \in Run
  PROVE  /\ failedRun(r) \in Run /\ failedRun(r).ends = r.ends
         /\ failedRun(r).result = "done" => r.result = "done"
BY DEF failedRun, Run

(* A session's result is applied. *)
LEMMA ApplyKeeps ==
  ASSUME SessionInv, NEW p \in Pipelines, NEW exitOk \in BOOLEAN, applySessionResult(p, exitOk)
  PROVE  SessionInv'
<1> DEFINE r == [run[p] EXCEPT !.ends = host[p].run.ends]
           u == IF exitOk /\ r.st = "done" THEN r ELSE failedRun(r)
<1>1. /\ box = {p} /\ call = NoCall
      /\ handBack(p, stage[p], u)
  BY DEF applySessionResult, returned
<1>2. /\ run[p] \in Run /\ stage[p] \in [Stages(p) -> Stage]
      /\ host[p].run.ends = 0
      /\ run[p].result = "done" => statusOf(stage[p]) = "done"
  BY <1>1 DEF SessionInv, TypeInv, RestOK, StageOK, SessionsOK, RunOfSession, HostRuns, HostRunOK,
              Terminal
<1>3. r \in Run /\ r.ends = 0 /\ r.result = run[p].result
  BY <1>2 DEF Run
<1> HIDE DEF r
<1>4. u \in Run /\ u.ends = 0 /\ (u.result = "done" => statusOf(stage[p]) = "done")
  BY <1>2, <1>3, FailedRunSound
<1> HIDE DEF u
<1>5. \A i \in Stages(p) : stage[p][i].st = "done" => <<p, i>> \in good /\ stage[p][i].output
  BY DEF SessionInv, BackInv, StagesBacked, Backed, NoForeign
<1> QED
  BY <1>1, <1>2, <1>4, <1>5, HandBackKeeps

(* A session is lost, with all it had done. *)
LEMMA LoseKeeps ==
  ASSUME SessionInv, NEW p \in Pipelines, loseSession(p)
  PROVE  SessionInv'
<1>1. box = {p} /\ handBack(p, host[p].stage, failedRun(host[p].run))
  BY DEF loseSession
<1>2. /\ host[p].stage \in [Stages(p) -> Stage] /\ host[p].run \in Run
      /\ host[p].run.ends = 0 /\ host[p].run.result # "done"
  BY <1>1 DEF SessionInv, HostOK, Host, SessionsOK, HostRuns, HostRunOK, Terminal
<1>3. PICK r : r = failedRun(host[p].run)
  OBVIOUS
<1>4. r \in Run /\ r.ends = 0 /\ r.result # "done"
  BY <1>2, <1>3, FailedRunSound
<1>5. \A i \in Stages(p) :
        host[p].stage[i].st = "done" => <<p, i>> \in good /\ host[p].stage[i].output
  BY DEF SessionInv, HostBacked
<1> QED
  BY <1>1, <1>2, <1>3, <1>4, <1>5, HandBackKeeps

----------------------------------------------------------------------------
(* The theorems. *)

(* Initially no pipeline has been submitted. *)
LEMMA SessionInitInv == SessionInit => SessionInv
<1> SUFFICES ASSUME SessionInit PROVE SessionInv
  OBVIOUS
<1>1. TypeInv /\ BackInv
  BY InitInv DEF SessionInit
<1>2. BoxOK /\ NoForeign /\ SessionsOK /\ OwnQueue
  BY DEF SessionInit, Init, BoxOK, NoForeign, SessionsOK, OwnQueue
<1>3. \A p \in Pipelines :
        /\ host[p] = [stage |-> stage[p], run |-> run[p]]
        /\ stage[p] = [i \in Stages(p) |-> [st |-> "pending", output |-> FALSE]]
        /\ run[p] = [st |-> "absent", result |-> "none", ends |-> 0]
  BY DEF SessionInit, Init
<1>4. HostOK
  BY <1>1, <1>3 DEF SessionInit, HostOK, Host, TypeInv, StageOK, RestOK
<1>5. \A p \in Pipelines :
        /\ host[p].run.st = "absent" /\ host[p].run.result = "none" /\ host[p].run.ends = 0
        /\ \A i \in Stages(p) : host[p].stage[i].st = "pending"
  <2> SUFFICES ASSUME NEW p \in Pipelines
               PROVE  /\ host[p].run.st = "absent" /\ host[p].run.result = "none"
                      /\ host[p].run.ends = 0
                      /\ \A i \in Stages(p) : host[p].stage[i].st = "pending"
    OBVIOUS
  <2>1. PICK h, sg, rn : h = host[p] /\ sg = stage[p] /\ rn = run[p]
    OBVIOUS
  <2>2. /\ h = [stage |-> sg, run |-> rn]
        /\ sg = [i \in Stages(p) |-> [st |-> "pending", output |-> FALSE]]
        /\ rn = [st |-> "absent", result |-> "none", ends |-> 0]
    BY <1>3, <2>1
  <2>3. h.stage = sg /\ h.run = rn
    BY <2>2
  <2>4. rn.st = "absent" /\ rn.result = "none" /\ rn.ends = 0
    BY <2>2
  <2>5. \A i \in Stages(p) : sg[i].st = "pending"
    BY <2>2
  <2> QED
    BY <2>1, <2>3, <2>4, <2>5
<1>6. HostBacked /\ HostRuns
  BY <1>5 DEF HostBacked, HostRuns, HostRunOK, Terminal
<1> QED
  BY <1>1, <1>2, <1>4, <1>6 DEF SessionInv

(* The invariant of the host, its sessions and the pipelines in them. *)
THEOREM SessionInvHolds == SessionSpec => []SessionInv
<1>1. SessionInv /\ [SessionNext]_sessionVars => SessionInv'
  <2> SUFFICES ASSUME SessionInv, [SessionNext]_sessionVars PROVE SessionInv'
    OBVIOUS
  <2>1. CASE UNCHANGED sessionVars
    <3>1. TypeInv' /\ BackInv'
      BY <2>1, TypeStep, BackStep DEF SessionInv, sessionVars
    <3> QED
      BY <2>1, <3>1 DEF SessionInv, sessionVars, vars, BoxOK, HostOK, NoForeign, HostBacked,
                        HostRuns, SessionsOK, RunOfSession, CarriedOver, OwnQueue, OneTask
  <2> QED
    BY <2>1, LoopKeeps, SubmitKeeps, StartKeeps, ApplyKeeps, LoseKeeps DEF SessionNext, sessionStep
<1> QED
  BY <1>1, SessionInitInv, PTL DEF SessionSpec

(* What the host reports as done was earned by a successful run of every   *)
(* stage, in whichever sessions they ran and however sessions were lost.   *)
THEOREM SessionSuccessIsEarned == SessionSpec => []HostDoneIsEarned
<1>1. SessionInv => HostDoneIsEarned
  BY DEF SessionInv, HostRuns, HostRunOK, HostBacked, HostDoneIsEarned
<1> QED
  BY <1>1, SessionInvHolds, PTL

(* The end of a run is announced once, when the host's status is final,    *)
(* whatever the sessions announced of it themselves.                       *)
THEOREM SessionRunEndsOnce == SessionSpec => []EndedOnce
<1>1. SessionInv => EndedOnce
  BY DEF SessionInv, HostRuns, HostRunOK, EndedOnce
<1> QED
  BY <1>1, SessionInvHolds, PTL

(* A stage whose completion reached the host is not run again by a later   *)
(* session, and the stages after it are run with its output.               *)
THEOREM SessionsCarryOver == SessionSpec => []WorkCarriedOver
<1>1. SessionInv => WorkCarriedOver
  <2> SUFFICES ASSUME SessionInv, NEW p \in Pipelines, NEW i \in Stages(p),
                      p \in box, queue[p][i] # <<>>
               PROVE  /\ host[p].stage[i].st # "done"
                      /\ \A j \in 1..(i - 1) : stage[p][j].output
    BY DEF WorkCarriedOver
  <2>1. host[p].stage[i].st # "done"
    BY DEF SessionInv, SessionsOK, CarriedOver
  <2>2. \A j \in 1..(i - 1) : stage[p][j].output
    BY DEF SessionInv, BackInv, QueuedBacked, BackedBefore, Backed, NoForeign
  <2> QED
    BY <2>1, <2>2
<1> QED
  BY <1>1, SessionInvHolds, PTL
============================================================================
