------------------------------ MODULE Pipeline ------------------------------
(***************************************************************************)
(* The executor's pipelines: a run of stages, each a task on the work      *)
(* queue, drained one stage at a time by the pipeline's own requests while *)
(* other drains may serve the same queue between them.                     *)
(*                                                                         *)
(* Sources: src/src/executor.ts (submitPipeline, drainPipeline,            *)
(* drainPipelineStages, syncPipelineFromQueue).  A claim and the run that  *)
(* follows it are one step; WorkQueue has them in detail.                  *)
(***************************************************************************)
EXTENDS Integers, Sequences, FiniteSets

CONSTANTS
  Pipelines,     \* ids of the pipelines that may be submitted
  StageCount,    \* the number of stages of each pipeline
  MaxAttempts,   \* claims before a failing task is dead-lettered
  MaxKept,       \* MAX_PIPELINE_RUNS, runs kept when a pipeline is looked up
  Exposed        \* pipelines whose tasks other drains and operators touch

ASSUME PipelineAssumption ==
  /\ StageCount \in [Pipelines -> Nat \ {0}]
  /\ MaxAttempts \in Nat \ {0}
  /\ MaxKept \in Nat \ {0}
  /\ Exposed \subseteq Pipelines

Stages(p) == 1..StageCount[p]

VARIABLES
  queue,     \* the queue items of each stage's task id, oldest first
  stage,     \* the stages of each pipeline
  run,       \* status, result and end events of each pipeline
  kept,      \* state.pipelines, oldest first
  call,      \* the pipeline request in progress
  good,      \* the stages that had a successful run
  foreign    \* outcomes of stages' tasks that no request was waiting for

vars == <<queue, stage, run, kept, call, good, foreign>>

----------------------------------------------------------------------------
Item == [st : {"pending", "claimed", "done", "failed", "dead"},
         attempts : 0..MaxAttempts, wait : BOOLEAN]

Stage == [st : {"pending", "running", "done", "failed"}, output : BOOLEAN]

Run == [st : {"absent", "running", "done", "failed"},
        result : {"none", "done", "failed"},
        ends : 0..2]     \* pipeline.end events, counted up to two

Call ==
  UNION {[p : {p}, i : 1..(StageCount[p] + 1), at : {"visit", "await"}] : p \in Pipelines}

NoCall == [at |-> "none"]

TypeOK ==
  /\ DOMAIN queue = Pipelines /\ DOMAIN stage = Pipelines
  /\ \A p \in Pipelines : queue[p] \in [Stages(p) -> Seq(Item)] /\ stage[p] \in [Stages(p) -> Stage]
  /\ run \in [Pipelines -> Run]
  /\ kept \in Seq(Pipelines)
  /\ call \in Call \cup {NoCall}
  /\ \A c \in good : c[1] \in Pipelines /\ c[2] \in Stages(c[1])
  /\ DOMAIN foreign = Pipelines
  /\ \A p \in Pipelines : foreign[p] \subseteq Stages(p) \X {"done", "dead"}

Terminal == {"done", "failed"}

Init ==
  /\ queue = [p \in Pipelines |-> [i \in Stages(p) |-> <<>>]]
  /\ stage = [p \in Pipelines |->
               [i \in Stages(p) |-> [st |-> "pending", output |-> FALSE]]]
  /\ run = [p \in Pipelines |-> [st |-> "absent", result |-> "none", ends |-> 0]]
  /\ kept = <<>>
  /\ call = NoCall
  /\ good = {}
  /\ foreign = [p \in Pipelines |-> {}]

----------------------------------------------------------------------------
(* The queue as the pipeline sees it.  A definition named for a slip       *)
(* (anyDone, keepGoing...) is the form its successor would take with       *)
(* a plausible bug; it is used by no action.                               *)

latest(items) == items[Len(items)]

(* completeQueued(false): a delayed retry, or the dead letters. *)
failedItem(it) ==
  IF it.attempts > 0 /\ it.attempts < MaxAttempts
  THEN [it EXCEPT !.st = "pending", !.wait = TRUE]
  ELSE [it EXCEPT !.st = "dead"]

(* completeQueued finds the oldest item with the task's id. *)
completed(items, ok) ==
  [items EXCEPT ![1] = IF ok THEN [@ EXCEPT !.st = "done"] ELSE failedItem(@)]

claimable(items) == {k \in DOMAIN items : items[k].st = "pending" /\ ~items[k].wait}

(* A claim of the k-th item and the end of its run. *)
served(items, k, ok) ==
  completed([items EXCEPT ![k].st = "claimed", ![k].attempts = @ + 1], ok)

(* The stage's task is pushed when it has no item or its last one died. *)
toEnqueue(items) ==
  \/ items = <<>>
  \/ latest(items).st \in {"dead", "failed"} /\ \A k \in DOMAIN items : items[k].st # "pending"

----------------------------------------------------------------------------
(* syncPipelineFromQueue. *)

syncedStage(s, items) ==
  IF items = <<>> THEN s
  ELSE [s EXCEPT !.st = CASE latest(items).st \in {"claimed", "pending"} -> "running"
                          [] latest(items).st = "done" -> "done"
                          [] OTHER -> "failed"]

synced(ss, items) == [i \in DOMAIN ss |-> syncedStage(ss[i], items[i])]

anyDone(ss) ==
  IF \E i \in DOMAIN ss : ss[i].st = "failed" THEN "failed"
  ELSE IF \E i \in DOMAIN ss : ss[i].st = "done" THEN "done"
  ELSE "running"

statusOf(ss) ==
  IF \E i \in DOMAIN ss : ss[i].st = "failed" THEN "failed"
  ELSE IF \A i \in DOMAIN ss : ss[i].st = "done" THEN "done"
  ELSE "running"

(* The result is written when the run first reaches a terminal status. *)
syncedRun(r, ss) ==
  LET st == statusOf(ss)
  IN  [r EXCEPT !.st = st,
                !.result = IF r.result = "none" /\ st \in Terminal THEN st ELSE @]

(* The end of a request: the last sync, and the terminal events. *)
finish(p, ss, items) ==
  LET done == synced(ss, items)
      r == syncedRun(run[p], done)
  IN  /\ stage' = [stage EXCEPT ![p] = done]
      /\ run' = [run EXCEPT ![p] =
                   IF r.st \in Terminal /\ r.ends < 2 THEN [r EXCEPT !.ends = @ + 1] ELSE r]
      /\ call' = NoCall

----------------------------------------------------------------------------
(* Requests. *)

(* Looking a pipeline up drops the oldest runs above the limit. *)
trimmed(s) ==
  IF Len(s) > MaxKept THEN SubSeq(s, Len(s) - MaxKept + 1, Len(s)) ELSE s

isKept(p, s) == \E k \in DOMAIN s : s[k] = p

submitPipeline(p, drain) ==
  /\ call = NoCall
  /\ run[p].st = "absent"
  /\ run' = [run EXCEPT ![p].st = "running"]
  /\ kept' = Append(trimmed(kept), p)
  /\ call' = IF drain THEN [p |-> p, i |-> 1, at |-> "visit"] ELSE NoCall
  /\ UNCHANGED <<queue, stage, good, foreign>>

drainAgain(p) ==
  /\ call = NoCall
  /\ run[p].st # "absent" /\ isKept(p, trimmed(kept))
  /\ kept' = trimmed(kept)
  /\ call' = [p |-> p, i |-> 1, at |-> "visit"]
  /\ UNCHANGED <<queue, stage, run, good, foreign>>

drainOnlyFresh(p) ==
  /\ call = NoCall
  /\ run[p].st = "running" /\ isKept(p, trimmed(kept))
  /\ stage[p][1].st = "pending"
  /\ kept' = trimmed(kept)
  /\ call' = [p |-> p, i |-> 1, at |-> "visit"]
  /\ UNCHANGED <<queue, stage, run, good, foreign>>

(* A run that is over, or was dropped, is not drained. *)
drainPipeline(p) ==
  /\ call = NoCall
  /\ run[p].st = "running" /\ isKept(p, trimmed(kept))
  /\ kept' = trimmed(kept)
  /\ call' = [p |-> p, i |-> 1, at |-> "visit"]
  /\ UNCHANGED <<queue, stage, run, good, foreign>>

----------------------------------------------------------------------------
(* drainPipelineStages: the loop over the stages. *)

at(p, i, where) == call = [p |-> p, i |-> i, at |-> where]

(* A stage that is done is skipped; a failed one, or the end, ends the loop. *)
skipStage(p, i) ==
  /\ at(p, i, "visit")
  /\ i \in Stages(p) /\ stage[p][i].st = "done"
  /\ call' = [call EXCEPT !.i = i + 1]
  /\ UNCHANGED <<queue, stage, run, kept, good, foreign>>

endLoop(p, i) ==
  /\ at(p, i, "visit")
  /\ i \in Stages(p) => stage[p][i].st = "failed"
  /\ finish(p, stage[p], queue[p])
  /\ UNCHANGED <<queue, kept, good, foreign>>

(* The task is put on the queue unless it is there; admission may deny it. *)
enterStage(p, i, verdict) ==
  /\ at(p, i, "visit")
  /\ i \in Stages(p) /\ stage[p][i].st \in {"pending", "running"}
  /\ queue' = IF toEnqueue(queue[p][i])
              THEN [queue EXCEPT ![p][i] =
                      Append(@, [st |-> verdict, attempts |-> 0, wait |-> FALSE])]
              ELSE queue
  /\ IF latest(queue'[p][i]).st = "failed"
     THEN finish(p, [stage[p] EXCEPT ![i].st = "failed"], queue'[p])
     ELSE /\ stage' = [stage EXCEPT ![p][i].st = "running"]
          /\ call' = [call EXCEPT !.at = "await"]
          /\ UNCHANGED run
  /\ UNCHANGED <<kept, good, foreign>>

keepGoing(p, i, items) ==
  /\ stage' = [stage EXCEPT ![p] = [synced(stage[p], items) EXCEPT ![i].st = "pending"]]
  /\ call' = [call EXCEPT !.i = i + 1, !.at = "visit"]
  /\ UNCHANGED run

(* The drain brought no result of this stage: its task failed for good, or *)
(* it is left for a later request.                                         *)
leaveStage(p, i, items) ==
  LET ss == synced(stage[p], items)
  IN  finish(p, [ss EXCEPT ![i].st =
                   IF latest(items[i]).st \in {"dead", "failed"} THEN "failed" ELSE "pending"],
             items)

forgottenOutput(p, i) ==
  /\ stage' = [stage EXCEPT ![p][i].st = "done"]
  /\ call' = [call EXCEPT !.i = i + 1, !.at = "visit"]
  /\ UNCHANGED run

(* The run's output becomes the stage's, and the next stage is visited. *)
completeStage(p, i) ==
  /\ stage' = [stage EXCEPT ![p][i] = [st |-> "done", output |-> TRUE]]
  /\ call' = [call EXCEPT !.i = i + 1, !.at = "visit"]
  /\ UNCHANGED run

(* An outcome that no request was waiting for. *)
recorded(i, items) == {i} \X ({items[1].st} \cap {"done", "dead"})

(* drainQueue claims one task with the pipeline's prefix, and nobody says  *)
(* it is this stage's: the results are searched for the stage's task, and  *)
(* what another task of the pipeline brought is dropped.                   *)
runStage(p, i, j, ok) ==
  /\ at(p, i, "await")
  /\ \E k \in claimable(queue[p][j]) :
       LET items == served(queue[p][j], k, ok)
       IN  /\ queue' = [queue EXCEPT ![p][j] = items]
           /\ foreign' = IF j = i THEN foreign
                         ELSE [foreign EXCEPT ![p] = @ \cup recorded(j, items)]
  /\ IF ok /\ j = i THEN completeStage(p, i) ELSE leaveStage(p, i, queue'[p])
  /\ good' = IF ok THEN good \cup {<<p, j>>} ELSE good
  /\ UNCHANGED kept

(* Nothing could be claimed: no worker, a retry not yet due, or no task. *)
claimNothing(p, i) ==
  /\ at(p, i, "await")
  /\ leaveStage(p, i, queue[p])
  /\ UNCHANGED <<queue, kept, good, foreign>>

loopStep ==
  \E p \in Pipelines : \E i \in 1..(StageCount[p] + 1) :
    \/ skipStage(p, i) \/ endLoop(p, i)
    \/ \E verdict \in {"pending", "failed"} : enterStage(p, i, verdict)
    \/ /\ i \in Stages(p)
       /\ claimNothing(p, i) \/ \E j \in Stages(p), ok \in BOOLEAN : runStage(p, i, j, ok)

----------------------------------------------------------------------------
(* The rest of the control plane. *)

(* `ropex drain` and the tick claim the tasks of pipelines as any other. *)
otherDrain(p, i, ok) ==
  /\ p \in Exposed
  /\ call = NoCall
  /\ \E k \in claimable(queue[p][i]) :
       LET items == served(queue[p][i], k, ok)
       IN  /\ queue' = [queue EXCEPT ![p][i] = items]
           /\ foreign' = [foreign EXCEPT ![p] = @ \cup recorded(i, items)]
  /\ good' = IF ok THEN good \cup {<<p, i>>} ELSE good
  /\ UNCHANGED <<stage, run, kept, call>>

(* A claim left behind loses its lease; its id is completed as a failure. *)
reclaim(p, i) ==
  /\ call.at \in {"none", "await"}
  /\ \E k \in DOMAIN queue[p][i] : queue[p][i][k].st = "claimed"
  /\ queue' = [queue EXCEPT ![p][i] = completed(@, FALSE)]
  /\ queue' # queue
  /\ UNCHANGED <<stage, run, kept, call, good, foreign>>

(* `ropex retry`: the oldest dead item starts again. *)
requeueDead(p, i) ==
  /\ p \in Exposed
  /\ call = NoCall
  /\ \E k \in DOMAIN queue[p][i] :
       /\ queue[p][i][k].st = "dead"
       /\ \A j \in 1..(k - 1) : queue[p][i][j].st # "dead"
       /\ queue' = [queue EXCEPT ![p][i][k] =
                      [st |-> "pending", attempts |-> 0, wait |-> FALSE]]
  /\ UNCHANGED <<stage, run, kept, call, good, foreign>>

(* A retry becomes due. *)
elapse(p, i) ==
  /\ \E k \in DOMAIN queue[p][i] :
       /\ queue[p][i][k].st = "pending" /\ queue[p][i][k].wait
       /\ queue' = [queue EXCEPT ![p][i][k].wait = FALSE]
  /\ UNCHANGED <<stage, run, kept, call, good, foreign>>

Next ==
  \/ \E p \in Pipelines :
       (\E drain \in BOOLEAN : submitPipeline(p, drain)) \/ drainPipeline(p)
  \/ loopStep
  \/ \E p \in Pipelines : \E i \in Stages(p) :
       \/ \E ok \in BOOLEAN : otherDrain(p, i, ok)
       \/ reclaim(p, i) \/ requeueDead(p, i) \/ elapse(p, i)

(* A request returns, the client drains a pipeline that is not over again  *)
(* and again, a due retry finds a worker in the end, and time passes.      *)
Fairness ==
  /\ WF_vars(loopStep)
  /\ \A p \in Pipelines : SF_vars(drainPipeline(p))
  /\ \A p \in Pipelines : \A i \in Stages(p) :
       /\ SF_vars(\E ok \in BOOLEAN : runStage(p, i, i, ok))
       /\ WF_vars(elapse(p, i))

Spec == Init /\ [][Next]_vars /\ Fairness

----------------------------------------------------------------------------
(* Stages run one at a time, in order: the task of a stage is not even     *)
(* queued before every earlier stage has had a successful run, whichever   *)
(* drains served them.                                                     *)
StagesInOrder ==
  \A p \in Pipelines : \A i \in Stages(p) :
    queue[p][i] # <<>> => \A j \in 1..(i - 1) : <<p, j>> \in good

(* A pipeline reported as done has had a successful run of every stage,    *)
(* although statuses are read back from the last queue item of an id while *)
(* completions go to the first.                                            *)
DoneIsEarned ==
  \A p \in Pipelines : run[p].st = "done" => \A i \in Stages(p) : <<p, i>> \in good

(* One terminal point: between requests a pipeline has a result, the       *)
(* result of its status, exactly when it is over, and its end was          *)
(* announced exactly once, never after a partial drain.                    *)
OneResult ==
  \A p \in Pipelines :
    call = NoCall =>
      /\ run[p].result = (IF run[p].st \in Terminal THEN run[p].st ELSE "none")
      /\ run[p].ends = (IF run[p].st \in Terminal THEN 1 ELSE 0)

(* Context handoff: the task of a stage carries the output of every        *)
(* earlier stage but those whose run brought it to a drain that was not    *)
(* waiting for it: a drain of another caller, or the pipeline's own while  *)
(* it waited for another stage.                                            *)
ContextHandoff ==
  \A p \in Pipelines : \A i \in Stages(p) :
    queue[p][i] # <<>> =>
      \A j \in 1..(i - 1) : <<j, "done">> \in foreign[p] \/ stage[p][j].output

(* A pipeline that is drained again ends, or is dropped as one too many,   *)
(* unless a drain that was not waiting for a task of its buried it.        *)
PipelinesSettle ==
  \A p \in Pipelines :
    run[p].st = "running" ~>
      \/ run[p].st \in Terminal \/ ~isKept(p, trimmed(kept))
      \/ \E i \in Stages(p) : <<i, "dead">> \in foreign[p]
=============================================================================
