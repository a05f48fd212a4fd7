-------------------------- MODULE PipelineSession --------------------------
(***************************************************************************)
(* Pipelines under ROPEX_EXECUTOR=container: every drain sends a snapshot  *)
(* of the run to a session of its own, with a queue of its own, and the    *)
(* host takes over what comes back, if anything does.                      *)
(*                                                                         *)
(* Inside the session it is the loop of module Pipeline that runs; queue,  *)
(* stage, run and call are the session's.  Sources: drainPipelineInSession *)
(* and applySessionResult in src/src/executor.ts, session.ts, and          *)
(* session-run.ts.                                                         *)
(***************************************************************************)
EXTENDS Pipeline

VARIABLES
  host,      \* the stages and the run of each pipeline in the host's state
  box        \* the pipelines whose session is running: one at most

sessionVars == <<vars, host, box>>

Host(p) == [stage : [Stages(p) -> Stage], run : Run]

SessionTypeOK ==
  /\ TypeOK
  /\ DOMAIN host = Pipelines /\ \A p \in Pipelines : host[p] \in Host(p)
  /\ box \subseteq Pipelines

SessionInit ==
  /\ Init
  /\ host = [p \in Pipelines |-> [stage |-> stage[p], run |-> run[p]]]
  /\ box = {}

----------------------------------------------------------------------------
submitForSession(p) ==
  /\ box = {}
  /\ host[p].run.st = "absent"
  /\ host' = [host EXCEPT ![p].run.st = "running"]
  /\ UNCHANGED <<vars, box>>

(* The session starts from the run as it is, with nothing on its queue. *)
snapshotSession(p, ss) ==
  /\ stage' = [stage EXCEPT ![p] = ss]
  /\ run' = [run EXCEPT ![p] = [host[p].run EXCEPT !.ends = 0]]
  /\ queue' = [queue EXCEPT ![p] = [i \in Stages(p) |-> <<>>]]
  /\ call' = [p |-> p, i |-> 1, at |-> "visit"]
  /\ box' = {p}
  /\ UNCHANGED <<kept, good, foreign, host>>

startAfresh(p) ==
  /\ box = {}
  /\ host[p].run.st = "running"
  /\ snapshotSession(p, [i \in Stages(p) |-> [st |-> "pending", output |-> FALSE]])

startAgain(p) ==
  /\ box = {}
  /\ host[p].run.st # "absent"
  /\ snapshotSession(p, host[p].stage)

startSession(p) ==
  /\ box = {}
  /\ host[p].run.st = "running"
  /\ snapshotSession(p, host[p].stage)

(* The host's last steps: a sync, which finds no item of the pipeline on   *)
(* the host's queue, and the terminal events.                              *)
handBack(p, ss, r) ==
  LET s == syncedRun(r, ss)
  IN  /\ host' = [host EXCEPT ![p] =
                    [stage |-> ss,
                     run |-> IF s.st \in Terminal /\ s.ends < 2 THEN [s EXCEPT !.ends = @ + 1]
                             ELSE s]]
      /\ call' = NoCall
      /\ box' = {}
      /\ UNCHANGED <<queue, stage, run, kept, good, foreign>>

(* A run that is not done gets a failed result unless it has one. *)
failedRun(r) == [r EXCEPT !.st = "failed", !.result = IF @ = "none" THEN "failed" ELSE @]

keepOnlyStatus(ss) == [i \in DOMAIN ss |-> [ss[i] EXCEPT !.output = FALSE]]

returned(ss) == ss

(* The result file is copied out; the container may still exit with an     *)
(* error.                                                                  *)
applySessionResult(p, exitOk) ==
  /\ box = {p} /\ call = NoCall
  /\ LET r == [run[p] EXCEPT !.ends = host[p].run.ends]
     IN  handBack(p, returned(stage[p]), IF exitOk /\ r.st = "done" THEN r ELSE failedRun(r))

(* No image, no container or no result file: the host's stages stay as     *)
(* they were, whatever the session had done.                               *)
loseSession(p) ==
  /\ box = {p}
  /\ handBack(p, host[p].stage, failedRun(host[p].run))

sessionStep ==
  \/ loopStep /\ box # {} /\ UNCHANGED <<host, box>>
  \/ \E p \in Pipelines :
       (\E exitOk \in BOOLEAN : applySessionResult(p, exitOk)) \/ loseSession(p)

SessionNext ==
  \/ \E p \in Pipelines : submitForSession(p) \/ startSession(p)
  \/ sessionStep

SessionSpec == SessionInit /\ [][SessionNext]_sessionVars

----------------------------------------------------------------------------
(* What the host reports as done was earned by a successful run of every   *)
(* stage, in whichever sessions these ran and however sessions were lost.  *)
HostDoneIsEarned ==
  \A p \in Pipelines :
    /\ host[p].run.st = "done" => \A i \in Stages(p) : <<p, i>> \in good
    /\ host[p].run.result = "done" => host[p].run.st = "done"

(* The end of a run is announced when the host's status is final, and only *)
(* once, although every session is told to finish the same run.            *)
EndedOnce ==
  \A p \in Pipelines : host[p].run.ends = (IF host[p].run.st \in Terminal THEN 1 ELSE 0)

(* A stage whose completion reached the host is not run again by a later   *)
(* session, and the stages after it are run with its output.               *)
WorkCarriedOver ==
  \A p \in Pipelines : \A i \in Stages(p) :
    p \in box /\ queue[p][i] # <<>> =>
      /\ host[p].stage[i].st # "done"
      /\ \A j \in 1..(i - 1) : stage[p][j].output
=============================================================================
