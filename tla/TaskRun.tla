------------------------------ MODULE TaskRun -------------------------------
(***************************************************************************)
(* A task on a worker: the sandbox is acquired, brain and executor boot,   *)
(* the plan is admitted and the calls that need it are held for approval,  *)
(* the executor's process runs, is terminated, killed and at last given up *)
(* when it does not end, and the sandbox is released whatever happened.    *)
(*                                                                         *)
(* Sources: runtime.ts, approval.ts, worker-runtime.ts, dsh.ts, hermes.ts, *)
(* proc.ts and the approval commands of cli.ts and api.ts in src/src, over *)
(* module Sandbox.  A drain loads the state, runs tasks and saves when all *)
(* are over; commands that overlap it are the subject of StateFile, what a *)
(* run remembers and learns that of SharedMemory.                          *)
(***************************************************************************)
EXTENDS Sandbox

CONSTANTS
  Tasks,         \* tasks that enter the queue
  KindOf,        \* what the plan of a task is made from
  AgentOf,
  Setups,        \* sandbox and runtime block of each agent, with the policies,
                 \* merged, and the environment of the control plane
  MaxTries,      \* runs of a task
  MaxFollow,     \* bound: approvals that follow one another
  MaxEvents     \* bound

ASSUME TaskRunAssumption ==
  /\ \A s \in Setups : s.policy \in Policy /\ s.spec \in [Agents -> SandboxSpec]
  /\ AgentOf \in [Tasks -> Agents] /\ {MaxTries, MaxFollow, MaxEvents} \subseteq Nat

VARIABLES
  status,     \* of each task in the queue
  approvals,  \* requests for approval, in the state of the drain
  saved,      \* the same in the state file
  tries,      \* runs of each task
  events,     \* crashes and commands beside the drain so far
  executed    \* history: the tools each task has used

taskVars == <<status, approvals, saved, tries, events, executed>>
vars == <<sandboxVars, taskVars>>

(* The n-th follow-up of a task is named after it, `-after-approve`.       *)
TaskIds == Tasks \X (0..MaxFollow)
afterApprove(t) == <<t[1], t[2] + 1>>

Approval == [task : TaskIds, agent : Agents, tool : KnownTools,
             status : {"pending", "approved", "rejected"}]

Phases == awaited \cup {"free"}

TypeOK ==
  /\ status \in [TaskIds -> {"absent", "pending", "running", "done", "failed"}]
  /\ approvals \subseteq Approval /\ saved \subseteq Approval
  /\ tries \in [TaskIds -> 0..MaxTries] /\ events \in 0..MaxEvents
  /\ executed \subseteq TaskIds \X KnownTools
  /\ pc \in [Runs -> Phases] /\ containers \subseteq Runs /\ scratch \subseteq Slots

host == setup.host
policy == setup.policy
runtime(r) == setup.runtime[AgentOf[work[r].task[1]]]

----------------------------------------------------------------------------
(* Approvals.                                                              *)

(* An approval of the agent counts as one of the task.                     *)
approvedForAgent(tool, t, a) ==
  \E rec \in approvals : rec.status = "approved" /\ rec.tool = tool /\ rec.agent = a

isToolApproved(tool, t, a) ==
  \E rec \in approvals : rec.status = "approved" /\ rec.tool = tool /\ rec.task = t

requestApprovals(t, a, tools) ==
  approvals' = approvals \cup {[task |-> t, agent |-> a, tool |-> tool, status |-> "pending"] :
                                 tool \in tools}

quiet == \A r \in Runs : pc[r] = "free"

decideApproval(rec, decision) ==
  /\ quiet /\ rec.status = "pending"
  /\ approvals' = (approvals \ {rec}) \cup {[rec EXCEPT !.status = decision]}
  /\ saved' = approvals'

(* `ropex approve` also enqueues the task under a new id.                  *)
CliApprove(rec) ==
  /\ decideApproval(rec, "approved") /\ rec.task[2] < MaxFollow
  /\ status' = [status EXCEPT ![afterApprove(rec.task)] = "pending"]
  /\ UNCHANGED <<tries, events, executed, sandboxVars>>

(* `ropex reject`, and either decision through the API.                    *)
Decide(rec, decision) ==
  /\ decideApproval(rec, decision)
  /\ UNCHANGED <<status, tries, events, executed, sandboxVars>>

----------------------------------------------------------------------------
(* The start of a run.                                                     *)

ends(r, t, ok, tried) ==
  status' = [status EXCEPT ![t] = IF ok THEN "done" ELSE IF tried < MaxTries THEN "pending"
                                                        ELSE "failed"]

(* All runs of a drain are over: the command saves its state.              *)
savesWhenOver(r) ==
  saved' = IF \A q \in Runs \ {r} : pc[q] = "free" THEN approvals' ELSE saved

acquireSandbox(a) ==
  /\ admitSandbox(policy, setup.spec[a])
  /\ setup.spec[a].provider = "local" \/ ~InSession

startable(t) == status[t] = "pending" /\ tries[t] < MaxTries

fresh(t, a, slot) ==
  [task |-> t, agent |-> a, slot |-> slot, ok |-> FALSE, hit |-> FALSE, build |-> Operator]

(* The agent is gone, or reconciled since: the run ends at once, like one  *)
(* without credentials or without leave to use its sandbox.                *)
RefusedTask(t, desired) ==
  LET a == AgentOf[t[1]]
  IN  /\ startable(t)
      /\ ~(desired /\ prepareRuntimeAuth(setup.runtime[a], host) /\ acquireSandbox(a))
      /\ tries' = [tries EXCEPT ![t] = @ + 1] /\ ends(Operator, t, FALSE, tries[t] + 1)
      /\ UNCHANGED <<approvals, saved, events, executed, sandboxVars>>

RunTask(r, t, slot) ==
  LET a == AgentOf[t[1]]
  IN  /\ pc[r] = "free" /\ r = (CHOOSE q \in Runs : pc[q] = "free") /\ startable(t)
      /\ prepareRuntimeAuth(setup.runtime[a], host) /\ acquireSandbox(a)
      /\ tries' = [tries EXCEPT ![t] = @ + 1] /\ status' = [status EXCEPT ![t] = "running"]
      /\ IF setup.spec[a].provider = "local"
           THEN /\ work' = [work EXCEPT ![r] = fresh(t, a, slot)]
                /\ goes(r, "boot") /\ UNCHANGED inflight
           ELSE ensureEnvImage(r, a, fresh(t, a, slot)) /\ goes(r, "image")
      /\ UNCHANGED <<setup, doomed, overdue, dockerVars, approvals, saved, events, executed>>

----------------------------------------------------------------------------
(* Brain, plan, admission and execution.                                   *)

boots(r) == bootHermes(host) /\ bootWorker(runtime(r), spec(r), policy, host)

(* A coding agent is looked for inside the container, which `gc` may have  *)
(* removed.                                                                *)
reachesBin(r) == runtime(r).kind # "dsh" /\ isDocker(r) => r \in containers

executeTask(r) ==
  /\ pc[r] = "boot" /\ boots(r) /\ reachesBin(r)
  /\ \E calls \in plans(KindOf[work[r].task[1]], host) :
       LET w == work[r]
           approved == {tool \in KnownTools : isToolApproved(tool, w.task, w.agent)}
           admission == admitCalls(policy, calls, approved)
           tools == executedTools(runtime(r), spec(r), policy, host, admission["allow"])
       IN  /\ requestApprovals(w.task, w.agent, admission["approval"])
           /\ executed' = executed \cup ({w.task} \X tools)
  /\ goes(r, "execute")
  /\ UNCHANGED <<sandboxButPc, status, saved, tries, events>>

BootFails(r) ==
  /\ pc[r] = "boot" /\ goes(r, "release")
  /\ UNCHANGED <<sandboxButPc, taskVars>>

settles(r, ok) == goes(r, "release") /\ work' = [work EXCEPT ![r].ok = ok]

keepsTheRest == UNCHANGED <<setup, inflight, doomed, overdue, dockerVars, taskVars>>

(* The process ends: its exit code and report decide.  A run that succeeds *)
(* delivers, learns and remembers; the export of what it remembers may     *)
(* fail it still.  Writing to a container that is gone fails.              *)
ProcessCloses(r, ok) ==
  /\ pc[r] \in {"execute", "term", "kill"}
  /\ ok => pc[r] = "execute" /\ reachesBin(r)
  /\ settles(r, ok) /\ keepsTheRest

(* A request to the model has no timer.                                    *)
ProcessTimesOut(r) ==
  /\ pc[r] = "execute" /\ ~asksModel(runtime(r), host) /\ goes(r, "term") /\ UNCHANGED work /\ keepsTheRest

KillProcess(r) ==
  /\ pc[r] = "term" /\ goes(r, "kill") /\ UNCHANGED work /\ keepsTheRest

(* Wait for a killed process to close its pipes, however long it takes.    *)
waitForClose(r) == pc[r] = "kill" /\ UNCHANGED vars

forceExit(r) ==
  /\ pc[r] = "kill" /\ settles(r, FALSE) /\ keepsTheRest

----------------------------------------------------------------------------
(* The end of a run.                                                       *)

(* Only a sandbox whose acquisition succeeded is disposed of.              *)
RunSettles(r) ==
  /\ pc[r] \in {"dispose", "end"}
  /\ IF pc[r] = "dispose" THEN dispose(r) ELSE UNCHANGED <<containers, leaked, lost, scratch, stale>>
  /\ goes(r, "free") /\ work' = [work EXCEPT ![r] = idle]
  /\ ends(r, work[r].task, work[r].ok, tries[work[r].task])
  /\ UNCHANGED approvals /\ savesWhenOver(r)
  /\ UNCHANGED <<setup, inflight, doomed, overdue, envImages, catalog, images, tars, tries,
                 events, executed>>

Event == events < MaxEvents /\ events' = events + 1

(* The process of the drain dies; what it had not saved is gone.           *)
Crash ==
  /\ ~quiet /\ Event /\ crashes /\ approvals' = saved
  /\ status' = [t \in TaskIds |-> IF status[t] # "running" THEN status[t]
                                  ELSE IF tries[t] < MaxTries THEN "pending" ELSE "failed"]
  /\ UNCHANGED <<saved, tries, executed>>

SandboxStep(r) ==
  /\ \/ \E ok \in BOOLEAN : ImageReady(r, ok)
     \/ restoreSnapshot(r) \/ createContainer(r) \/ Checkout(r) \/ CommitWarm(r) \/ AcquireFails(r)
     \/ ReleaseSandbox(r) \/ CommitTask(r) \/ Evict(r)
  /\ UNCHANGED taskVars

(* What goes on by itself, or by a timer.                                  *)
Advance(r) ==
  \/ SandboxStep(r) \/ executeTask(r) \/ BootFails(r)
  \/ ProcessTimesOut(r) \/ KillProcess(r) \/ forceExit(r)
  \/ RunSettles(r)

keepsTasks == UNCHANGED <<status, approvals, saved, tries, executed>>

BesideTheDrain ==
  \/ (GcOrphanSandboxes \/ PruneSandboxSnapshots(0)) /\ Event /\ keepsTasks
  \/ Evict(Operator) /\ UNCHANGED taskVars

Init ==
  /\ Init_Sandbox
  /\ setup \in {s \in Setups : \A a \in Agents : validateSandboxSpec(s.spec[a])}
  /\ status = [t \in TaskIds |-> IF t[2] = 0 THEN "pending" ELSE "absent"]
  /\ approvals = {} /\ saved = {} /\ tries = [t \in TaskIds |-> 0]
  /\ events = 0 /\ executed = {}

Next ==
  \/ \E t \in TaskIds, desired \in BOOLEAN : RefusedTask(t, desired)
  \/ \E r \in Runs, t \in TaskIds, slot \in Slots : RunTask(r, t, slot)
  \/ \E r \in Runs : Advance(r)
  \/ \E r \in Runs, ok \in BOOLEAN : ProcessCloses(r, ok)
  \/ \E rec \in approvals : CliApprove(rec)
  \/ \E rec \in approvals, decision \in {"approved", "rejected"} : Decide(rec, decision)
  \/ BesideTheDrain
  \/ Crash

(* Every docker command and every process has a timeout, so that each      *)
(* await ends; nothing makes a process close in time.  A live brain plans  *)
(* in a process the drain waits for without turning to anything else, and  *)
(* gives up only if it obeys a SIGTERM: nothing is certain to go on then.  *)
plansAside == host.hermes # "live"

Fairness == \A r \in Runs : WF_vars(plansAside /\ Advance(r))

Spec == Init /\ [][Next]_vars /\ Fairness

----------------------------------------------------------------------------
(* The embedded harness, and a coding agent under its flags, use no tool   *)
(* that a policy denies, and a tool that requires approval only when it    *)
(* was approved for this very task, in this drain or in one that a crash   *)
(* did not undo.  Live backends enforce nothing of the kind.               *)
GatedCallsApproved ==
  \A use \in executed : enforced(setup.runtime[AgentOf[use[1][1]]], host) =>
    /\ use[2] \notin policy.deny
    /\ use[2] \in policy.requireApproval =>
         \E rec \in saved : rec.status = "approved" /\ rec.tool = use[2] /\ rec.task = use[1]

(* A run that was started is over some time, whatever docker and the       *)
(* process of its executor do, unless it waits for the model or the drain  *)
(* for a live brain: those waits have no bound.                            *)
timed(r) == plansAside /\ ~asksModel(runtime(r), host)

RunsSettle == \A r \in Runs : (pc[r] # "free" /\ timed(r)) ~> pc[r] = "free"
============================================================================
