----------------------------- MODULE StateFile ------------------------------
(***************************************************************************)
(* Commands over .ropex/state.json.  A CLI command or an API request loads *)
(* the whole state into an object of its own, changes it, awaits the runs  *)
(* if it drains, and writes the whole object back.  Nothing locks the      *)
(* file, and claims and leases exist only in the object of the drain.      *)
(*                                                                         *)
(* Sources: loadState and saveState in src/src/controller.ts, the mutating *)
(* routes of src/src/api.ts and the commands of src/src/cli.ts.  What a    *)
(* drain does to the items it claims is the subject of module WorkQueue.   *)
(***************************************************************************)
EXTENDS Naturals, FiniteSets

CONSTANTS
  Actors,        \* CLI processes and API requests
  Tasks,         \* tasks that clients may submit
  MaxAttempts,   \* runs before a failing task is dead-lettered
  MaxRuns,       \* bound: runs started for a task
  Hazards        \* the adverse conditions admitted, see HazardKinds

(* overlap: a command starts while another is between load and save.       *)
(* crash: a process ends between its load and the end of its save.         *)
(* tornWrite: writeFileSync truncates first, so that a crash leaves, and   *)
(*   another process reads, a file that does not parse.                    *)
HazardKinds == {"overlap", "crash", "tornWrite"}

ASSUME FileAssumption ==
  /\ MaxAttempts \in Nat \ {0}
  /\ MaxRuns \in Nat
  /\ Hazards \subseteq HazardKinds

VARIABLES
  file,      \* the state in the file
  phase,     \* what each actor is doing
  copy,      \* the state object of each actor
  request,   \* what the actor confirms when it has saved
  running,   \* the tasks whose run the actor awaits
  runs,      \* runs of a task that took effect outside
  success,   \* tasks one of whose runs succeeded
  acked,     \* tasks whose submission was confirmed to the client
  setting    \* the last pause or resume confirmed to the operator

vars == <<file, phase, copy, request, running, runs, success, acked, setting>>

outside == <<runs, success, acked, setting>>

Abstract == INSTANCE StateStore WITH store <- file

emptyState == Abstract!EmptyStore

Phases == {"idle", "loaded", "draining", "changed", "writing"}

Requests == [kind : {"submit"}, task : Tasks] \cup [kind : {"setPaused"}, paused : BOOLEAN]
              \cup [kind : {"drain"}]

Draining == [kind |-> "drain"]

TypeOK ==
  /\ file \in Abstract!Store
  /\ phase \in [Actors -> Phases]
  /\ copy \in [Actors -> Abstract!Store]
  /\ request \in [Actors -> Requests]
  /\ running \in [Actors -> SUBSET Tasks]
  /\ runs \in [Tasks -> 0..MaxRuns]
  /\ success \subseteq Tasks
  /\ acked \subseteq Tasks
  /\ setting \in BOOLEAN

Init ==
  /\ file = emptyState
  /\ phase = [a \in Actors |-> "idle"]
  /\ copy = [a \in Actors |-> emptyState]
  /\ request = [a \in Actors |-> Draining]
  /\ running = [a \in Actors |-> {}]
  /\ runs = [t \in Tasks |-> 0]
  /\ success = {} /\ acked = {} /\ setting = FALSE

----------------------------------------------------------------------------
(* The state object.  A definition named for a slip (claimablePaused,      *)
(* claimedTwice...) is  the form its successor would take with a plausible *)
(* bug; it is used by no action.                                           *)

(* The drain's completion of a claimed task, see completeQueued. *)
completed(s, t, ok) ==
  [s EXCEPT !.tasks[t].st = IF ok THEN "done"
                            ELSE IF s.tasks[t].attempts < MaxAttempts THEN "pending"
                            ELSE "dead"]

claimedTwice(s, S) ==
  [s EXCEPT !.tasks = [t \in Tasks |->
     IF t \notin S THEN @[t]
     ELSE [st |-> "claimed",
           attempts |-> IF @[t].attempts + 2 > MaxAttempts THEN MaxAttempts
                        ELSE @[t].attempts + 2]]]

(* The claims of one drain, all made before the first run. *)
claimed(s, S) ==
  [s EXCEPT !.tasks = [t \in Tasks |->
     IF t \in S THEN [st |-> "claimed", attempts |-> @[t].attempts + 1] ELSE @[t]]]

claimablePaused(s) == {t \in Tasks : s.tasks[t].st = "pending" /\ runs[t] < MaxRuns}

claimable(s) ==
  {t \in Tasks : ~s.paused /\ s.tasks[t].st = "pending" /\ runs[t] < MaxRuns}

(* What a request other than a drain changes. *)
applied(s, r) ==
  IF r.kind = "submit" THEN Abstract!Submitted(s, r.task) ELSE [s EXCEPT !.paused = r.paused]

(* submitNativeTask throws on an id it knows. *)
refused(s, r) == r.kind = "submit" /\ s.tasks[r.task].st # "absent"

----------------------------------------------------------------------------
(* A command, step by step. *)

(* Without overlap, a command starts when no other is under way. *)
mayStart(a) ==
  /\ phase[a] = "idle"
  /\ "overlap" \in Hazards \/ \A b \in Actors : phase[b] = "idle"

(* A file in the middle of a write does not parse: loadState answers with  *)
(* the empty state.                                                        *)
loadState ==
  IF \E b \in Actors : phase[b] = "writing" THEN emptyState ELSE file

(* The command is over; its object goes with it. *)
finish(a) ==
  /\ phase' = [phase EXCEPT ![a] = "idle"]
  /\ copy' = [copy EXCEPT ![a] = emptyState]
  /\ request' = [request EXCEPT ![a] = Draining]
  /\ running' = [running EXCEPT ![a] = {}]

start(a, r) ==
  /\ mayStart(a)
  /\ phase' = [phase EXCEPT ![a] = "loaded"]
  /\ copy' = [copy EXCEPT ![a] = loadState]
  /\ request' = [request EXCEPT ![a] = r]
  /\ UNCHANGED <<file, running, outside>>

(* The answer to the client, sent once the state is saved. *)
confirm(a) ==
  /\ acked' = IF request[a].kind = "submit" THEN acked \cup {request[a].task} ELSE acked
  /\ setting' = IF request[a].kind = "setPaused" THEN request[a].paused ELSE setting

changeAndConfirm(a) ==
  /\ phase[a] = "loaded"
  /\ request[a] # Draining
  /\ ~refused(copy[a], request[a])
  /\ phase' = [phase EXCEPT ![a] = "changed"]
  /\ copy' = [copy EXCEPT ![a] = applied(@, request[a])]
  /\ confirm(a)
  /\ UNCHANGED <<file, request, running, runs, success>>

(* The request body has arrived, or the flags are parsed. *)
change(a) ==
  /\ phase[a] = "loaded"
  /\ request[a] # Draining
  /\ ~refused(copy[a], request[a])
  /\ phase' = [phase EXCEPT ![a] = "changed"]
  /\ copy' = [copy EXCEPT ![a] = applied(@, request[a])]
  /\ UNCHANGED <<file, request, running, outside>>

(* The command answers with an error and saves nothing. *)
refuse(a) ==
  /\ phase[a] = "loaded"
  /\ refused(copy[a], request[a])
  /\ finish(a)
  /\ UNCHANGED <<file, outside>>

startDrain(a) ==
  /\ phase[a] = "loaded"
  /\ request[a] = Draining
  /\ \E S \in SUBSET claimable(copy[a]) :
       /\ copy' = [copy EXCEPT ![a] = claimed(@, S)]
       /\ running' = [running EXCEPT ![a] = S]
  /\ phase' = [phase EXCEPT ![a] = "draining"]
  /\ UNCHANGED <<file, request, outside>>

(* A run ends; the drain awaits all of them before it saves. *)
runEnds(a, t, ok) ==
  /\ phase[a] = "draining"
  /\ t \in running[a] /\ runs[t] < MaxRuns
  /\ runs' = [runs EXCEPT ![t] = @ + 1]
  /\ success' = IF ok THEN success \cup {t} ELSE success
  /\ copy' = [copy EXCEPT ![a] = completed(@, t, ok)]
  /\ running' = [running EXCEPT ![a] = @ \ {t}]
  /\ UNCHANGED <<file, phase, request, acked, setting>>

drained(a) ==
  /\ phase[a] = "draining" /\ running[a] = {}
  /\ phase' = [phase EXCEPT ![a] = "changed"]
  /\ UNCHANGED <<file, copy, request, running, outside>>

openFile(a) ==
  /\ "tornWrite" \in Hazards
  /\ phase[a] = "changed"
  /\ phase' = [phase EXCEPT ![a] = "writing"]
  /\ UNCHANGED <<file, copy, request, running, outside>>

(* The whole object replaces the file, whatever it holds by now. *)
saveState(a) ==
  /\ phase[a] = IF "tornWrite" \in Hazards THEN "writing" ELSE "changed"
  /\ file' = copy[a]
  /\ confirm(a)
  /\ finish(a)
  /\ UNCHANGED <<runs, success>>

(* The process ends; runs in flight may have taken effect, once each. *)
crash(a) ==
  /\ "crash" \in Hazards
  /\ phase[a] # "idle"
  /\ file' = IF phase[a] = "writing" THEN emptyState ELSE file
  /\ finish(a)
  /\ UNCHANGED outside

Next ==
  \E a \in Actors :
    \/ \E r \in Requests : start(a, r)
    \/ change(a) \/ refuse(a) \/ startDrain(a)
    \/ \E t \in Tasks, ok \in BOOLEAN : runEnds(a, t, ok)
    \/ drained(a) \/ openFile(a) \/ saveState(a) \/ crash(a)

Spec == Init /\ [][Next]_vars

----------------------------------------------------------------------------
(* Without overlap and torn writes, a command is one atomic change of the  *)
(* store although it loads, awaits and saves in separate steps and may     *)
(* crash between them.                                                     *)
ImplementsStore == Abstract!StoreSpec

(* A submission that was confirmed stays in the store. *)
AckedSurvive == \A t \in acked : file.tasks[t].st # "absent"

(* The file says what the last confirmed pause or resume said: a drain     *)
(* that ends later does not write an older setting back.                   *)
PauseKept == file.paused = setting

(* The store never claims an outcome that did not happen, whatever updates *)
(* overlapping commands, crashes and torn writes have lost: a task is done *)
(* only if a run succeeded, dead only if it ran MaxAttempts times, and no  *)
(* attempt is counted that was not a run.  A claim is never in the file.   *)
OutcomesAreReal ==
  \A t \in Tasks :
    LET it == file.tasks[t]
    IN  /\ it.st # "claimed"
        /\ it.attempts <= runs[t]
        /\ it.st = "done" => t \in success
        /\ it.st = "dead" => it.attempts = MaxAttempts
=============================================================================
