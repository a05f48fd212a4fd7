-------------------------- MODULE StateFileProofs --------------------------
(***************************************************************************)
(* For any number of commands and tasks: the types and the truth of the    *)
(* recorded outcomes, under every hazard, and the refinement of StateStore *)
(* while commands do not overlap and writes are not cut short.             *)
(***************************************************************************)
EXTENDS StateFile, TLAPS

TaskState == Abstract!TaskState
Store == Abstract!Store

(* What a state object may say of the tasks when the runs of R are awaited *)
(* on it, after n runs of each task and with the tasks of W successful:    *)
(* the claims are those of R, and each of them counts one attempt that is  *)
(* not a run yet.                                                          *)
RealTask(s, R, n, W, t) ==
  /\ s.tasks[t].st = "claimed" <=> t \in R
  /\ s.tasks[t].attempts <= IF t \in R THEN n[t] + 1 ELSE n[t]
  /\ s.tasks[t].st = "done" => t \in W
  /\ s.tasks[t].st = "dead" => s.tasks[t].attempts = MaxAttempts
  /\ s.tasks[t].st = "pending" => s.tasks[t].attempts < MaxAttempts

RealAfter(s, R, n, W) == \A t \in Tasks : RealTask(s, R, n, W, t)

Real(s, R) == RealAfter(s, R, runs, success)

RealInv ==
  /\ TypeOK
  /\ Real(file, {})
  /\ \A a \in Actors :
       /\ Real(copy[a], running[a])
       /\ phase[a] # "draining" => running[a] = {}

----------------------------------------------------------------------------
(* The operators on state objects. *)

(* The empty state is a store without claims or outcomes. *)
LEMMA EmptyReal ==
  ASSUME runs \in [Tasks -> Nat]
  PROVE  emptyState \in Store /\ Real(emptyState, {})
BY FileAssumption
DEF emptyState, Store, Real, RealAfter, RealTask, Abstract!EmptyStore, Abstract!Store, Abstract!TaskState

(* Submissions, pauses and resumes keep a store and what it says true. *)
LEMMA AppliedReal ==
  ASSUME runs \in [Tasks -> Nat], NEW s \in Store, Real(s, {}),
         NEW r \in Requests, r # Draining, ~refused(s, r)
  PROVE  applied(s, r) \in Store /\ Real(applied(s, r), {})
<1>1. CASE r.kind = "submit"
  <2>1. r.task \in Tasks
    BY <1>1 DEF Requests, Draining
  <2> QED
    BY <1>1, <2>1, FileAssumption
    DEF applied, Store, Real, RealAfter, RealTask, Abstract!Store, Abstract!TaskState, Abstract!Submitted
<1>2. CASE r.kind # "submit"
  <2>1. r.kind = "setPaused" /\ r.paused \in BOOLEAN
    BY <1>2 DEF Requests, Draining
  <2> QED
    BY <2>1 DEF applied, Store, Real, RealAfter, RealTask, Abstract!Store, Abstract!TaskState
<1> QED
  BY <1>1, <1>2

(* The claims of a drain: each counts an attempt in advance of its run. *)
LEMMA ClaimedReal ==
  ASSUME runs \in [Tasks -> Nat], NEW s \in Store, Real(s, {}),
         NEW S, S \subseteq claimable(s)
  PROVE  claimed(s, S) \in Store /\ Real(claimed(s, S), S)
<1>1. S \subseteq Tasks /\ \A t \in S : s.tasks[t].st = "pending"
  BY DEF claimable
<1>2. \A t \in S : s.tasks[t].attempts < MaxAttempts /\ s.tasks[t].attempts <= runs[t]
  BY <1>1 DEF Real, RealAfter, RealTask
<1>3. PICK c : c = claimed(s, S)
  OBVIOUS
<1>4. c \in Store
  BY <1>1, <1>2, <1>3, FileAssumption DEF claimed, Store, Abstract!Store, Abstract!TaskState
<1>5. \A t \in Tasks :
        /\ t \in S => c.tasks[t] = [st |-> "claimed", attempts |-> s.tasks[t].attempts + 1]
        /\ t \notin S => c.tasks[t] = s.tasks[t]
  BY <1>3 DEF claimed, Store, Abstract!Store
<1>6. \A t \in Tasks : s.tasks[t].attempts \in Nat
  BY FileAssumption DEF Store, Abstract!Store, Abstract!TaskState
<1>7. ASSUME NEW t \in Tasks
      PROVE  RealTask(c, S, runs, success, t)
  <2>1. RealTask(s, {}, runs, success, t)
    BY DEF Real, RealAfter
  <2>2. CASE t \in S
    <3>1. c.tasks[t].st = "claimed" /\ c.tasks[t].attempts = s.tasks[t].attempts + 1
      <4>1. c.tasks[t] = [st |-> "claimed", attempts |-> s.tasks[t].attempts + 1]
        BY <1>5, <2>2
      <4> QED
        BY <4>1
    <3>2. c.tasks[t].attempts <= runs[t] + 1
      BY <1>2, <1>6, <2>2, <3>1
    <3> QED
      BY <2>2, <3>1, <3>2 DEF RealTask
  <2>3. CASE t \notin S
    BY <1>5, <2>1, <2>3 DEF RealTask
  <2> QED
    BY <2>2, <2>3
<1> QED
  BY <1>3, <1>4, <1>7 DEF Real, RealAfter

----------------------------------------------------------------------------
(* Truth of the outcomes, under every hazard. *)

(* No command has run: the file and the objects are empty. *)
LEMMA InitReal == Init => RealInv
<1> SUFFICES ASSUME Init PROVE RealInv
  OBVIOUS
<1>1. runs \in [Tasks -> 0..MaxRuns] /\ runs \in [Tasks -> Nat]
  BY FileAssumption DEF Init
<1>2. TypeOK
  BY <1>1, EmptyReal DEF Init, TypeOK, Phases, Requests, Draining, Store
<1> QED
  BY <1>1, <1>2, EmptyReal DEF Init, RealInv

(* A command that ends gives up its object: nothing is left to be wrong. *)
LEMMA FinishReal ==
  ASSUME RealInv, NEW a \in Actors, finish(a), UNCHANGED <<runs, success>>,
         file' \in Store, Real(file', {}), acked' \subseteq Tasks, setting' \in BOOLEAN
  PROVE  RealInv'
<1>1. runs \in [Tasks -> Nat]
  BY FileAssumption DEF RealInv, TypeOK
<1>2. TypeOK'
  BY <1>1, EmptyReal DEF finish, RealInv, TypeOK, Phases, Requests, Draining, Store
<1>3. ASSUME NEW b \in Actors
      PROVE  /\ Real(copy'[b], running'[b])
             /\ phase'[b] # "draining" => running'[b] = {}
  BY <1>1, EmptyReal DEF finish, RealInv, TypeOK
<1> QED
  BY <1>2, <1>3 DEF RealInv, Real

(* A command that writes its own object only, and truthfully. *)
LEMMA OwnObjectReal ==
  ASSUME RealInv, NEW a \in Actors, NEW s \in Store, NEW R \in SUBSET Tasks, NEW ph \in Phases,
         copy' = [copy EXCEPT ![a] = s], running' = [running EXCEPT ![a] = R],
         phase' = [phase EXCEPT ![a] = ph], request' \in [Actors -> Requests],
         Real(s, R), ph # "draining" => R = {},
         UNCHANGED <<file, runs, success, acked, setting>>
  PROVE  RealInv'
<1>1. TypeOK'
  BY DEF RealInv, TypeOK, Store
<1>2. ASSUME NEW b \in Actors
      PROVE  /\ Real(copy'[b], running'[b])
             /\ phase'[b] # "draining" => running'[b] = {}
  BY DEF RealInv, TypeOK
<1> QED
  BY <1>1, <1>2 DEF RealInv, Real

(* A run that ends makes one attempt real, in every object that counts it. *)
LEMMA RunEndsReal ==
  ASSUME RealInv, NEW a \in Actors, NEW t \in Tasks, NEW ok \in BOOLEAN, runEnds(a, t, ok)
  PROVE  RealInv'
<1> USE DEF RealInv, TypeOK
<1> DEFINE s == copy[a]
           c == completed(s, t, ok)
<1>1. /\ runs \in [Tasks -> Nat] /\ runs[t] + 1 \in 0..MaxRuns /\ s \in Store
      /\ t \in running[a] /\ Real(s, running[a])
  BY FileAssumption DEF runEnds, Store
<1>2. s.tasks[t].st = "claimed" /\ s.tasks[t].attempts <= runs[t] + 1
  BY <1>1 DEF Real, RealAfter, RealTask
<1>3. s.tasks[t].attempts \in 0..MaxAttempts
  BY <1>1 DEF Store, Abstract!Store, Abstract!TaskState
<1>4. c.tasks[t].attempts = s.tasks[t].attempts /\ \A u \in Tasks \ {t} : c.tasks[u] = s.tasks[u]
  BY <1>1 DEF completed, Store, Abstract!Store, Abstract!TaskState
<1>5. c.tasks[t].st = (IF ok THEN "done" ELSE IF s.tasks[t].attempts < MaxAttempts THEN "pending" ELSE "dead")
  BY <1>1 DEF completed, Store, Abstract!Store, Abstract!TaskState
<1>6. c \in Store
  <2>1. /\ c.paused = s.paused /\ DOMAIN c = {"tasks", "paused"}
        /\ c = [c EXCEPT !.tasks = [u \in Tasks |-> c.tasks[u]]]
    BY <1>1 DEF completed, Store, Abstract!Store, Abstract!TaskState
  <2>2. c.tasks[t] \in TaskState
    BY <1>1, <1>3, <1>4, <1>5 DEF completed, Store, TaskState, Abstract!Store, Abstract!TaskState
  <2>3. \A u \in Tasks : c.tasks[u] \in TaskState
    BY <1>1, <1>4, <2>2 DEF Store, TaskState, Abstract!Store
  <2> QED
    BY <1>1, <2>1, <2>3 DEF completed, Store, TaskState, Abstract!Store
<1>7. /\ runs' = [runs EXCEPT ![t] = runs[t] + 1]
      /\ success' = (IF ok THEN success \cup {t} ELSE success)
      /\ copy' = [copy EXCEPT ![a] = c]
      /\ running' = [running EXCEPT ![a] = running[a] \ {t}]
      /\ phase[a] = "draining"
      /\ UNCHANGED <<file, phase, request, acked, setting>>
  BY DEF runEnds
<1>8. TypeOK'
  BY <1>1, <1>6, <1>7 DEF Store
<1>9. \A u \in Tasks : runs'[u] \in Nat /\ runs[u] <= runs'[u]
  BY <1>1, <1>7
<1>10. ASSUME NEW x \in Store, NEW R, RealAfter(x, R, runs, success)
       PROVE  RealAfter(x, R, runs', success')
  <2>1. \A u \in Tasks : x.tasks[u].attempts \in Nat /\ runs[u] \in Nat
    BY <1>1, FileAssumption DEF Store, Abstract!Store, Abstract!TaskState
  <2>2. \A u \in Tasks : x.tasks[u].attempts <= IF u \in R THEN runs'[u] + 1 ELSE runs'[u]
    BY <1>9, <1>10, <2>1 DEF RealAfter, RealTask
  <2>3. success \subseteq success'
    BY <1>7
  <2> QED
    BY <1>10, <2>2, <2>3 DEF RealAfter, RealTask
<1>11. RealAfter(c, running[a] \ {t}, runs', success')
  <2>1. ASSUME NEW u \in Tasks, u # t
        PROVE  RealTask(c, running[a] \ {t}, runs', success', u)
    <3>1. RealTask(s, running[a], runs, success, u)
      BY <1>1 DEF Real, RealAfter
    <3>2. runs'[u] = runs[u] /\ c.tasks[u] = s.tasks[u] /\ success \subseteq success'
      BY <1>1, <1>4, <1>7, <2>1
    <3> QED
      BY <2>1, <3>1, <3>2 DEF RealTask
  <2>2. RealTask(c, running[a] \ {t}, runs', success', t)
    <3>1. /\ runs'[t] = runs[t] + 1
          /\ ok => t \in success'
      BY <1>1, <1>7
    <3>2. c.tasks[t].attempts <= runs'[t]
      BY <1>1, <1>2, <1>3, <1>4, <3>1, FileAssumption
    <3>3. /\ c.tasks[t].st # "claimed"
          /\ c.tasks[t].st = "dead" => ~(s.tasks[t].attempts < MaxAttempts)
          /\ c.tasks[t].st = "pending" => s.tasks[t].attempts < MaxAttempts
      BY <1>5
    <3>4. c.tasks[t].st = "dead" => c.tasks[t].attempts = MaxAttempts
      BY <1>3, <1>4, <3>3, FileAssumption
    <3>5. c.tasks[t].st = "done" => t \in success'
      <4>1. CASE ok
        BY <3>1, <4>1
      <4>2. CASE ~ok
        <5>1. c.tasks[t].st = IF s.tasks[t].attempts < MaxAttempts THEN "pending" ELSE "dead"
          BY <1>5, <4>2
        <5> QED
          BY <5>1
      <4> QED
        BY <4>1, <4>2
    <3>6. c.tasks[t].st = "pending" => c.tasks[t].attempts < MaxAttempts
      BY <1>4, <3>3
    <3> QED
      BY <3>2, <3>3, <3>4, <3>5, <3>6 DEF RealTask
  <2> QED
    BY <2>1, <2>2 DEF RealAfter
<1>12. ASSUME NEW b \in Actors
       PROVE  /\ RealAfter(copy'[b], running'[b], runs', success')
              /\ phase'[b] # "draining" => running'[b] = {}
  <2>1. CASE b = a
    BY <1>7, <1>11, <2>1
  <2>2. CASE b # a
    <3>1. copy'[b] = copy[b] /\ running'[b] = running[b] /\ copy[b] \in Store
      BY <1>7, <2>2 DEF Store
    <3>2. RealAfter(copy[b], running[b], runs, success)
      BY DEF Real
    <3> QED
      BY <1>7, <1>10, <2>2, <3>1, <3>2
  <2> QED
    BY <2>1, <2>2
<1>13. RealAfter(file', {}, runs', success')
  BY <1>7, <1>10 DEF Real, Store
<1> QED
  BY <1>8, <1>12, <1>13 DEF Real

(* Every step keeps the invariant; one step per action. *)
LEMMA NextReal == RealInv /\ [Next]_vars => RealInv'
<1> SUFFICES ASSUME RealInv, [Next]_vars PROVE RealInv'
  OBVIOUS
<1> USE DEF RealInv, TypeOK
<1>1. /\ runs \in [Tasks -> Nat] /\ file \in Store /\ copy \in [Actors -> Store]
      /\ emptyState \in Store /\ Real(emptyState, {})
      /\ loadState \in Store /\ Real(loadState, {})
  BY FileAssumption, EmptyReal DEF Store, loadState
<1>2. ASSUME NEW a \in Actors, phase[a] # "draining"
      PROVE  copy[a] \in Store /\ Real(copy[a], {}) /\ running[a] = {}
  BY <1>1, <1>2
<1>3. ASSUME NEW a \in Actors, NEW r \in Requests, start(a, r)
      PROVE  RealInv'
  <2>1. phase[a] = "idle" /\ running' = [running EXCEPT ![a] = {}]
    BY <1>2, <1>3 DEF start, mayStart
  <2> QED
    BY <1>1, <1>3, <2>1, OwnObjectReal DEF start, outside, Phases
<1>4. ASSUME NEW a \in Actors, change(a)
      PROVE  RealInv'
  <2>1. /\ copy[a] \in Store /\ Real(copy[a], {}) /\ running' = [running EXCEPT ![a] = {}]
        /\ request[a] \in Requests /\ request[a] # Draining /\ ~refused(copy[a], request[a])
    BY <1>2, <1>4 DEF change
  <2>2. applied(copy[a], request[a]) \in Store /\ Real(applied(copy[a], request[a]), {})
    BY <1>1, <2>1, AppliedReal
  <2> QED
    BY <1>4, <2>1, <2>2, OwnObjectReal DEF change, outside, Phases
<1>5. ASSUME NEW a \in Actors, refuse(a)
      PROVE  RealInv'
  BY <1>1, <1>5, FinishReal DEF refuse, outside
<1>6. ASSUME NEW a \in Actors, startDrain(a)
      PROVE  RealInv'
  <2>1. PICK S \in SUBSET claimable(copy[a]) :
          /\ copy' = [copy EXCEPT ![a] = claimed(@, S)]
          /\ running' = [running EXCEPT ![a] = S]
    BY <1>6 DEF startDrain
  <2>2. copy[a] \in Store /\ Real(copy[a], {})
    BY <1>2, <1>6 DEF startDrain
  <2>3. claimed(copy[a], S) \in Store /\ Real(claimed(copy[a], S), S) /\ S \in SUBSET Tasks
    BY <1>1, <2>2, ClaimedReal DEF claimable
  <2>4. copy' = [copy EXCEPT ![a] = claimed(copy[a], S)]
    BY <2>1
  <2> QED
    BY <1>6, <2>1, <2>3, <2>4, OwnObjectReal DEF startDrain, outside, Phases
<1>7. ASSUME NEW a \in Actors, NEW t \in Tasks, NEW ok \in BOOLEAN, runEnds(a, t, ok)
      PROVE  RealInv'
  BY <1>7, RunEndsReal
<1>8. ASSUME NEW a \in Actors, NEW ph \in {"changed", "writing"}, running[a] = {},
             phase' = [phase EXCEPT ![a] = ph],
             UNCHANGED <<file, copy, request, running, outside>>
      PROVE  RealInv'
  <2>1. /\ copy[a] \in Store /\ Real(copy[a], {})
        /\ copy' = [copy EXCEPT ![a] = copy[a]]
        /\ running' = [running EXCEPT ![a] = {}]
    BY <1>1, <1>8
  <2> QED
    BY <1>8, <2>1, OwnObjectReal DEF outside, Phases
<1>9. ASSUME NEW a \in Actors, saveState(a)
      PROVE  RealInv'
  <2>1. phase[a] # "draining"
    BY <1>9 DEF saveState
  <2>2. copy[a] \in Store /\ Real(copy[a], {})
    BY <1>2, <2>1
  <2>3. acked' \subseteq Tasks /\ setting' \in BOOLEAN
    <3>1. request[a] \in Requests
      OBVIOUS
    <3>2. request[a].kind = "submit" => request[a].task \in Tasks
      BY <3>1 DEF Requests
    <3>3. request[a].kind = "setPaused" => request[a].paused \in BOOLEAN
      BY <3>1 DEF Requests
    <3>4. acked' = (IF request[a].kind = "submit" THEN acked \cup {request[a].task} ELSE acked)
      BY <1>9 DEF saveState, confirm
    <3>5. setting' = (IF request[a].kind = "setPaused" THEN request[a].paused ELSE setting)
      BY <1>9 DEF saveState, confirm
    <3> QED
      BY <3>2, <3>3, <3>4, <3>5
  <2> QED
    BY <1>9, <2>2, <2>3, FinishReal DEF saveState
<1>10. ASSUME NEW a \in Actors, crash(a)
       PROVE  RealInv'
  BY <1>1, <1>10, FinishReal DEF crash, outside
<1>11. CASE UNCHANGED vars
  <2>1. /\ UNCHANGED <<file, phase, copy, request, running>>
        /\ UNCHANGED <<runs, success, acked, setting>>
    BY <1>11 DEF vars
  <2> QED
    BY <2>1 DEF Real
<1>12. ASSUME NEW a \in Actors, drained(a) PROVE RealInv'
  BY <1>8, <1>12 DEF drained
<1>13. ASSUME NEW a \in Actors, openFile(a) PROVE RealInv'
  BY <1>2, <1>8, <1>13 DEF openFile
<1> QED
  BY <1>3, <1>4, <1>5, <1>6, <1>7, <1>9, <1>10, <1>11, <1>12, <1>13 DEF Next

(* Whatever commands overlap, crash or read a torn file, every object says *)
(* only what happened.                                                     *)
THEOREM RealInvHolds == Spec => []RealInv
BY InitReal, NextReal, PTL DEF Spec

(* The file, the objects of the commands and what was confirmed keep their *)
(* types under every hazard.                                               *)
THEOREM FileTypeCorrect == Spec => []TypeOK
<1>1. RealInv => TypeOK
  BY DEF RealInv
<1> QED
  BY <1>1, RealInvHolds, PTL

(* However many updates are lost to overlap, crashes and torn writes, the  *)
(* file records no outcome and no attempt that was not a run.              *)
THEOREM OutcomesHappened == Spec => []OutcomesAreReal
<1>1. RealInv => OutcomesAreReal
  BY DEF RealInv, Real, RealAfter, RealTask, OutcomesAreReal
<1> QED
  BY <1>1, RealInvHolds, PTL

----------------------------------------------------------------------------
(* One command at a time: the refinement of StateStore. *)

(* s is what a drain makes of f while the runs of R are awaited. *)
Drains(f, s, R) ==
  /\ s.paused = f.paused
  /\ f.paused => s = f /\ R = {}
  /\ \A t \in Tasks :
       /\ t \in R => /\ f.tasks[t].st = "pending"
                     /\ s.tasks[t].attempts = f.tasks[t].attempts + 1
       /\ t \notin R => \/ s.tasks[t] = f.tasks[t]
                        \/ Abstract!RanOnceMore(f.tasks[t], s.tasks[t])

(* At most one command is under way, and its object is the file with the   *)
(* change of its request: this is what overlapping commands break.         *)
SerialInv ==
  /\ \A a, b \in Actors : phase[a] # "idle" /\ phase[b] # "idle" => a = b
  /\ \A a \in Actors :
       /\ phase[a] # "writing"
       /\ phase[a] = "loaded" => copy[a] = file
       /\ phase[a] = "draining" => request[a] = Draining /\ Drains(file, copy[a], running[a])
       /\ phase[a] = "changed" =>
            /\ request[a] = Draining => Drains(file, copy[a], {})
            /\ request[a] # Draining =>
                 ~refused(file, request[a]) /\ copy[a] = applied(file, request[a])

(* What was confirmed is in the file. *)
Confirmed == AckedSurvive /\ PauseKept

(* A run that ends is one more run of a task that was pending. *)
LEMMA RunIsOneMore ==
  ASSUME RealInv, SerialInv, NEW a \in Actors, NEW t \in Tasks, NEW ok \in BOOLEAN,
         runEnds(a, t, ok)
  PROVE  Drains(file, completed(copy[a], t, ok), running[a] \ {t})
<1> DEFINE s == copy[a]
<1>1. PICK c : c = completed(s, t, ok)
  OBVIOUS
<1>2. s \in Store /\ file \in Store /\ Real(s, running[a]) /\ t \in running[a]
      /\ Drains(file, s, running[a])
  BY DEF RealInv, TypeOK, SerialInv, runEnds, Store
<1>3. /\ file.tasks[t].st = "pending"
      /\ s.tasks[t].attempts = file.tasks[t].attempts + 1
      /\ ~file.paused
  BY <1>2 DEF Drains
<1>4. /\ c.paused = s.paused
      /\ \A u \in Tasks \ {t} : c.tasks[u] = s.tasks[u]
      /\ c.tasks[t].attempts = s.tasks[t].attempts
      /\ c.tasks[t].st = (IF ok THEN "done" ELSE IF s.tasks[t].attempts < MaxAttempts THEN "pending"
                                               ELSE "dead")
  BY <1>1, <1>2 DEF completed, Store, Abstract!Store, Abstract!TaskState
<1>5. s.tasks[t].attempts \in 0..MaxAttempts
  BY <1>2 DEF Store, Abstract!Store, Abstract!TaskState
<1>6. Abstract!RanOnceMore(file.tasks[t], c.tasks[t])
  BY <1>3, <1>4, <1>5, FileAssumption DEF Abstract!RanOnceMore
<1>7. Drains(file, c, running[a] \ {t})
  BY <1>2, <1>3, <1>4, <1>6 DEF Drains
<1> QED
  BY <1>1, <1>7

(* The claims of a drain, none on a paused queue. *)
LEMMA ClaimsOfTheFile ==
  ASSUME NEW f \in Store, NEW S \in SUBSET claimable(f)
  PROVE  Drains(f, claimed(f, S), S)
<1>1. PICK c : c = claimed(f, S)
  OBVIOUS
<1>2. S \subseteq Tasks /\ \A t \in S : f.tasks[t].st = "pending" /\ ~f.paused
  BY DEF claimable
<1>3. /\ c.paused = f.paused
      /\ \A t \in Tasks : t \notin S => c.tasks[t] = f.tasks[t]
      /\ \A t \in Tasks : t \in S => c.tasks[t].attempts = f.tasks[t].attempts + 1
  BY <1>1 DEF claimed, Store, Abstract!Store
<1>4. S = {} => c = f
  BY <1>1 DEF claimed, Store, Abstract!Store
<1>5. f.paused => S = {}
  BY <1>2
<1>6. Drains(f, c, S)
  BY <1>2, <1>3, <1>4, <1>5 DEF Drains
<1> QED
  BY <1>1, <1>6

(* A save is one step of the store, or none, and nothing that was confirmed*)
(* before is undone by it.                                                 *)
LEMMA SaveIsStore ==
  ASSUME "tornWrite" \notin Hazards, RealInv, SerialInv, Confirmed,
         NEW a \in Actors, saveState(a)
  PROVE  (Abstract!StoreNext \/ UNCHANGED file) /\ Confirmed'
<1> USE DEF RealInv, TypeOK
<1>1. phase[a] = "changed" /\ file' = copy[a] /\ copy[a] \in Store /\ file \in Store
  BY DEF saveState, Store
<1>2. /\ acked' = (IF request[a].kind = "submit" THEN acked \cup {request[a].task} ELSE acked)
      /\ setting' = (IF request[a].kind = "setPaused" THEN request[a].paused ELSE setting)
  BY DEF saveState, confirm
<1>3. CASE request[a] = Draining
  <2>1. Drains(file, file', {})
    BY <1>1, <1>3 DEF SerialInv
  <2>2. acked' = acked /\ setting' = setting
    BY <1>2, <1>3 DEF Draining
  <2>3. Confirmed'
    BY <2>1, <2>2 DEF Confirmed, AckedSurvive, PauseKept, Drains, Abstract!RanOnceMore
  <2>4. Abstract!Drained \/ UNCHANGED file
    <3>1. CASE file.paused
      BY <2>1, <3>1 DEF Drains
    <3>2. CASE ~file.paused
      BY <1>1, <2>1, <3>2 DEF Drains, Abstract!Drained, Store
    <3> QED
      BY <3>1, <3>2
  <2> QED
    BY <2>3, <2>4 DEF Abstract!StoreNext
<1>4. CASE request[a] # Draining
  <2>1. ~refused(file, request[a]) /\ file' = applied(file, request[a])
    BY <1>1, <1>4 DEF SerialInv
  <2>2. CASE request[a].kind = "submit"
    <3>1. request[a].task \in Tasks
      <4>1. request[a] \in Requests
        OBVIOUS
      <4> QED
        BY <2>2, <4>1 DEF Requests
    <3>2. /\ file.tasks[request[a].task].st = "absent"
          /\ file' = Abstract!Submitted(file, request[a].task)
      BY <2>1, <2>2 DEF refused, applied
    <3>3. acked' = acked \cup {request[a].task} /\ setting' = setting
      BY <1>2, <2>2
    <3>4. Confirmed'
      <4>1. /\ file'.paused = file.paused
            /\ file'.tasks[request[a].task].st = "pending"
            /\ \A t \in Tasks \ {request[a].task} : file'.tasks[t] = file.tasks[t]
        BY <1>1, <3>1, <3>2 DEF Abstract!Submitted, Store, Abstract!Store
      <4> QED
        BY <3>3, <4>1 DEF Confirmed, AckedSurvive, PauseKept
    <3> QED
      BY <3>1, <3>2, <3>4 DEF Abstract!StoreNext, Abstract!Submit
  <2>3. CASE request[a].kind # "submit"
    <3>1. request[a].kind = "setPaused" /\ request[a].paused \in BOOLEAN
      <4>1. request[a] \in Requests
        OBVIOUS
      <4> QED
        BY <1>4, <2>3, <4>1 DEF Requests, Draining
    <3>2. file' = [file EXCEPT !.paused = request[a].paused]
      BY <2>1, <2>3 DEF applied
    <3>3. acked' = acked /\ setting' = request[a].paused
      BY <1>2, <2>3, <3>1
    <3>4. Confirmed'
      BY <1>1, <3>2, <3>3 DEF Confirmed, AckedSurvive, PauseKept, Store, Abstract!Store
    <3> QED
      BY <3>1, <3>2, <3>4 DEF Abstract!StoreNext, Abstract!SetPaused
  <2> QED
    BY <2>2, <2>3
<1> QED
  BY <1>3, <1>4

(* The command under way is the only one; whoever else there is, is idle.  *)
LEMMA OnlyOneMoves ==
  ASSUME SerialInv, NEW a \in Actors, UNCHANGED file,
         phase[a] # "idle" \/ \A b \in Actors : phase[b] = "idle",
         \A b \in Actors \ {a} :
           phase'[b] = phase[b],
         phase'[a] # "writing",
         phase'[a] = "loaded" => copy'[a] = file,
         phase'[a] = "draining" => request'[a] = Draining /\ Drains(file, copy'[a], running'[a]),
         phase'[a] = "changed" =>
           /\ request'[a] = Draining => Drains(file, copy'[a], {})
           /\ request'[a] # Draining =>
                ~refused(file, request'[a]) /\ copy'[a] = applied(file, request'[a])
  PROVE  SerialInv'
<1>1. \A b \in Actors \ {a} : phase[b] = "idle" /\ phase'[b] = "idle"
  BY DEF SerialInv
<1>2. ASSUME NEW b \in Actors
      PROVE  /\ phase'[b] # "writing"
             /\ phase'[b] = "loaded" => copy'[b] = file'
             /\ phase'[b] = "draining" =>
                  request'[b] = Draining /\ Drains(file', copy'[b], running'[b])
             /\ phase'[b] = "changed" =>
                  /\ request'[b] = Draining => Drains(file', copy'[b], {})
                  /\ request'[b] # Draining =>
                       ~refused(file', request'[b]) /\ copy'[b] = applied(file', request'[b])
  <2>1. CASE b = a
    BY <2>1
  <2>2. CASE b # a
    BY <1>1, <2>2
  <2> QED
    BY <2>1, <2>2
<1>3. \A b, c \in Actors : phase'[b] # "idle" /\ phase'[c] # "idle" => b = c
  BY <1>1
<1> QED
  BY <1>2, <1>3 DEF SerialInv, Drains, refused, applied

(* The last command has ended: all are idle. *)
LEMMA NobodyMoves ==
  ASSUME RealInv, SerialInv, NEW a \in Actors, phase[a] # "idle", finish(a)
  PROVE  SerialInv'
<1>1. \A b \in Actors : phase'[b] = "idle"
  BY DEF finish, SerialInv, RealInv, TypeOK
<1> QED
  BY <1>1 DEF SerialInv

(* While commands do not overlap and no write is cut short, every step     *)
(* keeps the one command in step with the file, and is a step of the store *)
(* or leaves it alone.                                                     *)
LEMMA NextSerial ==
  ASSUME "overlap" \notin Hazards, "tornWrite" \notin Hazards,
         RealInv, SerialInv, Confirmed, [Next]_vars
  PROVE  SerialInv' /\ Confirmed' /\ (Abstract!StoreNext \/ UNCHANGED file)
<1> USE DEF RealInv, TypeOK
<1>0. ASSUME UNCHANGED <<file, acked, setting>>
      PROVE  Confirmed' /\ UNCHANGED file
  BY <1>0 DEF Confirmed, AckedSurvive, PauseKept
<1>1. ASSUME NEW a \in Actors, NEW r \in Requests, start(a, r)
      PROVE  SerialInv' /\ UNCHANGED <<file, acked, setting>>
  <2>1. /\ \A b \in Actors : phase[b] = "idle"
        /\ phase' = [phase EXCEPT ![a] = "loaded"] /\ copy'[a] = loadState
        /\ UNCHANGED <<file, acked, setting>>
    BY <1>1 DEF start, mayStart, outside
  <2>2. loadState = file
    BY <2>1 DEF loadState
  <2> QED
    BY <2>1, <2>2, OnlyOneMoves
<1>2. ASSUME NEW a \in Actors, change(a)
      PROVE  SerialInv' /\ UNCHANGED <<file, acked, setting>>
  <2>1. /\ phase[a] = "loaded" /\ request[a] # Draining /\ ~refused(copy[a], request[a])
        /\ phase' = [phase EXCEPT ![a] = "changed"] /\ request' = request
        /\ copy'[a] = applied(copy[a], request[a])
        /\ UNCHANGED <<file, acked, setting>>
    BY <1>2 DEF change, outside
  <2>2. copy[a] = file
    BY <2>1 DEF SerialInv
  <2>3. phase'[a] = "changed" /\ \A b \in Actors \ {a} : phase'[b] = phase[b]
    BY <2>1
  <2> QED
    BY <2>1, <2>2, <2>3, OnlyOneMoves
<1>3. ASSUME NEW a \in Actors, refuse(a)
      PROVE  SerialInv' /\ UNCHANGED <<file, acked, setting>>
  BY <1>3, NobodyMoves DEF refuse, outside
<1>4. ASSUME NEW a \in Actors, startDrain(a)
      PROVE  SerialInv' /\ UNCHANGED <<file, acked, setting>>
  <2>1. PICK S \in SUBSET claimable(copy[a]) :
          copy'[a] = claimed(copy[a], S) /\ running'[a] = S
    BY <1>4 DEF startDrain
  <2>2. /\ phase[a] = "loaded" /\ request[a] = Draining
        /\ phase' = [phase EXCEPT ![a] = "draining"] /\ request' = request
        /\ UNCHANGED <<file, acked, setting>>
    BY <1>4 DEF startDrain, outside
  <2>3. copy[a] = file /\ file \in Store
    BY <2>2 DEF SerialInv, Store
  <2>4. Drains(file, copy'[a], running'[a])
    BY <2>1, <2>3, ClaimsOfTheFile
  <2>5. phase'[a] = "draining" /\ \A b \in Actors \ {a} : phase'[b] = phase[b]
    BY <2>2
  <2> QED
    BY <2>2, <2>4, <2>5, OnlyOneMoves
<1>5. ASSUME NEW a \in Actors, NEW t \in Tasks, NEW ok \in BOOLEAN, runEnds(a, t, ok)
      PROVE  SerialInv' /\ UNCHANGED <<file, acked, setting>>
  <2>1. /\ phase[a] = "draining" /\ phase' = phase /\ request' = request
        /\ copy'[a] = completed(copy[a], t, ok) /\ running'[a] = running[a] \ {t}
        /\ UNCHANGED <<file, acked, setting>>
    BY <1>5 DEF runEnds
  <2>2. Drains(file, copy'[a], running'[a])
    BY <1>5, <2>1, RunIsOneMore
  <2>3. request[a] = Draining
    BY <2>1 DEF SerialInv
  <2> QED
    BY <2>1, <2>2, <2>3, OnlyOneMoves
<1>6. ASSUME NEW a \in Actors, drained(a)
      PROVE  SerialInv' /\ UNCHANGED <<file, acked, setting>>
  <2>1. /\ phase[a] = "draining" /\ running[a] = {} /\ request' = request /\ copy' = copy
        /\ phase' = [phase EXCEPT ![a] = "changed"]
        /\ UNCHANGED <<file, acked, setting>>
    BY <1>6 DEF drained, outside
  <2>2. request[a] = Draining /\ Drains(file, copy[a], {})
    BY <2>1 DEF SerialInv
  <2>3. phase'[a] = "changed" /\ \A b \in Actors \ {a} : phase'[b] = phase[b]
    BY <2>1
  <2> QED
    BY <2>1, <2>2, <2>3, OnlyOneMoves
<1>7. ASSUME NEW a \in Actors, openFile(a)
      PROVE  FALSE
  BY <1>7 DEF openFile
<1>8. ASSUME NEW a \in Actors, saveState(a)
      PROVE  SerialInv' /\ Confirmed' /\ (Abstract!StoreNext \/ UNCHANGED file)
  <2>1. finish(a) /\ phase[a] # "idle"
    BY <1>8 DEF saveState
  <2> QED
    BY <1>8, <2>1, NobodyMoves, SaveIsStore
<1>9. ASSUME NEW a \in Actors, crash(a)
      PROVE  SerialInv' /\ UNCHANGED <<file, acked, setting>>
  BY <1>9, NobodyMoves DEF crash, outside, SerialInv
<1>10. CASE UNCHANGED vars
  <2>1. UNCHANGED <<file, phase, copy, request, running, acked, setting>>
    BY <1>10 DEF vars
  <2>2. SerialInv'
    BY <2>1 DEF SerialInv, Drains, refused, applied
  <2> QED
    BY <1>0, <2>1, <2>2
<1> QED
  BY <1>0, <1>1, <1>2, <1>3, <1>4, <1>5, <1>6, <1>7, <1>8, <1>9, <1>10 DEF Next

(* Nothing is under way and nothing confirmed at the start. *)
LEMMA InitSerial == Init => SerialInv /\ Confirmed /\ Abstract!StoreInit
<1> SUFFICES ASSUME Init PROVE SerialInv /\ Confirmed /\ Abstract!StoreInit
  OBVIOUS
<1>1. \A a \in Actors : phase[a] = "idle"
  BY DEF Init
<1>2. file = Abstract!EmptyStore /\ acked = {} /\ setting = FALSE
  BY DEF Init, emptyState
<1>3. SerialInv
  BY <1>1 DEF SerialInv
<1>4. file.paused = FALSE
  BY <1>2 DEF Abstract!EmptyStore
<1> QED
  BY <1>2, <1>3, <1>4 DEF Confirmed, AckedSurvive, PauseKept, Abstract!StoreInit

(* For any number of commands, tasks and attempts: while commands do not   *)
(* overlap and writes are not cut short, loading, changing, awaiting and   *)
(* saving in separate steps, with crashes in between, is one atomic change *)
(* of the store.                                                           *)
THEOREM FileImplementsStore ==
  ASSUME "overlap" \notin Hazards, "tornWrite" \notin Hazards
  PROVE  Spec => ImplementsStore
<1> DEFINE I == RealInv /\ SerialInv /\ Confirmed
<1>1. I /\ [Next]_vars => I' /\ [Abstract!StoreNext]_file
  BY NextReal, NextSerial
<1>2. Init => I /\ Abstract!StoreInit
  BY InitReal, InitSerial
<1> QED
  BY <1>1, <1>2, PTL DEF Spec, ImplementsStore, Abstract!StoreSpec

(* Under the same conditions a submission that was confirmed is never lost.*)
THEOREM ConfirmedTasksStay ==
  ASSUME "overlap" \notin Hazards, "tornWrite" \notin Hazards
  PROVE  Spec => []AckedSurvive
<1> DEFINE I == RealInv /\ SerialInv /\ Confirmed
<1>1. I /\ [Next]_vars => I'
  BY NextReal, NextSerial
<1>2. Init => I
  BY InitReal, InitSerial
<1>3. I => AckedSurvive
  BY DEF Confirmed
<1> QED
  BY <1>1, <1>2, <1>3, PTL DEF Spec

(* And the queue is paused exactly when the last confirmed pause or resume *)
(* says so, whatever drains were under way.                                *)
THEOREM ConfirmedPauseStays ==
  ASSUME "overlap" \notin Hazards, "tornWrite" \notin Hazards
  PROVE  Spec => []PauseKept
<1> DEFINE I == RealInv /\ SerialInv /\ Confirmed
<1>1. I /\ [Next]_vars => I'
  BY NextReal, NextSerial
<1>2. Init => I
  BY InitReal, InitSerial
<1>3. I => PauseKept
  BY DEF Confirmed
<1> QED
  BY <1>1, <1>2, <1>3, PTL DEF Spec
=============================================================================
