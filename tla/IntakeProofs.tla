------------------------------ MODULE IntakeProofs ------------------------------
(***************************************************************************)
(* Proofs of Intake's safety properties: the overrun of the budget, the    *)
(* open tasks of a manifest, what record, manifest and journal may tell of *)
(* a task, the tasks of a delivery, and the events that pass in the span   *)
(* of a window.  Each follows from an inductive invariant of its own over  *)
(* the one that is common, IntakeInv.                                      *)
(*                                                                         *)
(* The first part is lemmas about the operators of Intake: what a          *)
(* submission, a sync, an event, a claim, a lease that runs out and the    *)
(* end of a run make of the queue and of the budget ledger.  Those that go *)
(* over agents, manifests or leases are recursive functions: a recursion   *)
(* whose steps stay in a set has a solution there (RecursionExists), and   *)
(* what each of its steps keeps, the whole keeps (StaysIn), both by the    *)
(* least counterexample.                                                   *)
(***************************************************************************)
EXTENDS Intake, FiniteSetTheorems, SequenceTheorems, WellFoundedInduction, TLAPS

(* A set of natural numbers that is not empty has a least element.         *)
LEMMA LeastNatural ==
  ASSUME NEW T, T \subseteq Nat, T # {}
  PROVE  \E x \in T : \A y \in T : x <= y
<1> DEFINE R == {p \in Nat \X Nat : p[1] < p[2]}
<1>1. IsWellFoundedOn(R, Nat)
  BY NatLessThanWellFounded DEF OpToRel
<1>2. PICK x \in T : \A y \in T : ~(<<y, x>> \in R)
  BY <1>1, WFMin
<1>3. ASSUME NEW y \in T, y < x PROVE FALSE
  <2>1. <<y, x>> \in R
    BY <1>3
  <2> QED
    BY <1>2, <2>1
<1>4. \A y \in T : x <= y
  BY <1>3
<1> QED
  BY <1>4

(* What a recursion over 0..n keeps from one value to the next, it keeps.  *)
LEMMA StaysIn ==
  ASSUME NEW n \in Nat, NEW T, NEW f, f[0] \in T[0],
         \A k \in 1..n : f[k - 1] \in T[k - 1] => f[k] \in T[k]
  PROVE  \A k \in 0..n : f[k] \in T[k]
<1> DEFINE Wrong == {k \in Nat : k \in 0..n /\ f[k] \notin T[k]}
<1>1. ASSUME Wrong # {} PROVE FALSE
  <2>1. PICK k \in Wrong : \A j \in Wrong : k <= j
    BY <1>1, LeastNatural
  <2>2. k # 0
    BY <2>1
  <2>3. f[k - 1] \in T[k - 1] /\ k \in 1..n
    BY <2>1, <2>2
  <2> QED
    BY <2>1, <2>3
<1> QED
  BY <1>1

Steppers(n, S) == [1..n -> [S -> S]]

Recurs(f, n, S, base, g) ==
  f \in [0..n -> S] /\ f[0] = base /\ \A k \in 1..n : f[k] = g[k][f[k - 1]]

(* A recursion over 0..n whose steps stay in a set has a solution there.   *)
LEMMA RecursionExists ==
  ASSUME NEW n \in Nat, NEW S, NEW base \in S, NEW g \in Steppers(n, S)
  PROVE  \E f : Recurs(f, n, S, base, g)
<1> DEFINE Solves(f, m) == Recurs(f, m, S, base, g)
           Unsolved == {m \in Nat : m <= n /\ ~(\E f : Solves(f, m))}
<1>1. ASSUME Unsolved # {} PROVE FALSE
  <2>1. PICK m \in Unsolved : \A j \in Unsolved : m <= j
    BY <1>1, LeastNatural
  <2>2. m # 0
    <3>1. Solves([k \in 0..0 |-> base], 0)
      BY DEF Recurs
    <3> QED
      BY <2>1, <3>1
  <2>3. m \in 1..n /\ m - 1 \in Nat /\ m - 1 <= n /\ m - 1 \notin Unsolved
    <3>1. m \in Nat /\ m <= n
      BY <2>1
    <3> HIDE DEF Unsolved
    <3> QED
      BY <2>1, <2>2, <3>1
  <2>4. PICK f : Solves(f, m - 1)
    BY <2>3
  <2>5. PICK last : last = g[m][f[m - 1]]
    OBVIOUS
  <2>6. PICK h : h = [k \in 0..m |-> IF k = m THEN last ELSE f[k]]
    OBVIOUS
  <2>7. \A j \in 0..(m - 1) : h[j] = f[j] /\ f[j] \in S
    BY <2>3, <2>4, <2>6 DEF Recurs
  <2>8. last \in S
    <3>1. f[m - 1] \in S
      BY <2>3, <2>7
    <3> QED
      BY <2>3, <2>5, <3>1 DEF Steppers
  <2>9. ASSUME NEW k \in 1..m
        PROVE  h[k] = g[k][h[k - 1]]
    <3>1. k - 1 \in 0..(m - 1) /\ h[k - 1] = f[k - 1]
      BY <2>3, <2>7
    <3>2. CASE k = m
      BY <2>3, <2>5, <2>6, <3>1, <3>2
    <3>3. CASE k # m
      BY <2>3, <2>4, <2>7, <3>1, <3>3 DEF Recurs
    <3> QED
      BY <3>2, <3>3
  <2>10. h \in [0..m -> S] /\ h[0] = base
    BY <2>3, <2>4, <2>6, <2>7, <2>8 DEF Recurs
  <2>11. Solves(h, m)
    BY <2>9, <2>10 DEF Recurs
  <2> QED
    BY <2>1, <2>11
<1>2. n \notin Unsolved
  BY <1>1
<1> QED
  BY <1>2

----------------------------------------------------------------------------
(* Items.                                                                  *)

Keeps(it, new) ==
  /\ new \in QueuedTask
  /\ new.id = it.id /\ new.agent = it.agent /\ new.mode = it.mode

(* What the changes of an item leave of it.                                *)
LEMMA ItemChanges ==
  ASSUME NEW it \in QueuedTask
  PROVE  /\ /\ Keeps(it, charged(it))
            /\ charged(it).status = it.status /\ charged(it).attempts = it.attempts
            /\ charged(it).run = it.run /\ charged(it).alone = FALSE
         /\ /\ Keeps(it, halted(it))
            /\ halted(it).status = it.status /\ halted(it).attempts = it.attempts
            /\ halted(it).run = FALSE /\ halted(it).alone = it.alone
         /\ /\ Keeps(it, requeued(it))
            /\ requeued(it).status = "pending" /\ requeued(it).attempts = 0
            /\ requeued(it).run = it.run /\ requeued(it).alone = FALSE
         /\ it.attempts < MaxAttempts =>
              /\ Keeps(it, claimed(it))
              /\ claimed(it).status = "claimed" /\ claimed(it).attempts = it.attempts + 1
              /\ claimed(it).run = TRUE /\ claimed(it).alone = it.alone
<1> USE IntakeAssumption
<1>1. /\ it = [id |-> it.id, agent |-> it.agent, mode |-> it.mode, status |-> it.status,
               attempts |-> it.attempts, run |-> it.run, alone |-> it.alone]
      /\ it.id \in Ids /\ it.agent \in Agents /\ it.mode \in {"ui", "git", "webhook", "github"}
      /\ it.status \in {"pending", "claimed", "done", "failed", "dead"}
      /\ it.attempts \in 0..MaxAttempts /\ it.run \in BOOLEAN /\ it.alone \in BOOLEAN
  BY DEF QueuedTask
<1>2. charged(it) = [id |-> it.id, agent |-> it.agent, mode |-> it.mode, status |-> it.status,
                     attempts |-> it.attempts, run |-> it.run, alone |-> FALSE]
  <2>1. charged(it) = [it EXCEPT !.alone = FALSE]
    BY DEF charged
  <2> QED
    BY <1>1, <2>1
<1>3. halted(it) = [id |-> it.id, agent |-> it.agent, mode |-> it.mode, status |-> it.status,
                    attempts |-> it.attempts, run |-> FALSE, alone |-> it.alone]
  <2>1. halted(it) = [it EXCEPT !.run = FALSE]
    BY DEF halted
  <2> QED
    BY <1>1, <2>1
<1>4. requeued(it) = [id |-> it.id, agent |-> it.agent, mode |-> it.mode, status |-> "pending",
                      attempts |-> 0, run |-> it.run, alone |-> FALSE]
  <2>1. requeued(it) = [it EXCEPT !.status = "pending", !.attempts = 0, !.alone = FALSE]
    BY DEF requeued
  <2> QED
    BY <1>1, <2>1
<1>5. PICK n : n = it.attempts + 1
  OBVIOUS
<1>6. claimed(it) = [id |-> it.id, agent |-> it.agent, mode |-> it.mode, status |-> "claimed",
                     attempts |-> n, run |-> TRUE, alone |-> it.alone]
  <2>1. claimed(it) = [it EXCEPT !.status = "claimed", !.attempts = n, !.run = TRUE]
    BY <1>5 DEF claimed
  <2> QED
    BY <1>1, <2>1
<1>7. /\ Keeps(it, charged(it))
      /\ charged(it).status = it.status /\ charged(it).attempts = it.attempts
      /\ charged(it).run = it.run /\ charged(it).alone = FALSE
  BY <1>1, <1>2 DEF Keeps, QueuedTask
<1>8. /\ Keeps(it, halted(it))
      /\ halted(it).status = it.status /\ halted(it).attempts = it.attempts
      /\ halted(it).run = FALSE /\ halted(it).alone = it.alone
  BY <1>1, <1>3 DEF Keeps, QueuedTask
<1>9. /\ Keeps(it, requeued(it))
      /\ requeued(it).status = "pending" /\ requeued(it).attempts = 0
      /\ requeued(it).run = it.run /\ requeued(it).alone = FALSE
  BY <1>1, <1>4 DEF Keeps, QueuedTask
<1>10. ASSUME it.attempts < MaxAttempts
       PROVE  /\ Keeps(it, claimed(it))
              /\ claimed(it).status = "claimed" /\ claimed(it).attempts = it.attempts + 1
              /\ claimed(it).run = TRUE /\ claimed(it).alone = it.alone
  <2>1. n \in 0..MaxAttempts
    BY <1>1, <1>5, <1>10
  <2> QED
    BY <1>1, <1>5, <1>6, <2>1 DEF Keeps, QueuedTask
<1> QED
  BY <1>7, <1>8, <1>9, <1>10

(* An outcome settles an item: a failure leaves it to a retry or dead.     *)
LEMMA ItemFails ==
  ASSUME NEW it \in QueuedTask
  PROVE  LET new == settled(it, FALSE)
         IN  /\ Keeps(it, new) /\ new.attempts = it.attempts /\ new.run = it.run
             /\ new.alone => it.alone
             /\ \/ new.status = "pending" /\ it.attempts > 0 /\ it.attempts < MaxAttempts
                \/ new.status = "dead" /\ new.alone = FALSE /\ it.attempts \in {0, MaxAttempts}
<1> DEFINE retry == it.attempts > 0 /\ it.attempts < MaxAttempts
<1>1. /\ it = [id |-> it.id, agent |-> it.agent, mode |-> it.mode, status |-> it.status,
               attempts |-> it.attempts, run |-> it.run, alone |-> it.alone]
      /\ it.id \in Ids /\ it.agent \in Agents /\ it.mode \in {"ui", "git", "webhook", "github"}
      /\ it.attempts \in 0..MaxAttempts /\ it.run \in BOOLEAN /\ it.alone \in BOOLEAN
  BY DEF QueuedTask
<1>2. PICK st : st = IF retry THEN "pending" ELSE "dead"
  OBVIOUS
<1>3. PICK b \in BOOLEAN : b = (it.alone /\ retry)
  BY <1>1
<1>4. settled(it, FALSE) = [it EXCEPT !.status = st, !.alone = b]
  BY <1>2, <1>3 DEF settled
<1>5. settled(it, FALSE) = [id |-> it.id, agent |-> it.agent, mode |-> it.mode, status |-> st,
                            attempts |-> it.attempts, run |-> it.run, alone |-> b]
  BY <1>1, <1>4
<1>6. st \in {"pending", "claimed", "done", "failed", "dead"}
  BY <1>2
<1>7. ~retry => it.attempts \in {0, MaxAttempts}
  BY <1>1, IntakeAssumption
<1>8. PICK new : new = settled(it, FALSE)
  OBVIOUS
<1>10. new = [id |-> it.id, agent |-> it.agent, mode |-> it.mode, status |-> st,
             attempts |-> it.attempts, run |-> it.run, alone |-> b]
  BY <1>5, <1>8
<1>11. new \in QueuedTask
  BY <1>1, <1>3, <1>6, <1>10 DEF QueuedTask
<1>12. /\ Keeps(it, new) /\ new.attempts = it.attempts /\ new.run = it.run
       /\ new.status = st /\ new.alone = b
  BY <1>10, <1>11 DEF Keeps
<1>9. (retry /\ st = "pending") \/ (~retry /\ st = "dead" /\ b = FALSE)
  BY <1>2, <1>3
<1> QED
  BY <1>3, <1>7, <1>8, <1>9, <1>12

(* A success settles it as done, and nothing else of it changes.           *)
LEMMA ItemSucceeds ==
  ASSUME NEW it \in QueuedTask
  PROVE  LET new == settled(it, TRUE)
         IN  /\ Keeps(it, new) /\ new.attempts = it.attempts /\ new.run = it.run
             /\ new.status = "done" /\ new.alone = it.alone
<1>1. /\ it = [id |-> it.id, agent |-> it.agent, mode |-> it.mode, status |-> it.status,
               attempts |-> it.attempts, run |-> it.run, alone |-> it.alone]
      /\ it.id \in Ids /\ it.agent \in Agents /\ it.mode \in {"ui", "git", "webhook", "github"}
      /\ it.attempts \in 0..MaxAttempts /\ it.run \in BOOLEAN /\ it.alone \in BOOLEAN
  BY DEF QueuedTask
<1>2. PICK b \in BOOLEAN : b = it.alone
  BY <1>1
<1>3. settled(it, TRUE) = [it EXCEPT !.status = "done", !.alone = b]
  BY <1>2 DEF settled
<1>4. settled(it, TRUE) = [id |-> it.id, agent |-> it.agent, mode |-> it.mode, status |-> "done",
                           attempts |-> it.attempts, run |-> it.run, alone |-> b]
  BY <1>1, <1>3
<1>5. PICK new : new = settled(it, TRUE)
  OBVIOUS
<1>6. new = [id |-> it.id, agent |-> it.agent, mode |-> it.mode, status |-> "done",
             attempts |-> it.attempts, run |-> it.run, alone |-> b]
  BY <1>4, <1>5
<1>7. new \in QueuedTask
  BY <1>1, <1>2, <1>6 DEF QueuedTask
<1>8. /\ Keeps(it, new) /\ new.attempts = it.attempts /\ new.run = it.run
      /\ new.status = "done" /\ new.alone = it.alone
  BY <1>2, <1>6, <1>7 DEF Keeps
<1> QED
  BY <1>5, <1>8

----------------------------------------------------------------------------
(* Queues.                                                                 *)

(* Writing an item of a queue leaves its other items alone.                *)
LEMMA WriteItem ==
  ASSUME NEW q \in Seq(QueuedTask), NEW k \in DOMAIN q, NEW it \in QueuedTask
  PROVE  /\ [q EXCEPT ![k] = it] \in Seq(QueuedTask)
         /\ DOMAIN [q EXCEPT ![k] = it] = DOMAIN q
         /\ \A i \in DOMAIN q : [q EXCEPT ![k] = it][i] = IF i = k THEN it ELSE q[i]
<1>1. k \in 1..Len(q) /\ DOMAIN q = 1..Len(q)
  BY LenProperties
<1> QED
  BY <1>1, ExceptSeq, LenProperties

(* A queue grows at its end.                                               *)
LEMMA AppendItem ==
  ASSUME NEW q \in Seq(QueuedTask), NEW it \in QueuedTask
  PROVE  /\ Append(q, it) \in Seq(QueuedTask)
         /\ Len(q) \in Nat /\ DOMAIN q = 1..Len(q)
         /\ DOMAIN Append(q, it) = 1..(Len(q) + 1)
         /\ Len(Append(q, it)) = Len(q) + 1
         /\ \A i \in 1..Len(q) : Append(q, it)[i] = q[i]
         /\ Append(q, it)[Len(q) + 1] = it
BY AppendProperties, LenProperties

(* What is in the queue is an item.                                        *)
LEMMA InQueue ==
  ASSUME NEW q \in Seq(QueuedTask), NEW i \in DOMAIN q
  PROVE  q[i] \in QueuedTask /\ q[i].agent \in Agents
<1>1. q[i] \in QueuedTask
  BY LenProperties
<1> QED
  BY <1>1 DEF QueuedTask

(* The lookup by id finds an item with the id.                             *)
LEMMA FirstFinds ==
  ASSUME NEW q \in Seq(QueuedTask), NEW id, NEW k \in DOMAIN q, q[k].id = id
  PROVE  firstOf(q, id) \in DOMAIN q /\ q[firstOf(q, id)].id = id
<1> DEFINE T == withId(q, id, anyStatus)
<1>1. T \subseteq Nat
  BY LenProperties DEF withId
<1>2. q[k] \in QueuedTask
  BY LenProperties
<1>3. k \in T
  BY <1>2 DEF withId, anyStatus, QueuedTask
<1>4. PICK i \in T : \A j \in T : i <= j
  BY <1>1, <1>3, LeastNatural
<1>5. firstOf(q, id) \in T
  BY <1>4 DEF firstOf, Min
<1> QED
  BY <1>5 DEF withId

----------------------------------------------------------------------------
(* Queue and ledger.                                                       *)

Core == [queue : Seq(QueuedTask), ledger : [age : 0..BudgetWindow, units : Nat], crowded : Nat]

(* A state of queue and ledger that charges at most what an item costs:    *)
(* units and crowded grow together, but for the item that came in alone.   *)
Overlap(s) ==
  limited =>
    /\ s.ledger.units <= activeBudgetPolicy + s.crowded
    /\ \A i \in DOMAIN s.queue : s.queue[i].alone =>
         /\ s.queue[i].status \in {"pending", "claimed"}
         /\ UnitCost[s.queue[i].agent] <= activeBudgetPolicy
         /\ s.ledger.units + UnitCost[s.queue[i].agent] <= activeBudgetPolicy + s.crowded
         /\ \A j \in DOMAIN s.queue : s.queue[j].alone => j = i

(* The least of some numbers is a number.                                  *)
LEMMA LeastIsNat ==
  ASSUME NEW B \in SUBSET (Nat \ {0}), B # {}
  PROVE  Min(B) \in Nat
<1>1. PICK x \in B : \A y \in B : x <= y
  BY LeastNatural
<1> QED
  BY <1>1 DEF Min

(* The cap in force is one of the policies', and every task costs some.    *)
LEMMA ActivePolicy ==
  ASSUME prices \in Prices
  PROVE  /\ limited => activeBudgetPolicy \in Nat
         /\ UnitCost \in [Agents -> Nat \ {0}]
<1>1. UnitCost \in [Agents -> Nat \ {0}] /\ BudgetPolicies \in SUBSET (Nat \ {0})
  BY IntakeAssumption DEF UnitCost, BudgetPolicies
<1> QED
  BY <1>1, LeastIsNat DEF limited, activeBudgetPolicy

(* Rolling the window takes both counts back or leaves both.               *)
LEMMA WindowRolls ==
  ASSUME NEW s \in Core
  PROVE  /\ budgetStatus(s) \in Core /\ budgetStatus(s).queue = s.queue
         /\ \/ budgetStatus(s).ledger.units = s.ledger.units /\ budgetStatus(s).crowded = s.crowded
            \/ budgetStatus(s).ledger.units = 0 /\ budgetStatus(s).crowded = 0
<1>1. /\ s = [queue |-> s.queue, ledger |-> s.ledger, crowded |-> s.crowded]
      /\ s.queue \in Seq(QueuedTask) /\ s.ledger \in [age : 0..BudgetWindow, units : Nat]
      /\ s.crowded \in Nat
  BY DEF Core
<1>2. PICK l : l = rollWindow(s.ledger)
  OBVIOUS
<1>3. PICK c : c = IF s.ledger.age >= BudgetWindow THEN 0 ELSE s.crowded
  OBVIOUS
<1>4. /\ l \in [age : 0..BudgetWindow, units : Nat] /\ c \in Nat
      /\ (l.units = s.ledger.units /\ c = s.crowded) \/ (l.units = 0 /\ c = 0)
  BY <1>1, <1>2, <1>3, IntakeAssumption DEF rollWindow
<1>5. CASE limited
  <2>1. budgetStatus(s) = [s EXCEPT !.ledger = l, !.crowded = c]
    BY <1>2, <1>3, <1>5 DEF budgetStatus
  <2>2. budgetStatus(s) = [queue |-> s.queue, ledger |-> l, crowded |-> c]
    BY <1>1, <2>1
  <2> QED
    BY <1>1, <1>4, <2>2 DEF Core
<1>6. CASE ~limited
  BY <1>6 DEF budgetStatus
<1> QED
  BY <1>5, <1>6

(* A submission leaves the queue or adds an item to it.                    *)
Submits(s, r, id, a) ==
  \E it \in QueuedTask :
    /\ r.queue = Append(s.queue, it) /\ it.id = id /\ it.agent = a
    /\ it.attempts = 0 /\ it.run = FALSE /\ it.status \in {"pending", "failed"}

(* A submission keeps the charges within what overlapping tasks explain.   *)
LEMMA EnqueueAppends ==
  ASSUME prices \in Prices, NEW s \in Core, NEW id \in Ids, NEW a \in Agents,
         NEW mode \in {"ui", "git", "webhook", "github"}
  PROVE  LET r == enqueueTask(s, id, a, mode)
         IN  /\ r \in Core
             /\ r = s \/ Submits(s, r, id, a)
             /\ Overlap(s) => Overlap(r)
<1> DEFINE r == enqueueTask(s, id, a, mode)
<1>1. CASE withId(s.queue, id, {"pending"}) # {}
  BY <1>1 DEF enqueueTask
<1>2. CASE ~(withId(s.queue, id, {"pending"}) # {})
  <2>1. PICK now : now = budgetStatus(s)
    OBVIOUS
  <2>2. PICK admitted \in BOOLEAN : admitted = admitTask(now, a)
    BY DEF admitTask, admitBudget
  <2>3. PICK alone \in BOOLEAN : alone = ~\E i \in DOMAIN s.queue : isOpen(s.queue[i])
    OBVIOUS
  <2>4. PICK it : it = submitted(id, a, mode, admitted, alone)
    OBVIOUS
  <2>5. r = [now EXCEPT !.queue = Append(@, it)]
    BY <1>2, <2>1, <2>2, <2>3, <2>4 DEF enqueueTask
  <2>6. /\ it \in QueuedTask /\ it.id = id /\ it.agent = a /\ it.attempts = 0
        /\ it.run = FALSE /\ (it.alone => admitted /\ alone)
        /\ it.status = IF admitted THEN "pending" ELSE "failed"
    <3>1. PICK b \in BOOLEAN : b = (admitted /\ alone)
      OBVIOUS
    <3>2. PICK st : st = IF admitted THEN "pending" ELSE "failed"
      OBVIOUS
    <3>3. it = [id |-> id, agent |-> a, mode |-> mode, status |-> st, attempts |-> 0,
                run |-> FALSE, alone |-> b]
      BY <2>4, <3>1, <3>2 DEF submitted
    <3>4. st \in {"pending", "claimed", "done", "failed", "dead"} /\ 0 \in 0..MaxAttempts
      BY <3>2, IntakeAssumption
    <3>5. it \in QueuedTask
      BY <3>1, <3>3, <3>4 DEF QueuedTask
    <3> QED
      BY <3>1, <3>2, <3>3, <3>5
  <2>7. /\ now \in Core /\ now.queue = s.queue
        /\ \/ now.ledger.units = s.ledger.units /\ now.crowded = s.crowded
           \/ now.ledger.units = 0 /\ now.crowded = 0
    BY <2>1, WindowRolls
  <2>8. /\ now = [queue |-> s.queue, ledger |-> now.ledger, crowded |-> now.crowded]
        /\ s.queue \in Seq(QueuedTask) /\ now.crowded \in Nat /\ now.ledger.units \in Nat
        /\ now.ledger \in [age : 0..BudgetWindow, units : Nat]
        /\ s.crowded \in Nat /\ s.ledger.units \in Nat
    BY <2>7 DEF Core
  <2>9. PICK q : q = Append(s.queue, it)
    OBVIOUS
  <2>10. r = [queue |-> q, ledger |-> now.ledger, crowded |-> now.crowded]
    <3>1. PICK l, c : l = now.ledger /\ c = now.crowded
      OBVIOUS
    <3>2. now = [queue |-> s.queue, ledger |-> l, crowded |-> c]
      BY <2>8, <3>1
    <3>3. r = [now EXCEPT !.queue = q]
      BY <2>5, <2>7, <2>9
    <3> QED
      BY <3>1, <3>2, <3>3
  <2>11. /\ q \in Seq(QueuedTask) /\ Len(s.queue) \in Nat /\ DOMAIN s.queue = 1..Len(s.queue)
         /\ DOMAIN q = 1..(Len(s.queue) + 1) /\ q[Len(s.queue) + 1] = it
         /\ \A i \in DOMAIN s.queue : q[i] = s.queue[i]
    BY <2>6, <2>8, <2>9, AppendItem
  <2>12. r \in Core
    BY <2>8, <2>10, <2>11 DEF Core
  <2>13. Submits(s, r, id, a)
    BY <2>6, <2>9, <2>10 DEF Submits
  <2>14. ASSUME Overlap(s), limited
         PROVE  Overlap(r)
    <3>1. activeBudgetPolicy \in Nat
      BY <2>14, ActivePolicy
    <3>2. \A b \in Agents : UnitCost[b] \in Nat
      BY ActivePolicy
    <3>3. now.ledger.units <= activeBudgetPolicy + now.crowded
      BY <2>7, <2>8, <2>14, <3>1 DEF Overlap
    <3>4. it.alone => /\ admitted /\ now.ledger.units + UnitCost[a] <= activeBudgetPolicy
      BY <2>2, <2>6, <2>14 DEF admitTask, admitBudget, estimateTaskUnits
    <3>5. \A i \in DOMAIN s.queue : s.queue[i] \in QueuedTask /\ s.queue[i].agent \in Agents
      BY <2>8, InQueue
    <3>6. \A i \in DOMAIN s.queue : s.queue[i].alone =>
            /\ s.queue[i].status \in {"pending", "claimed"}
            /\ UnitCost[s.queue[i].agent] <= activeBudgetPolicy
            /\ now.ledger.units + UnitCost[s.queue[i].agent] <= activeBudgetPolicy + now.crowded
            /\ \A j \in DOMAIN s.queue : s.queue[j].alone => j = i
      BY <2>7, <2>8, <2>14, <3>1, <3>2, <3>5 DEF Overlap
    <3>7. it.alone => \A i \in DOMAIN s.queue : ~s.queue[i].alone
      BY <2>3, <2>6, <3>6 DEF isOpen
    <3>8. it.alone => /\ it.status = "pending" /\ UnitCost[it.agent] <= activeBudgetPolicy
                      /\ now.ledger.units + UnitCost[it.agent] <= activeBudgetPolicy + now.crowded
      BY <2>6, <2>8, <3>1, <3>2, <3>4
    <3>9. \A i \in DOMAIN q : i \in DOMAIN s.queue \/ i = Len(s.queue) + 1
      BY <2>11
    <3>10. \A i \in DOMAIN q : q[i].alone =>
            /\ q[i].status \in {"pending", "claimed"}
            /\ UnitCost[q[i].agent] <= activeBudgetPolicy
            /\ now.ledger.units + UnitCost[q[i].agent] <= activeBudgetPolicy + now.crowded
            /\ \A j \in DOMAIN q : q[j].alone => j = i
      BY <2>11, <3>6, <3>7, <3>8, <3>9
    <3> QED
      BY <2>10, <3>3, <3>10 DEF Overlap
  <2> QED
    BY <2>12, <2>13, <2>14 DEF Overlap
<1> QED
  BY <1>1, <1>2
(* Items that are alone still, and open still, are what they were.         *)
LEMMA OverlapStays ==
  ASSUME NEW s \in Core, NEW r \in Core, Overlap(s),
         r.ledger.units = s.ledger.units, r.crowded = s.crowded,
         DOMAIN r.queue = DOMAIN s.queue,
         \A i \in DOMAIN s.queue :
           /\ r.queue[i].agent = s.queue[i].agent
           /\ r.queue[i].alone => /\ s.queue[i].alone
                                  /\ r.queue[i].status \in {"pending", "claimed"}
  PROVE  Overlap(r)
BY DEF Overlap

(* The state after an outcome, but for the charge.                         *)
LEMMA OutcomeWrites ==
  ASSUME NEW s \in Core, NEW i \in DOMAIN s.queue, NEW it \in QueuedTask,
         NEW q, q = [s.queue EXCEPT ![i] = it], NEW ended, ended = [s EXCEPT !.queue = q]
  PROVE  /\ ended \in Core /\ DOMAIN ended.queue = DOMAIN s.queue
         /\ \A j \in DOMAIN s.queue : j # i => ended.queue[j] = s.queue[j]
         /\ ended.queue[i] = it
         /\ ended.ledger = s.ledger /\ ended.crowded = s.crowded
<1>1. /\ s = [queue |-> s.queue, ledger |-> s.ledger, crowded |-> s.crowded]
      /\ s.queue \in Seq(QueuedTask) /\ s.ledger \in [age : 0..BudgetWindow, units : Nat]
      /\ s.crowded \in Nat
  BY DEF Core
<1>2. PICK l : l = s.ledger
  OBVIOUS
<1>3. PICK c : c = s.crowded
  OBVIOUS
<1>4. s = [queue |-> s.queue, ledger |-> l, crowded |-> c]
  BY <1>1, <1>2, <1>3
<1>5. ended = [queue |-> q, ledger |-> l, crowded |-> c]
  BY <1>4
<1>6. /\ q \in Seq(QueuedTask) /\ DOMAIN q = DOMAIN s.queue
      /\ \A j \in DOMAIN s.queue : q[j] = IF j = i THEN it ELSE s.queue[j]
  BY <1>1, WriteItem
<1>7. ended \in Core
  BY <1>1, <1>2, <1>3, <1>5, <1>6 DEF Core
<1> QED
  BY <1>2, <1>3, <1>5, <1>6, <1>7

(* A charge adds what the item costs, to crowded unless it came in alone.  *)
Charged(s, i, r) ==
  \E units \in Nat, crowd \in Nat :
    /\ (units = s.ledger.units /\ crowd = s.crowded) \/ (units = 0 /\ crowd = 0)
    /\ r \in Core /\ DOMAIN r.queue = DOMAIN s.queue
    /\ \A j \in DOMAIN s.queue : j # i => r.queue[j] = s.queue[j]
    /\ r.queue[i] = charged(s.queue[i])
    /\ r.ledger.units = units + UnitCost[s.queue[i].agent]
    /\ r.crowded = IF s.queue[i].alone THEN crowd ELSE crowd + UnitCost[s.queue[i].agent]

(* That is what charging does.                                             *)
LEMMA ChargeWrites ==
  ASSUME prices \in Prices, NEW s \in Core, NEW i \in DOMAIN s.queue, limited,
         NEW r, r = chargeBudget(s, i)
  PROVE  Charged(s, i, r)
<1>1. /\ s.queue \in Seq(QueuedTask) /\ s.crowded \in Nat /\ s.ledger.units \in Nat
  BY DEF Core
<1>2. s.queue[i] \in QueuedTask /\ s.queue[i].agent \in Agents
  BY <1>1, InQueue
<1>3. PICK cost \in Nat : cost = UnitCost[s.queue[i].agent]
  BY <1>2, ActivePolicy
<1>4. PICK rolled : rolled = budgetStatus(s)
  OBVIOUS
<1>5. /\ rolled \in Core /\ rolled.queue = s.queue
      /\ \/ rolled.ledger.units = s.ledger.units /\ rolled.crowded = s.crowded
         \/ rolled.ledger.units = 0 /\ rolled.crowded = 0
  BY <1>4, WindowRolls
<1>6. PICK units \in Nat : units = rolled.ledger.units
  BY <1>5 DEF Core
<1>7. PICK crowd \in Nat : crowd = rolled.crowded
  BY <1>5 DEF Core
<1>8. PICK age \in 0..BudgetWindow : age = rolled.ledger.age
  BY <1>5 DEF Core
<1>9. PICK it : it = charged(s.queue[i])
  OBVIOUS
<1>10. PICK q : q = [s.queue EXCEPT ![i] = it]
  OBVIOUS
<1>11. PICK c : c = IF s.queue[i].alone THEN crowd ELSE crowd + cost
  OBVIOUS
<1>12. r = [queue |-> q, ledger |-> [age |-> age, units |-> units + cost], crowded |-> c]
  BY <1>3, <1>4, <1>6, <1>7, <1>8, <1>9, <1>10, <1>11 DEF chargeBudget, estimateTaskUnits
<1>13. it \in QueuedTask
  BY <1>2, <1>9, ItemChanges DEF Keeps
<1>14. /\ q \in Seq(QueuedTask) /\ DOMAIN q = DOMAIN s.queue
       /\ \A j \in DOMAIN s.queue : q[j] = IF j = i THEN it ELSE s.queue[j]
  BY <1>1, <1>10, <1>13, WriteItem
<1>15. r \in Core
  <2>1. c \in Nat /\ units + cost \in Nat
    BY <1>3, <1>6, <1>7, <1>11
  <2>2. age \in 0..BudgetWindow
    BY <1>8
  <2> QED
    BY <1>12, <1>14, <2>1, <2>2 DEF Core
<1>16. r.queue = q /\ r.ledger.units = units + cost /\ r.crowded = c
  BY <1>12
<1>17. (units = s.ledger.units /\ crowd = s.crowded) \/ (units = 0 /\ crowd = 0)
  BY <1>5, <1>6, <1>7
<1>18. /\ DOMAIN r.queue = DOMAIN s.queue /\ r.queue[i] = charged(s.queue[i])
       /\ \A j \in DOMAIN s.queue : j # i => r.queue[j] = s.queue[j]
  BY <1>9, <1>14, <1>16
<1>19. /\ r.ledger.units = units + UnitCost[s.queue[i].agent]
       /\ r.crowded = IF s.queue[i].alone THEN crowd ELSE crowd + UnitCost[s.queue[i].agent]
  BY <1>3, <1>11, <1>16
<1> QED
  BY <1>15, <1>17, <1>18, <1>19 DEF Charged

(* An outcome settles one item of its id and leaves the others.            *)
Settles(s, r, id) ==
  /\ DOMAIN r.queue = DOMAIN s.queue
  /\ firstOf(s.queue, id) \in DOMAIN s.queue /\ s.queue[firstOf(s.queue, id)].id = id
  /\ \A j \in DOMAIN s.queue : j # firstOf(s.queue, id) => r.queue[j] = s.queue[j]
  /\ \E it, new \in QueuedTask :
       /\ it = s.queue[firstOf(s.queue, id)] /\ new = r.queue[firstOf(s.queue, id)]
       /\ Keeps(it, new) /\ new.attempts = it.attempts /\ new.run = it.run

(* The item is done, or waits for a retry, or is dead.                     *)
Succeeds(s, r, id) ==
  Settles(s, r, id) /\ r.queue[firstOf(s.queue, id)].status = "done"

Fails(s, r, id) ==
  /\ Settles(s, r, id)
  /\ LET new == r.queue[firstOf(s.queue, id)]
     IN  \/ new.status = "pending" /\ new.attempts > 0 /\ new.attempts < MaxAttempts
         \/ new.status = "dead" /\ new.attempts \in {0, MaxAttempts}

(* A failure settles the first item of its id, and charges nothing.        *)
LEMMA FailureSettles ==
  ASSUME NEW s \in Core, NEW id, NEW k \in DOMAIN s.queue, s.queue[k].id = id
  PROVE  LET r == completeQueued(s, id, FALSE)
         IN  r \in Core /\ Fails(s, r, id) /\ (Overlap(s) => Overlap(r))
<1>1. PICK i : i = firstOf(s.queue, id)
  OBVIOUS
<1>2. PICK new : new = settled(s.queue[i], FALSE)
  OBVIOUS
<1>3. PICK q : q = [s.queue EXCEPT ![i] = new]
  OBVIOUS
<1>4. PICK r : r = [s EXCEPT !.queue = q]
  OBVIOUS
<1>5. completeQueued(s, id, FALSE) = r
  BY <1>1, <1>2, <1>3, <1>4 DEF completeQueued
<1>6. i \in DOMAIN s.queue /\ s.queue[i].id = id
  BY <1>1, FirstFinds DEF Core
<1>7. PICK it \in QueuedTask : it = s.queue[i]
  BY <1>6, InQueue DEF Core
<1>8. /\ Keeps(it, new) /\ new.attempts = it.attempts /\ new.run = it.run
      /\ new.alone => it.alone
      /\ \/ new.status = "pending" /\ it.attempts > 0 /\ it.attempts < MaxAttempts
         \/ new.status = "dead" /\ new.alone = FALSE /\ it.attempts \in {0, MaxAttempts}
  BY <1>2, <1>7, ItemFails
<1>9. new \in QueuedTask
  BY <1>8 DEF Keeps
<1>10. /\ r \in Core /\ DOMAIN r.queue = DOMAIN s.queue
       /\ \A j \in DOMAIN s.queue : j # i => r.queue[j] = s.queue[j]
       /\ r.queue[i] = new
       /\ r.ledger = s.ledger /\ r.crowded = s.crowded
  BY <1>3, <1>4, <1>6, <1>9, OutcomeWrites
<1>11. Settles(s, r, id)
  BY <1>1, <1>6, <1>7, <1>8, <1>9, <1>10 DEF Settles
<1>12. Fails(s, r, id)
  BY <1>1, <1>8, <1>10, <1>11 DEF Fails
<1>13. ASSUME Overlap(s), limited
       PROVE  Overlap(r)
  <2>1. \A j \in DOMAIN s.queue : s.queue[j].alone => s.queue[j].status \in {"pending", "claimed"}
    BY <1>13 DEF Overlap
  <2>2. ASSUME NEW j \in DOMAIN s.queue
        PROVE  /\ r.queue[j].agent = s.queue[j].agent
               /\ r.queue[j].alone => /\ s.queue[j].alone
                                      /\ r.queue[j].status \in {"pending", "claimed"}
    BY <1>7, <1>8, <1>10, <2>1 DEF Keeps
  <2>3. r.ledger.units = s.ledger.units
    BY <1>10
  <2> QED
    BY <1>10, <1>13, <2>2, <2>3, OverlapStays
<1>14. Overlap(s) => Overlap(r)
  BY <1>13 DEF Overlap
<1> QED
  BY <1>5, <1>10, <1>12, <1>14

(* A success settles it as done, and its charge keeps the budget.          *)
LEMMA SuccessSettles ==
  ASSUME prices \in Prices, NEW s \in Core, NEW id, NEW k \in DOMAIN s.queue, s.queue[k].id = id
  PROVE  LET r == completeQueued(s, id, TRUE)
         IN  r \in Core /\ Succeeds(s, r, id) /\ (Overlap(s) => Overlap(r))
<1>1. PICK i : i = firstOf(s.queue, id)
  OBVIOUS
<1>2. PICK mid : mid = settled(s.queue[i], TRUE)
  OBVIOUS
<1>3. PICK q : q = [s.queue EXCEPT ![i] = mid]
  OBVIOUS
<1>4. PICK ended : ended = [s EXCEPT !.queue = q]
  OBVIOUS
<1>5. completeQueued(s, id, TRUE) = chargeBudget(ended, i)
  BY <1>1, <1>2, <1>3, <1>4 DEF completeQueued
<1>6. i \in DOMAIN s.queue /\ s.queue[i].id = id
  BY <1>1, FirstFinds DEF Core
<1>7. PICK it \in QueuedTask : it = s.queue[i]
  BY <1>6, InQueue DEF Core
<1>8. /\ Keeps(it, mid) /\ mid.attempts = it.attempts /\ mid.run = it.run
      /\ mid.status = "done" /\ mid.alone = it.alone
  BY <1>2, <1>7, ItemSucceeds
<1>9. mid \in QueuedTask
  BY <1>8 DEF Keeps
<1>10. /\ ended \in Core /\ DOMAIN ended.queue = DOMAIN s.queue
       /\ \A j \in DOMAIN s.queue : j # i => ended.queue[j] = s.queue[j]
       /\ ended.queue[i] = mid
       /\ ended.ledger = s.ledger /\ ended.crowded = s.crowded
  BY <1>3, <1>4, <1>6, <1>9, OutcomeWrites
<1>11. PICK r : r = chargeBudget(ended, i)
  OBVIOUS
<1>12. CASE ~limited
  <2>1. r = ended
    BY <1>11, <1>12 DEF chargeBudget
  <2>2. Settles(s, r, id)
    BY <1>1, <1>6, <1>7, <1>8, <1>9, <1>10, <2>1 DEF Settles
  <2>3. Succeeds(s, r, id)
    BY <1>1, <1>8, <1>10, <2>1, <2>2 DEF Succeeds
  <2>4. Overlap(r)
    BY <1>12 DEF Overlap
  <2> QED
    BY <1>5, <1>10, <1>11, <2>1, <2>3, <2>4
<1>13. CASE limited
  <2>1. i \in DOMAIN ended.queue
    BY <1>6, <1>10
  <2>2. PICK units \in Nat, crowd \in Nat :
          /\ (units = ended.ledger.units /\ crowd = ended.crowded) \/ (units = 0 /\ crowd = 0)
          /\ r \in Core /\ DOMAIN r.queue = DOMAIN ended.queue
          /\ \A j \in DOMAIN ended.queue : j # i => r.queue[j] = ended.queue[j]
          /\ r.queue[i] = charged(ended.queue[i])
          /\ r.ledger.units = units + UnitCost[ended.queue[i].agent]
          /\ r.crowded = IF ended.queue[i].alone THEN crowd
                         ELSE crowd + UnitCost[ended.queue[i].agent]
    <3>1. Charged(ended, i, r)
      BY <1>10, <1>11, <1>13, <2>1, ChargeWrites
    <3> QED
      BY <3>1 DEF Charged
  <2>3. PICK new : new = charged(mid)
    OBVIOUS
  <2>4. /\ Keeps(mid, new) /\ new.status = mid.status
        /\ new.attempts = mid.attempts /\ new.run = mid.run /\ new.alone = FALSE
    BY <1>9, <2>3, ItemChanges
  <2>5. Keeps(it, new) /\ new \in QueuedTask /\ new.attempts = it.attempts /\ new.run = it.run
    BY <1>8, <2>4 DEF Keeps
  <2>6. r.queue[i] = new
    BY <1>10, <2>2, <2>3
  <2>7. DOMAIN r.queue = DOMAIN s.queue /\ \A j \in DOMAIN s.queue : j # i => r.queue[j] = s.queue[j]
    BY <1>10, <2>2
  <2>8. Settles(s, r, id)
    BY <1>1, <1>6, <1>7, <2>5, <2>6, <2>7 DEF Settles
  <2>9. Succeeds(s, r, id)
    BY <1>1, <1>8, <2>4, <2>6, <2>8 DEF Succeeds
  <2>10. ASSUME Overlap(s)
         PROVE  Overlap(r)
    <3>1. PICK cap \in Nat : cap = activeBudgetPolicy
      BY <1>13, ActivePolicy
    <3>2. PICK cost \in Nat : cost = UnitCost[it.agent]
      BY <1>7, ActivePolicy DEF QueuedTask
    <3>3. \A j \in DOMAIN s.queue : UnitCost[s.queue[j].agent] \in Nat
      BY InQueue, ActivePolicy DEF Core
    <3>4. PICK u \in Nat : u = s.ledger.units
      BY DEF Core
    <3>5. PICK c \in Nat : c = s.crowded
      BY DEF Core
    <3>6. (units = u /\ crowd = c) \/ (units = 0 /\ crowd = 0)
      BY <1>10, <2>2, <3>4, <3>5
    <3>7. r.ledger.units = units + cost /\ r.crowded = IF it.alone THEN crowd ELSE crowd + cost
      BY <1>8, <1>10, <2>2, <3>2 DEF Keeps
    <3>8. /\ u <= cap + c
          /\ \A j \in DOMAIN s.queue : s.queue[j].alone =>
               /\ s.queue[j].status \in {"pending", "claimed"}
               /\ UnitCost[s.queue[j].agent] <= cap
               /\ u + UnitCost[s.queue[j].agent] <= cap + c
               /\ \A n \in DOMAIN s.queue : s.queue[n].alone => n = j
      BY <1>13, <2>10, <3>1, <3>4, <3>5 DEF Overlap
    <3>9. r.ledger.units <= cap + r.crowded
      <4>1. CASE it.alone
        <5>1. cost <= cap /\ u + cost <= cap + c
          BY <1>6, <1>7, <3>2, <3>8, <4>1
        <5>2. units + cost <= cap + crowd
          BY <3>6, <5>1
        <5> QED
          BY <3>7, <4>1, <5>2
      <4>2. CASE ~it.alone
        <5>1. units + cost <= cap + (crowd + cost)
          BY <3>6, <3>8
        <5> QED
          BY <3>7, <4>2, <5>1
      <4> QED
        BY <4>1, <4>2
    <3>10. ASSUME NEW j \in DOMAIN s.queue, r.queue[j].alone
          PROVE  /\ r.queue[j].status \in {"pending", "claimed"}
                 /\ UnitCost[r.queue[j].agent] <= cap
                 /\ r.ledger.units + UnitCost[r.queue[j].agent] <= cap + r.crowded
                 /\ \A n \in DOMAIN s.queue : r.queue[n].alone => n = j
      <4>1. j # i
        BY <2>4, <2>6, <3>10
      <4>2. r.queue[j] = s.queue[j] /\ s.queue[j].alone
        BY <2>7, <3>10, <4>1
      <4>3. ~it.alone
        BY <1>6, <1>7, <3>8, <4>1, <4>2
      <4>4. PICK other \in Nat : other = UnitCost[s.queue[j].agent]
        BY <3>3
      <4>5. other <= cap /\ u + other <= cap + c
        BY <3>8, <4>2, <4>4
      <4>6. (units + cost) + other <= cap + (crowd + cost)
        BY <3>6, <4>5
      <4>7. r.ledger.units + other <= cap + r.crowded
        BY <3>7, <4>3, <4>6
      <4>8. \A n \in DOMAIN s.queue : r.queue[n].alone => n = j
        BY <2>4, <2>6, <2>7, <3>8, <4>2
      <4> QED
        BY <3>8, <4>2, <4>4, <4>5, <4>7, <4>8
    <3> QED
      BY <2>7, <3>1, <3>9, <3>10 DEF Overlap
  <2> QED
    BY <1>5, <1>11, <2>2, <2>9, <2>10
<1> QED
  BY <1>12, <1>13

----------------------------------------------------------------------------
(* What the invariants ask of an item.                                     *)

(* An item that failed for good was refused, or has no attempt left.       *)
Spent(item) ==
  item.status \in {"failed", "dead"} => item.attempts \in {0, MaxAttempts}

Tried(q) == \A i \in DOMAIN q : Spent(q[i])

(* An open item, or one that a failure that comes after its success        *)
(* would open again.                                                       *)
MayOpen(item) ==
  \/ item.status \in {"pending", "claimed"}
  \/ item.status = "done" /\ item.attempts \in 1..(MaxAttempts - 1)

mayOpen(q, id) == {i \in DOMAIN q : q[i].id = id /\ MayOpen(q[i])}

(* The items are what they were, but for their outcomes; nothing opens.    *)
SameItems(q, r) ==
  /\ DOMAIN r = DOMAIN q
  /\ \A i \in DOMAIN q : /\ Keeps(q[i], r[i]) /\ r[i].run = q[i].run
                         /\ MayOpen(r[i]) => MayOpen(q[i])

(* An outcome opens no item that an earlier one had not left open.         *)
LEMMA OutcomeOpensNone ==
  ASSUME NEW s \in Core, NEW r, NEW id, Succeeds(s, r, id) \/ Fails(s, r, id), Tried(s.queue)
  PROVE  SameItems(s.queue, r.queue) /\ Tried(r.queue)
<1>1. PICK i \in DOMAIN s.queue : i = firstOf(s.queue, id)
  BY DEF Succeeds, Fails, Settles
<1>2. /\ DOMAIN r.queue = DOMAIN s.queue
      /\ \A j \in DOMAIN s.queue : j # i => r.queue[j] = s.queue[j]
  BY <1>1 DEF Succeeds, Fails, Settles
<1>3. PICK it \in QueuedTask, new \in QueuedTask :
        /\ it = s.queue[i] /\ new = r.queue[i]
        /\ Keeps(it, new) /\ new.attempts = it.attempts /\ new.run = it.run
  BY <1>1 DEF Succeeds, Fails, Settles
<1>4. \/ new.status = "done"
      \/ new.status = "pending" /\ new.attempts > 0 /\ new.attempts < MaxAttempts
      \/ new.status = "dead" /\ new.attempts \in {0, MaxAttempts}
  BY <1>1, <1>3 DEF Succeeds, Fails
<1>5. /\ it.attempts \in 0..MaxAttempts
      /\ it.status \in {"pending", "claimed", "done", "failed", "dead"}
  BY <1>3 DEF QueuedTask
<1>6. Spent(it)
  BY <1>1, <1>3 DEF Tried
<1>7. MayOpen(new) => MayOpen(it)
  BY <1>3, <1>4, <1>5, <1>6, IntakeAssumption DEF MayOpen, Spent
<1>8. Spent(new)
  BY <1>4 DEF Spent
<1>9. \A j \in DOMAIN s.queue : Keeps(s.queue[j], s.queue[j])
  BY InQueue DEF Core, Keeps
<1>10. ASSUME NEW j \in DOMAIN s.queue
       PROVE  /\ Keeps(s.queue[j], r.queue[j]) /\ r.queue[j].run = s.queue[j].run
              /\ MayOpen(r.queue[j]) => MayOpen(s.queue[j])
              /\ Spent(r.queue[j])
  <2>1. CASE j = i
    BY <1>3, <1>7, <1>8, <2>1
  <2>2. CASE j # i
    BY <1>2, <1>9, <2>2 DEF Tried
  <2> QED
    BY <2>1, <2>2
<1> QED
  BY <1>2, <1>10 DEF SameItems, Tried

(* Items that stay what they are, one change after the other.              *)
LEMMA SameItemsTrans ==
  ASSUME NEW p, NEW q, NEW r, SameItems(p, q), SameItems(q, r)
  PROVE  SameItems(p, r)
BY DEF SameItems, Keeps

(* Items that nothing happened to.                                         *)
LEMMA SameItemsRefl ==
  ASSUME NEW s \in Core
  PROVE  SameItems(s.queue, s.queue)
<1>1. \A j \in DOMAIN s.queue : Keeps(s.queue[j], s.queue[j])
  BY InQueue DEF Core, Keeps
<1> QED
  BY <1>1 DEF SameItems

(* Queue and ledger of a state of the module.                              *)
LEMMA StateIsCore ==
  ASSUME TypeOK
  PROVE  /\ state \in Core
         /\ state.queue = queue /\ state.ledger = ledger /\ state.crowded = crowded
BY DEF TypeOK, state, Core

(* Native tasks: what the inbox and the queue say of one.                  *)
IsNative(item) == \E n \in NativeIds : item.id = nativeTask(n)

Alike(q, r) ==
  \A i \in DOMAIN q : IsNative(q[i]) =>
    /\ (r[i].status = "done") = (q[i].status = "done")
    /\ q[i].run => r[i].status = q[i].status

NativeOnce(q) ==
  \A i, j \in DOMAIN q : IsNative(q[i]) /\ q[j].id = q[i].id => i = j

(* Leases that run out close items, and none of them is reopened.          *)
LEMMA ReclaimKeeps ==
  ASSUME TypeOK, Tried(queue), Overlap(state), NativeOnce(queue),
         NEW expired,
         \A k \in expired : k \in DOMAIN queue => queue[k].status = "claimed" /\ ~queue[k].run
  PROVE  LET r == reclaimed(expired)
         IN  /\ r \in Core /\ Overlap(r) /\ Tried(r.queue)
             /\ SameItems(queue, r.queue) /\ Alike(queue, r.queue)
<1> DEFINE S == {s \in Core : /\ Overlap(s) /\ Tried(s.queue)
                              /\ SameItems(queue, s.queue) /\ Alike(queue, s.queue)}
           step(k, s) == IF k \in expired THEN completeQueued(s, queue[k].id, FALSE) ELSE s
           N == Len(queue)
           Solves(f) == f = [k \in 0..N |-> IF k = 0 THEN state ELSE step(k, f[k - 1])]
           after == CHOOSE f : Solves(f)
<1>1. /\ state \in Core /\ state.queue = queue /\ N \in Nat /\ DOMAIN queue = 1..N
      /\ queue \in Seq(QueuedTask)
  BY StateIsCore, LenProperties DEF TypeOK
<1>2. state \in S
  BY <1>1, SameItemsRefl DEF Alike
<1>3. ASSUME NEW k \in 1..N, NEW s \in S
      PROVE  step(k, s) \in S
  <2>1. CASE k \notin expired
    BY <2>1
  <2>2. CASE k \in expired
    <3>1. PICK id : id = queue[k].id
      OBVIOUS
    <3>2. PICK r : r = completeQueued(s, id, FALSE)
      OBVIOUS
    <3>3. s \in Core /\ k \in DOMAIN s.queue /\ s.queue[k].id = id
      BY <1>1, <3>1 DEF SameItems, Keeps
    <3>4. r \in Core /\ Fails(s, r, id) /\ Overlap(r)
      BY <3>2, <3>3, FailureSettles
    <3>5. SameItems(s.queue, r.queue) /\ Tried(r.queue)
      BY <3>3, <3>4, OutcomeOpensNone
    <3>6. SameItems(queue, r.queue)
      BY <3>5, SameItemsTrans
    <3>7. PICK i \in DOMAIN s.queue : i = firstOf(s.queue, id)
      BY <3>4 DEF Fails, Settles
    <3>8. /\ s.queue[i].id = id /\ r.queue[i].status # "done"
          /\ \A j \in DOMAIN s.queue : j # i => r.queue[j] = s.queue[j]
      BY <3>4, <3>7 DEF Fails, Settles
    <3>9. DOMAIN s.queue = DOMAIN queue /\ queue[i].id = id
      BY <3>7, <3>8 DEF SameItems, Keeps
    <3>10. IsNative(queue[i]) => i = k
      BY <1>1, <3>1, <3>7, <3>9 DEF NativeOnce
    <3>11. queue[k].status # "done" /\ ~queue[k].run
      BY <1>1, <2>2
    <3>12. Alike(queue, r.queue)
      BY <3>8, <3>9, <3>10, <3>11 DEF Alike
    <3>13. r \in S
      BY <3>4, <3>5, <3>6, <3>12
    <3> QED
      BY <2>2, <3>1, <3>2, <3>13
  <2> QED
    BY <2>1, <2>2
<1> HIDE DEF S, step
<1>4. \E f : Solves(f)
  <2>1. PICK g : g = [k \in 1..N |-> [s \in S |-> step(k, s)]]
    OBVIOUS
  <2>2. g \in Steppers(N, S)
    BY <1>3, <2>1 DEF Steppers
  <2>3. PICK f : Recurs(f, N, S, state, g)
    BY <1>1, <1>2, <2>2, RecursionExists
  <2>4. \A k \in 1..N : k - 1 \in 0..N /\ k # 0
    BY <1>1
  <2>5. \A k \in 1..N : f[k] = step(k, f[k - 1])
    BY <2>1, <2>3, <2>4 DEF Recurs
  <2>6. \A k \in 0..N : f[k] = IF k = 0 THEN state ELSE step(k, f[k - 1])
    BY <1>1, <2>3, <2>5 DEF Recurs
  <2> QED
    BY <2>3, <2>6 DEF Recurs
<1>5. Solves(after)
  BY <1>4
<1>6. reclaimed(expired) = after[N]
  BY DEF reclaimed, step
<1> HIDE DEF after
<1>7. /\ after[0] = state /\ N \in 0..N
      /\ \A k \in 1..N : after[k] = step(k, after[k - 1])
  BY <1>1, <1>5
<1>8. PICK T : T = [k \in 0..N |-> S]
  OBVIOUS
<1>9. \A k \in 0..N : after[k] \in S
  <2>1. after[0] \in T[0]
    BY <1>2, <1>7, <1>8, <1>1
  <2>2. \A k \in 1..N : after[k - 1] \in T[k - 1] => after[k] \in T[k]
    BY <1>1, <1>3, <1>7, <1>8
  <2>3. \A k \in 0..N : after[k] \in T[k]
    BY <1>1, <2>1, <2>2, StaysIn
  <2> QED
    BY <1>8, <2>3
<1>10. after[N] \in S
  BY <1>7, <1>9
<1> QED
  BY <1>6, <1>10 DEF S

----------------------------------------------------------------------------
(* Submissions.                                                            *)

(* The queue grows by items of some ids that wait or were refused.         *)
Grows(q, r, ids) ==
  /\ DOMAIN q \subseteq DOMAIN r
  /\ \A i \in DOMAIN q : r[i] = q[i]
  /\ \A i \in DOMAIN r \ DOMAIN q : /\ r[i].id \in ids /\ r[i].status # "done"
                                   /\ r[i].run = FALSE

(* A submission adds one item at the end, and none that was tried.         *)
LEMMA SubmissionGrows ==
  ASSUME prices \in Prices, NEW s \in Core, NEW id \in Ids, NEW a \in Agents,
         NEW mode \in {"ui", "git", "webhook", "github"}, NEW r, r = enqueueTask(s, id, a, mode)
  PROVE  /\ r \in Core /\ (Overlap(s) => Overlap(r)) /\ (Tried(s.queue) => Tried(r.queue))
         /\ Grows(s.queue, r.queue, {id})
         /\ DOMAIN s.queue = 1..Len(s.queue) /\ Len(s.queue) \in Nat
         /\ DOMAIN r.queue \subseteq 1..(Len(s.queue) + 1)
<1>1. r \in Core /\ (r = s \/ Submits(s, r, id, a)) /\ (Overlap(s) => Overlap(r))
  BY EnqueueAppends
<1>2. s.queue \in Seq(QueuedTask) /\ Len(s.queue) \in Nat /\ DOMAIN s.queue = 1..Len(s.queue)
  BY LenProperties DEF Core
<1>3. CASE r = s
  BY <1>1, <1>2, <1>3 DEF Grows
<1>4. CASE Submits(s, r, id, a)
  <2>1. PICK it \in QueuedTask :
          /\ r.queue = Append(s.queue, it) /\ it.id = id /\ it.agent = a
          /\ it.attempts = 0 /\ it.run = FALSE /\ it.status \in {"pending", "failed"}
    BY <1>4 DEF Submits
  <2>2. PICK q : q = Append(s.queue, it)
    OBVIOUS
  <2>3. /\ DOMAIN q = 1..(Len(s.queue) + 1) /\ q[Len(s.queue) + 1] = it
        /\ \A i \in 1..Len(s.queue) : q[i] = s.queue[i]
    BY <1>2, <2>2, AppendItem
  <2>4. \A i \in DOMAIN q : i \in DOMAIN s.queue \/ i = Len(s.queue) + 1
    BY <1>2, <2>3
  <2>5. Grows(s.queue, q, {id})
    BY <1>2, <2>1, <2>3, <2>4 DEF Grows
  <2>6. Spent(it)
    BY <2>1 DEF Spent
  <2>7. Tried(s.queue) => Tried(q)
    BY <1>2, <2>3, <2>4, <2>6 DEF Tried
  <2> QED
    BY <1>1, <1>2, <2>1, <2>2, <2>3, <2>5, <2>7
<1> QED
  BY <1>1, <1>3, <1>4

(* A queue that grows twice has grown.                                     *)
LEMMA GrowsTrans ==
  ASSUME NEW p, NEW q, NEW r, NEW ids, NEW id \in ids, Grows(p, q, ids), Grows(q, r, {id})
  PROVE  Grows(p, r, ids)
<1>1. DOMAIN p \subseteq DOMAIN r /\ \A i \in DOMAIN p : r[i] = p[i]
  BY DEF Grows
<1>2. ASSUME NEW i \in DOMAIN r \ DOMAIN p
      PROVE  r[i].id \in ids /\ r[i].status # "done" /\ r[i].run = FALSE
  <2>1. CASE i \in DOMAIN q
    BY <1>2, <2>1 DEF Grows
  <2>2. CASE i \notin DOMAIN q
    BY <1>2, <2>2 DEF Grows
  <2> QED
    BY <2>1, <2>2
<1> QED
  BY <1>1, <1>2 DEF Grows

(* The indices of a queue are finitely many.                               *)
LEMMA IndicesFinite ==
  ASSUME NEW s \in Core, NEW T, T \subseteq DOMAIN s.queue
  PROVE  IsFiniteSet(T) /\ Cardinality(T) \in Nat
<1>1. Len(s.queue) \in Nat /\ DOMAIN s.queue = 1..Len(s.queue)
  BY LenProperties DEF Core
<1>2. IsFiniteSet(DOMAIN s.queue)
  BY <1>1, FS_Interval
<1> QED
  BY <1>2, FS_Subset, FS_CardinalityType

(* One element more at most.                                               *)
LEMMA OneMore ==
  ASSUME NEW A, IsFiniteSet(A), NEW x, NEW B, B \subseteq A \cup {x}
  PROVE  IsFiniteSet(B) /\ Cardinality(B) \in Nat /\ Cardinality(B) <= Cardinality(A) + 1
<1>1. IsFiniteSet(A \cup {x}) /\ Cardinality(A) \in Nat /\ Cardinality(A \cup {x}) \in Nat
  BY FS_AddElement, FS_CardinalityType
<1>2. Cardinality(A \cup {x}) <= Cardinality(A) + 1
  <2>1. Cardinality(A \cup {x}) = IF x \in A THEN Cardinality(A) ELSE Cardinality(A) + 1
    BY FS_AddElement
  <2> QED
    BY <1>1, <2>1
<1>3. IsFiniteSet(B) /\ Cardinality(B) <= Cardinality(A \cup {x})
  BY <1>1, FS_Subset
<1>4. Cardinality(B) \in Nat
  BY <1>3, FS_CardinalityType
<1> QED
  BY <1>1, <1>2, <1>3, <1>4

(* Tasks with another id than the submitted ones are those of before.      *)
LEMMA OthersStay ==
  ASSUME NEW q, NEW r, NEW ids, Grows(q, r, ids), NEW other, other \notin ids
  PROVE  mayOpen(r, other) = mayOpen(q, other)
<1>1. \A i \in DOMAIN r : i \in DOMAIN q \/ r[i].id \in ids
  BY DEF Grows
<1> QED
  BY <1>1 DEF mayOpen, Grows

(* A submission adds no more than one task that may open.                  *)
LEMMA SubmissionOpens ==
  ASSUME NEW s \in Core, NEW r \in Core, NEW id, Grows(s.queue, r.queue, {id}),
         Len(s.queue) \in Nat, DOMAIN s.queue = 1..Len(s.queue),
         DOMAIN r.queue \subseteq 1..(Len(s.queue) + 1), NEW other
  PROVE  /\ Cardinality(mayOpen(r.queue, other)) <= Cardinality(mayOpen(s.queue, other)) + 1
         /\ mayOpen(s.queue, other) = {} => Cardinality(mayOpen(r.queue, other)) <= 1
<1> DEFINE old == mayOpen(s.queue, other)
           new == mayOpen(r.queue, other)
           last == Len(s.queue) + 1
<1>1. old \subseteq new /\ new \subseteq old \cup {last}
  <2>1. \A i \in DOMAIN r.queue : i \in DOMAIN s.queue \/ i = last
    OBVIOUS
  <2> QED
    BY <2>1 DEF mayOpen, Grows
<1>3. IsFiniteSet(old) /\ Cardinality(old) \in Nat /\ IsFiniteSet(new) /\ Cardinality(new) \in Nat
  BY IndicesFinite DEF mayOpen
<1> HIDE DEF old, new, last
<1>4. Cardinality(new) <= Cardinality(old) + 1
  <2>1. CASE new = old
    BY <1>3, <2>1
  <2>2. CASE new # old
    <3>1. new = old \cup {last} /\ last \notin old
      BY <1>1, <2>2
    <3> QED
      BY <1>3, <3>1, FS_AddElement
  <2> QED
    BY <2>1, <2>2
<1>5. old = {} => Cardinality(new) <= 1
  BY <1>3, <1>4, FS_EmptySet
<1> QED
  BY <1>4, <1>5 DEF old, new

(* The commands that enqueued a manifest are all that may open a second    *)
(* task of it.                                                             *)
OpensOnce(q) == \A g \in GitIds : Cardinality(mayOpen(q, gitTask(g))) <= 1 + forced[g]

gitTasks == {gitTask(g) : g \in GitIds}

(* A sync enqueues a manifest only if none of its tasks may open.          *)
LEMMA SyncOpensOnce ==
  ASSUME prices \in Prices, NEW s \in Core, NEW g \in GitIds, OpensOnce(s.queue), \A h \in GitIds : forced[h] \in Nat,
         NEW r, r = syncOne(g, s)
  PROVE  /\ r \in Core /\ (Overlap(s) => Overlap(r)) /\ (Tried(s.queue) => Tried(r.queue))
         /\ Grows(s.queue, r.queue, gitTasks) /\ OpensOnce(r.queue)
<1>1. CASE shouldSkipEnqueue(s, g)
  <2>1. r = s
    BY <1>1 DEF syncOne
  <2> QED
    BY <2>1 DEF Grows
<1>2. CASE ~shouldSkipEnqueue(s, g)
  <2>1. PICK id : id = gitTask(g)
    OBVIOUS
  <2>2. r = enqueueTask(s, id, AgentOf[g], "git")
    BY <1>2, <2>1 DEF syncOne
  <2>3. id \in Ids /\ AgentOf[g] \in Agents
    BY <2>1, IntakeAssumption DEF Ids
  <2>4. /\ r \in Core /\ (Overlap(s) => Overlap(r)) /\ (Tried(s.queue) => Tried(r.queue))
        /\ Grows(s.queue, r.queue, {id})
        /\ DOMAIN s.queue = 1..Len(s.queue) /\ Len(s.queue) \in Nat
        /\ DOMAIN r.queue \subseteq 1..(Len(s.queue) + 1)
    BY <2>2, <2>3, SubmissionGrows
  <2>5. mayOpen(s.queue, id) = {}
    BY <1>2, <2>1 DEF shouldSkipEnqueue, mayOpen, MayOpen, withId
  <2>6. ASSUME NEW h \in GitIds
        PROVE  Cardinality(mayOpen(r.queue, gitTask(h))) <= 1 + forced[h]
    <3>1. CASE gitTask(h) = id
      <4>1. Cardinality(mayOpen(r.queue, id)) <= 1
        BY <2>4, <2>5, SubmissionOpens
      <4>2. Cardinality(mayOpen(r.queue, id)) \in Nat
        BY <2>4, IndicesFinite DEF mayOpen
      <4> QED
        BY <3>1, <4>1, <4>2
    <3>2. CASE gitTask(h) # id
      <4>1. PICK q, new, other : q = s.queue /\ new = r.queue /\ other = gitTask(h)
        OBVIOUS
      <4>2. mayOpen(new, other) = mayOpen(q, other)
        BY <2>4, <3>2, <4>1, OthersStay
      <4> QED
        BY <4>1, <4>2 DEF OpensOnce
    <3> QED
      BY <3>1, <3>2
  <2>7. id \in gitTasks
    BY <2>1 DEF gitTasks
  <2>8. Grows(s.queue, s.queue, gitTasks)
    BY DEF Grows
  <2>9. Grows(s.queue, r.queue, gitTasks)
    BY <2>4, <2>7, <2>8, GrowsTrans
  <2> QED
    BY <2>4, <2>6, <2>9 DEF OpensOnce
<1> QED
  BY <1>1, <1>2

(* So a scan of all manifests keeps what every sync keeps.                 *)
LEMMA ScanOpensOnce ==
  ASSUME TypeOK, Tried(queue), Overlap(state), OpensOnce(queue)
  PROVE  /\ scanned \in Core /\ Overlap(scanned) /\ Tried(scanned.queue)
         /\ Grows(queue, scanned.queue, gitTasks) /\ OpensOnce(scanned.queue)
<1> prices \in Prices
  BY DEF TypeOK
<1> DEFINE S == {s \in Core : /\ Overlap(s) /\ Tried(s.queue)
                              /\ Grows(queue, s.queue, gitTasks) /\ OpensOnce(s.queue)}
           step(k, s) == syncOne(ScanOrder[k], s)
           N == Len(ScanOrder)
           Solves(f) == f = [k \in 0..N |-> IF k = 0 THEN state ELSE step(k, f[k - 1])]
           after == CHOOSE f : Solves(f)
<1>1. /\ state \in Core /\ state.queue = queue /\ N \in Nat
      /\ \A k \in 1..N : ScanOrder[k] \in GitIds
      /\ \A h \in GitIds : forced[h] \in Nat
  <2>1. ScanOrder \in Seq(GitIds)
    BY IntakeAssumption
  <2>2. N \in Nat /\ \A k \in 1..N : ScanOrder[k] \in GitIds
    BY <2>1, LenProperties
  <2>3. \A h \in GitIds : forced[h] \in Nat
    BY DEF TypeOK
  <2> QED
    BY <2>2, <2>3, StateIsCore
<1>2. state \in S
  BY <1>1 DEF Grows
<1>3. ASSUME NEW k \in 1..N, NEW s \in S
      PROVE  step(k, s) \in S
  <2>1. PICK g \in GitIds : g = ScanOrder[k]
    BY <1>1
  <2>2. PICK r : r = syncOne(g, s)
    OBVIOUS
  <2>3. s \in Core /\ OpensOnce(s.queue)
    OBVIOUS
  <2>4. /\ r \in Core /\ (Overlap(s) => Overlap(r)) /\ (Tried(s.queue) => Tried(r.queue))
        /\ Grows(s.queue, r.queue, gitTasks) /\ OpensOnce(r.queue)
    BY <1>1, <2>2, <2>3, SyncOpensOnce
  <2>5. Grows(queue, r.queue, gitTasks)
    BY <2>4 DEF Grows
  <2> QED
    BY <2>1, <2>2, <2>4, <2>5
<1> HIDE DEF S, step
<1>4. \E f : Solves(f)
  <2>1. PICK g : g = [k \in 1..N |-> [s \in S |-> step(k, s)]]
    OBVIOUS
  <2>2. g \in Steppers(N, S)
    BY <1>3, <2>1 DEF Steppers
  <2>3. PICK f : Recurs(f, N, S, state, g)
    BY <1>1, <1>2, <2>2, RecursionExists
  <2>4. \A k \in 1..N : k - 1 \in 0..N /\ k # 0
    BY <1>1
  <2>5. \A k \in 1..N : f[k] = step(k, f[k - 1])
    BY <2>1, <2>3, <2>4 DEF Recurs
  <2>6. \A k \in 0..N : f[k] = IF k = 0 THEN state ELSE step(k, f[k - 1])
    BY <1>1, <2>3, <2>5 DEF Recurs
  <2> QED
    BY <2>3, <2>6 DEF Recurs
<1>5. Solves(after)
  BY <1>4
<1>6. scanned = after[N]
  BY DEF scanned, step
<1> HIDE DEF after
<1>7. /\ after[0] = state /\ N \in 0..N
      /\ \A k \in 1..N : after[k] = step(k, after[k - 1])
  BY <1>1, <1>5
<1>8. PICK T : T = [k \in 0..N |-> S]
  OBVIOUS
<1>9. \A k \in 0..N : after[k] \in S
  <2>1. after[0] \in T[0]
    BY <1>2, <1>7, <1>8, <1>1
  <2>2. \A k \in 1..N : after[k - 1] \in T[k - 1] => after[k] \in T[k]
    BY <1>1, <1>3, <1>7, <1>8
  <2>3. \A k \in 0..N : after[k] \in T[k]
    BY <1>1, <2>1, <2>2, StaysIn
  <2> QED
    BY <1>8, <2>3
<1>10. after[N] \in S
  BY <1>7, <1>9
<1> QED
  BY <1>6, <1>10 DEF S

(* One task for each agent that listens: if the ids tell the agents apart, *)
(* no two of the new items have the same id.                               *)
Distinct(q, r) ==
  \A i, j \in DOMAIN r \ DOMAIN q : r[i].id = r[j].id => i = j

(* So the tasks for all the agents that listen are new items, of the ids   *)
(* that the agents have, and they keep the budget.                         *)
LEMMA ForAllGrows ==
  ASSUME TypeOK, Tried(queue), Overlap(state), NEW ids \in [Agents -> Ids]
  PROVE  LET r == enqueueForAll(ids)
         IN  /\ r \in Core /\ Overlap(r) /\ Tried(r.queue)
             /\ Grows(queue, r.queue, {ids[a] : a \in Agents})
             /\ IsInjective(ids) => Distinct(queue, r.queue)
<1> prices \in Prices
  BY DEF TypeOK
<1> DEFINE new == {ids[a] : a \in Agents}
           S == {s \in Core : Overlap(s) /\ Tried(s.queue) /\ Grows(queue, s.queue, new)}
           step(k, s) == IF AgentOrder[k] \in listening
                           THEN enqueueTask(s, ids[AgentOrder[k]], AgentOrder[k], "github") ELSE s
           N == Len(AgentOrder)
           Solves(f) == f = [k \in 0..N |-> IF k = 0 THEN state ELSE step(k, f[k - 1])]
           after == CHOOSE f : Solves(f)
           Reached(k) == {s \in S : /\ \A i \in DOMAIN s.queue \ DOMAIN queue :
                                        \E j \in 1..k : s.queue[i].id = ids[AgentOrder[j]]
                                    /\ IsInjective(ids) => Distinct(queue, s.queue)}
<1>1. /\ state \in Core /\ state.queue = queue /\ N \in Nat
      /\ \A k \in 1..N : AgentOrder[k] \in Agents
      /\ \A j, k \in 1..N : AgentOrder[j] = AgentOrder[k] => j = k
  <2>1. AgentOrder \in Seq(Agents) /\ IsInjective(AgentOrder)
    BY IntakeAssumption
  <2>2. N \in Nat /\ DOMAIN AgentOrder = 1..N /\ \A k \in 1..N : AgentOrder[k] \in Agents
    BY <2>1, LenProperties
  <2>3. \A j, k \in 1..N : AgentOrder[j] = AgentOrder[k] => j = k
    BY <2>1, <2>2 DEF IsInjective
  <2> QED
    BY <2>2, <2>3, StateIsCore
<1>2. state \in S /\ state \in Reached(0)
  BY <1>1 DEF Grows, Distinct
<1>3. ASSUME NEW k \in 1..N, NEW s \in S
      PROVE  /\ step(k, s) \in S
             /\ s \in Reached(k - 1) => step(k, s) \in Reached(k)
  <2>1. PICK a \in Agents : a = AgentOrder[k]
    BY <1>1
  <2>2. PICK id \in Ids : id = ids[a]
    OBVIOUS
  <2>3. CASE a \notin listening
    <3>1. step(k, s) = s
      BY <2>1, <2>3
    <3>2. \A j \in 1..(k - 1) : j \in 1..k
      BY <1>1
    <3> QED
      BY <3>1, <3>2
  <2>4. CASE a \in listening
    <3>1. PICK r : r = enqueueTask(s, id, a, "github")
      OBVIOUS
    <3>2. step(k, s) = r
      BY <2>1, <2>2, <2>4, <3>1
    <3>3. s \in Core /\ Overlap(s) /\ Tried(s.queue) /\ Grows(queue, s.queue, new) /\ id \in new
      BY <2>2
    <3>4. /\ r \in Core /\ Overlap(r) /\ Tried(r.queue) /\ Grows(s.queue, r.queue, {id})
          /\ DOMAIN s.queue = 1..Len(s.queue) /\ Len(s.queue) \in Nat
          /\ DOMAIN r.queue \subseteq 1..(Len(s.queue) + 1)
      <4>1. PICK mode \in {"ui", "git", "webhook", "github"} : mode = "github"
        OBVIOUS
      <4>2. r = enqueueTask(s, id, a, mode)
        BY <3>1, <4>1
      <4> QED
        BY <3>3, <4>2, SubmissionGrows
    <3>5. Grows(queue, r.queue, new)
      BY <3>3, <3>4, GrowsTrans
    <3>6. r \in S
      BY <3>4, <3>5
    <3>7. ASSUME s \in Reached(k - 1)
          PROVE  r \in Reached(k)
      <4>1. \A i \in DOMAIN r.queue : i \in DOMAIN s.queue \/ (i = Len(s.queue) + 1 /\ r.queue[i].id = id)
        BY <3>4 DEF Grows
      <4>2. \A i \in DOMAIN s.queue : r.queue[i] = s.queue[i]
        BY <3>4 DEF Grows
      <4>3. \A j \in 1..(k - 1) : j \in 1..k /\ j \in 1..N /\ j # k
        BY <1>1
      <4>4. k \in 1..k
        BY <1>1
      <4>5. \A i \in DOMAIN s.queue \ DOMAIN queue :
              \E j \in 1..(k - 1) : s.queue[i].id = ids[AgentOrder[j]]
        BY <3>7
      <4>6. \A i \in DOMAIN r.queue \ DOMAIN queue :
              \E j \in 1..k : r.queue[i].id = ids[AgentOrder[j]]
        BY <2>1, <2>2, <4>1, <4>2, <4>3, <4>4, <4>5
      <4>7. ASSUME IsInjective(ids)
            PROVE  Distinct(queue, r.queue)
        <5>1. \A i \in DOMAIN s.queue \ DOMAIN queue : s.queue[i].id # id
          <6>1. \A j \in 1..(k - 1) : AgentOrder[j] # a /\ AgentOrder[j] \in Agents
            BY <1>1, <2>1, <4>3
          <6>2. \A j \in 1..(k - 1) : ids[AgentOrder[j]] # id
            BY <2>2, <4>7, <6>1 DEF IsInjective
          <6> QED
            BY <4>5, <6>2
        <5>2. Distinct(queue, s.queue)
          BY <3>7, <4>7
        <5> QED
          BY <4>1, <4>2, <5>1, <5>2 DEF Distinct
      <4> QED
        BY <3>6, <4>6, <4>7
    <3> QED
      BY <3>2, <3>6, <3>7
  <2> QED
    BY <2>3, <2>4
<1> HIDE DEF S, step, Reached
<1>4. \E f : Solves(f)
  <2>1. PICK g : g = [k \in 1..N |-> [s \in S |-> step(k, s)]]
    OBVIOUS
  <2>2. g \in Steppers(N, S)
    BY <1>3, <2>1 DEF Steppers
  <2>3. PICK f : Recurs(f, N, S, state, g)
    BY <1>1, <1>2, <2>2, RecursionExists
  <2>4. \A k \in 1..N : k - 1 \in 0..N /\ k # 0
    BY <1>1
  <2>5. \A k \in 1..N : f[k] = step(k, f[k - 1])
    BY <2>1, <2>3, <2>4 DEF Recurs
  <2>6. \A k \in 0..N : f[k] = IF k = 0 THEN state ELSE step(k, f[k - 1])
    BY <1>1, <2>3, <2>5 DEF Recurs
  <2> QED
    BY <2>3, <2>6 DEF Recurs
<1>5. Solves(after)
  BY <1>4
<1>6. enqueueForAll(ids) = after[N]
  BY DEF enqueueForAll, step
<1> HIDE DEF after
<1>7. /\ after[0] = state /\ N \in 0..N /\ 0 \in 0..N
      /\ \A k \in 1..N : after[k] = step(k, after[k - 1])
      /\ \A k \in 1..N : k \in 0..N /\ k - 1 \in 0..N
  <2>1. \A k \in 1..N : k \in 0..N /\ k - 1 \in 0..N /\ k # 0
    BY <1>1
  <2>2. N \in 0..N /\ 0 \in 0..N
    BY <1>1
  <2> QED
    BY <1>5, <2>1, <2>2
<1>8. PICK T : T = [k \in 0..N |-> Reached(k)]
  OBVIOUS
<1>9. \A k \in 0..N : after[k] \in Reached(k)
  <2>1. after[0] \in T[0]
    BY <1>2, <1>7, <1>8
  <2>2. \A k \in 1..N : after[k - 1] \in T[k - 1] => after[k] \in T[k]
    <3>1. \A k \in 1..N : Reached(k - 1) \subseteq S
      BY DEF Reached
    <3> QED
      BY <1>3, <1>7, <1>8, <3>1
  <2>3. \A k \in 0..N : after[k] \in T[k]
    BY <1>1, <2>1, <2>2, StaysIn
  <2> QED
    BY <1>8, <2>3
<1>10. after[N] \in Reached(N)
  BY <1>7, <1>9
<1> QED
  BY <1>6, <1>10 DEF Reached, S

----------------------------------------------------------------------------
(* Steps of the queue.                                                     *)

QueueInv == TypeOK /\ Overlap(state) /\ Tried(queue)

(* Items change where they stand: none changes hands, is admitted alone    *)
(* without having been, or fails for good with attempts left.              *)
ItemsChange(q, r) ==
  /\ r \in Seq(QueuedTask) /\ DOMAIN r = DOMAIN q
  /\ \A i \in DOMAIN q :
       /\ Keeps(q[i], r[i]) /\ Spent(r[i])
       /\ r[i].alone => /\ q[i].alone
                        /\ r[i].status = q[i].status \/ r[i].status \in {"pending", "claimed"}

(* Such a change charges nothing, so the budget is what it was.            *)
LEMMA ChangeKeepsBudget ==
  ASSUME QueueInv, NEW r, ItemsChange(queue, r), NEW new,
         new = [queue |-> r, ledger |-> ledger, crowded |-> crowded]
  PROVE  new \in Core /\ Overlap(new) /\ Tried(new.queue)
<1>1. /\ r \in Seq(QueuedTask) /\ ledger \in [age : 0..BudgetWindow, units : Nat]
      /\ crowded \in Nat /\ state \in Core /\ state.queue = queue
      /\ state.ledger = ledger /\ state.crowded = crowded
  BY StateIsCore DEF QueueInv, TypeOK, ItemsChange
<1>2. new \in Core
  BY <1>1 DEF Core
<1>3. new.queue = r /\ new.ledger = ledger /\ new.crowded = crowded
  OBVIOUS
<1>4. Tried(new.queue)
  BY <1>3 DEF Tried, ItemsChange
<1>5. CASE limited
  <2>1. \A i \in DOMAIN queue : queue[i].alone => queue[i].status \in {"pending", "claimed"}
    BY <1>1, <1>5 DEF QueueInv, Overlap
  <2>2. \A i \in DOMAIN state.queue :
          /\ new.queue[i].agent = state.queue[i].agent
          /\ new.queue[i].alone => /\ state.queue[i].alone
                                   /\ new.queue[i].status \in {"pending", "claimed"}
    BY <1>1, <1>3, <2>1 DEF ItemsChange, Keeps
  <2>3. /\ DOMAIN new.queue = DOMAIN state.queue /\ Overlap(state)
        /\ new.ledger.units = state.ledger.units /\ new.crowded = state.crowded
    BY <1>1, <1>3 DEF ItemsChange, QueueInv
  <2>4. Overlap(new)
    BY <1>1, <1>2, <2>2, <2>3, OverlapStays
  <2> QED
    BY <1>2, <1>4, <2>4
<1>6. CASE ~limited
  BY <1>2, <1>4, <1>6 DEF Overlap
<1> QED
  BY <1>5, <1>6

(* The state after a step is the one that queue and ledger become.         *)
LEMMA NextState ==
  ASSUME NEW new \in Core, queue' = new.queue, ledger' = new.ledger, crowded' = new.crowded
  PROVE  state' = new
BY DEF Core, state

(* A claim changes the item that it claims.                                *)
LEMMA ClaimChanges ==
  ASSUME QueueInv, NEW i \in DOMAIN queue, Claim(i)
  PROVE  /\ ItemsChange(queue, queue')
         /\ \A j \in DOMAIN queue : j # i => queue'[j] = queue[j]
         /\ queue[i].status = "pending" /\ queue'[i].status = "claimed" /\ queue'[i].run = TRUE
         /\ queue'[i].id = queue[i].id
<1>1. queue \in Seq(QueuedTask)
  BY DEF QueueInv, TypeOK
<1>2. PICK it \in QueuedTask : it = queue[i]
  BY <1>1, InQueue
<1>3. PICK new : new = claimed(it)
  OBVIOUS
<1>4. it.status = "pending" /\ it.attempts < MaxAttempts
  BY <1>2 DEF Claim
<1>5. /\ Keeps(it, new) /\ new.status = "claimed" /\ new.run = TRUE /\ new.alone = it.alone
  BY <1>3, <1>4, ItemChanges
<1>6. PICK q : q = [queue EXCEPT ![i] = new]
  OBVIOUS
<1>7. queue' = q
  BY <1>2, <1>3, <1>6 DEF Claim
<1>8. /\ q \in Seq(QueuedTask) /\ DOMAIN q = DOMAIN queue
      /\ \A j \in DOMAIN queue : q[j] = IF j = i THEN new ELSE queue[j]
  BY <1>1, <1>5, <1>6, WriteItem DEF Keeps
<1>9. \A j \in DOMAIN queue : Keeps(queue[j], queue[j]) /\ Spent(queue[j])
  BY <1>1, InQueue DEF Keeps, QueueInv, Tried
<1>10. Spent(new)
  BY <1>5 DEF Spent
<1>11. ASSUME NEW j \in DOMAIN queue
       PROVE  /\ Keeps(queue[j], q[j]) /\ Spent(q[j])
              /\ q[j].alone => /\ queue[j].alone
                               /\ q[j].status = queue[j].status \/ q[j].status \in {"pending", "claimed"}
  BY <1>2, <1>5, <1>8, <1>9, <1>10
<1>12. ItemsChange(queue, q)
  BY <1>8, <1>11 DEF ItemsChange
<1> QED
  BY <1>2, <1>4, <1>5, <1>7, <1>8, <1>12 DEF Keeps

(* A drain that is abandoned leaves no run and changes no outcome.         *)
LEMMA CrashChanges ==
  ASSUME QueueInv, Crash
  PROVE  /\ ItemsChange(queue, queue')
         /\ \A j \in DOMAIN queue :
              /\ queue'[j].id = queue[j].id /\ queue'[j].status = queue[j].status
              /\ queue'[j].attempts = queue[j].attempts /\ queue'[j].run = FALSE
<1>1. queue \in Seq(QueuedTask)
  BY DEF QueueInv, TypeOK
<1>2. PICK q : q = [i \in DOMAIN queue |-> halted(queue[i])]
  OBVIOUS
<1>3. queue' = q
  BY <1>2 DEF Crash
<1>4. ASSUME NEW j \in DOMAIN queue
      PROVE  /\ Keeps(queue[j], q[j]) /\ q[j].status = queue[j].status
             /\ q[j].attempts = queue[j].attempts /\ q[j].run = FALSE
             /\ q[j].alone = queue[j].alone
  <2>1. PICK it \in QueuedTask : it = queue[j]
    BY <1>1, InQueue
  <2>2. PICK new : new = halted(it)
    OBVIOUS
  <2>3. q[j] = new
    BY <1>2, <2>1, <2>2
  <2>4. /\ Keeps(it, new) /\ new.status = it.status /\ new.attempts = it.attempts
        /\ new.run = FALSE /\ new.alone = it.alone
    BY <2>2, ItemChanges
  <2> QED
    BY <2>1, <2>3, <2>4
<1>5. q \in Seq(QueuedTask)
  <2>1. Len(queue) \in Nat /\ DOMAIN queue = 1..Len(queue)
    BY <1>1, LenProperties
  <2>2. q = [i \in 1..Len(queue) |-> q[i]] /\ \A i \in 1..Len(queue) : q[i] \in QueuedTask
    BY <1>2, <1>4, <2>1 DEF Keeps
  <2> QED
    BY <2>1, <2>2, IsASeq
<1>6. \A j \in DOMAIN queue : Spent(q[j])
  BY <1>4 DEF Spent, QueueInv, Tried
<1>7. DOMAIN q = DOMAIN queue
  BY <1>2
<1>8. ItemsChange(queue, q)
  BY <1>4, <1>5, <1>6, <1>7 DEF ItemsChange
<1> QED
  BY <1>3, <1>4, <1>8 DEF Keeps

(* A requeue puts a dead item back, which is then not alone any more.      *)
LEMMA RequeueChanges ==
  ASSUME QueueInv, NEW id, RequeueDead(id)
  PROVE  /\ ItemsChange(queue, queue')
         /\ \E i \in DOMAIN queue :
              /\ queue[i].id = id /\ queue[i].status = "dead"
              /\ queue'[i].status = "pending" /\ queue'[i].run = queue[i].run
              /\ \A j \in DOMAIN queue : j # i => queue'[j] = queue[j]
<1>1. queue \in Seq(QueuedTask)
  BY DEF QueueInv, TypeOK
<1>2. PICK i : i = Min(withId(queue, id, {"dead"}))
  OBVIOUS
<1>3. i \in DOMAIN queue /\ queue[i].id = id /\ queue[i].status = "dead"
  <2>1. withId(queue, id, {"dead"}) \subseteq Nat /\ withId(queue, id, {"dead"}) # {}
    BY <1>1, LenProperties DEF withId, RequeueDead
  <2>2. \E x \in withId(queue, id, {"dead"}) : \A y \in withId(queue, id, {"dead"}) : x <= y
    BY <2>1, LeastNatural
  <2>3. i \in withId(queue, id, {"dead"})
    BY <1>2, <2>2 DEF Min
  <2> QED
    BY <2>3 DEF withId
<1>4. PICK it \in QueuedTask : it = queue[i]
  BY <1>1, <1>3, InQueue
<1>5. PICK new : new = requeued(it)
  OBVIOUS
<1>6. Keeps(it, new) /\ new.status = "pending" /\ new.run = it.run /\ new.alone = FALSE
  BY <1>5, ItemChanges
<1>7. PICK q : q = [queue EXCEPT ![i] = new]
  OBVIOUS
<1>8. queue' = q
  BY <1>2, <1>4, <1>5, <1>7 DEF RequeueDead
<1>9. /\ q \in Seq(QueuedTask) /\ DOMAIN q = DOMAIN queue
      /\ \A j \in DOMAIN queue : q[j] = IF j = i THEN new ELSE queue[j]
  BY <1>1, <1>3, <1>6, <1>7, WriteItem DEF Keeps
<1>10. \A j \in DOMAIN queue : Keeps(queue[j], queue[j]) /\ Spent(queue[j])
  BY <1>1, InQueue DEF Keeps, QueueInv, Tried
<1>11. Spent(new)
  BY <1>6 DEF Spent
<1>12. ASSUME NEW j \in DOMAIN queue
       PROVE  /\ Keeps(queue[j], q[j]) /\ Spent(q[j])
              /\ q[j].alone => /\ queue[j].alone
                               /\ q[j].status = queue[j].status \/ q[j].status \in {"pending", "claimed"}
  BY <1>4, <1>6, <1>9, <1>10, <1>11
<1>13. ItemsChange(queue, q)
  BY <1>9, <1>12 DEF ItemsChange
<1> QED
  BY <1>3, <1>4, <1>6, <1>8, <1>9, <1>13

(* The end of a run: its item halts, then the first item of its id settles *)
(* by the outcome, and once more, as a failure, if that cannot be written. *)
HaltedAt(i, q) == [q EXCEPT ![i] = halted(q[i])]

Halts(i, q, r) ==
  /\ r \in Seq(QueuedTask) /\ DOMAIN r = DOMAIN q
  /\ \A j \in DOMAIN q :
       /\ r[j].id = q[j].id /\ r[j].status = q[j].status /\ r[j].attempts = q[j].attempts
       /\ r[j].run = IF j = i THEN FALSE ELSE q[j].run
       /\ j # i => r[j] = q[j]
  /\ \A id : firstOf(r, id) = firstOf(q, id)

(* The item halts, and nothing else happens to the queue.                  *)
LEMMA HaltWrites ==
  ASSUME QueueInv, NEW i \in DOMAIN queue, NEW q, q = HaltedAt(i, queue)
  PROVE  Halts(i, queue, q) /\ ItemsChange(queue, q)
<1>1. queue \in Seq(QueuedTask)
  BY DEF QueueInv, TypeOK
<1>2. PICK it \in QueuedTask : it = queue[i]
  BY <1>1, InQueue
<1>3. PICK new : new = halted(it)
  OBVIOUS
<1>4. /\ Keeps(it, new) /\ new.status = it.status /\ new.attempts = it.attempts
      /\ new.run = FALSE /\ new.alone = it.alone
  BY <1>3, ItemChanges
<1>5. q = [queue EXCEPT ![i] = new]
  BY <1>2, <1>3 DEF HaltedAt
<1>6. /\ q \in Seq(QueuedTask) /\ DOMAIN q = DOMAIN queue
      /\ \A j \in DOMAIN queue : q[j] = IF j = i THEN new ELSE queue[j]
  BY <1>1, <1>4, <1>5, WriteItem DEF Keeps
<1>7. \A j \in DOMAIN queue : Keeps(queue[j], queue[j]) /\ Spent(queue[j])
  BY <1>1, InQueue DEF Keeps, QueueInv, Tried
<1>8. Spent(new)
  BY <1>2, <1>4, <1>7 DEF Spent
<1>9. ASSUME NEW j \in DOMAIN queue
      PROVE  /\ Keeps(queue[j], q[j]) /\ Spent(q[j])
             /\ q[j].alone => /\ queue[j].alone
                              /\ q[j].status = queue[j].status \/ q[j].status \in {"pending", "claimed"}
  BY <1>2, <1>4, <1>6, <1>7, <1>8
<1>10. ItemsChange(queue, q)
  BY <1>6, <1>9 DEF ItemsChange
<1>11. ASSUME NEW j \in DOMAIN queue
       PROVE  /\ q[j].id = queue[j].id /\ q[j].status = queue[j].status
              /\ q[j].attempts = queue[j].attempts
              /\ q[j].run = IF j = i THEN FALSE ELSE queue[j].run
              /\ j # i => q[j] = queue[j]
  BY <1>2, <1>4, <1>6 DEF Keeps
<1>12. ASSUME NEW id
       PROVE  firstOf(q, id) = firstOf(queue, id)
  <2>1. withId(q, id, anyStatus) = withId(queue, id, anyStatus)
    BY <1>6, <1>11 DEF withId
  <2> QED
    BY <2>1 DEF firstOf
<1> QED
  BY <1>6, <1>10, <1>11, <1>12 DEF Halts

(* What the end of a run makes of queue, ledger and records: one item is   *)
(* settled by the outcome, and the outcome delivered is that of the run.   *)
LEMMA RunEndsSettles ==
  ASSUME QueueInv, NEW i \in DOMAIN queue, NEW ok \in BOOLEAN, RunEnds(i, ok)
  PROVE  \E new \in Core, f \in DOMAIN queue, item \in QueuedTask :
           /\ queue' = new.queue /\ ledger' = new.ledger /\ crowded' = new.crowded
           /\ Overlap(new) /\ Tried(new.queue) /\ DOMAIN new.queue = DOMAIN queue
           /\ queue[f].id = queue[i].id /\ item.id = queue[i].id
           /\ (item.status = "done") = ok
           /\ \A j \in DOMAIN queue :
                /\ new.queue[j].id = queue[j].id
                /\ new.queue[j].run = IF j = i THEN FALSE ELSE queue[j].run
                /\ MayOpen(new.queue[j]) => MayOpen(queue[j])
                /\ j # f => new.queue[j].status = queue[j].status
           /\ ~hasManifest(queue[i].id) => new.queue[f].status = item.status
           /\ deliverTaskOutcome(item, ok)
           /\ succeeded' = IF ok THEN succeeded \cup {queue[i].id} ELSE succeeded
<1> prices \in Prices
  BY DEF QueueInv, TypeOK
<1>1. PICK q : q = HaltedAt(i, queue)
  OBVIOUS
<1>2. PICK over : over = [queue |-> q, ledger |-> ledger, crowded |-> crowded]
  OBVIOUS
<1>3. /\ over \in Core /\ Overlap(over) /\ Tried(over.queue) /\ over.queue = q
      /\ q \in Seq(QueuedTask) /\ DOMAIN q = DOMAIN queue
      /\ \A j \in DOMAIN queue :
           /\ q[j].id = queue[j].id /\ q[j].status = queue[j].status
           /\ q[j].attempts = queue[j].attempts
           /\ q[j].run = IF j = i THEN FALSE ELSE queue[j].run
           /\ j # i => q[j] = queue[j]
      /\ \A id : firstOf(q, id) = firstOf(queue, id)
  <2>1. Halts(i, queue, q) /\ ItemsChange(queue, q)
    BY <1>1, HaltWrites
  <2>2. over \in Core /\ Overlap(over) /\ Tried(over.queue) /\ over.queue = q
    BY <1>2, <2>1, ChangeKeepsBudget
  <2> QED
    BY <2>1, <2>2 DEF Halts
<1>4. PICK id : id = queue[i].id
  OBVIOUS
<1>5. PICK f : f = firstOf(queue, id)
  OBVIOUS
<1>6. PICK ended : ended = completeQueued(over, id, ok)
  OBVIOUS
<1>7. PICK item : item = ended.queue[f]
  OBVIOUS
<1>8. PICK twice : twice = completeQueued(ended, id, FALSE)
  OBVIOUS
<1>9. PICK final : final = IF ok /\ deliveryThrows(item) THEN twice ELSE ended
  OBVIOUS
<1>10. /\ Becomes(final) /\ deliverTaskOutcome(item, ok)
       /\ succeeded' = IF ok THEN succeeded \cup {id} ELSE succeeded
  <2>1. [state EXCEPT !.queue = [queue EXCEPT ![i] = halted(@)]] = over
    <3>1. [queue EXCEPT ![i] = halted(@)] = q
      BY <1>1 DEF HaltedAt
    <3>2. state = [queue |-> queue, ledger |-> ledger, crowded |-> crowded]
      BY DEF state
    <3>3. [state EXCEPT !.queue = q] = over
      BY <1>2, <3>2
    <3> QED
      BY <3>1, <3>3
  <2> QED
    BY <1>4, <1>5, <1>6, <1>7, <1>8, <1>9, <2>1 DEF RunEnds
<1>11. i \in DOMAIN over.queue /\ over.queue[i].id = id /\ f = firstOf(over.queue, id)
  BY <1>3, <1>4, <1>5
<1>12. /\ ended \in Core /\ Overlap(ended)
       /\ (ok /\ Succeeds(over, ended, id)) \/ (~ok /\ Fails(over, ended, id))
  <2>1. CASE ok = TRUE
    <3>1. ended = completeQueued(over, id, TRUE)
      BY <1>6, <2>1
    <3> QED
      BY <1>3, <1>11, <2>1, <3>1, SuccessSettles
  <2>2. CASE ok = FALSE
    <3>1. ended = completeQueued(over, id, FALSE)
      BY <1>6, <2>2
    <3> QED
      BY <1>3, <1>11, <2>2, <3>1, FailureSettles
  <2> QED
    BY <2>1, <2>2
<1>13. Settles(over, ended, id)
  BY <1>12 DEF Succeeds, Fails
<1>14. SameItems(over.queue, ended.queue) /\ Tried(ended.queue)
  BY <1>3, <1>12, OutcomeOpensNone
<1>15. /\ f \in DOMAIN queue /\ queue[f].id = id /\ DOMAIN ended.queue = DOMAIN queue
       /\ \A j \in DOMAIN queue : j # f => ended.queue[j] = q[j]
       /\ item \in QueuedTask /\ item.id = id
  BY <1>3, <1>7, <1>11, <1>13 DEF Settles, Keeps
<1>16. (item.status = "done") = ok
  <2>1. ok => item.status = "done"
    BY <1>7, <1>11, <1>12 DEF Succeeds
  <2>2. ~ok => item.status # "done"
    BY <1>7, <1>11, <1>12 DEF Fails
  <2> QED
    BY <2>1, <2>2
<1>17. i \in DOMAIN ended.queue /\ ended.queue[i].id = id
  BY <1>3, <1>11, <1>14 DEF SameItems, Keeps
<1>18. /\ twice \in Core /\ Overlap(twice) /\ Fails(ended, twice, id)
       /\ SameItems(ended.queue, twice.queue) /\ Tried(twice.queue)
  <2>1. twice \in Core /\ Overlap(twice) /\ Fails(ended, twice, id)
    BY <1>8, <1>12, <1>17, FailureSettles
  <2> QED
    BY <1>12, <1>14, <2>1, OutcomeOpensNone
<1>19. /\ final \in Core /\ Overlap(final) /\ Tried(final.queue)
       /\ SameItems(over.queue, final.queue)
  <2>1. CASE final = ended
    BY <1>12, <1>14, <2>1
  <2>2. CASE final = twice
    BY <1>14, <1>18, <2>2, SameItemsTrans
  <2> QED
    BY <1>9, <2>1, <2>2
<1>20. firstOf(ended.queue, id) = f
  <2>1. \A j \in DOMAIN queue : ended.queue[j].id = over.queue[j].id
    BY <1>3, <1>14 DEF SameItems, Keeps
  <2>2. \A j \in DOMAIN queue : ended.queue[j].status \in anyStatus /\ over.queue[j].status \in anyStatus
    <3>1. \A j \in DOMAIN queue : ended.queue[j] \in QueuedTask /\ over.queue[j] \in QueuedTask
      BY <1>3, <1>12, <1>15, InQueue DEF Core
    <3> QED
      BY <3>1 DEF QueuedTask, anyStatus
  <2>3. withId(ended.queue, id, anyStatus) = withId(over.queue, id, anyStatus)
    BY <1>3, <1>15, <2>1, <2>2 DEF withId
  <2> QED
    BY <1>11, <2>3 DEF firstOf
<1>21. \A j \in DOMAIN queue : j # f => final.queue[j] = q[j]
  <2>1. \A j \in DOMAIN queue : j # f => twice.queue[j] = ended.queue[j]
    BY <1>15, <1>18, <1>20 DEF Fails, Settles
  <2> QED
    BY <1>9, <1>15, <2>1
<1>22. ~hasManifest(id) => final.queue[f].status = item.status
  BY <1>7, <1>9, <1>15 DEF deliveryThrows, writesManifest
<1>23. ASSUME NEW j \in DOMAIN queue
       PROVE  /\ final.queue[j].id = queue[j].id
              /\ final.queue[j].run = IF j = i THEN FALSE ELSE queue[j].run
              /\ MayOpen(final.queue[j]) => MayOpen(queue[j])
              /\ j # f => final.queue[j].status = queue[j].status
  <2>1. /\ final.queue[j].id = q[j].id /\ final.queue[j].run = q[j].run
        /\ MayOpen(final.queue[j]) => MayOpen(q[j])
    BY <1>3, <1>19 DEF SameItems, Keeps
  <2>2. MayOpen(q[j]) => MayOpen(queue[j])
    BY <1>3 DEF MayOpen
  <2>3. j # f => final.queue[j].status = queue[j].status
    BY <1>3, <1>21
  <2> QED
    BY <1>3, <2>1, <2>2, <2>3
<1>24. queue' = final.queue /\ ledger' = final.ledger /\ crowded' = final.crowded
  BY <1>10 DEF Becomes
<1>25. DOMAIN final.queue = DOMAIN queue
  BY <1>3, <1>19 DEF SameItems
<1> QED
  BY <1>4, <1>10, <1>15, <1>16, <1>19, <1>22, <1>23, <1>24, <1>25

----------------------------------------------------------------------------
(* The invariant.                                                          *)

(* The rest of the type invariant, beside queue and ledger.                *)
TypeRest ==
  /\ bucket \in [age : 0..RateWindow, count : 0..RateLimit]
  /\ passed \in [0..(RateWindow - 1) -> Nat]
  /\ seen \in Seq(Deliveries) /\ Len(seen) <= SeenMax
  /\ listening \subseteq Agents /\ prices \in Prices
  /\ native \in [NativeIds -> [status : {"none", "pending", "running", "done", "failed"},
                               mode : {"ui", "git", "webhook", "github"}]]
  /\ manifest \in [GitIds -> {"none", "pending", "done", "failed"}]
  /\ connectors \subseteq {"ui", "git", "webhook", "github"}
  /\ journal \subseteq Ids \X {"result", "error"} \X {"webhook", "github"}
  /\ changes \in 0..MaxChanges
  /\ forgotten \in [Deliveries -> Nat] /\ forced \in [GitIds -> Nat]
  /\ succeeded \subseteq Ids

(* A native task is in the queue once, and its record agrees with its      *)
(* item on whether it is done; only a claimed item of it runs.             *)
InboxAgrees ==
  /\ NativeOnce(queue)
  /\ \A i \in DOMAIN queue, n \in NativeIds : queue[i].id = nativeTask(n) =>
       /\ native[n].status # "none"
       /\ queue[i].run => queue[i].status = "claimed"
       /\ (native[n].status = "done") = (queue[i].status = "done")
  /\ \A n \in NativeIds :
       native[n].status = "done" => \E i \in DOMAIN queue : queue[i].id = nativeTask(n)

IntakeInv == QueueInv /\ InboxAgrees /\ OpensOnce(queue)

(* A step to a queue and a ledger that keep the invariant keeps it.        *)
LEMMA QueueInvParts ==
  ASSUME NEW new \in Core, queue' = new.queue, ledger' = new.ledger, crowded' = new.crowded,
         Overlap(new), Tried(new.queue), UNCHANGED prices, TypeRest'
  PROVE  QueueInv'
<1>1. state' = new
  BY NextState
<1>2. queue' \in Seq(QueuedTask) /\ ledger' \in [age : 0..BudgetWindow, units : Nat] /\ crowded' \in Nat
  BY DEF Core
<1>3. TypeOK'
  BY <1>2 DEF TypeOK, TypeRest
<1>4. Overlap(state)' /\ Tried(queue)'
  BY <1>1 DEF Overlap, Tried, limited, activeBudgetPolicy, UnitCost, BudgetPolicies
<1> QED
  BY <1>3, <1>4 DEF QueueInv

(* A step that leaves queue and ledger alone.                              *)
LEMMA CoreUnchanged ==
  ASSUME QueueInv, UNCHANGED <<queue, ledger, crowded, prices>>, TypeRest'
  PROVE  QueueInv'
<1>1. state \in Core /\ state.queue = queue /\ state.ledger = ledger /\ state.crowded = crowded
  BY StateIsCore DEF QueueInv
<1>2. PICK new : new = state
  OBVIOUS
<1>3. new \in Core /\ Overlap(new) /\ Tried(new.queue)
  BY <1>1, <1>2 DEF QueueInv
<1>4. queue' = new.queue /\ ledger' = new.ledger /\ crowded' = new.crowded
  BY <1>1, <1>2
<1> QED
  BY <1>3, <1>4, QueueInvParts

(* A step that changes items where they stand.                             *)
LEMMA ItemsChanged ==
  ASSUME QueueInv, ItemsChange(queue, queue'), UNCHANGED <<ledger, crowded, prices>>, TypeRest'
  PROVE  QueueInv'
<1>1. PICK r : r = queue'
  OBVIOUS
<1>2. PICK new : new = [queue |-> r, ledger |-> ledger, crowded |-> crowded]
  OBVIOUS
<1>3. new \in Core /\ Overlap(new) /\ Tried(new.queue)
  BY <1>1, <1>2, ChangeKeepsBudget
<1>4. queue' = new.queue /\ ledger' = new.ledger /\ crowded' = new.crowded
  BY <1>1, <1>2
<1> QED
  BY <1>3, <1>4, QueueInvParts

(* Steps that leave the other variables alone, or but the counters.        *)
LEMMA RestStays ==
  ASSUME QueueInv, UNCHANGED <<ingress, records>>, changes' \in 0..MaxChanges,
         forced' \in [GitIds -> Nat]
  PROVE  TypeRest'
BY DEF QueueInv, TypeOK, TypeRest, ingress, records

(* Operator commands are counted up to their bound.                        *)
LEMMA ChangeCounts ==
  ASSUME QueueInv, Change
  PROVE  changes' \in 0..MaxChanges
BY IntakeAssumption DEF QueueInv, TypeOK, Change

(* A command counts for the manifest that it enqueues, and for no other.   *)
LEMMA ForcedCounts ==
  ASSUME QueueInv, NEW id
  PROVE  /\ forcedAgain(id) \in [GitIds -> Nat]
         /\ \A g \in GitIds : forced[g] \in Nat
         /\ \A g \in GitIds : forcedAgain(id)[g] = IF id = gitTask(g) THEN forced[g] + 1 ELSE forced[g]
BY DEF QueueInv, TypeOK, forcedAgain

(* Items that stay native, or not, and done, or not, agree with the inbox. *)
LEMMA InboxStays ==
  ASSUME InboxAgrees, DOMAIN queue' = DOMAIN queue, UNCHANGED native,
         \A i \in DOMAIN queue : queue'[i].id = queue[i].id,
         \A i \in DOMAIN queue : IsNative(queue[i]) =>
           /\ (queue'[i].status = "done") = (queue[i].status = "done")
           /\ queue'[i].run => queue'[i].status = "claimed"
  PROVE  InboxAgrees'
<1>1. NativeOnce(queue')
  BY DEF InboxAgrees, NativeOnce, IsNative
<1>2. ASSUME NEW i \in DOMAIN queue, NEW n \in NativeIds, queue[i].id = nativeTask(n)
      PROVE  /\ native[n].status # "none"
             /\ queue'[i].run => queue'[i].status = "claimed"
             /\ (native[n].status = "done") = (queue'[i].status = "done")
  <2>1. IsNative(queue[i])
    BY <1>2 DEF IsNative
  <2> QED
    BY <1>2, <2>1 DEF InboxAgrees
<1>3. \A n \in NativeIds :
        native[n].status = "done" => \E i \in DOMAIN queue : queue[i].id = nativeTask(n)
  BY DEF InboxAgrees
<1>4. \A i \in DOMAIN queue', n \in NativeIds : queue'[i].id = nativeTask(n) =>
        /\ native'[n].status # "none"
        /\ queue'[i].run => queue'[i].status = "claimed"
        /\ (native'[n].status = "done") = (queue'[i].status = "done")
  BY <1>2
<1>5. \A n \in NativeIds :
        native'[n].status = "done" => \E i \in DOMAIN queue' : queue'[i].id = nativeTask(n)
  BY <1>3
<1> QED
  BY <1>1, <1>4, <1>5 DEF InboxAgrees, NativeOnce, IsNative, nativeTask

(* New items that are none of the inbox do not disturb it.                 *)
LEMMA InboxGrows ==
  ASSUME InboxAgrees, NEW ids, Grows(queue, queue', ids), UNCHANGED native,
         \A n \in NativeIds : nativeTask(n) \notin ids
  PROVE  InboxAgrees'
<1>1. /\ DOMAIN queue \subseteq DOMAIN queue'
      /\ \A i \in DOMAIN queue : queue'[i] = queue[i]
      /\ \A i \in DOMAIN queue' : i \in DOMAIN queue \/ \A n \in NativeIds : queue'[i].id # nativeTask(n)
  BY DEF Grows
<1>2. NativeOnce(queue')
  BY <1>1 DEF InboxAgrees, NativeOnce, IsNative
<1>3. ASSUME NEW i \in DOMAIN queue', NEW n \in NativeIds, queue'[i].id = nativeTask(n)
      PROVE  /\ native[n].status # "none"
             /\ queue'[i].run => queue'[i].status = "claimed"
             /\ (native[n].status = "done") = (queue'[i].status = "done")
  <2>1. i \in DOMAIN queue /\ queue'[i] = queue[i]
    BY <1>1, <1>3
  <2> QED
    BY <1>3, <2>1 DEF InboxAgrees
<1>4. \A n \in NativeIds :
        native[n].status = "done" => \E i \in DOMAIN queue' : queue'[i].id = nativeTask(n)
  BY <1>1 DEF InboxAgrees
<1> QED
  BY <1>2, <1>3, <1>4 DEF InboxAgrees, NativeOnce, IsNative, nativeTask

(* If no item opens, no manifest has more tasks that may open.             *)
LEMMA OpensFewer ==
  ASSUME QueueInv, OpensOnce(queue), DOMAIN queue' = DOMAIN queue,
         \A i \in DOMAIN queue :
           queue'[i].id = queue[i].id /\ (MayOpen(queue'[i]) => MayOpen(queue[i])),
         forced' \in [GitIds -> Nat], \A g \in GitIds : forced'[g] >= forced[g]
  PROVE  OpensOnce(queue)'
<1> SUFFICES ASSUME NEW g \in GitIds
             PROVE  Cardinality(mayOpen(queue', gitTask(g))) <= 1 + forced'[g]
  BY DEF OpensOnce, mayOpen, MayOpen, gitTask
<1>1. PICK old, new : old = mayOpen(queue, gitTask(g)) /\ new = mayOpen(queue', gitTask(g))
  OBVIOUS
<1>2. new \subseteq old /\ old \subseteq DOMAIN queue
  BY <1>1 DEF mayOpen
<1>3. state \in Core /\ state.queue = queue
  BY StateIsCore DEF QueueInv
<1>4. IsFiniteSet(old) /\ Cardinality(old) \in Nat
  BY <1>2, <1>3, IndicesFinite
<1>5. Cardinality(new) <= Cardinality(old) /\ Cardinality(new) \in Nat
  BY <1>2, <1>4, FS_Subset, FS_CardinalityType
<1>6. Cardinality(old) <= 1 + forced[g]
  BY <1>1 DEF OpensOnce
<1>7. forced[g] \in Nat /\ forced'[g] \in Nat
  BY DEF QueueInv, TypeOK
<1> QED
  BY <1>1, <1>4, <1>5, <1>6, <1>7

(* Ids of tasks of different origin are different.                         *)
LEMMA Origins ==
  /\ \A n \in NativeIds, g \in GitIds : nativeTask(n) # gitTask(g)
  /\ \A n \in NativeIds, d \in Deliveries, a \in Agents : nativeTask(n) # deliveryTask(d, a)
  /\ \A g \in GitIds, d \in Deliveries, a \in Agents : gitTask(g) # deliveryTask(d, a)
  /\ \A n \in NativeIds : nativeTask(n) # eventId /\ ~hasManifest(nativeTask(n))
  /\ \A g \in GitIds : gitTask(g) # eventId
  /\ \A d \in Deliveries, a \in Agents : deliveryTask(d, a) # eventId
  /\ \A n, m \in NativeIds : nativeTask(n) = nativeTask(m) => n = m
  /\ \A g, h \in GitIds : gitTask(g) = gitTask(h) => g = h
  /\ \A d, e \in Deliveries, a, b \in Agents :
       deliveryTask(d, a) = deliveryTask(e, b) => d = e /\ a = b
BY DEF nativeTask, gitTask, deliveryTask, eventId, hasManifest

----------------------------------------------------------------------------
(* Each action keeps the invariant.                                        *)

(* A claimed native item may run; no manifest has a task more.             *)
LEMMA ClaimKeeps ==
  ASSUME IntakeInv, NEW i \in DOMAIN queue, Claim(i)
  PROVE  IntakeInv'
<1>1. QueueInv /\ InboxAgrees /\ OpensOnce(queue)
  BY DEF IntakeInv
<1>2. /\ ItemsChange(queue, queue')
      /\ \A j \in DOMAIN queue : j # i => queue'[j] = queue[j]
      /\ queue[i].status = "pending" /\ queue'[i].status = "claimed" /\ queue'[i].run = TRUE
      /\ queue'[i].id = queue[i].id
  BY <1>1, ClaimChanges
<1>3. UNCHANGED <<changes, ledger, crowded, forced, ingress, records>>
  BY DEF Claim
<1>4. changes \in 0..MaxChanges /\ forced \in [GitIds -> Nat]
  BY <1>1 DEF QueueInv, TypeOK
<1>5. TypeRest'
  BY <1>1, <1>3, <1>4, RestStays
<1>6. QueueInv'
  BY <1>1, <1>2, <1>3, <1>5, ItemsChanged DEF ingress
<1>7. DOMAIN queue' = DOMAIN queue /\ \A j \in DOMAIN queue : queue'[j].id = queue[j].id
  BY <1>2 DEF ItemsChange
<1>8. UNCHANGED native
  BY <1>3 DEF records
<1>9. ASSUME NEW j \in DOMAIN queue
      PROVE  /\ IsNative(queue[j]) =>
                  /\ (queue'[j].status = "done") = (queue[j].status = "done")
                  /\ queue'[j].run => queue'[j].status = "claimed"
             /\ MayOpen(queue'[j]) => MayOpen(queue[j])
  <2>1. CASE j = i
    BY <1>2, <2>1 DEF MayOpen
  <2>2. CASE j # i
    BY <1>1, <1>2, <2>2 DEF InboxAgrees, IsNative
  <2> QED
    BY <2>1, <2>2
<1>10. InboxAgrees'
  BY <1>1, <1>7, <1>8, <1>9, InboxStays
<1>11. \A g \in GitIds : forced'[g] >= forced[g]
  BY <1>3, <1>4
<1>12. OpensOnce(queue)'
  BY <1>1, <1>3, <1>4, <1>7, <1>9, <1>11, OpensFewer
<1> QED
  BY <1>6, <1>10, <1>12 DEF IntakeInv

(* An abandoned drain leaves the outcomes as they are.                     *)
LEMMA CrashKeeps ==
  ASSUME IntakeInv, Crash
  PROVE  IntakeInv'
<1>1. QueueInv /\ InboxAgrees /\ OpensOnce(queue)
  BY DEF IntakeInv
<1>2. /\ ItemsChange(queue, queue')
      /\ \A j \in DOMAIN queue :
           /\ queue'[j].id = queue[j].id /\ queue'[j].status = queue[j].status
           /\ queue'[j].attempts = queue[j].attempts /\ queue'[j].run = FALSE
  BY <1>1, CrashChanges
<1>3. UNCHANGED <<ledger, crowded, forced, ingress, records>>
  BY DEF Crash
<1>4. changes' \in 0..MaxChanges /\ forced \in [GitIds -> Nat]
  BY <1>1, ChangeCounts DEF QueueInv, TypeOK, Crash
<1>5. TypeRest'
  BY <1>1, <1>3, <1>4, RestStays
<1>6. QueueInv'
  BY <1>1, <1>2, <1>3, <1>5, ItemsChanged DEF ingress
<1>7. DOMAIN queue' = DOMAIN queue /\ \A j \in DOMAIN queue : queue'[j].id = queue[j].id
  BY <1>2 DEF ItemsChange
<1>8. UNCHANGED native
  BY <1>3 DEF records
<1>9. \A j \in DOMAIN queue :
        /\ (queue'[j].status = "done") = (queue[j].status = "done")
        /\ queue'[j].run => queue'[j].status = "claimed"
        /\ MayOpen(queue'[j]) => MayOpen(queue[j])
  BY <1>2 DEF MayOpen
<1>10. InboxAgrees'
  BY <1>1, <1>7, <1>8, <1>9, InboxStays
<1>11. \A g \in GitIds : forced'[g] >= forced[g]
  BY <1>3, <1>4
<1>12. OpensOnce(queue)'
  BY <1>1, <1>3, <1>4, <1>7, <1>9, <1>11, OpensFewer
<1> QED
  BY <1>6, <1>10, <1>12 DEF IntakeInv

(* Leases that run out fail items that are not done, and do not run.       *)
LEMMA ReclaimsKeep ==
  ASSUME IntakeInv, ReclaimExpiredLeases
  PROVE  IntakeInv'
<1>1. QueueInv /\ InboxAgrees /\ OpensOnce(queue)
  BY DEF IntakeInv
<1>2. PICK expired \in SUBSET {i \in DOMAIN queue : queue[i].status = "claimed" /\ ~queue[i].run} \ {{}} :
        /\ Becomes(reclaimed(expired))
        /\ UNCHANGED <<changes, forced, ingress, records>>
  BY DEF ReclaimExpiredLeases
<1>3. PICK new : new = reclaimed(expired)
  OBVIOUS
<1>4. \A k \in expired : k \in DOMAIN queue => queue[k].status = "claimed" /\ ~queue[k].run
  BY <1>2
<1>5. /\ new \in Core /\ Overlap(new) /\ Tried(new.queue)
      /\ SameItems(queue, new.queue) /\ Alike(queue, new.queue)
  BY <1>1, <1>3, <1>4, ReclaimKeeps DEF QueueInv, InboxAgrees
<1>6. queue' = new.queue /\ ledger' = new.ledger /\ crowded' = new.crowded
  BY <1>2, <1>3 DEF Becomes
<1>7. changes \in 0..MaxChanges /\ forced \in [GitIds -> Nat]
  BY <1>1 DEF QueueInv, TypeOK
<1>8. TypeRest'
  BY <1>1, <1>2, <1>7, RestStays
<1>9. QueueInv'
  BY <1>2, <1>5, <1>6, <1>8, QueueInvParts DEF ingress
<1>10. /\ DOMAIN queue' = DOMAIN queue
       /\ \A j \in DOMAIN queue :
            /\ queue'[j].id = queue[j].id /\ queue'[j].run = queue[j].run
            /\ MayOpen(queue'[j]) => MayOpen(queue[j])
  BY <1>5, <1>6 DEF SameItems, Keeps
<1>11. UNCHANGED native
  BY <1>2 DEF records
<1>12. ASSUME NEW j \in DOMAIN queue, IsNative(queue[j])
       PROVE  /\ (queue'[j].status = "done") = (queue[j].status = "done")
              /\ queue'[j].run => queue'[j].status = "claimed"
  <2>1. queue[j].run => queue[j].status = "claimed"
    BY <1>1, <1>12 DEF InboxAgrees, IsNative
  <2> QED
    BY <1>5, <1>6, <1>10, <1>12, <2>1 DEF Alike
<1>13. InboxAgrees'
  BY <1>1, <1>10, <1>11, <1>12, InboxStays
<1>14. forced' = forced /\ \A g \in GitIds : forced'[g] >= forced[g]
  BY <1>2, <1>7
<1>15. OpensOnce(queue)'
  BY <1>1, <1>7, <1>10, <1>14, OpensFewer
<1> QED
  BY <1>9, <1>13, <1>15 DEF IntakeInv

(* A requeue may open a second task of a manifest, and is counted.         *)
LEMMA RequeueKeeps ==
  ASSUME IntakeInv, NEW id \in Ids, RequeueDead(id)
  PROVE  IntakeInv'
<1>1. QueueInv /\ InboxAgrees /\ OpensOnce(queue)
  BY DEF IntakeInv
<1>2. ItemsChange(queue, queue')
  BY <1>1, RequeueChanges
<1>3. PICK i \in DOMAIN queue :
        /\ queue[i].id = id /\ queue[i].status = "dead"
        /\ queue'[i].status = "pending" /\ queue'[i].run = queue[i].run
        /\ \A j \in DOMAIN queue : j # i => queue'[j] = queue[j]
  BY <1>1, RequeueChanges
<1>4. UNCHANGED <<ledger, crowded, ingress, records>> /\ forced' = forcedAgain(id) /\ Change
  BY DEF RequeueDead
<1>5. /\ forced' \in [GitIds -> Nat] /\ \A g \in GitIds : forced[g] \in Nat
      /\ \A g \in GitIds : forced'[g] = IF id = gitTask(g) THEN forced[g] + 1 ELSE forced[g]
  BY <1>1, <1>4, ForcedCounts
<1>6. TypeRest'
  BY <1>1, <1>4, <1>5, ChangeCounts, RestStays
<1>7. QueueInv'
  BY <1>1, <1>2, <1>4, <1>6, ItemsChanged DEF ingress
<1>8. DOMAIN queue' = DOMAIN queue /\ \A j \in DOMAIN queue : queue'[j].id = queue[j].id
  BY <1>2 DEF ItemsChange, Keeps
<1>9. UNCHANGED native
  BY <1>4 DEF records
<1>10. ASSUME NEW j \in DOMAIN queue, IsNative(queue[j])
       PROVE  /\ (queue'[j].status = "done") = (queue[j].status = "done")
              /\ queue'[j].run => queue'[j].status = "claimed"
  <2>1. queue[j].run => queue[j].status = "claimed"
    BY <1>1, <1>10 DEF InboxAgrees, IsNative
  <2> QED
    BY <1>3, <2>1
<1>11. InboxAgrees'
  BY <1>1, <1>8, <1>9, <1>10, InboxStays
<1>12. ASSUME NEW g \in GitIds
       PROVE  Cardinality(mayOpen(queue', gitTask(g))) <= 1 + forced'[g]
  <2>1. PICK old : old = mayOpen(queue, gitTask(g))
    OBVIOUS
  <2>2. PICK new : new = mayOpen(queue', gitTask(g))
    OBVIOUS
  <2>3. /\ state \in Core /\ state.queue = queue /\ old \subseteq DOMAIN queue
    BY <1>1, <2>1, StateIsCore DEF QueueInv, mayOpen
  <2>4. IsFiniteSet(old) /\ Cardinality(old) \in Nat
    BY <2>3, IndicesFinite
  <2>5. Cardinality(old) <= 1 + forced[g]
    BY <1>1, <2>1 DEF OpensOnce
  <2>6. CASE id = gitTask(g)
    <3>1. new \subseteq old \cup {i}
      BY <1>3, <1>8, <2>1, <2>2 DEF mayOpen
    <3>2. Cardinality(new) <= Cardinality(old) + 1 /\ Cardinality(new) \in Nat
      BY <2>4, <3>1, OneMore
    <3> QED
      BY <1>5, <2>2, <2>4, <2>5, <2>6, <3>2
  <2>7. CASE id # gitTask(g)
    <3>1. new \subseteq old
      BY <1>3, <1>8, <2>1, <2>2, <2>7 DEF mayOpen
    <3>2. Cardinality(new) <= Cardinality(old) /\ Cardinality(new) \in Nat
      BY <2>4, <3>1, FS_Subset, FS_CardinalityType
    <3> QED
      BY <1>5, <2>2, <2>4, <2>5, <2>7, <3>2
  <2> QED
    BY <2>6, <2>7
<1>13. OpensOnce(queue)'
  BY <1>12 DEF OpensOnce, mayOpen, MayOpen, gitTask
<1> QED
  BY <1>7, <1>11, <1>13 DEF IntakeInv

(* Growth by items of no manifest opens no manifest's task.                *)
LEMMA OpensNoManifest ==
  ASSUME OpensOnce(queue), NEW ids, Grows(queue, queue', ids), UNCHANGED forced,
         \A g \in GitIds : gitTask(g) \notin ids
  PROVE  OpensOnce(queue)'
<1>1. ASSUME NEW g \in GitIds
      PROVE  Cardinality(mayOpen(queue', gitTask(g))) <= 1 + forced[g]
  <2>1. PICK q, new, other : q = queue /\ new = queue' /\ other = gitTask(g)
    OBVIOUS
  <2>2. mayOpen(new, other) = mayOpen(q, other)
    BY <2>1, OthersStay
  <2> QED
    BY <2>1, <2>2 DEF OpensOnce
<1> QED
  BY <1>1 DEF OpensOnce, mayOpen, MayOpen, gitTask

(* An event counts in its rate window when it passes.                      *)
LEMMA CountedTypes ==
  ASSUME QueueInv, Counted
  PROVE  /\ bucket' \in [age : 0..RateWindow, count : 0..RateLimit]
         /\ passed' \in [0..(RateWindow - 1) -> Nat]
<1>1. PICK b : b = checkRateLimit(bucket)
  OBVIOUS
<1>2. /\ bucket' = IF b.count < RateLimit THEN [b EXCEPT !.count = @ + 1] ELSE b
      /\ passed' = IF b.count < RateLimit THEN [passed EXCEPT ![0] = @ + 1] ELSE passed
  BY <1>1 DEF Counted, allowed
<1>3. b \in [age : 0..RateWindow, count : 0..RateLimit]
  BY <1>1, IntakeAssumption DEF checkRateLimit, QueueInv, TypeOK
<1>4. bucket' \in [age : 0..RateWindow, count : 0..RateLimit]
  <2>1. CASE b.count < RateLimit
    <3>1. PICK c : c = b.count + 1
      OBVIOUS
    <3>2. b = [age |-> b.age, count |-> b.count]
      BY <1>3
    <3>3. bucket' = [b EXCEPT !.count = c]
      BY <1>2, <2>1, <3>1
    <3>4. bucket' = [age |-> b.age, count |-> c]
      BY <3>2, <3>3
    <3>5. c \in 0..RateLimit /\ b.age \in 0..RateWindow
      BY <1>3, <2>1, <3>1, IntakeAssumption
    <3> QED
      BY <3>4, <3>5
  <2>2. CASE ~(b.count < RateLimit)
    BY <1>2, <1>3, <2>2
  <2> QED
    BY <2>1, <2>2
<1>5. passed \in [0..(RateWindow - 1) -> Nat]
  BY DEF QueueInv, TypeOK
<1>6. 0 \in 0..(RateWindow - 1)
  BY IntakeAssumption
<1>7. passed' \in [0..(RateWindow - 1) -> Nat]
  BY <1>2, <1>5, <1>6
<1> QED
  BY <1>4, <1>7

(* The tasks of an event are none of the inbox and none of a manifest.     *)
LEMMA EventsKeep ==
  ASSUME IntakeInv, NEW ids \in [Agents -> Ids], Becomes(enqueueForAll(ids)) \/ Becomes(state),
         UNCHANGED <<prices, forced, native>>, TypeRest',
         \A a \in Agents, n \in NativeIds : ids[a] # nativeTask(n),
         \A a \in Agents, g \in GitIds : ids[a] # gitTask(g)
  PROVE  IntakeInv'
<1>1. QueueInv /\ InboxAgrees /\ OpensOnce(queue)
  BY DEF IntakeInv
<1>2. PICK all : all = enqueueForAll(ids)
  OBVIOUS
<1>3. PICK names : names = {ids[a] : a \in Agents}
  OBVIOUS
<1>4. all \in Core /\ Overlap(all) /\ Tried(all.queue) /\ Grows(queue, all.queue, names)
  BY <1>1, <1>2, <1>3, ForAllGrows DEF QueueInv
<1>5. /\ state \in Core /\ Overlap(state) /\ Tried(state.queue) /\ state.queue = queue
      /\ Grows(queue, state.queue, names)
  BY <1>1, StateIsCore DEF QueueInv, Grows
<1>6. PICK new : (new = all \/ new = state) /\ Becomes(new)
  BY <1>2
<1>7. new \in Core /\ Overlap(new) /\ Tried(new.queue) /\ Grows(queue, new.queue, names)
  BY <1>4, <1>5, <1>6
<1>8. queue' = new.queue /\ ledger' = new.ledger /\ crowded' = new.crowded
  BY <1>6 DEF Becomes
<1>9. QueueInv'
  BY <1>7, <1>8, QueueInvParts
<1>10. Grows(queue, queue', names)
  BY <1>7, <1>8
<1>11. \A n \in NativeIds : nativeTask(n) \notin names
  BY <1>3
<1>12. \A g \in GitIds : gitTask(g) \notin names
  BY <1>3
<1>13. InboxAgrees'
  BY <1>1, <1>10, <1>11, InboxGrows
<1>14. OpensOnce(queue)'
  BY <1>1, <1>10, <1>12, OpensNoManifest
<1> QED
  BY <1>9, <1>13, <1>14 DEF IntakeInv

(* An event without a delivery id, rate limited or not.                    *)
LEMMA EventKeeps ==
  ASSUME IntakeInv, EventToTask
  PROVE  IntakeInv'
<1>1. QueueInv
  BY DEF IntakeInv
<1>2. PICK ids : ids = [a \in Agents |-> eventId]
  OBVIOUS
<1>3. ids \in [Agents -> Ids] /\ \A a \in Agents : ids[a] = eventId
  BY <1>2 DEF Ids
<1>4. /\ Becomes(enqueueForAll(ids)) \/ Becomes(state)
      /\ Counted /\ Change /\ UNCHANGED <<forced, seen, forgotten, listening, prices, records>>
  BY <1>2 DEF EventToTask
<1>5. changes' \in 0..MaxChanges
  BY <1>1, <1>4, ChangeCounts
<1>6. /\ bucket' \in [age : 0..RateWindow, count : 0..RateLimit]
      /\ passed' \in [0..(RateWindow - 1) -> Nat]
  BY <1>1, <1>4, CountedTypes
<1>7. TypeRest'
  BY <1>1, <1>4, <1>5, <1>6 DEF QueueInv, TypeOK, TypeRest, records
<1>8. UNCHANGED <<prices, forced, native>>
  BY <1>4 DEF records
<1> QED
  BY <1>3, <1>4, <1>7, <1>8, EventsKeep, Origins

(* A simulated event, which no limit holds back.                           *)
LEMMA SimulateKeeps ==
  ASSUME IntakeInv, SimulateEvent
  PROVE  IntakeInv'
<1>1. QueueInv
  BY DEF IntakeInv
<1>2. PICK ids : ids = [a \in Agents |-> eventId]
  OBVIOUS
<1>3. ids \in [Agents -> Ids] /\ \A a \in Agents : ids[a] = eventId
  BY <1>2 DEF Ids
<1>4. Becomes(enqueueForAll(ids)) /\ Change /\ UNCHANGED <<forced, ingress, records>>
  BY <1>2 DEF SimulateEvent
<1>5. changes' \in 0..MaxChanges /\ forced' \in [GitIds -> Nat]
  BY <1>1, <1>4, ChangeCounts DEF QueueInv, TypeOK
<1>6. TypeRest'
  BY <1>1, <1>4, <1>5, RestStays
<1>7. UNCHANGED <<prices, forced, native>>
  BY <1>4 DEF ingress, records
<1> QED
  BY <1>3, <1>4, <1>6, <1>7, EventsKeep, Origins

(* A sync of all the manifests.                                            *)
LEMMA SyncKeeps ==
  ASSUME IntakeInv, SyncTasks
  PROVE  IntakeInv'
<1>1. QueueInv /\ InboxAgrees /\ OpensOnce(queue)
  BY DEF IntakeInv
<1>2. PICK new : new = scanned
  OBVIOUS
<1>3. /\ new \in Core /\ Overlap(new) /\ Tried(new.queue)
      /\ Grows(queue, new.queue, gitTasks) /\ OpensOnce(new.queue)
  BY <1>1, <1>2, ScanOpensOnce DEF QueueInv
<1>4. Becomes(new) /\ UNCHANGED <<changes, forced, ingress, records>>
  BY <1>2 DEF SyncTasks
<1>5. queue' = new.queue /\ ledger' = new.ledger /\ crowded' = new.crowded
  BY <1>4 DEF Becomes
<1>6. changes \in 0..MaxChanges /\ forced \in [GitIds -> Nat]
  BY <1>1 DEF QueueInv, TypeOK
<1>7. TypeRest'
  BY <1>1, <1>4, <1>6, RestStays
<1>8. QueueInv'
  BY <1>3, <1>4, <1>5, <1>7, QueueInvParts DEF ingress
<1>9. Grows(queue, queue', gitTasks) /\ UNCHANGED native
  BY <1>3, <1>4, <1>5 DEF records
<1>10. \A n \in NativeIds : nativeTask(n) \notin gitTasks
  BY Origins DEF gitTasks
<1>11. InboxAgrees'
  BY <1>1, <1>9, <1>10, InboxGrows
<1>12. OpensOnce(queue)'
  BY <1>3, <1>4, <1>5 DEF OpensOnce, mayOpen, MayOpen, gitTask
<1> QED
  BY <1>8, <1>11, <1>12 DEF IntakeInv

(* A command to enqueue a manifest is counted.                             *)
LEMMA ApplyKeeps ==
  ASSUME IntakeInv, NEW g \in GitIds, ApplyTask(g)
  PROVE  IntakeInv'
<1> prices \in Prices
  BY DEF IntakeInv, QueueInv, TypeOK
<1>1. QueueInv /\ InboxAgrees /\ OpensOnce(queue)
  BY DEF IntakeInv
<1>2. PICK id : id = gitTask(g)
  OBVIOUS
<1>3. PICK s : s = state
  OBVIOUS
<1>4. PICK new : new = enqueueTask(s, id, AgentOf[g], "git")
  OBVIOUS
<1>5. s \in Core /\ s.queue = queue /\ Overlap(s) /\ Tried(s.queue)
  BY <1>1, <1>3, StateIsCore DEF QueueInv
<1>6. id \in Ids /\ AgentOf[g] \in Agents
  BY <1>2, IntakeAssumption DEF Ids
<1>7. /\ new \in Core /\ Overlap(new) /\ Tried(new.queue)
      /\ Grows(s.queue, new.queue, {id})
      /\ DOMAIN s.queue = 1..Len(s.queue) /\ Len(s.queue) \in Nat
      /\ DOMAIN new.queue \subseteq 1..(Len(s.queue) + 1)
  <2>1. PICK a \in Agents : a = AgentOf[g]
    BY <1>6
  <2>2. PICK mode \in {"ui", "git", "webhook", "github"} : mode = "git"
    OBVIOUS
  <2>3. new = enqueueTask(s, id, a, mode)
    BY <1>4, <2>1, <2>2
  <2> QED
    BY <1>5, <1>6, <2>3, SubmissionGrows
<1>8. /\ Becomes(new) /\ Change /\ UNCHANGED <<ingress, records>> /\ forced' = forcedAgain(id)
  BY <1>2, <1>3, <1>4 DEF ApplyTask
<1>9. queue' = new.queue /\ ledger' = new.ledger /\ crowded' = new.crowded
  BY <1>8 DEF Becomes
<1>10. /\ forced' \in [GitIds -> Nat] /\ \A h \in GitIds : forced[h] \in Nat
       /\ \A h \in GitIds : forced'[h] = IF id = gitTask(h) THEN forced[h] + 1 ELSE forced[h]
  BY <1>1, <1>8, ForcedCounts
<1>11. TypeRest'
  BY <1>1, <1>8, <1>10, ChangeCounts, RestStays
<1>12. QueueInv'
  BY <1>7, <1>8, <1>9, <1>11, QueueInvParts DEF ingress
<1>13. PICK ids : ids = {id}
  OBVIOUS
<1>14. Grows(queue, queue', ids) /\ UNCHANGED native
  BY <1>5, <1>7, <1>8, <1>9, <1>13 DEF records
<1>15. \A n \in NativeIds : nativeTask(n) \notin ids
  BY <1>2, <1>13, Origins
<1>16. InboxAgrees'
  BY <1>1, <1>14, <1>15, InboxGrows
<1>17. ASSUME NEW h \in GitIds
       PROVE  Cardinality(mayOpen(queue', gitTask(h))) <= 1 + forced'[h]
  <2>1. PICK other : other = gitTask(h)
    OBVIOUS
  <2>2. Cardinality(mayOpen(s.queue, other)) <= 1 + forced[h]
    BY <1>1, <1>5, <2>1 DEF OpensOnce
  <2>3. Cardinality(mayOpen(s.queue, other)) \in Nat /\ Cardinality(mayOpen(new.queue, other)) \in Nat
    BY <1>5, <1>7, IndicesFinite DEF mayOpen
  <2>4. CASE other = id
    <3>1. Cardinality(mayOpen(new.queue, other)) <= Cardinality(mayOpen(s.queue, other)) + 1
      BY <1>5, <1>7, SubmissionOpens
    <3>2. forced'[h] = forced[h] + 1 /\ forced[h] \in Nat
      BY <1>10, <2>1, <2>4
    <3>3. mayOpen(queue', gitTask(h)) = mayOpen(new.queue, other)
      BY <1>9, <2>1
    <3>4. Cardinality(mayOpen(new.queue, other)) <= 1 + (forced[h] + 1)
      BY <2>2, <2>3, <3>1, <3>2
    <3> QED
      BY <3>2, <3>3, <3>4
  <2>5. CASE other # id
    <3>1. PICK p, q : p = s.queue /\ q = new.queue
      OBVIOUS
    <3>2. mayOpen(q, other) = mayOpen(p, other)
      BY <1>7, <2>5, <3>1, OthersStay
    <3> QED
      BY <1>9, <1>10, <2>1, <2>2, <2>5, <3>1, <3>2
  <2> QED
    BY <2>4, <2>5
<1>18. OpensOnce(queue)'
  BY <1>17 DEF OpensOnce, mayOpen, MayOpen, gitTask
<1> QED
  BY <1>12, <1>16, <1>18 DEF IntakeInv

(* A native task comes with its record, which no other task had.           *)
LEMMA SubmitKeeps ==
  ASSUME IntakeInv, NEW n \in NativeIds, NEW mode \in Modes, SubmitNativeTask(n, mode)
  PROVE  IntakeInv'
<1> prices \in Prices
  BY DEF IntakeInv, QueueInv, TypeOK
<1>1. QueueInv /\ InboxAgrees /\ OpensOnce(queue)
  BY DEF IntakeInv
<1>2. PICK id : id = nativeTask(n)
  OBVIOUS
<1>3. PICK s : s = state
  OBVIOUS
<1>4. PICK new : new = enqueueTask(s, id, AgentOf[n], mode)
  OBVIOUS
<1>5. s \in Core /\ s.queue = queue /\ Overlap(s) /\ Tried(s.queue)
  BY <1>1, <1>3, StateIsCore DEF QueueInv
<1>6. id \in Ids /\ AgentOf[n] \in Agents /\ mode \in {"ui", "git", "webhook", "github"}
  BY <1>2, IntakeAssumption DEF Ids
<1>7. /\ new \in Core /\ Overlap(new) /\ Tried(new.queue)
      /\ Grows(s.queue, new.queue, {id})
      /\ DOMAIN s.queue = 1..Len(s.queue) /\ Len(s.queue) \in Nat
      /\ DOMAIN new.queue \subseteq 1..(Len(s.queue) + 1)
  <2>1. PICK a \in Agents : a = AgentOf[n]
    BY <1>6
  <2>2. new = enqueueTask(s, id, a, mode)
    BY <1>4, <2>1
  <2>3. mode \in {"ui", "git", "webhook", "github"}
    BY <1>6
  <2> QED
    BY <1>5, <1>6, <2>2, <2>3, SubmissionGrows
<1>8. /\ Becomes(new) /\ UNCHANGED <<changes, forced, ingress, manifest, connectors, journal, succeeded>>
      /\ native[n].status = "none"
      /\ native' = [native EXCEPT ![n] = [status |-> "pending", mode |-> mode]]
  BY <1>2, <1>3, <1>4 DEF SubmitNativeTask
<1>9. queue' = new.queue /\ ledger' = new.ledger /\ crowded' = new.crowded
  BY <1>8 DEF Becomes
<1>10. native \in [NativeIds -> [status : {"none", "pending", "running", "done", "failed"},
                                mode : {"ui", "git", "webhook", "github"}]]
  BY <1>1 DEF QueueInv, TypeOK
<1>11. PICK record : record = [status |-> "pending", mode |-> mode]
  OBVIOUS
<1>12. /\ record \in [status : {"none", "pending", "running", "done", "failed"},
                      mode : {"ui", "git", "webhook", "github"}]
       /\ record.status = "pending"
  BY <1>6, <1>11
<1>13. native' = [native EXCEPT ![n] = record]
  BY <1>8, <1>11
<1>14. /\ native' \in [NativeIds -> [status : {"none", "pending", "running", "done", "failed"},
                                     mode : {"ui", "git", "webhook", "github"}]]
       /\ \A m \in NativeIds : native'[m] = IF m = n THEN record ELSE native[m]
  BY <1>10, <1>12, <1>13
<1>15. TypeRest'
  BY <1>1, <1>8, <1>14 DEF QueueInv, TypeOK, TypeRest, ingress
<1>16. QueueInv'
  BY <1>7, <1>8, <1>9, <1>15, QueueInvParts DEF ingress
<1>17. /\ DOMAIN queue \subseteq DOMAIN queue' /\ \A i \in DOMAIN queue : queue'[i] = queue[i]
       /\ DOMAIN queue = 1..Len(queue) /\ Len(queue) \in Nat
       /\ \A i \in DOMAIN queue' : i \in DOMAIN queue \/ (i = Len(queue) + 1 /\ i \notin DOMAIN queue)
       /\ \A i \in DOMAIN queue' \ DOMAIN queue :
            queue'[i].id = id /\ queue'[i].status # "done" /\ queue'[i].run = FALSE
  BY <1>5, <1>7, <1>9 DEF Grows
<1>18. \A i \in DOMAIN queue : queue[i].id # id
  BY <1>1, <1>2, <1>8 DEF InboxAgrees
<1>19. NativeOnce(queue')
  BY <1>1, <1>17, <1>18 DEF InboxAgrees, NativeOnce, IsNative
<1>20. ASSUME NEW i \in DOMAIN queue', NEW m \in NativeIds, queue'[i].id = nativeTask(m)
       PROVE  /\ native'[m].status # "none"
              /\ queue'[i].run => queue'[i].status = "claimed"
              /\ (native'[m].status = "done") = (queue'[i].status = "done")
  <2>1. CASE i \in DOMAIN queue
    <3>1. m # n
      BY <1>2, <1>17, <1>18, <1>20, <2>1
    <3> QED
      BY <1>1, <1>14, <1>17, <1>20, <2>1, <3>1 DEF InboxAgrees
  <2>2. CASE i \notin DOMAIN queue
    <3>1. m = n
      BY <1>2, <1>17, <1>20, <2>2, Origins
    <3> QED
      BY <1>12, <1>14, <1>17, <2>2, <3>1
  <2> QED
    BY <2>1, <2>2
<1>21. ASSUME NEW m \in NativeIds, native'[m].status = "done"
       PROVE  \E i \in DOMAIN queue' : queue'[i].id = nativeTask(m)
  BY <1>1, <1>12, <1>14, <1>17, <1>21 DEF InboxAgrees
<1>22. InboxAgrees'
  BY <1>19, <1>20, <1>21 DEF InboxAgrees, NativeOnce, IsNative, nativeTask
<1>23. PICK ids : ids = {id}
  OBVIOUS
<1>24. Grows(queue, queue', ids) /\ \A g \in GitIds : gitTask(g) \notin ids
  BY <1>2, <1>5, <1>7, <1>9, <1>23, Origins
<1>25. OpensOnce(queue)'
  BY <1>1, <1>8, <1>24, OpensNoManifest
<1> QED
  BY <1>16, <1>22, <1>25 DEF IntakeInv

(* The memory of deliveries keeps the newest, the one at hand among them.  *)
LEMMA Remembers ==
  ASSUME QueueInv, NEW d \in Deliveries
  PROVE  LET r == rememberNewest(d)
         IN  /\ r \in Seq(Deliveries) /\ Len(r) <= SeenMax
             /\ d \in ToSet(r) /\ ToSet(r) \subseteq ToSet(seen) \cup {d}
<1>1. seen \in Seq(Deliveries) /\ Len(seen) <= SeenMax /\ SeenMax \in Nat \ {0}
  BY IntakeAssumption DEF QueueInv, TypeOK
<1>2. PICK all : all = Append(seen, d)
  OBVIOUS
<1>3. PICK N \in Nat : N = Len(seen)
  BY <1>1, LenProperties
<1>4. /\ all \in Seq(Deliveries) /\ Len(all) = N + 1 /\ all[N + 1] = d
      /\ \A i \in 1..N : all[i] = seen[i] /\ i \in DOMAIN seen
  BY <1>1, <1>2, <1>3, AppendProperties, LenProperties
<1>5. PICK first : first = Max({1, Len(all) - SeenMax + 1})
  OBVIOUS
<1>6. /\ first \in 1..(N + 1) /\ (N + 1) - first + 1 <= SeenMax
  <2>1. PICK other \in Int : other = (N + 1) - SeenMax + 1
    BY <1>1
  <2>2. \E x \in {1, other} : \A y \in {1, other} : x >= y
    BY <2>1
  <2>3. first \in {1, other} /\ \A y \in {1, other} : first >= y
    BY <1>4, <1>5, <2>1, <2>2 DEF Max
  <2> QED
    BY <1>1, <1>3, <2>1, <2>3
<1>7. PICK r : r = SubSeq(all, first, N + 1)
  OBVIOUS
<1>8. rememberNewest(d) = r
  BY <1>2, <1>4, <1>5, <1>7 DEF rememberNewest
<1>9. /\ r \in Seq(Deliveries) /\ Len(r) = (N + 1) - first + 1
      /\ \A i \in 1..((N + 1) - first + 1) : r[i] = all[first + i - 1]
  <2>1. first \in 1..Len(all) + 1 /\ N + 1 \in first - 1..Len(all)
    BY <1>4, <1>6
  <2> QED
    BY <1>4, <1>6, <1>7, <2>1, SubSeqProperties
<1>10. DOMAIN r = 1..((N + 1) - first + 1)
  BY <1>9, LenProperties
<1>11. d \in ToSet(r)
  <2>1. (N + 1) - first + 1 \in DOMAIN r /\ first + ((N + 1) - first + 1) - 1 = N + 1
    BY <1>6, <1>10
  <2>2. r[(N + 1) - first + 1] = d
    BY <1>4, <1>9, <1>10, <2>1
  <2> QED
    BY <2>1, <2>2 DEF ToSet
<1>12. ASSUME NEW i \in DOMAIN r
       PROVE  r[i] \in ToSet(seen) \cup {d}
  <2>1. PICK j : j = first + i - 1
    OBVIOUS
  <2>2. j \in 1..(N + 1) /\ r[i] = all[j]
    BY <1>6, <1>9, <1>10, <1>12, <2>1
  <2>3. CASE j = N + 1
    BY <1>4, <2>2, <2>3
  <2>4. CASE j # N + 1
    <3>1. j \in 1..N
      BY <2>2, <2>4
    <3> QED
      BY <1>4, <2>2, <3>1 DEF ToSet
  <2> QED
    BY <2>3, <2>4
<1>13. ToSet(r) \subseteq ToSet(seen) \cup {d}
  BY <1>12 DEF ToSet
<1> QED
  BY <1>6, <1>8, <1>9, <1>11, <1>13

(* A webhook's delivery: a task for each agent, none of them a manifest's. *)
LEMMA IngestKeeps ==
  ASSUME IntakeInv, NEW d \in Deliveries, IngestGithubWebhook(d)
  PROVE  IntakeInv'
<1>1. QueueInv
  BY DEF IntakeInv
<1>2. PICK ids : ids = [a \in Agents |-> deliveryTask(d, a)]
  OBVIOUS
<1>3. ids \in [Agents -> Ids] /\ \A a \in Agents : ids[a] = deliveryTask(d, a)
  BY <1>2 DEF Ids
<1>4. /\ Becomes(enqueueForAll(ids)) \/ Becomes(state)
      /\ Counted /\ UNCHANGED <<changes, forced, listening, prices, records>>
      /\ seen' = seen \/ seen' = rememberNewest(d)
      /\ forgotten' = [e \in Deliveries |->
                         IF e \in ToSet(seen) \ ToSet(seen') THEN forgotten[e] + 1 ELSE forgotten[e]]
  BY <1>2 DEF IngestGithubWebhook, rememberWebhookDelivery
<1>5. /\ bucket' \in [age : 0..RateWindow, count : 0..RateLimit]
      /\ passed' \in [0..(RateWindow - 1) -> Nat]
  BY <1>1, <1>4, CountedTypes
<1>6. seen' \in Seq(Deliveries) /\ Len(seen') <= SeenMax
  <2>1. seen \in Seq(Deliveries) /\ Len(seen) <= SeenMax
    BY <1>1 DEF QueueInv, TypeOK
  <2>2. rememberNewest(d) \in Seq(Deliveries) /\ Len(rememberNewest(d)) <= SeenMax
    BY <1>1, Remembers
  <2> QED
    BY <1>4, <2>1, <2>2
<1>7. forgotten' \in [Deliveries -> Nat]
  <2>1. \A e \in Deliveries : forgotten[e] \in Nat
    BY <1>1 DEF QueueInv, TypeOK
  <2> QED
    BY <1>4, <2>1
<1>8. TypeRest'
  BY <1>1, <1>4, <1>5, <1>6, <1>7 DEF QueueInv, TypeOK, TypeRest, records
<1>9. UNCHANGED <<prices, forced, native>>
  BY <1>4 DEF records
<1> QED
  BY <1>3, <1>4, <1>8, <1>9, EventsKeep, Origins

(* A step that leaves queue and inbox alone.                               *)
LEMMA InboxUnchanged ==
  ASSUME InboxAgrees, UNCHANGED <<queue, native>>
  PROVE  InboxAgrees'
<1>1. DOMAIN queue' = DOMAIN queue /\ UNCHANGED native
  OBVIOUS
<1>2. \A i \in DOMAIN queue : queue'[i].id = queue[i].id
  OBVIOUS
<1>3. ASSUME NEW i \in DOMAIN queue, IsNative(queue[i])
      PROVE  /\ (queue'[i].status = "done") = (queue[i].status = "done")
             /\ queue'[i].run => queue'[i].status = "claimed"
  <2>1. PICK n \in NativeIds : queue[i].id = nativeTask(n)
    BY <1>3 DEF IsNative
  <2>2. queue[i].run => queue[i].status = "claimed"
    BY <2>1 DEF InboxAgrees
  <2> QED
    BY <2>2
<1> QED
  BY <1>1, <1>2, <1>3, InboxStays

(* Actions that touch neither queue nor inbox.                             *)
LEMMA AsideKeeps ==
  ASSUME IntakeInv, UNCHANGED <<queue, ledger, crowded, forced, prices, native>>, TypeRest'
  PROVE  IntakeInv'
<1>1. QueueInv'
  BY CoreUnchanged DEF IntakeInv
<1>2. InboxAgrees'
  BY InboxUnchanged DEF IntakeInv
<1>3. OpensOnce(queue)'
  BY DEF IntakeInv, OpensOnce, mayOpen, MayOpen, gitTask
<1> QED
  BY <1>1, <1>2, <1>3 DEF IntakeInv

(* Items that are estimated anew change in nothing but their history.      *)
LEMMA RepricedChanges ==
  ASSUME QueueInv, queue' = [i \in DOMAIN queue |-> repriced(queue[i])]
  PROVE  /\ ItemsChange(queue, queue')
         /\ \A j \in DOMAIN queue :
              /\ queue'[j].id = queue[j].id /\ queue'[j].status = queue[j].status
              /\ queue'[j].attempts = queue[j].attempts /\ queue'[j].run = queue[j].run
              /\ queue'[j].alone = FALSE
<1>1. queue \in Seq(QueuedTask)
  BY DEF QueueInv, TypeOK
<1>2. PICK q : q = [i \in DOMAIN queue |-> repriced(queue[i])]
  OBVIOUS
<1>3. ASSUME NEW j \in DOMAIN queue
      PROVE  /\ Keeps(queue[j], q[j]) /\ q[j].status = queue[j].status
             /\ q[j].attempts = queue[j].attempts /\ q[j].run = queue[j].run
             /\ q[j].alone = FALSE
  <2>1. PICK it \in QueuedTask : it = queue[j]
    BY <1>1, InQueue
  <2>2. PICK new : new = [it EXCEPT !.alone = FALSE]
    OBVIOUS
  <2>3. q[j] = new
    BY <1>2, <2>1, <2>2 DEF repriced
  <2>4. /\ new = [id |-> it.id, agent |-> it.agent, mode |-> it.mode, status |-> it.status,
                 attempts |-> it.attempts, run |-> it.run, alone |-> FALSE]
        /\ it.id \in Ids /\ it.agent \in Agents
    BY <2>2 DEF QueuedTask
  <2>5. new \in QueuedTask
    BY <2>4 DEF QueuedTask
  <2>6. /\ Keeps(it, new) /\ new.status = it.status /\ new.attempts = it.attempts
        /\ new.run = it.run /\ new.alone = FALSE
    BY <2>4, <2>5 DEF Keeps
  <2> QED
    BY <2>1, <2>3, <2>6
<1>4. q \in Seq(QueuedTask)
  <2>1. Len(queue) \in Nat /\ DOMAIN queue = 1..Len(queue)
    BY <1>1, LenProperties
  <2>2. q = [i \in 1..Len(queue) |-> q[i]] /\ \A i \in 1..Len(queue) : q[i] \in QueuedTask
    BY <1>2, <1>3, <2>1 DEF Keeps
  <2> QED
    BY <2>1, <2>2, IsASeq
<1>5. \A j \in DOMAIN queue : Spent(q[j])
  BY <1>3 DEF Spent, QueueInv, Tried
<1>6. DOMAIN q = DOMAIN queue
  BY <1>2
<1>7. ItemsChange(queue, q)
  BY <1>3, <1>4, <1>5, <1>6 DEF ItemsChange
<1> QED
  BY <1>2, <1>3, <1>7 DEF Keeps

(* A reconcile changes who listens, or what tasks cost and may cost.       *)
LEMMA ReconciledKeeps ==
  ASSUME IntakeInv, NEW agents \in SUBSET Agents, NEW p \in Prices, Reconciled(agents, p)
  PROVE  IntakeInv'
<1>1. QueueInv /\ InboxAgrees /\ OpensOnce(queue)
  BY DEF IntakeInv
<1>2. changes' \in 0..MaxChanges
  BY <1>1, ChangeCounts DEF Reconciled
<1>3. UNCHANGED <<ledger, forced, bucket, seen, passed, forgotten, records>>
  BY DEF Reconciled
<1>4. TypeRest'
  BY <1>1, <1>2, <1>3 DEF QueueInv, TypeOK, TypeRest, Reconciled, records
<1>5. CASE p = prices
  <2>1. UNCHANGED <<queue, ledger, crowded, forced, prices, native>>
    BY <1>3, <1>5 DEF Reconciled, records
  <2> QED
    BY <1>4, <2>1, AsideKeeps
<1>6. CASE p # prices
  <2>1. queue' = [i \in DOMAIN queue |-> repriced(queue[i])] /\ crowded' = ledger.units
    BY <1>6 DEF Reconciled
  <2>2. /\ ItemsChange(queue, queue')
        /\ \A j \in DOMAIN queue :
             /\ queue'[j].id = queue[j].id /\ queue'[j].status = queue[j].status
             /\ queue'[j].attempts = queue[j].attempts /\ queue'[j].run = queue[j].run
             /\ queue'[j].alone = FALSE
    BY <1>1, <2>1, RepricedChanges
  <2>3. queue' \in Seq(QueuedTask) /\ DOMAIN queue' = DOMAIN queue
    BY <2>2 DEF ItemsChange
  <2>4. ledger' \in [age : 0..BudgetWindow, units : Nat] /\ crowded' \in Nat
    BY <1>1, <1>3, <2>1 DEF QueueInv, TypeOK
  <2>5. TypeOK'
    BY <1>4, <2>3, <2>4 DEF TypeOK, TypeRest
  <2>6. Overlap(state)'
    <3>1. state' = [queue |-> queue', ledger |-> ledger', crowded |-> crowded']
      BY DEF state
    <3>2. limited' => activeBudgetPolicy' \in Nat
      <4>1. prices'.budgets \in SUBSET (Nat \ {0})
        BY <1>4, IntakeAssumption DEF TypeRest
      <4> QED
        BY <4>1, LeastIsNat DEF limited, activeBudgetPolicy, BudgetPolicies
    <3>3. ledger'.units = crowded' /\ crowded' \in Nat
      BY <1>3, <2>1, <2>4
    <3>4. state'.queue = queue' /\ state'.ledger = ledger' /\ state'.crowded = crowded'
      BY <3>1
    <3>5. limited' => state'.ledger.units <= activeBudgetPolicy' + state'.crowded
      BY <3>2, <3>3, <3>4
    <3>6. \A j \in DOMAIN state'.queue : state'.queue[j].alone = FALSE
      BY <2>2, <2>3, <3>4
    <3> QED
      BY <3>5, <3>6 DEF Overlap
  <2>7. Tried(queue')
    BY <2>2 DEF Tried, ItemsChange
  <2>8. QueueInv'
    BY <2>5, <2>6, <2>7 DEF QueueInv, Tried
  <2>9. \A j \in DOMAIN queue :
          /\ queue'[j].id = queue[j].id /\ (queue'[j].status = "done") = (queue[j].status = "done")
          /\ MayOpen(queue'[j]) => MayOpen(queue[j])
    BY <2>2 DEF MayOpen
  <2>10. ASSUME NEW j \in DOMAIN queue, IsNative(queue[j])
         PROVE  queue'[j].run => queue'[j].status = "claimed"
    <3>1. queue[j].run => queue[j].status = "claimed"
      BY <1>1, <2>10 DEF InboxAgrees, IsNative
    <3> QED
      BY <2>2, <3>1
  <2>11. UNCHANGED native
    BY <1>3 DEF records
  <2>12. InboxAgrees'
    BY <1>1, <2>3, <2>9, <2>10, <2>11, InboxStays
  <2>13. forced' \in [GitIds -> Nat] /\ \A g \in GitIds : forced'[g] >= forced[g]
    BY <1>1, <1>3 DEF QueueInv, TypeOK
  <2>14. OpensOnce(queue)'
    BY <1>1, <2>3, <2>9, <2>13, OpensFewer
  <2> QED
    BY <2>8, <2>12, <2>14 DEF IntakeInv
<1> QED
  BY <1>5, <1>6

(* The author of a manifest changes its file.                              *)
LEMMA AuthorKeeps ==
  ASSUME IntakeInv, NEW g \in GitIds, NEW content \in {"none", "pending"}, AuthorWrites(g, content)
  PROVE  IntakeInv'
<1>1. changes' \in 0..MaxChanges
  BY ChangeCounts DEF IntakeInv, AuthorWrites
<1>2. manifest' \in [GitIds -> {"none", "pending", "done", "failed"}]
  BY DEF IntakeInv, QueueInv, TypeOK, AuthorWrites
<1>3. TypeRest'
  BY <1>1, <1>2 DEF IntakeInv, QueueInv, TypeOK, TypeRest, AuthorWrites, ingress
<1> QED
  BY <1>3, AsideKeeps DEF AuthorWrites, ingress

(* An operator enables or disables a connector.                            *)
LEMMA ConnectorKeeps ==
  ASSUME IntakeInv, NEW kind \in {"ui", "git", "webhook", "github"}, SetConnectorEnabled(kind)
  PROVE  IntakeInv'
<1>1. changes' \in 0..MaxChanges
  BY ChangeCounts DEF IntakeInv, SetConnectorEnabled
<1>2. connectors' \subseteq {"ui", "git", "webhook", "github"}
  BY DEF IntakeInv, QueueInv, TypeOK, SetConnectorEnabled, SymDiff
<1>3. TypeRest'
  BY <1>1, <1>2 DEF IntakeInv, QueueInv, TypeOK, TypeRest, SetConnectorEnabled, ingress
<1> QED
  BY <1>3, AsideKeeps DEF SetConnectorEnabled, ingress

(* Time passes: the windows age, and nothing is charged.                   *)
Older(age, window) == Min({age + 1, window})

(* An age that stops at the end of its window.                             *)
LEMMA OlderFits ==
  ASSUME NEW window \in Nat, NEW age \in 0..window
  PROVE  Older(age, window) = IF age < window THEN age + 1 ELSE window
<1>1. PICK next \in Nat : next = age + 1
  OBVIOUS
<1>2. \E x \in {next, window} : \A y \in {next, window} : x <= y
  BY <1>1
<1>3. Older(age, window) \in {next, window} /\ \A y \in {next, window} : Older(age, window) <= y
  BY <1>1, <1>2 DEF Older, Min
<1> QED
  BY <1>1, <1>3

(* Time opens no task.                                                     *)
LEMMA TickKeeps ==
  ASSUME IntakeInv, Tick
  PROVE  IntakeInv'
<1>1. QueueInv /\ InboxAgrees /\ OpensOnce(queue)
  BY DEF IntakeInv
<1>2. /\ ledger \in [age : 0..BudgetWindow, units : Nat]
      /\ bucket \in [age : 0..RateWindow, count : 0..RateLimit]
      /\ passed \in [0..(RateWindow - 1) -> Nat]
      /\ BudgetWindow \in Nat \ {0} /\ RateWindow \in Nat \ {0}
  BY <1>1, IntakeAssumption DEF QueueInv, TypeOK
<1>3. PICK age : age = Older(ledger.age, BudgetWindow)
  OBVIOUS
<1>4. age \in 0..BudgetWindow
  BY <1>2, <1>3, OlderFits
<1>5. ledger' = [age |-> age, units |-> ledger.units]
  <2>1. ledger' = [ledger EXCEPT !.age = age]
    BY <1>3 DEF Tick, Older
  <2>2. ledger = [age |-> ledger.age, units |-> ledger.units]
    BY <1>2
  <2>3. PICK l : l = ledger
    OBVIOUS
  <2>4. PICK u : u = ledger.units
    OBVIOUS
  <2>5. l = [age |-> l.age, units |-> u] /\ ledger' = [l EXCEPT !.age = age]
    BY <2>1, <2>2, <2>3, <2>4
  <2> QED
    BY <2>4, <2>5
<1>6. PICK old : old = Older(bucket.age, RateWindow)
  OBVIOUS
<1>7. old \in 0..RateWindow
  <2>1. bucket.age \in 0..RateWindow /\ RateWindow \in Nat
    BY <1>2
  <2>2. old = IF bucket.age < RateWindow THEN bucket.age + 1 ELSE RateWindow
    BY <1>6, <2>1, OlderFits
  <2> QED
    BY <2>1, <2>2
<1>8. bucket' \in [age : 0..RateWindow, count : 0..RateLimit]
  <2>1. bucket' = [bucket EXCEPT !.age = old]
    BY <1>6 DEF Tick, Older
  <2> QED
    BY <1>2, <1>7, <2>1
<1>9. passed' \in [0..(RateWindow - 1) -> Nat]
  <2>1. passed' = [t \in 0..(RateWindow - 1) |-> IF t = 0 THEN 0 ELSE passed[t - 1]]
    BY <1>2 DEF Tick
  <2>2. \A t \in 0..(RateWindow - 1) : t # 0 => passed[t - 1] \in Nat
    BY <1>2
  <2> QED
    BY <2>1, <2>2
<1>10. UNCHANGED <<changes, queue, crowded, forced, seen, listening, prices, forgotten, records>>
  BY DEF Tick
<1>11. TypeRest'
  BY <1>1, <1>8, <1>9, <1>10 DEF QueueInv, TypeOK, TypeRest, records
<1>12. PICK l : l = ledger'
  OBVIOUS
<1>13. PICK new : new = [queue |-> queue, ledger |-> l, crowded |-> crowded]
  OBVIOUS
<1>14. /\ state \in Core /\ state.queue = queue /\ state.ledger = ledger
       /\ state.crowded = crowded /\ queue \in Seq(QueuedTask) /\ crowded \in Nat
  BY <1>1, StateIsCore DEF QueueInv, TypeOK
<1>15. /\ l \in [age : 0..BudgetWindow, units : Nat] /\ l.units = ledger.units
  BY <1>2, <1>4, <1>5, <1>12
<1>16. new \in Core /\ new.queue = queue /\ new.ledger = l /\ new.crowded = crowded
  BY <1>13, <1>14, <1>15 DEF Core
<1>17. Overlap(new) /\ Tried(new.queue)
  BY <1>1, <1>14, <1>15, <1>16 DEF QueueInv, Overlap
<1>18. queue' = new.queue /\ ledger' = new.ledger /\ crowded' = new.crowded
  BY <1>10, <1>12, <1>16
<1>19. QueueInv'
  BY <1>10, <1>11, <1>16, <1>17, <1>18, QueueInvParts
<1>20. InboxAgrees'
  <2>1. UNCHANGED <<queue, native>>
    BY <1>10 DEF records
  <2> QED
    BY <1>1, <2>1, InboxUnchanged
<1>21. OpensOnce(queue)'
  BY <1>1, <1>10 DEF OpensOnce, mayOpen, MayOpen, gitTask
<1> QED
  BY <1>19, <1>20, <1>21 DEF IntakeInv

(* The record of a task that starts says so.                               *)
LEMMA StartKeeps ==
  ASSUME IntakeInv, NEW i \in DOMAIN queue, StartRun(i)
  PROVE  IntakeInv'
<1>1. QueueInv /\ InboxAgrees /\ OpensOnce(queue)
  BY DEF IntakeInv
<1>2. PICK n \in NativeIds : queue[i].run /\ queue[i].id = nativeTask(n)
  BY DEF StartRun
<1>3. /\ native' = [m \in NativeIds |->
                    IF queue[i].id = nativeTask(m) THEN [native[m] EXCEPT !.status = "running"]
                    ELSE native[m]]
      /\ UNCHANGED <<changes, queue, ledger, crowded, forced, ingress, manifest, connectors,
                     journal, succeeded>>
  BY DEF StartRun, markNativeTaskRunning
<1>4. native \in [NativeIds -> [status : {"none", "pending", "running", "done", "failed"},
                               mode : {"ui", "git", "webhook", "github"}]]
  BY <1>1 DEF QueueInv, TypeOK
<1>5. PICK record : record = [native[n] EXCEPT !.status = "running"]
  OBVIOUS
<1>6. /\ record \in [status : {"none", "pending", "running", "done", "failed"},
                     mode : {"ui", "git", "webhook", "github"}]
      /\ record.status = "running"
  BY <1>4, <1>5
<1>7. \A m \in NativeIds : native'[m] = IF m = n THEN record ELSE native[m]
  BY <1>2, <1>3, <1>5, Origins
<1>8. native' \in [NativeIds -> [status : {"none", "pending", "running", "done", "failed"},
                                mode : {"ui", "git", "webhook", "github"}]]
  BY <1>3, <1>4, <1>6, <1>7
<1>9. TypeRest'
  BY <1>1, <1>3, <1>8 DEF QueueInv, TypeOK, TypeRest, ingress
<1>10. QueueInv'
  BY <1>1, <1>3, <1>9, CoreUnchanged DEF ingress
<1>11. queue[i].status = "claimed"
  BY <1>1, <1>2 DEF InboxAgrees
<1>12. ASSUME NEW j \in DOMAIN queue, NEW m \in NativeIds, queue[j].id = nativeTask(m)
       PROVE  /\ native'[m].status # "none"
              /\ queue[j].run => queue[j].status = "claimed"
              /\ (native'[m].status = "done") = (queue[j].status = "done")
  <2>1. CASE m = n
    <3>1. j = i
      BY <1>1, <1>2, <1>12, <2>1 DEF InboxAgrees, NativeOnce, IsNative
    <3> QED
      BY <1>6, <1>7, <1>11, <2>1, <3>1
  <2>2. CASE m # n
    BY <1>1, <1>7, <1>12, <2>2 DEF InboxAgrees
  <2> QED
    BY <2>1, <2>2
<1>13. ASSUME NEW m \in NativeIds, native'[m].status = "done"
       PROVE  \E j \in DOMAIN queue : queue[j].id = nativeTask(m)
  BY <1>1, <1>6, <1>7, <1>13 DEF InboxAgrees
<1>14. InboxAgrees'
  <2>1. NativeOnce(queue') /\ queue' = queue
    BY <1>1, <1>3 DEF InboxAgrees, NativeOnce
  <2> QED
    BY <1>12, <1>13, <2>1 DEF InboxAgrees, NativeOnce, IsNative, nativeTask
<1>15. OpensOnce(queue)'
  BY <1>1, <1>3 DEF OpensOnce, mayOpen, MayOpen, gitTask
<1> QED
  BY <1>10, <1>14, <1>15 DEF IntakeInv

(* What an outcome writes to the inbox, the manifests and the journal.     *)
LEMMA DeliveryWrites ==
  ASSUME QueueInv, NEW item \in QueuedTask, NEW ok \in BOOLEAN, deliverTaskOutcome(item, ok)
  PROVE  /\ native' \in [NativeIds -> [status : {"none", "pending", "running", "done", "failed"},
                                      mode : {"ui", "git", "webhook", "github"}]]
         /\ \A n \in NativeIds : item.id # nativeTask(n) => native'[n] = native[n]
         /\ \A n \in NativeIds : item.id = nativeTask(n) =>
              native'[n].status = IF item.status = "done" THEN "done" ELSE "failed"
         /\ manifest' \in [GitIds -> {"none", "pending", "done", "failed"}]
         /\ \A g \in GitIds : manifest'[g] # manifest[g] =>
              /\ item.id = gitTask(g)
              /\ manifest'[g] = "done" => item.status = "done"
         /\ journal' \subseteq Ids \X {"result", "error"} \X {"webhook", "github"}
         /\ \A entry \in journal' : entry \in journal \/ (entry[1] = item.id /\ (entry[2] = "result" => ok))
<1>1. native \in [NativeIds -> [status : {"none", "pending", "running", "done", "failed"},
                               mode : {"ui", "git", "webhook", "github"}]]
  BY DEF QueueInv, TypeOK
<1>2. native' = [n \in NativeIds |-> finalizeNativeTask(n, item)]
  BY DEF deliverTaskOutcome
<1>3. ASSUME NEW n \in NativeIds
      PROVE  /\ native'[n] \in [status : {"none", "pending", "running", "done", "failed"},
                                mode : {"ui", "git", "webhook", "github"}]
             /\ item.id # nativeTask(n) => native'[n] = native[n]
             /\ item.id = nativeTask(n) =>
                  native'[n].status = IF item.status = "done" THEN "done" ELSE "failed"
  <2>1. CASE item.id = nativeTask(n)
    <3>1. PICK st : st = IF item.status = "done" THEN "done" ELSE "failed"
      OBVIOUS
    <3>2. PICK old : old = native[n]
      OBVIOUS
    <3>3. old \in [status : {"none", "pending", "running", "done", "failed"},
                  mode : {"ui", "git", "webhook", "github"}]
      BY <1>1, <3>2
    <3>4. native'[n] = [old EXCEPT !.status = st]
      BY <1>2, <2>1, <3>1, <3>2 DEF finalizeNativeTask
    <3>5. st \in {"done", "failed"}
      BY <3>1
    <3> QED
      BY <2>1, <3>1, <3>3, <3>4, <3>5
  <2>2. CASE item.id # nativeTask(n)
    BY <1>1, <1>2, <2>2 DEF finalizeNativeTask
  <2> QED
    BY <2>1, <2>2
<1>4. native' \in [NativeIds -> [status : {"none", "pending", "running", "done", "failed"},
                                mode : {"ui", "git", "webhook", "github"}]]
  BY <1>2, <1>3
<1>5. /\ manifest' \in [GitIds -> {"none", "pending", "done", "failed"}]
      /\ \A g \in GitIds : manifest'[g] # manifest[g] =>
           /\ item.id = gitTask(g)
           /\ manifest'[g] = "done" => item.status = "done"
  <2>1. manifest \in [GitIds -> {"none", "pending", "done", "failed"}]
    BY DEF QueueInv, TypeOK
  <2>2. manifest' = writeTaskManifestDelivery(item)
    BY DEF deliverTaskOutcome
  <2>3. CASE writesManifest(item) /\ ~deliveryThrows(item)
    <3>1. item.id \in Ids /\ hasManifest(item.id)
      BY <2>3 DEF writesManifest, QueuedTask
    <3>2. PICK h \in GitIds : item.id = gitTask(h)
      BY <3>1 DEF Ids, hasManifest, eventId, deliveryTask, nativeTask
    <3>3. item.id[2] = h
      BY <3>2 DEF gitTask
    <3>4. PICK st : st = IF item.status = "done" THEN "done" ELSE "failed"
      OBVIOUS
    <3>5. manifest' = [manifest EXCEPT ![h] = st]
      BY <2>2, <2>3, <3>3, <3>4 DEF writeTaskManifestDelivery
    <3> QED
      BY <2>1, <3>2, <3>4, <3>5
  <2>4. CASE ~(writesManifest(item) /\ ~deliveryThrows(item))
    <3>1. manifest' = manifest
      BY <2>2, <2>4 DEF writeTaskManifestDelivery
    <3> QED
      BY <2>1, <3>1
  <2> QED
    BY <2>3, <2>4
<1>6. \A entry \in posts(item, ok) \cup comments(item, ok) :
        /\ entry \in Ids \X {"result", "error"} \X {"webhook", "github"}
        /\ entry[1] = item.id /\ (entry[2] = "result" => ok)
  BY DEF posts, comments, QueuedTask
<1>7. journal' = journal \cup posts(item, ok) \cup comments(item, ok)
  BY DEF deliverTaskOutcome
<1>8. journal \subseteq Ids \X {"result", "error"} \X {"webhook", "github"}
  BY DEF QueueInv, TypeOK
<1> QED
  BY <1>3, <1>4, <1>5, <1>6, <1>7, <1>8

(* The end of a run writes the outcome to item and record alike.           *)
LEMMA RunEndsKeeps ==
  ASSUME IntakeInv, NEW i \in DOMAIN queue, NEW ok \in BOOLEAN, RunEnds(i, ok)
  PROVE  IntakeInv'
<1>1. QueueInv /\ InboxAgrees /\ OpensOnce(queue)
  BY DEF IntakeInv
<1>2. PICK new \in Core, f \in DOMAIN queue, item \in QueuedTask :
        /\ queue' = new.queue /\ ledger' = new.ledger /\ crowded' = new.crowded
        /\ Overlap(new) /\ Tried(new.queue) /\ DOMAIN new.queue = DOMAIN queue
        /\ queue[f].id = queue[i].id /\ item.id = queue[i].id
        /\ (item.status = "done") = ok
        /\ \A j \in DOMAIN queue :
             /\ new.queue[j].id = queue[j].id
             /\ new.queue[j].run = IF j = i THEN FALSE ELSE queue[j].run
             /\ MayOpen(new.queue[j]) => MayOpen(queue[j])
             /\ j # f => new.queue[j].status = queue[j].status
        /\ ~hasManifest(queue[i].id) => new.queue[f].status = item.status
        /\ deliverTaskOutcome(item, ok)
        /\ succeeded' = IF ok THEN succeeded \cup {queue[i].id} ELSE succeeded
  BY <1>1, RunEndsSettles
<1>3. UNCHANGED <<changes, forced, ingress, connectors>>
  BY DEF RunEnds
<1>4. /\ native' \in [NativeIds -> [status : {"none", "pending", "running", "done", "failed"},
                                    mode : {"ui", "git", "webhook", "github"}]]
      /\ \A n \in NativeIds : item.id # nativeTask(n) => native'[n] = native[n]
      /\ \A n \in NativeIds : item.id = nativeTask(n) =>
           native'[n].status = IF item.status = "done" THEN "done" ELSE "failed"
      /\ manifest' \in [GitIds -> {"none", "pending", "done", "failed"}]
      /\ journal' \subseteq Ids \X {"result", "error"} \X {"webhook", "github"}
  BY <1>1, <1>2, DeliveryWrites
<1>5. TypeRest'
  <2>1. succeeded' \subseteq Ids
    <3>1. succeeded \subseteq Ids
      BY <1>1 DEF QueueInv, TypeOK
    <3> QED
      BY <1>2, <3>1 DEF QueuedTask
  <2> QED
    BY <1>1, <1>3, <1>4, <2>1 DEF QueueInv, TypeOK, TypeRest, ingress
<1>6. QueueInv'
  BY <1>2, <1>3, <1>5, QueueInvParts DEF ingress
<1>7. DOMAIN queue' = DOMAIN queue /\ \A j \in DOMAIN queue : queue'[j].id = queue[j].id
  BY <1>2
<1>8. NativeOnce(queue')
  BY <1>1, <1>7 DEF InboxAgrees, NativeOnce, IsNative
<1>9. ASSUME NEW j \in DOMAIN queue, NEW n \in NativeIds, queue'[j].id = nativeTask(n)
      PROVE  /\ native'[n].status # "none"
             /\ queue'[j].run => queue'[j].status = "claimed"
             /\ (native'[n].status = "done") = (queue'[j].status = "done")
  <2>1. queue[j].id = nativeTask(n)
    BY <1>7, <1>9
  <2>2. /\ native[n].status # "none"
        /\ queue[j].run => queue[j].status = "claimed"
        /\ (native[n].status = "done") = (queue[j].status = "done")
        /\ \A k \in DOMAIN queue : queue[k].id = nativeTask(n) => k = j
    BY <1>1, <2>1 DEF InboxAgrees, NativeOnce, IsNative
  <2>3. CASE item.id = nativeTask(n)
    <3>1. i = j /\ f = j
      BY <1>2, <2>2, <2>3
    <3>2. queue'[j].run = FALSE /\ queue'[j].status = item.status
      BY <1>2, <2>1, <3>1, Origins
    <3>3. native'[n].status = IF item.status = "done" THEN "done" ELSE "failed"
      BY <1>4, <2>3
    <3> QED
      BY <3>2, <3>3
  <2>4. CASE item.id # nativeTask(n)
    <3>1. j # i /\ j # f
      BY <1>2, <2>1, <2>4
    <3>2. queue'[j].run = queue[j].run /\ queue'[j].status = queue[j].status
      BY <1>2, <3>1
    <3>3. native'[n] = native[n]
      BY <1>4, <2>4
    <3> QED
      BY <2>2, <3>2, <3>3
  <2> QED
    BY <2>3, <2>4
<1>10. ASSUME NEW n \in NativeIds, native'[n].status = "done"
       PROVE  \E j \in DOMAIN queue : queue'[j].id = nativeTask(n)
  <2>1. CASE item.id = nativeTask(n)
    BY <1>2, <1>7, <2>1
  <2>2. CASE item.id # nativeTask(n)
    BY <1>1, <1>4, <1>7, <1>10, <2>2 DEF InboxAgrees
  <2> QED
    BY <2>1, <2>2
<1>11. InboxAgrees'
  BY <1>7, <1>8, <1>9, <1>10 DEF InboxAgrees, NativeOnce, IsNative, nativeTask
<1>12. \A j \in DOMAIN queue : MayOpen(queue'[j]) => MayOpen(queue[j])
  BY <1>2
<1>13. forced \in [GitIds -> Nat] /\ forced' = forced /\ \A g \in GitIds : forced'[g] >= forced[g]
  BY <1>1, <1>3 DEF QueueInv, TypeOK
<1>14. OpensOnce(queue)'
  BY <1>1, <1>7, <1>12, <1>13, OpensFewer
<1> QED
  BY <1>6, <1>11, <1>14 DEF IntakeInv

(* Nothing has come in at first.                                           *)
LEMMA IntakeInit == Init => IntakeInv
<1> SUFFICES ASSUME Init
             PROVE  IntakeInv
  OBVIOUS
<1>1. queue = <<>> /\ queue \in Seq(QueuedTask) /\ DOMAIN queue = {}
  BY DEF Init
<1>2. ledger \in [age : 0..BudgetWindow, units : Nat] /\ crowded \in Nat
  BY IntakeAssumption DEF Init
<1>3. bucket \in [age : 0..RateWindow, count : 0..RateLimit]
  BY IntakeAssumption DEF Init
<1>4. passed \in [0..(RateWindow - 1) -> Nat]
  BY DEF Init
<1>5. seen \in Seq(Deliveries) /\ Len(seen) <= SeenMax
  BY IntakeAssumption DEF Init
<1>6. native \in [NativeIds -> [status : {"none", "pending", "running", "done", "failed"},
                               mode : {"ui", "git", "webhook", "github"}]]
  BY DEF Init
<1>7. /\ listening \subseteq Agents /\ prices \in Prices /\ connectors \subseteq {"ui", "git", "webhook", "github"}
      /\ manifest \in [GitIds -> {"none", "pending", "done", "failed"}]
      /\ journal = {} /\ succeeded = {} /\ changes \in 0..MaxChanges
      /\ forgotten \in [Deliveries -> Nat] /\ forced \in [GitIds -> Nat]
  BY IntakeAssumption DEF Init
<1>8. TypeOK
  BY <1>1, <1>2, <1>3, <1>4, <1>5, <1>6, <1>7 DEF TypeOK
<1>9. Overlap(state)
  <2>1. state.queue = queue /\ state.ledger = ledger /\ state.crowded = crowded
    BY <1>8, StateIsCore
  <2>2. ledger.units = 0 /\ crowded = 0
    BY DEF Init
  <2>3. limited => 0 <= activeBudgetPolicy + 0
    BY <1>7, ActivePolicy
  <2> QED
    BY <1>1, <2>1, <2>2, <2>3 DEF Overlap
<1>10. Tried(queue)
  BY <1>1 DEF Tried
<1>11. InboxAgrees
  BY <1>1 DEF InboxAgrees, NativeOnce, Init
<1>12. OpensOnce(queue)
  <2>1. \A id : mayOpen(queue, id) = {}
    BY <1>1 DEF mayOpen
  <2>2. \A g \in GitIds : forced[g] = 0
    BY DEF Init
  <2> QED
    BY <2>1, <2>2, FS_EmptySet DEF OpensOnce
<1> QED
  BY <1>8, <1>9, <1>10, <1>11, <1>12 DEF IntakeInv, QueueInv

(* Every step keeps the invariant.                                         *)
LEMMA IntakeStep == IntakeInv /\ [Next]_vars => IntakeInv'
<1> SUFFICES ASSUME IntakeInv, [Next]_vars
             PROVE  IntakeInv'
  OBVIOUS
<1>1. CASE Tick
  BY <1>1, TickKeeps
<1>2. CASE Crash
  BY <1>2, CrashKeeps
<1>3. CASE ReclaimExpiredLeases
  BY <1>3, ReclaimsKeep
<1>4. CASE EventToTask
  BY <1>4, EventKeeps
<1>5. ASSUME NEW d \in Deliveries, IngestGithubWebhook(d)
      PROVE  IntakeInv'
  BY <1>5, IngestKeeps
<1>6. ASSUME NEW agents \in SUBSET Agents, NEW p \in Prices, Reconciled(agents, p)
      PROVE  IntakeInv'
  BY <1>6, ReconciledKeeps
<1>7. ASSUME NEW n \in NativeIds, NEW mode \in Modes, SubmitNativeTask(n, mode)
      PROVE  IntakeInv'
  BY <1>7, SubmitKeeps
<1>8. CASE SyncTasks
  BY <1>8, SyncKeeps
<1>9. ASSUME NEW g \in GitIds, ApplyTask(g)
      PROVE  IntakeInv'
  BY <1>9, ApplyKeeps
<1>10. ASSUME NEW g \in GitIds, NEW content \in {"none", "pending"}, AuthorWrites(g, content)
       PROVE  IntakeInv'
  BY <1>10, AuthorKeeps
<1>11. ASSUME NEW kind \in (Modes \cup {"git"}) \ {"ui"}, SetConnectorEnabled(kind)
       PROVE  IntakeInv'
  <2>1. kind \in {"ui", "git", "webhook", "github"}
    BY IntakeAssumption
  <2> QED
    BY <1>11, <2>1, ConnectorKeeps
<1>12. ASSUME NEW i \in DOMAIN queue, Claim(i)
       PROVE  IntakeInv'
  BY <1>12, ClaimKeeps
<1>13. ASSUME NEW i \in DOMAIN queue, StartRun(i)
       PROVE  IntakeInv'
  BY <1>13, StartKeeps
<1>14. ASSUME NEW i \in DOMAIN queue, NEW ok \in BOOLEAN, RunEnds(i, ok)
       PROVE  IntakeInv'
  BY <1>14, RunEndsKeeps
<1>15. ASSUME NEW id \in Ids, RequeueDead(id)
       PROVE  IntakeInv'
  BY <1>15, RequeueKeeps
<1>16. CASE SimulateEvent
  BY <1>16, SimulateKeeps
<1>17. CASE UNCHANGED vars
  <2>1. UNCHANGED <<queue, ledger, crowded, forced, prices, native>>
    BY <1>17 DEF vars, ingress, records
  <2>2. TypeRest'
    BY <1>17 DEF vars, ingress, records, IntakeInv, QueueInv, TypeOK, TypeRest
  <2> QED
    BY <2>1, <2>2, AsideKeeps
<1> QED
  BY <1>1, <1>2, <1>3, <1>4, <1>5, <1>6, <1>7, <1>8, <1>9, <1>10, <1>11, <1>12, <1>13, <1>14,
     <1>15, <1>16, <1>17 DEF Next

(* Types, the budget's overrun, the agreement of queue and inbox and the   *)
(* tasks a manifest may open: what the other theorems rest on.             *)
THEOREM IntakeInvHolds == Spec => []IntakeInv
<1>1. Init => IntakeInv
  BY IntakeInit
<1>2. IntakeInv /\ [Next]_vars => IntakeInv'
  BY IntakeStep
<1> QED
  BY <1>1, <1>2, PTL DEF Spec

(* A window is overrun by no more than what tasks that came in while       *)
(* another was open, or without an admission, were charged in it, and what *)
(* was charged for tasks admitted before a change of prices or budgets.    *)
THEOREM OverrunsOverlap == Spec => []OverrunIsOverlap
<1>1. IntakeInv => OverrunIsOverlap
  BY StateIsCore DEF IntakeInv, QueueInv, Overlap, OverrunIsOverlap
<1> QED
  BY <1>1, IntakeInvHolds, PTL

(* A manifest has one open task at most, and one more for each command     *)
(* that enqueued it unasked.                                               *)
THEOREM ManifestsOpenOnce == Spec => []OneOpenPerManifest
<1>1. ASSUME IntakeInv, NEW g \in GitIds
      PROVE  Cardinality(withId(queue, gitTask(g), {"pending", "claimed"})) <= 1 + forced[g]
  <2>1. PICK open : open = withId(queue, gitTask(g), {"pending", "claimed"})
    OBVIOUS
  <2>2. PICK may : may = mayOpen(queue, gitTask(g))
    OBVIOUS
  <2>3. open \subseteq may /\ may \subseteq DOMAIN queue
    BY <2>1, <2>2 DEF withId, mayOpen, MayOpen
  <2>4. state \in Core /\ state.queue = queue
    BY <1>1, StateIsCore DEF IntakeInv, QueueInv
  <2>5. IsFiniteSet(may) /\ Cardinality(may) \in Nat
    BY <2>3, <2>4, IndicesFinite
  <2>6. Cardinality(open) <= Cardinality(may) /\ Cardinality(open) \in Nat
    BY <2>3, <2>5, FS_Subset, FS_CardinalityType
  <2>7. Cardinality(may) <= 1 + forced[g] /\ forced[g] \in Nat
    BY <1>1, <2>2 DEF IntakeInv, OpensOnce, QueueInv, TypeOK
  <2> QED
    BY <2>1, <2>5, <2>6, <2>7
<1>2. IntakeInv => OneOpenPerManifest
  BY <1>1 DEF OneOpenPerManifest
<1> QED
  BY <1>2, IntakeInvHolds, PTL

----------------------------------------------------------------------------
(* Outcomes.                                                               *)

(* What a manifest or the journal calls a success is one.                  *)
Earned ==
  /\ \A g \in GitIds : manifest[g] = "done" => gitTask(g) \in succeeded
  /\ \A entry \in journal : entry[2] = "result" => entry[1] \in succeeded

(* A run that ends tells of a success only when it was one.                *)
LEMMA RunEndsEarned ==
  ASSUME IntakeInv, Earned, NEW i \in DOMAIN queue, NEW ok \in BOOLEAN, RunEnds(i, ok)
  PROVE  Earned'
<1>1. QueueInv
  BY DEF IntakeInv
<1>2. PICK item \in QueuedTask :
        /\ item.id = queue[i].id
        /\ (item.status = "done") = ok
        /\ deliverTaskOutcome(item, ok)
        /\ succeeded' = IF ok THEN succeeded \cup {queue[i].id} ELSE succeeded
  <2>1. \E new \in Core, f \in DOMAIN queue, item \in QueuedTask :
        /\ queue' = new.queue /\ ledger' = new.ledger /\ crowded' = new.crowded
        /\ Overlap(new) /\ Tried(new.queue) /\ DOMAIN new.queue = DOMAIN queue
        /\ queue[f].id = queue[i].id /\ item.id = queue[i].id
        /\ (item.status = "done") = ok
        /\ \A j \in DOMAIN queue :
             /\ new.queue[j].id = queue[j].id
             /\ new.queue[j].run = IF j = i THEN FALSE ELSE queue[j].run
             /\ MayOpen(new.queue[j]) => MayOpen(queue[j])
             /\ j # f => new.queue[j].status = queue[j].status
        /\ ~hasManifest(queue[i].id) => new.queue[f].status = item.status
        /\ deliverTaskOutcome(item, ok)
        /\ succeeded' = IF ok THEN succeeded \cup {queue[i].id} ELSE succeeded
    BY <1>1, RunEndsSettles
  <2> QED
    BY <2>1
<1>3. /\ \A g \in GitIds : manifest'[g] # manifest[g] =>
           /\ item.id = gitTask(g)
           /\ manifest'[g] = "done" => item.status = "done"
      /\ \A entry \in journal' :
           entry \in journal \/ (entry[1] = item.id /\ (entry[2] = "result" => ok))
  BY <1>1, <1>2, DeliveryWrites
<1>4. succeeded \subseteq succeeded' /\ (ok => item.id \in succeeded')
  BY <1>2
<1>5. ASSUME NEW g \in GitIds, manifest'[g] = "done"
      PROVE  gitTask(g) \in succeeded'
  <2>1. CASE manifest'[g] = manifest[g]
    BY <1>4, <1>5, <2>1 DEF Earned
  <2>2. CASE manifest'[g] # manifest[g]
    BY <1>2, <1>3, <1>4, <1>5, <2>2
  <2> QED
    BY <2>1, <2>2
<1>6. ASSUME NEW entry \in journal', entry[2] = "result"
      PROVE  entry[1] \in succeeded'
  BY <1>3, <1>4, <1>6 DEF Earned
<1> QED
  BY <1>5, <1>6 DEF Earned, gitTask

(* The author of a manifest does not call it done.                         *)
LEMMA AuthorEarned ==
  ASSUME Earned, NEW g \in GitIds, NEW content \in {"none", "pending"}, AuthorWrites(g, content)
  PROVE  Earned'
<1>1. manifest' = [manifest EXCEPT ![g] = content] /\ UNCHANGED <<journal, succeeded>>
  BY DEF AuthorWrites
<1>2. \A h \in GitIds : manifest'[h] = "done" => manifest[h] = "done"
  BY <1>1
<1> QED
  BY <1>1, <1>2 DEF Earned, gitTask

(* The other actions tell nobody.                                          *)
LEMMA EarnedStays ==
  ASSUME Earned, UNCHANGED <<manifest, journal, succeeded>>
  PROVE  Earned'
BY DEF Earned, gitTask

(* Every step keeps what is told true.                                     *)
LEMMA EarnedStep == IntakeInv /\ Earned /\ [Next]_vars => Earned'
<1> SUFFICES ASSUME IntakeInv, Earned, [Next]_vars
             PROVE  Earned'
  OBVIOUS
<1>1. CASE \E g \in GitIds, content \in {"none", "pending"} : AuthorWrites(g, content)
  BY <1>1, AuthorEarned
<1>2. CASE \E i \in DOMAIN queue, ok \in BOOLEAN : RunEnds(i, ok)
  BY <1>2, RunEndsEarned
<1>3. CASE UNCHANGED <<manifest, journal, succeeded>>
  BY <1>3, EarnedStays
<1>4. Tick \/ Crash \/ ReclaimExpiredLeases \/ EventToTask \/ SimulateEvent
        => UNCHANGED <<manifest, journal, succeeded>>
  BY DEF Tick, Crash, ReclaimExpiredLeases, EventToTask, SimulateEvent, records
<1>5. \A d \in Deliveries : IngestGithubWebhook(d) => UNCHANGED <<manifest, journal, succeeded>>
  BY DEF IngestGithubWebhook, records
<1>6. \A agents \in SUBSET Agents, p \in Prices :
        Reconciled(agents, p) => UNCHANGED <<manifest, journal, succeeded>>
  BY DEF Reconciled, records
<1>7. \A n \in NativeIds, mode \in Modes :
        SubmitNativeTask(n, mode) => UNCHANGED <<manifest, journal, succeeded>>
  BY DEF SubmitNativeTask
<1>8. SyncTasks \/ (\E g \in GitIds : ApplyTask(g)) => UNCHANGED <<manifest, journal, succeeded>>
  BY DEF SyncTasks, ApplyTask, records
<1>9. \A kind : SetConnectorEnabled(kind) => UNCHANGED <<manifest, journal, succeeded>>
  BY DEF SetConnectorEnabled
<1>10. \A i \in DOMAIN queue : Claim(i) \/ StartRun(i) => UNCHANGED <<manifest, journal, succeeded>>
  BY DEF Claim, StartRun, records
<1>11. \A id \in Ids : RequeueDead(id) => UNCHANGED <<manifest, journal, succeeded>>
  BY DEF RequeueDead, records
<1>12. UNCHANGED vars => UNCHANGED <<manifest, journal, succeeded>>
  BY DEF vars, records
<1> QED
  BY <1>1, <1>2, <1>3, <1>4, <1>5, <1>6, <1>7, <1>8, <1>9, <1>10, <1>11, <1>12 DEF Next

(* A native task is done in the inbox just when its item is.               *)
LEMMA InboxTells ==
  ASSUME IntakeInv, NEW n \in NativeIds
  PROVE  (native[n].status = "done") = (withId(queue, nativeTask(n), {"done"}) # {})
<1>1. InboxAgrees
  BY DEF IntakeInv
<1>2. ASSUME NEW i \in withId(queue, nativeTask(n), {"done"})
      PROVE  native[n].status = "done"
  <2>1. i \in DOMAIN queue /\ queue[i].id = nativeTask(n) /\ queue[i].status = "done"
    BY DEF withId
  <2> QED
    BY <1>1, <2>1 DEF InboxAgrees
<1>3. ASSUME native[n].status = "done"
      PROVE  \E i \in DOMAIN queue : i \in withId(queue, nativeTask(n), {"done"})
  <2>1. PICK i \in DOMAIN queue : queue[i].id = nativeTask(n)
    BY <1>1, <1>3 DEF InboxAgrees
  <2>2. queue[i].status = "done"
    BY <1>1, <1>3, <2>1 DEF InboxAgrees
  <2> QED
    BY <2>1, <2>2 DEF withId
<1> QED
  BY <1>2, <1>3

(* Record, manifest and journal call a task a success only after a run of  *)
(* it succeeded, and record and queue agree on which native tasks are done.*)
THEOREM SettlementsAreEarned == Spec => []SettledIsEarned
<1>1. Init => Earned
  BY DEF Init, Earned
<1>2. IntakeInv /\ Earned /\ [Next]_vars => Earned'
  BY EarnedStep
<1>3. IntakeInv /\ Earned => SettledIsEarned
  BY InboxTells DEF Earned, SettledIsEarned
<1>4. Spec => []IntakeInv
  BY IntakeInvHolds
<1> QED
  BY <1>1, <1>2, <1>3, <1>4, PTL DEF Spec

----------------------------------------------------------------------------
(* Deliveries.                                                             *)

(* The tasks of an id, whatever became of them.                            *)
tasksOf(q, id) == {i \in DOMAIN q : q[i].id = id}

(* A delivery has one task for an agent for each time it was forgotten,    *)
(* and one more while it is remembered.                                    *)
Delivered ==
  \A d \in Deliveries, a \in Agents :
    /\ Cardinality(tasksOf(queue, deliveryTask(d, a))) <= forgotten[d] + 1
    /\ ~hasSeen(d) => Cardinality(tasksOf(queue, deliveryTask(d, a))) <= forgotten[d]

(* The tasks stay, and those that come are no delivery's.                  *)
GrowsElsewhere(q, r) ==
  /\ DOMAIN q \subseteq DOMAIN r
  /\ \A i \in DOMAIN q : r[i].id = q[i].id
  /\ \A i \in DOMAIN r \ DOMAIN q, d \in Deliveries, a \in Agents : r[i].id # deliveryTask(d, a)

(* Growth by tasks of other origin is growth elsewhere.                    *)
LEMMA ElsewhereByIds ==
  ASSUME NEW q, NEW r, NEW ids, Grows(q, r, ids),
         \A d \in Deliveries, a \in Agents : deliveryTask(d, a) \notin ids
  PROVE  GrowsElsewhere(q, r)
BY DEF Grows, GrowsElsewhere

(* Then the tasks of every delivery are those of before.                   *)
LEMMA ElsewhereDelivered ==
  ASSUME Delivered, GrowsElsewhere(queue, queue'), UNCHANGED <<seen, forgotten>>
  PROVE  Delivered'
<1>1. ASSUME NEW d \in Deliveries, NEW a \in Agents
      PROVE  tasksOf(queue', deliveryTask(d, a)) = tasksOf(queue, deliveryTask(d, a))
  BY DEF tasksOf, GrowsElsewhere
<1> QED
  BY <1>1 DEF Delivered, hasSeen, deliveryTask

(* Every step but a webhook's.                                             *)
LEMMA EventElsewhere ==
  ASSUME IntakeInv, EventToTask \/ SimulateEvent
  PROVE  GrowsElsewhere(queue, queue') /\ UNCHANGED <<seen, forgotten>>
<1>1. QueueInv
  BY DEF IntakeInv
<1>2. PICK ids : ids = [a \in Agents |-> eventId]
  OBVIOUS
<1>3. PICK new : new = enqueueForAll(ids)
  OBVIOUS
<1>4. ids \in [Agents -> Ids]
  BY <1>2 DEF Ids
<1>5. Grows(queue, new.queue, {ids[a] : a \in Agents}) /\ state.queue = queue
  BY <1>1, <1>3, <1>4, ForAllGrows, StateIsCore DEF QueueInv
<1>6. (queue' = new.queue \/ queue' = queue) /\ UNCHANGED <<seen, forgotten>>
  BY <1>2, <1>3, <1>5 DEF EventToTask, SimulateEvent, Becomes, ingress
<1>7. PICK names : names = {ids[a] : a \in Agents}
  OBVIOUS
<1>8. Grows(queue, queue', names)
  BY <1>5, <1>6, <1>7 DEF Grows
<1>9. names \subseteq {eventId}
  BY <1>2, <1>7
<1> QED
  BY <1>6, <1>8, <1>9, ElsewhereByIds, Origins

(* A sync brings tasks of manifests.                                       *)
LEMMA SyncElsewhere ==
  ASSUME IntakeInv, SyncTasks
  PROVE  GrowsElsewhere(queue, queue') /\ UNCHANGED <<seen, forgotten>>
<1>1. QueueInv /\ OpensOnce(queue)
  BY DEF IntakeInv
<1>2. PICK new : new = scanned
  OBVIOUS
<1>3. Grows(queue, new.queue, gitTasks)
  BY <1>1, <1>2, ScanOpensOnce DEF QueueInv
<1>4. queue' = new.queue /\ UNCHANGED ingress
  BY <1>2 DEF SyncTasks, Becomes
<1>5. \A d \in Deliveries, a \in Agents : deliveryTask(d, a) \notin gitTasks
  BY Origins DEF gitTasks
<1> QED
  BY <1>3, <1>4, <1>5, ElsewhereByIds DEF ingress

(* A single submission.                                                    *)
LEMMA SubmissionElsewhere ==
  ASSUME IntakeInv, NEW id \in Ids, NEW a \in Agents, NEW mode \in {"ui", "git", "webhook", "github"},
         Becomes(enqueueTask(state, id, a, mode)),
         \A d \in Deliveries, b \in Agents : deliveryTask(d, b) # id
  PROVE  GrowsElsewhere(queue, queue')
<1> prices \in Prices
  BY DEF IntakeInv, QueueInv, TypeOK
<1>1. QueueInv
  BY DEF IntakeInv
<1>2. PICK s : s = state
  OBVIOUS
<1>3. PICK new : new = enqueueTask(s, id, a, mode)
  OBVIOUS
<1>4. s \in Core /\ s.queue = queue
  BY <1>1, <1>2, StateIsCore DEF QueueInv
<1>5. Grows(s.queue, new.queue, {id})
  BY <1>3, <1>4, SubmissionGrows
<1>6. queue' = new.queue
  BY <1>2, <1>3 DEF Becomes
<1>7. PICK ids : ids = {id}
  OBVIOUS
<1>8. Grows(queue, queue', ids)
  BY <1>4, <1>5, <1>6, <1>7
<1>9. \A d \in Deliveries, b \in Agents : deliveryTask(d, b) \notin ids
  BY <1>7
<1> QED
  BY <1>8, <1>9, ElsewhereByIds

(* A command brings a task of a manifest.                                  *)
LEMMA ApplyElsewhere ==
  ASSUME IntakeInv, NEW g \in GitIds, ApplyTask(g)
  PROVE  GrowsElsewhere(queue, queue') /\ UNCHANGED <<seen, forgotten>>
<1>1. gitTask(g) \in Ids /\ AgentOf[g] \in Agents
  BY IntakeAssumption DEF Ids
<1>2. Becomes(enqueueTask(state, gitTask(g), AgentOf[g], "git")) /\ UNCHANGED ingress
  BY DEF ApplyTask
<1>3. PICK id \in Ids : id = gitTask(g)
  BY <1>1
<1>4. PICK a \in Agents : a = AgentOf[g]
  BY <1>1
<1>5. PICK mode \in {"ui", "git", "webhook", "github"} : mode = "git"
  OBVIOUS
<1>6. Becomes(enqueueTask(state, id, a, mode))
  BY <1>2, <1>3, <1>4, <1>5
<1>7. \A d \in Deliveries, b \in Agents : deliveryTask(d, b) # id
  BY <1>3, Origins
<1> QED
  BY <1>2, <1>6, <1>7, SubmissionElsewhere DEF ingress

(* A submission to the inbox brings a native task.                         *)
LEMMA SubmitElsewhere ==
  ASSUME IntakeInv, NEW n \in NativeIds, NEW mode \in Modes, SubmitNativeTask(n, mode)
  PROVE  GrowsElsewhere(queue, queue') /\ UNCHANGED <<seen, forgotten>>
<1>1. nativeTask(n) \in Ids /\ AgentOf[n] \in Agents /\ mode \in {"ui", "git", "webhook", "github"}
  BY IntakeAssumption DEF Ids
<1>2. Becomes(enqueueTask(state, nativeTask(n), AgentOf[n], mode)) /\ UNCHANGED ingress
  BY DEF SubmitNativeTask
<1>3. PICK id \in Ids : id = nativeTask(n)
  BY <1>1
<1>4. PICK a \in Agents : a = AgentOf[n]
  BY <1>1
<1>5. Becomes(enqueueTask(state, id, a, mode))
  BY <1>2, <1>3, <1>4
<1>6. \A d \in Deliveries, b \in Agents : deliveryTask(d, b) # id
  BY <1>3, Origins
<1> QED
  BY <1>1, <1>2, <1>5, <1>6, SubmissionElsewhere DEF ingress

(* The items that change keep their ids.                                   *)
LEMMA ChangeElsewhere ==
  ASSUME NEW q, NEW r, DOMAIN r = DOMAIN q, \A j \in DOMAIN q : r[j].id = q[j].id
  PROVE  GrowsElsewhere(q, r)
BY DEF GrowsElsewhere

(* Leases that run out change outcomes only.                               *)
LEMMA ReclaimElsewhere ==
  ASSUME IntakeInv, ReclaimExpiredLeases
  PROVE  GrowsElsewhere(queue, queue') /\ UNCHANGED <<seen, forgotten>>
<1>1. QueueInv /\ InboxAgrees
  BY DEF IntakeInv
<1>2. PICK expired \in SUBSET {i \in DOMAIN queue : queue[i].status = "claimed" /\ ~queue[i].run} \ {{}} :
        Becomes(reclaimed(expired)) /\ UNCHANGED ingress
  BY DEF ReclaimExpiredLeases
<1>3. PICK new : new = reclaimed(expired)
  OBVIOUS
<1>4. \A k \in expired : k \in DOMAIN queue => queue[k].status = "claimed" /\ ~queue[k].run
  BY <1>2
<1>5. SameItems(queue, new.queue)
  BY <1>1, <1>3, <1>4, ReclaimKeeps DEF QueueInv, InboxAgrees
<1>6. queue' = new.queue
  BY <1>2, <1>3 DEF Becomes
<1>7. DOMAIN queue' = DOMAIN queue /\ \A j \in DOMAIN queue : queue'[j].id = queue[j].id
  BY <1>5, <1>6 DEF SameItems, Keeps
<1> QED
  BY <1>2, <1>7, ChangeElsewhere DEF ingress

(* The end of a run changes outcomes only.                                 *)
LEMMA RunEndsElsewhere ==
  ASSUME IntakeInv, NEW i \in DOMAIN queue, NEW ok \in BOOLEAN, RunEnds(i, ok)
  PROVE  GrowsElsewhere(queue, queue') /\ UNCHANGED <<seen, forgotten>>
<1>1. QueueInv
  BY DEF IntakeInv
<1>2. PICK new \in Core, f \in DOMAIN queue, item \in QueuedTask :
        /\ queue' = new.queue /\ ledger' = new.ledger /\ crowded' = new.crowded
        /\ Overlap(new) /\ Tried(new.queue) /\ DOMAIN new.queue = DOMAIN queue
        /\ queue[f].id = queue[i].id /\ item.id = queue[i].id
        /\ (item.status = "done") = ok
        /\ \A j \in DOMAIN queue :
             /\ new.queue[j].id = queue[j].id
             /\ new.queue[j].run = IF j = i THEN FALSE ELSE queue[j].run
             /\ MayOpen(new.queue[j]) => MayOpen(queue[j])
             /\ j # f => new.queue[j].status = queue[j].status
        /\ ~hasManifest(queue[i].id) => new.queue[f].status = item.status
        /\ deliverTaskOutcome(item, ok)
        /\ succeeded' = IF ok THEN succeeded \cup {queue[i].id} ELSE succeeded
  BY <1>1, RunEndsSettles
<1>3. UNCHANGED ingress
  BY DEF RunEnds
<1>4. DOMAIN queue' = DOMAIN queue /\ \A j \in DOMAIN queue : queue'[j].id = queue[j].id
  BY <1>2
<1> QED
  BY <1>3, <1>4, ChangeElsewhere DEF ingress

(* Claims, crashes and requeues change items where they stand.             *)
LEMMA QueueElsewhere ==
  ASSUME IntakeInv,
         \/ Crash \/ (\E i \in DOMAIN queue : Claim(i)) \/ (\E id \in Ids : RequeueDead(id))
         \/ \E agents \in SUBSET Agents, p \in Prices : Reconciled(agents, p)
  PROVE  GrowsElsewhere(queue, queue') /\ UNCHANGED <<seen, forgotten>>
<1>1. QueueInv
  BY DEF IntakeInv
<1>2. ItemsChange(queue, queue') \/ UNCHANGED queue
  BY <1>1, ClaimChanges, CrashChanges, RequeueChanges, RepricedChanges DEF Reconciled
<1>3. UNCHANGED <<seen, forgotten>>
  BY DEF Crash, Claim, RequeueDead, Reconciled, ingress
<1>4. DOMAIN queue' = DOMAIN queue /\ \A j \in DOMAIN queue : queue'[j].id = queue[j].id
  BY <1>2 DEF ItemsChange, Keeps
<1> QED
  BY <1>3, <1>4, ChangeElsewhere

(* A webhook brings a task for each agent at most, of a delivery that is   *)
(* not remembered, and what it drives out of the memory is counted.        *)
LEMMA IngestDelivered ==
  ASSUME IntakeInv, Delivered, NEW d \in Deliveries, IngestGithubWebhook(d)
  PROVE  Delivered'
<1>1. QueueInv
  BY DEF IntakeInv
<1>2. PICK ids : ids = [a \in Agents |-> deliveryTask(d, a)]
  OBVIOUS
<1>3. PICK all : all = enqueueForAll(ids)
  OBVIOUS
<1>4. PICK b : b = checkRateLimit(bucket)
  OBVIOUS
<1>5. PICK new : new = IF b.count < RateLimit THEN all ELSE state
  OBVIOUS
<1>6. ids \in [Agents -> Ids] /\ \A a, c \in Agents : ids[a] = ids[c] => a = c
  BY <1>2, Origins DEF Ids
<1>7. Grows(queue, all.queue, {ids[a] : a \in Agents}) /\ Distinct(queue, all.queue)
  BY <1>1, <1>3, <1>6, ForAllGrows DEF QueueInv, IsInjective
<1>8. PICK names : names = {ids[a] : a \in Agents}
  OBVIOUS
<1>9. /\ Becomes(new) /\ ~hasSeen(d)
      /\ seen' = IF b.count < RateLimit THEN rememberNewest(d) ELSE seen
      /\ forgotten' = [e \in Deliveries |->
                         IF e \in ToSet(seen) \ ToSet(seen') THEN forgotten[e] + 1 ELSE forgotten[e]]
  BY <1>2, <1>3, <1>4, <1>5 DEF IngestGithubWebhook, rememberWebhookDelivery, allowed
<1>10. forgotten \in [Deliveries -> Nat]
  BY <1>1 DEF QueueInv, TypeOK
<1>11. CASE ~(b.count < RateLimit)
  <2>1. state.queue = queue
    BY <1>1, StateIsCore DEF QueueInv
  <2>2. queue' = queue /\ seen' = seen
    BY <1>5, <1>9, <1>11, <2>1 DEF Becomes
  <2>3. \A e \in Deliveries : forgotten'[e] = forgotten[e]
    BY <1>9, <2>2
  <2>4. \A e \in Deliveries, a \in Agents :
          tasksOf(queue', deliveryTask(e, a)) = tasksOf(queue, deliveryTask(e, a))
    BY <2>2
  <2>5. \A e \in Deliveries : hasSeen(e)' = hasSeen(e)
    BY <2>2 DEF hasSeen
  <2> QED
    BY <2>3, <2>4, <2>5 DEF Delivered, hasSeen, deliveryTask
<1>12. CASE b.count < RateLimit
  <2>1. queue' = all.queue /\ seen' = rememberNewest(d)
    BY <1>5, <1>9, <1>12 DEF Becomes
  <2>2. Grows(queue, queue', names) /\ Distinct(queue, queue')
    BY <1>7, <1>8, <2>1
  <2>3. d \in ToSet(seen') /\ ToSet(seen') \subseteq ToSet(seen) \cup {d}
    BY <1>1, <2>1, Remembers
  <2>4. ASSUME NEW e \in Deliveries, NEW a \in Agents
        PROVE  LET n == Cardinality(tasksOf(queue', deliveryTask(e, a)))
               IN  /\ n <= forgotten'[e] + 1
                   /\ e \notin ToSet(seen') => n <= forgotten'[e]
    <3>1. PICK id : id = deliveryTask(e, a)
      OBVIOUS
    <3>2. PICK old : old = tasksOf(queue, id)
      OBVIOUS
    <3>3. PICK now : now = tasksOf(queue', id)
      OBVIOUS
    <3>4. IsFiniteSet(old) /\ Cardinality(old) \in Nat
      <4>1. state \in Core /\ state.queue = queue /\ old \subseteq DOMAIN queue
        BY <1>1, <3>2, StateIsCore DEF QueueInv, tasksOf
      <4> QED
        BY <4>1, IndicesFinite
    <3>5. /\ Cardinality(old) <= forgotten[e] + 1
          /\ e \notin ToSet(seen) => Cardinality(old) <= forgotten[e]
      BY <3>1, <3>2 DEF Delivered, hasSeen
    <3>6. forgotten[e] \in Nat /\ forgotten'[e] \in Nat /\ forgotten'[e] >= forgotten[e]
      BY <1>9, <1>10
    <3>7. CASE e = d
      <4>1. Cardinality(old) <= forgotten[e]
        BY <1>9, <3>5, <3>7 DEF hasSeen
      <4>2. \E x : now \subseteq old \cup {x}
        <5>1. \A i, j \in now \ old : i = j
          BY <2>2, <3>2, <3>3 DEF Grows, Distinct, tasksOf
        <5> QED
          BY <5>1
      <4>3. Cardinality(now) <= Cardinality(old) + 1 /\ Cardinality(now) \in Nat
        BY <3>4, <4>2, OneMore
      <4>4. Cardinality(now) <= forgotten'[e] + 1
        BY <3>4, <3>6, <4>1, <4>3
      <4> QED
        BY <2>3, <3>1, <3>3, <3>7, <4>4
    <3>8. CASE e # d
      <4>1. id \notin names
        BY <1>2, <1>8, <3>1, <3>8, Origins
      <4>2. now = old
        BY <2>2, <3>2, <3>3, <4>1 DEF Grows, tasksOf
      <4>3. e \notin ToSet(seen') => Cardinality(old) <= forgotten'[e]
        <5>1. CASE e \in ToSet(seen)
          BY <1>9, <3>4, <3>5, <3>6, <5>1
        <5>2. CASE e \notin ToSet(seen)
          BY <3>4, <3>5, <3>6, <5>2
        <5> QED
          BY <5>1, <5>2
      <4> QED
        BY <3>1, <3>3, <3>4, <3>5, <3>6, <4>2, <4>3
    <3> QED
      BY <3>7, <3>8
  <2> QED
    BY <2>4 DEF Delivered, hasSeen, deliveryTask
<1> QED
  BY <1>11, <1>12

(* Every step keeps the tasks of a delivery within its forgettings.        *)
LEMMA DeliveredStep == IntakeInv /\ Delivered /\ [Next]_vars => Delivered'
<1> SUFFICES ASSUME IntakeInv, Delivered, [Next]_vars
             PROVE  Delivered'
  OBVIOUS
<1>1. CASE GrowsElsewhere(queue, queue') /\ UNCHANGED <<seen, forgotten>>
  BY <1>1, ElsewhereDelivered
<1>2. CASE \E d \in Deliveries : IngestGithubWebhook(d)
  BY <1>2, IngestDelivered
<1>3. CASE UNCHANGED <<queue, seen, forgotten>>
  <2>1. GrowsElsewhere(queue, queue')
    BY <1>3 DEF GrowsElsewhere
  <2> QED
    BY <1>3, <2>1, ElsewhereDelivered
<1>4. CASE EventToTask \/ SimulateEvent
  BY <1>1, <1>4, EventElsewhere
<1>5. CASE SyncTasks
  BY <1>1, <1>5, SyncElsewhere
<1>6. CASE \E g \in GitIds : ApplyTask(g)
  BY <1>1, <1>6, ApplyElsewhere
<1>7. CASE \E n \in NativeIds, mode \in Modes : SubmitNativeTask(n, mode)
  BY <1>1, <1>7, SubmitElsewhere
<1>8. CASE ReclaimExpiredLeases
  BY <1>1, <1>8, ReclaimElsewhere
<1>9. CASE \E i \in DOMAIN queue, ok \in BOOLEAN : RunEnds(i, ok)
  BY <1>1, <1>9, RunEndsElsewhere
<1>10. CASE \/ Crash \/ (\E i \in DOMAIN queue : Claim(i)) \/ (\E id \in Ids : RequeueDead(id))
            \/ \E agents \in SUBSET Agents, p \in Prices : Reconciled(agents, p)
  BY <1>1, <1>10, QueueElsewhere
<1>11. CASE Tick
  BY <1>3, <1>11 DEF Tick
<1>12. CASE \/ \E g \in GitIds, content \in {"none", "pending"} : AuthorWrites(g, content)
            \/ \E kind : SetConnectorEnabled(kind)
            \/ \E i \in DOMAIN queue : StartRun(i)
            \/ UNCHANGED vars
  BY <1>3, <1>12 DEF AuthorWrites, SetConnectorEnabled, StartRun, vars, ingress
<1> QED
  BY <1>2, <1>4, <1>5, <1>6, <1>7, <1>8, <1>9, <1>10, <1>11, <1>12 DEF Next

(* A delivery that arrives again, or is retried, adds a task for an agent  *)
(* only after it was forgotten.                                            *)
THEOREM DeliveriesOnce == Spec => []DeliveredOnce
<1>1. Init => Delivered
  <2> SUFFICES ASSUME Init
               PROVE  Delivered
    OBVIOUS
  <2>1. \A id : tasksOf(queue, id) = {}
    BY DEF Init, tasksOf
  <2>2. \A d \in Deliveries : forgotten[d] = 0
    BY DEF Init
  <2> QED
    BY <2>1, <2>2, FS_EmptySet DEF Delivered
<1>2. IntakeInv /\ Delivered /\ [Next]_vars => Delivered'
  BY DeliveredStep
<1>3. IntakeInv /\ Delivered => DeliveredOnce
  <2> SUFFICES ASSUME IntakeInv, Delivered, NEW d \in Deliveries, NEW a \in Agents
               PROVE  Cardinality(withId(queue, deliveryTask(d, a), anyStatus)) <= 1 + forgotten[d]
    BY DEF DeliveredOnce
  <2>1. PICK all : all = tasksOf(queue, deliveryTask(d, a))
    OBVIOUS
  <2>2. PICK part : part = withId(queue, deliveryTask(d, a), anyStatus)
    OBVIOUS
  <2>3. state \in Core /\ state.queue = queue
    BY StateIsCore DEF IntakeInv, QueueInv
  <2>4. part \subseteq all /\ all \subseteq DOMAIN queue
    BY <2>1, <2>2 DEF tasksOf, withId
  <2>5. IsFiniteSet(all) /\ Cardinality(all) \in Nat
    BY <2>3, <2>4, IndicesFinite
  <2>6. Cardinality(part) <= Cardinality(all) /\ Cardinality(part) \in Nat
    BY <2>4, <2>5, FS_Subset, FS_CardinalityType
  <2>7. Cardinality(all) <= 1 + forgotten[d] /\ forgotten[d] \in Nat
    BY <2>1 DEF Delivered, IntakeInv, QueueInv, TypeOK
  <2> QED
    BY <2>2, <2>5, <2>6, <2>7
<1>4. Spec => []IntakeInv
  BY IntakeInvHolds
<1> QED
  BY <1>1, <1>2, <1>3, <1>4, PTL DEF Spec

----------------------------------------------------------------------------
(* The rate limit.                                                         *)

(* How many events there are of each age, and of up to each age.           *)
Ages == [0..(RateWindow - 1) -> Nat]

Sums(W, p) ==
  /\ W \in [0..RateWindow -> Nat] /\ W[0] = 0
  /\ \A n \in 1..RateWindow : W[n] = W[n - 1] + p[n - 1]

(* The sums over the ages are what their recursion says.                   *)
LEMMA PassedSums ==
  ASSUME NEW p \in Ages
  PROVE  Sums(passedWithin(p), p)
<1> DEFINE step(k, s) == s + p[k - 1]
           N == RateWindow
           Solves(f) == f = [k \in 0..N |-> IF k = 0 THEN 0 ELSE step(k, f[k - 1])]
           within == CHOOSE f : Solves(f)
<1>1. N \in Nat
  BY IntakeAssumption
<1>2. ASSUME NEW k \in 1..N, NEW s \in Nat
      PROVE  step(k, s) \in Nat
  <2>1. k - 1 \in 0..(N - 1)
    BY <1>1
  <2> QED
    BY <2>1 DEF Ages
<1>3. passedWithin(p) = within
  BY DEF passedWithin
<1> HIDE DEF step
<1>7. \A k \in 1..N : k - 1 \in 0..N /\ k # 0
  BY <1>1
<1>10. \E f : Solves(f)
  <2>1. PICK g : g = [k \in 1..N |-> [s \in Nat |-> step(k, s)]]
    OBVIOUS
  <2>2. g \in Steppers(N, Nat)
    BY <1>2, <2>1 DEF Steppers
  <2>3. PICK f : Recurs(f, N, Nat, 0, g)
    BY <1>1, <2>2, RecursionExists
  <2>4. \A k \in 1..N : f[k] = step(k, f[k - 1])
    BY <1>7, <2>1, <2>3 DEF Recurs
  <2>5. \A k \in 0..N : f[k] = IF k = 0 THEN 0 ELSE step(k, f[k - 1])
    BY <1>1, <2>3, <2>4 DEF Recurs
  <2>6. f = [k \in 0..N |-> f[k]]
    BY <2>3 DEF Recurs
  <2>7. f = [k \in 0..N |-> IF k = 0 THEN 0 ELSE step(k, f[k - 1])]
    BY <2>5, <2>6
  <2> QED
    BY <2>7
<1>11. Solves(within)
  BY <1>10
<1> HIDE DEF within
<1>12. /\ within[0] = 0
       /\ \A k \in 1..N : within[k] = step(k, within[k - 1])
  BY <1>1, <1>11
<1>13. PICK T : T = [k \in 0..N |-> Nat]
  OBVIOUS
<1>14. \A k \in 0..N : within[k] \in Nat
  <2>1. within[0] \in T[0]
    BY <1>1, <1>12, <1>13
  <2>2. \A k \in 1..N : within[k - 1] \in T[k - 1] => within[k] \in T[k]
    BY <1>1, <1>2, <1>7, <1>12, <1>13
  <2>3. \A k \in 0..N : within[k] \in T[k]
    BY <1>1, <2>1, <2>2, StaysIn
  <2> QED
    BY <1>13, <2>3
<1>15. within \in [0..N -> Nat]
  BY <1>11, <1>14
<1> QED
  BY <1>3, <1>12, <1>15 DEF Sums, step

(* One more event of age zero is one more in every sum.                    *)
LEMMA SumsCount ==
  ASSUME NEW p \in Ages, NEW q \in Ages, NEW V, NEW W, Sums(V, p), Sums(W, q),
         \A t \in 0..(RateWindow - 1) : q[t] = IF t = 0 THEN p[t] + 1 ELSE p[t]
  PROVE  \A n \in 1..RateWindow : W[n] = V[n] + 1
<1>1. RateWindow \in Nat \ {0} /\ 0 \in 0..(RateWindow - 1)
  BY IntakeAssumption
<1> DEFINE Wrong == {n \in Nat : n \in 1..RateWindow /\ W[n] # V[n] + 1}
<1>2. ASSUME Wrong # {} PROVE FALSE
  <2>1. PICK n \in Wrong : \A m \in Wrong : n <= m
    BY <1>2, LeastNatural
  <2>2. /\ n \in 1..RateWindow /\ n - 1 \in 0..(RateWindow - 1) /\ n - 1 \in 0..RateWindow
        /\ W[n] # V[n] + 1
    BY <1>1, <2>1
  <2>3. /\ W[n] = W[n - 1] + q[n - 1] /\ V[n] = V[n - 1] + p[n - 1] /\ W[0] = 0 /\ V[0] = 0
        /\ W[n - 1] \in Nat /\ V[n - 1] \in Nat
    BY <2>2 DEF Sums
  <2>4. /\ q[n - 1] \in Nat /\ p[n - 1] \in Nat
        /\ q[n - 1] = IF n = 1 THEN p[n - 1] + 1 ELSE p[n - 1]
    BY <1>1, <2>2 DEF Ages
  <2>5. CASE n = 1
    BY <2>2, <2>3, <2>4, <2>5
  <2>6. CASE n # 1
    <3>1. n - 1 \in 1..RateWindow /\ n - 1 < n /\ n - 1 \in Nat
      BY <2>2, <2>6
    <3>2. n - 1 \notin Wrong
      BY <2>1, <3>1
    <3>3. W[n - 1] = V[n - 1] + 1
      BY <3>1, <3>2
    <3> QED
      BY <2>2, <2>3, <2>4, <2>6, <3>3
  <2> QED
    BY <2>5, <2>6
<1> QED
  BY <1>2

(* When all ages shift, so do the sums.                                    *)
LEMMA SumsShift ==
  ASSUME NEW p \in Ages, NEW q \in Ages, NEW V, NEW W, Sums(V, p), Sums(W, q),
         \A t \in 0..(RateWindow - 1) : q[t] = IF t = 0 THEN 0 ELSE p[t - 1]
  PROVE  \A n \in 1..RateWindow : W[n] = V[n - 1]
<1>1. RateWindow \in Nat \ {0} /\ 0 \in 0..(RateWindow - 1)
  BY IntakeAssumption
<1> DEFINE Wrong == {n \in Nat : n \in 1..RateWindow /\ W[n] # V[n - 1]}
<1>2. ASSUME Wrong # {} PROVE FALSE
  <2>1. PICK n \in Wrong : \A m \in Wrong : n <= m
    BY <1>2, LeastNatural
  <2>2. /\ n \in 1..RateWindow /\ n - 1 \in 0..(RateWindow - 1) /\ n - 1 \in 0..RateWindow
        /\ W[n] # V[n - 1]
    BY <1>1, <2>1
  <2>3. /\ W[n] = W[n - 1] + q[n - 1] /\ W[0] = 0 /\ V[0] = 0
        /\ W[n - 1] \in Nat /\ V[n - 1] \in Nat
    BY <2>2 DEF Sums
  <2>4. q[n - 1] = IF n = 1 THEN 0 ELSE p[n - 2]
    BY <1>1, <2>2
  <2>5. CASE n = 1
    BY <2>2, <2>3, <2>4, <2>5
  <2>6. CASE n # 1
    <3>1. n - 1 \in 1..RateWindow /\ n - 1 < n /\ n - 1 \in Nat
      BY <2>2, <2>6
    <3>2. n - 1 \notin Wrong
      BY <2>1, <3>1
    <3>3. W[n - 1] = V[n - 2]
      BY <3>1, <3>2
    <3>4. V[n - 1] = V[n - 2] + p[n - 2]
      BY <3>1 DEF Sums
    <3> QED
      BY <2>2, <2>3, <2>4, <2>6, <3>3, <3>4
  <2> QED
    BY <2>5, <2>6
<1> QED
  BY <1>2

(* Where there are no events there is nothing to sum.                      *)
LEMMA SumsOfNone ==
  ASSUME NEW p \in Ages, NEW V, Sums(V, p), \A t \in 0..(RateWindow - 1) : p[t] = 0
  PROVE  V[RateWindow] = 0
<1>1. RateWindow \in Nat \ {0}
  BY IntakeAssumption
<1> DEFINE Wrong == {n \in Nat : n \in 0..RateWindow /\ V[n] # 0}
<1>2. ASSUME Wrong # {} PROVE FALSE
  <2>1. PICK n \in Wrong : \A m \in Wrong : n <= m
    BY <1>2, LeastNatural
  <2>2. n # 0 /\ n \in 0..RateWindow /\ V[n] # 0
    BY <2>1 DEF Sums
  <2>3. n \in 1..RateWindow /\ n - 1 \in Nat /\ n - 1 \in 0..(RateWindow - 1)
    BY <1>1, <2>2
  <2>4. n - 1 \notin Wrong
    BY <2>1, <2>3
  <2>5. V[n - 1] = 0
    BY <1>1, <2>3, <2>4
  <2> QED
    BY <2>2, <2>3, <2>5 DEF Sums
<1> QED
  BY <1>1, <1>2

(* The events counted in the open window are those since it was opened, by *)
(* one of them; before them, and after it is over, the limit was not       *)
(* reached a second time.                                                  *)
RateInv ==
  LET W == passedWithin(passed)
  IN  /\ bucket.age < RateWindow =>
           /\ W[bucket.age + 1] = bucket.count /\ passed[bucket.age] >= 1
           /\ W[RateWindow] - W[bucket.age + 1] <= RateLimit - 1
      /\ bucket.age = RateWindow => W[RateWindow] <= RateLimit - 1 /\ passed[0] = 0

RateTypes ==
  /\ bucket \in [age : 0..RateWindow, count : 0..RateLimit]
  /\ passed \in Ages

(* Time moves the events out of the window, and the window to its end.     *)
LEMMA TickKeepsRate ==
  ASSUME RateTypes, RateTypes', RateInv, Tick
  PROVE  RateInv'
<1>1. PICK V : V = passedWithin(passed)
  OBVIOUS
<1>2. PICK W : W = passedWithin(passed)'
  OBVIOUS
<1>3. Sums(V, passed) /\ Sums(W, passed')
  <2>1. Sums(V, passed)
    BY <1>1, PassedSums DEF RateTypes
  <2>2. PICK p : p = passed'
    OBVIOUS
  <2>3. p \in Ages
    BY <2>2 DEF RateTypes, Ages
  <2>4. W = passedWithin(p)
    BY <1>2, <2>2 DEF passedWithin
  <2>5. Sums(W, p)
    BY <2>3, <2>4, PassedSums
  <2> QED
    BY <2>1, <2>2, <2>5
<1>4. PICK p \in Ages : p = passed
  BY DEF RateTypes
<1>5. PICK q \in Ages : q = passed'
  BY DEF RateTypes, Ages
<1>6. RateWindow \in Nat \ {0} /\ RateLimit \in Nat \ {0}
  BY IntakeAssumption
<1>7. \A t \in 0..(RateWindow - 1) : q[t] = IF t = 0 THEN 0 ELSE p[t - 1]
  BY <1>4, <1>5 DEF Tick, Ages
<1>8. \A n \in 1..RateWindow : W[n] = V[n - 1]
  BY <1>3, <1>4, <1>5, <1>7, SumsShift
<1>9. PICK age \in 0..RateWindow : age = bucket.age
  BY DEF RateTypes
<1>10. PICK old : old = bucket'.age
  OBVIOUS
<1>11. old = (IF age < RateWindow THEN age + 1 ELSE RateWindow) /\ bucket'.count = bucket.count
  <2>1. PICK o : o = Older(bucket.age, RateWindow)
    OBVIOUS
  <2>2. bucket' = [bucket EXCEPT !.age = o]
    BY <2>1 DEF Tick, Older
  <2>3. bucket'.age = o /\ bucket'.count = bucket.count
    BY <2>2 DEF RateTypes
  <2>4. o = IF age < RateWindow THEN age + 1 ELSE RateWindow
    BY <1>6, <1>9, <2>1, OlderFits
  <2> QED
    BY <1>10, <2>3, <2>4
<1>12. /\ age < RateWindow =>
            /\ V[age + 1] = bucket.count /\ p[age] >= 1
            /\ V[RateWindow] - V[age + 1] <= RateLimit - 1
       /\ age = RateWindow => V[RateWindow] <= RateLimit - 1 /\ p[0] = 0
  BY <1>1, <1>4, <1>9 DEF RateInv
<1>13. /\ \A n \in 0..RateWindow : V[n] \in Nat /\ W[n] \in Nat
       /\ V[RateWindow] = V[RateWindow - 1] + p[RateWindow - 1] /\ p[RateWindow - 1] \in Nat
       /\ W[RateWindow] = V[RateWindow - 1] /\ q[0] = 0 /\ bucket.count \in 0..RateLimit
  <2>1. RateWindow \in 1..RateWindow /\ RateWindow - 1 \in 0..(RateWindow - 1) /\ 0 \in 0..(RateWindow - 1)
    BY <1>6
  <2>2. /\ \A n \in 0..RateWindow : V[n] \in Nat /\ W[n] \in Nat
        /\ V[RateWindow] = V[RateWindow - 1] + p[RateWindow - 1]
    BY <1>3, <1>4, <2>1 DEF Sums
  <2>3. p[RateWindow - 1] \in Nat
    BY <2>1 DEF Ages
  <2> QED
    BY <1>7, <1>8, <2>1, <2>2, <2>3 DEF RateTypes
<1>14. ASSUME old < RateWindow
       PROVE  /\ W[old + 1] = bucket.count /\ q[old] >= 1
              /\ W[RateWindow] - W[old + 1] <= RateLimit - 1
  <2>1. old = age + 1 /\ age < RateWindow /\ age + 1 \in 0..(RateWindow - 1) /\ age + 2 \in 1..RateWindow
    BY <1>6, <1>9, <1>11, <1>14
  <2>2. W[old + 1] = V[age + 1] /\ q[old] = p[age] /\ V[age + 1] \in Nat
    BY <1>7, <1>8, <1>13, <2>1
  <2> QED
    BY <1>6, <1>12, <1>13, <2>1, <2>2
<1>15. ASSUME old = RateWindow
       PROVE  W[RateWindow] <= RateLimit - 1 /\ q[0] = 0
  <2>1. CASE age = RateWindow
    <3>1. V[RateWindow] <= RateLimit - 1
      BY <1>12, <2>1
    <3>2. RateWindow \in 0..RateWindow /\ RateWindow - 1 \in 0..RateWindow
      BY <1>6
    <3>3. V[RateWindow] \in Nat /\ V[RateWindow - 1] \in Nat
      BY <1>13, <3>2
    <3> QED
      BY <1>6, <1>13, <3>1, <3>3
  <2>2. CASE age < RateWindow
    <3>1. age = RateWindow - 1 /\ age + 1 = RateWindow
      BY <1>6, <1>9, <1>11, <1>15, <2>2
    <3>2. V[RateWindow] = bucket.count /\ p[RateWindow - 1] >= 1
      BY <1>12, <2>2, <3>1
    <3> QED
      BY <1>6, <1>13, <3>2
  <2> QED
    BY <1>6, <1>9, <2>1, <2>2
<1> QED
  BY <1>2, <1>5, <1>10, <1>11, <1>14, <1>15 DEF RateInv

(* An event that passes is counted in the window open, or opens one.       *)
LEMMA CountedKeepsRate ==
  ASSUME RateTypes, RateTypes', RateInv, Counted
  PROVE  RateInv'
<1>1. PICK b : b = checkRateLimit(bucket)
  OBVIOUS
<1>2. /\ bucket' = IF b.count < RateLimit THEN [b EXCEPT !.count = @ + 1] ELSE b
      /\ passed' = IF b.count < RateLimit THEN [passed EXCEPT ![0] = @ + 1] ELSE passed
  BY <1>1 DEF Counted, allowed
<1>3. RateWindow \in Nat \ {0} /\ RateLimit \in Nat \ {0} /\ 0 \in 0..(RateWindow - 1)
  BY IntakeAssumption
<1>4. b = (IF bucket.age = RateWindow THEN [age |-> 0, count |-> 0] ELSE bucket)
  BY <1>1, <1>3 DEF checkRateLimit, windowOver, RateTypes
<1>5. b \in [age : 0..RateWindow, count : 0..RateLimit]
  BY <1>3, <1>4 DEF RateTypes
<1>6. CASE ~(b.count < RateLimit)
  <2>1. b = bucket
    BY <1>3, <1>4, <1>6
  <2>2. bucket' = bucket /\ passed' = passed
    BY <1>2, <1>6, <2>1
  <2>3. passedWithin(passed)' = passedWithin(passed)
    BY <2>2 DEF passedWithin
  <2> QED
    BY <2>2, <2>3 DEF RateInv
<1>7. CASE b.count < RateLimit
  <2>1. PICK p \in Ages : p = passed
    BY DEF RateTypes
  <2>2. PICK q \in Ages : q = passed'
    BY DEF RateTypes, Ages
  <2>3. \A t \in 0..(RateWindow - 1) : q[t] = IF t = 0 THEN p[t] + 1 ELSE p[t]
    BY <1>2, <1>3, <1>7, <2>1, <2>2 DEF Ages
  <2>4. PICK V : V = passedWithin(p)
    OBVIOUS
  <2>5. PICK W : W = passedWithin(q)
    OBVIOUS
  <2>6. Sums(V, p) /\ Sums(W, q)
    BY <2>4, <2>5, PassedSums
  <2>7. \A n \in 1..RateWindow : W[n] = V[n] + 1
    BY <2>3, <2>6, SumsCount
  <2>8. V = passedWithin(passed) /\ W = passedWithin(passed)'
    BY <2>1, <2>2, <2>4, <2>5 DEF passedWithin
  <2>9. bucket'.age = b.age /\ bucket'.count = b.count + 1
    BY <1>2, <1>5, <1>7
  <2>10. /\ \A n \in 0..RateWindow : V[n] \in Nat
         /\ \A t \in 0..(RateWindow - 1) : p[t] \in Nat /\ q[t] \in Nat /\ q[t] >= p[t]
         /\ q[0] = p[0] + 1 /\ V[1] = p[0]
    <3>1. 1 \in 1..RateWindow /\ 1 - 1 = 0
      BY <1>3
    <3>2. V[1] = V[0] + p[0] /\ V[0] = 0 /\ \A n \in 0..RateWindow : V[n] \in Nat
      BY <2>6, <3>1 DEF Sums
    <3>3. \A t \in 0..(RateWindow - 1) : p[t] \in Nat /\ q[t] \in Nat /\ q[t] >= p[t]
      BY <1>3, <2>3 DEF Ages
    <3> QED
      BY <1>3, <2>3, <3>2, <3>3 DEF Ages
  <2>11. /\ bucket.age < RateWindow =>
              /\ V[bucket.age + 1] = bucket.count /\ p[bucket.age] >= 1
              /\ V[RateWindow] - V[bucket.age + 1] <= RateLimit - 1
         /\ bucket.age = RateWindow => V[RateWindow] <= RateLimit - 1 /\ p[0] = 0
    BY <2>1, <2>8 DEF RateInv
  <2>12. /\ b.age < RateWindow
         /\ W[b.age + 1] = b.count + 1 /\ q[b.age] >= 1
         /\ W[RateWindow] - W[b.age + 1] <= RateLimit - 1
    <3>1. CASE bucket.age = RateWindow
      <4>1. b.age = 0 /\ b.count = 0
        BY <1>4, <3>1
      <4>2. W[1] = 1 /\ q[0] = 1 /\ W[RateWindow] = V[RateWindow] + 1
        BY <1>3, <2>7, <2>10, <2>11, <3>1
      <4>3. V[RateWindow] \in Nat
        BY <1>3, <2>10
      <4> QED
        BY <1>3, <2>11, <3>1, <4>1, <4>2, <4>3
    <3>2. CASE bucket.age # RateWindow
      <4>1. b = bucket /\ bucket.age \in 0..(RateWindow - 1)
        BY <1>3, <1>4, <3>2 DEF RateTypes
      <4>2. PICK age \in 0..(RateWindow - 1) : age = bucket.age
        BY <4>1
      <4>3. W[age + 1] = V[age + 1] + 1 /\ W[RateWindow] = V[RateWindow] + 1
        BY <1>3, <2>7, <4>2
      <4>4. V[age + 1] \in Nat /\ V[RateWindow] \in Nat
        BY <1>3, <2>10, <4>2
      <4>5. q[age] >= p[age] /\ q[age] \in Nat /\ p[age] \in Nat
        BY <2>10, <4>2
      <4> QED
        BY <1>3, <2>11, <4>1, <4>2, <4>3, <4>4, <4>5
    <3> QED
      BY <3>1, <3>2
  <2>13. b.age \in 0..RateWindow /\ bucket'.age # RateWindow
    BY <1>3, <1>5, <2>9, <2>12
  <2> QED
    BY <2>2, <2>8, <2>9, <2>12, <2>13 DEF RateInv
<1> QED
  BY <1>6, <1>7

(* The other actions leave the windows alone.                              *)
LEMMA RateStays ==
  ASSUME RateInv, UNCHANGED <<bucket, passed>>
  PROVE  RateInv'
<1>1. passedWithin(passed)' = passedWithin(passed)
  BY DEF passedWithin
<1> QED
  BY <1>1 DEF RateInv

(* Every step keeps the count of the window right.                         *)
LEMMA RateStep == RateTypes /\ RateTypes' /\ RateInv /\ [Next]_vars => RateInv'
<1> SUFFICES ASSUME RateTypes, RateTypes', RateInv, [Next]_vars
             PROVE  RateInv'
  OBVIOUS
<1>1. CASE Tick
  BY <1>1, TickKeepsRate
<1>2. CASE EventToTask \/ \E d \in Deliveries : IngestGithubWebhook(d)
  BY <1>2, CountedKeepsRate DEF EventToTask, IngestGithubWebhook
<1>3. CASE UNCHANGED <<bucket, passed>>
  BY <1>3, RateStays
<1>4. CASE \/ Crash \/ ReclaimExpiredLeases \/ SimulateEvent \/ SyncTasks \/ UNCHANGED vars
           \/ \E agents \in SUBSET Agents, p \in Prices : Reconciled(agents, p)
  BY <1>3, <1>4 DEF Crash, ReclaimExpiredLeases, SimulateEvent, SyncTasks, Reconciled, vars, ingress
<1>5. CASE \/ \E n \in NativeIds, mode \in Modes : SubmitNativeTask(n, mode)
           \/ \E g \in GitIds : ApplyTask(g)
           \/ \E g \in GitIds, content \in {"none", "pending"} : AuthorWrites(g, content)
           \/ \E kind : SetConnectorEnabled(kind)
  BY <1>3, <1>5 DEF SubmitNativeTask, ApplyTask, AuthorWrites, SetConnectorEnabled, ingress
<1>6. CASE \/ \E i \in DOMAIN queue : Claim(i) \/ StartRun(i) \/ \E ok \in BOOLEAN : RunEnds(i, ok)
           \/ \E id \in Ids : RequeueDead(id)
  BY <1>3, <1>6 DEF Claim, StartRun, RunEnds, RequeueDead, ingress
<1> QED
  BY <1>1, <1>2, <1>4, <1>5, <1>6 DEF Next

(* A span as long as a window lets less than two windows' events pass.     *)
THEOREM SpansAreLimited == Spec => []SpanLimit
<1>1. Init => RateInv
  <2> SUFFICES ASSUME Init
               PROVE  RateInv
    OBVIOUS
  <2>1. RateWindow \in Nat \ {0} /\ RateLimit \in Nat \ {0}
    BY IntakeAssumption
  <2>2. passed \in Ages /\ \A t \in 0..(RateWindow - 1) : passed[t] = 0
    BY DEF Init, Ages
  <2>3. passedWithin(passed)[RateWindow] = 0
    BY <2>2, PassedSums, SumsOfNone
  <2> QED
    BY <2>1, <2>2, <2>3 DEF Init, RateInv
<1>2. IntakeInv => RateTypes
  BY DEF IntakeInv, QueueInv, TypeOK, RateTypes, Ages
<1>3. RateTypes /\ RateTypes' /\ RateInv /\ [Next]_vars => RateInv'
  BY RateStep
<1>4. RateTypes /\ RateInv => SpanLimit
  <2> SUFFICES ASSUME RateTypes, RateInv
               PROVE  SpanLimit
    OBVIOUS
  <2>1. RateWindow \in Nat \ {0} /\ RateLimit \in Nat \ {0}
    BY IntakeAssumption
  <2>2. PICK W : W = passedWithin(passed)
    OBVIOUS
  <2>3. Sums(W, passed)
    BY <2>2, PassedSums DEF RateTypes
  <2>4. \A n \in 0..RateWindow : W[n] \in Nat
    BY <2>3 DEF Sums
  <2>5. bucket.age \in 0..RateWindow /\ bucket.count \in 0..RateLimit
    BY DEF RateTypes
  <2>6. W[RateWindow] \in Nat
    BY <2>1, <2>4
  <2>7. CASE bucket.age = RateWindow
    BY <2>1, <2>2, <2>6, <2>7 DEF RateInv, SpanLimit
  <2>8. CASE bucket.age # RateWindow
    <3>1. bucket.age < RateWindow /\ W[bucket.age + 1] \in Nat
      BY <2>1, <2>4, <2>5, <2>8
    <3>2. W[bucket.age + 1] = bucket.count /\ W[RateWindow] - W[bucket.age + 1] <= RateLimit - 1
      BY <2>2, <3>1 DEF RateInv
    <3> QED
      BY <2>1, <2>2, <2>5, <2>6, <3>1, <3>2 DEF SpanLimit
  <2> QED
    BY <2>7, <2>8
<1>5. Spec => []IntakeInv
  BY IntakeInvHolds
<1> QED
  BY <1>1, <1>2, <1>3, <1>4, <1>5, PTL DEF Spec
============================================================================
