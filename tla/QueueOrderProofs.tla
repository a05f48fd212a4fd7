------------------------- MODULE QueueOrderProofs --------------------------
(***************************************************************************)
(* First come, first served up to the priority lead, for every number of   *)
(* items, set of priorities and boost, whatever workers there are.         *)
(*                                                                         *)
(* The argument: an item that stays pending is aged whenever a later one   *)
(* is, and by at least as much.  So what its stored priority has gained    *)
(* over the asked one never falls behind the later item's gain.            *)
(***************************************************************************)
EXTENDS QueueOrder, SequenceTheorems, FiniteSetTheorems, TLAPS

(* What ageing has added to the priority a client asked for. *)
gain(it) == it.priority - it.asked

(* The items are in the order of their enqueue times, none in the future. *)
InOrder ==
  \A i \in DOMAIN queue :
    /\ queue[i].enqueuedAt <= clock
    /\ \A j \in DOMAIN queue : i < j => queue[i].enqueuedAt <= queue[j].enqueuedAt

(* An item never claimed has gained at least as much as any later one. *)
GainKept ==
  \A i \in DOMAIN queue :
    queue[i].past = "none" =>
      /\ queue[i].st = "pending" /\ queue[i].nextRetryAt = 0
      /\ gain(queue[i]) >= 0
      /\ \A j \in DOMAIN queue : i < j => gain(queue[i]) >= gain(queue[j])

AttemptsLeft ==
  \A i \in DOMAIN queue :
    /\ queue[i].st = "pending" => queue[i].attempts < MaxAttempts
    /\ queue[i].st = "claimed" => queue[i].attempts > 0

(* While the loop runs, a claimable item is still to be visited, or was    *)
(* passed over, there being no worker for its kind.                        *)
LoopVisits ==
  /\ \A i \in todo : queue[i].st = "pending"
  /\ quota > 0 =>
       \A i \in claimable(queue) :
         i \in todo \/ queue[i].kind \in refused
  /\ quota = 0 => todo = {} /\ refused = {}

OrderInv == TypeOK /\ InOrder /\ GainKept /\ AttemptsLeft /\ LoopVisits

----------------------------------------------------------------------------
(* Waiting longer is never worth less: division by the same number of      *)
(* ticks is monotone.                                                      *)
LEMMA DivMonotone ==
  ASSUME NEW m \in Nat, NEW n \in Nat, NEW d \in Nat \ {0}, m <= n
  PROVE  m \div d <= n \div d /\ m \div d \in Nat /\ n \div d \in Nat
<1> DEFINE p == m \div d
           q == n \div d
<1>1. p \in Int /\ q \in Int /\ d * p <= m /\ m < d * (p + 1) /\ d * q <= n /\ n < d * (q + 1)
  OBVIOUS
<1> HIDE DEF p, q
<1>2. p >= 0 /\ q >= 0
  BY <1>1
<1>3. ASSUME q < p PROVE FALSE
  <2>1. q + 1 <= p
    BY <1>1, <1>3
  <2>2. d * (q + 1) <= d * p
    BY <2>1, <1>1, <1>2
  <2> QED
    BY <2>2, <1>1
<1>4. p <= q /\ p \in Nat /\ q \in Nat
  BY <1>1, <1>2, <1>3
<1> QED
  BY <1>4 DEF p, q

(* A function on 1..n is a sequence of length n. *)
LEMMA FunctionIsSeq ==
  ASSUME NEW S, NEW n \in Nat, NEW f \in [1..n -> S]
  PROVE  f \in Seq(S) /\ Len(f) = n /\ DOMAIN f = 1..n
<1>1. f \in Seq(S)
  BY SeqDef
<1>2. DOMAIN f = 1..Len(f) /\ Len(f) \in Nat
  BY <1>1, LenProperties
<1> QED
  BY <1>1, <1>2

(* Writing an item leaves the length and the other items alone. *)
LEMMA WriteItem ==
  ASSUME NEW q \in Seq(Item), NEW k \in DOMAIN q, NEW it \in Item
  PROVE  /\ [q EXCEPT ![k] = it] \in Seq(Item)
         /\ DOMAIN [q EXCEPT ![k] = it] = DOMAIN q
         /\ \A i \in DOMAIN q : [q EXCEPT ![k] = it][i] = IF i = k THEN it ELSE q[i]
<1>1. k \in 1..Len(q) /\ DOMAIN q = 1..Len(q)
  BY LenProperties
<1> QED
  BY <1>1, ExceptSeq, LenProperties

(* The fields of an item have their types. *)
LEMMA ItemFields ==
  ASSUME NEW it \in Item
  PROVE  /\ it = [kind |-> it.kind, st |-> it.st, priority |-> it.priority,
                  enqueuedAt |-> it.enqueuedAt, nextRetryAt |-> it.nextRetryAt,
                  attempts |-> it.attempts, asked |-> it.asked,
                  past |-> it.past]
         /\ it.kind \in Kinds /\ it.st \in {"pending", "claimed", "done", "dead"}
         /\ it.priority \in Int /\ it.enqueuedAt \in Nat /\ it.nextRetryAt \in Nat
         /\ it.attempts \in 0..MaxAttempts /\ it.asked \in Priorities /\ it.asked \in Int
         /\ it.past \in {"none", "raised", "claimed"} /\ gain(it) \in Int
<1>1. it = [kind |-> it.kind, st |-> it.st, priority |-> it.priority,
            enqueuedAt |-> it.enqueuedAt, nextRetryAt |-> it.nextRetryAt,
            attempts |-> it.attempts, asked |-> it.asked,
            past |-> it.past]
  BY DEF Item
<1>2. /\ it.kind \in Kinds /\ it.st \in {"pending", "claimed", "done", "dead"}
      /\ it.priority \in Int /\ it.enqueuedAt \in Nat /\ it.nextRetryAt \in Nat
      /\ it.attempts \in 0..MaxAttempts /\ it.asked \in Priorities
      /\ it.past \in {"none", "raised", "claimed"}
  BY DEF Item
<1>3. it.asked \in Int
  BY <1>2, OrderAssumption
<1> QED
  BY <1>1, <1>2, <1>3 DEF gain

(* Of two items the one enqueued first has the larger boost. *)
LEMMA BoostMonotone ==
  ASSUME NEW x \in Item, NEW y \in Item, clock \in Nat,
         x.enqueuedAt <= y.enqueuedAt, y.enqueuedAt <= clock
  PROVE  /\ ageBoost(x) \in Nat /\ ageBoost(y) \in Nat
         /\ ageBoost(x) >= ageBoost(y)
<1> DEFINE p == (clock - x.enqueuedAt) \div BoostTicks
           q == (clock - y.enqueuedAt) \div BoostTicks
<1>1. x.enqueuedAt \in Nat /\ y.enqueuedAt \in Nat
  BY ItemFields
<1>2. /\ clock - x.enqueuedAt \in Nat /\ clock - y.enqueuedAt \in Nat
      /\ clock - y.enqueuedAt <= clock - x.enqueuedAt
  BY <1>1
<1>3. p \in Nat /\ q \in Nat /\ q <= p
  BY <1>2, DivMonotone, OrderAssumption
<1>4. ageBoost(x) = Smaller(BoostMax, p) /\ ageBoost(y) = Smaller(BoostMax, q)
  BY DEF ageBoost
<1> HIDE DEF p, q
<1> QED
  BY <1>3, <1>4, OrderAssumption DEF Smaller

(* Ageing a pending item adds its boost to its gain and nothing else. *)
LEMMA AgedItem ==
  ASSUME NEW it \in Item, ageBoost(it) \in Nat
  PROVE  /\ agedItem(it) \in Item
         /\ agedItem(it).kind = it.kind /\ agedItem(it).st = it.st
         /\ agedItem(it).enqueuedAt = it.enqueuedAt
         /\ agedItem(it).nextRetryAt = it.nextRetryAt
         /\ agedItem(it).attempts = it.attempts
         /\ agedItem(it).asked = it.asked
         /\ agedItem(it).past = it.past
         /\ gain(agedItem(it)) =
              gain(it) + (IF it.st = "pending" THEN ageBoost(it) ELSE 0)
<1> DEFINE b == ageBoost(it)
<1>1. agedItem(it) =
        IF it.st = "pending" THEN [it EXCEPT !.priority = it.priority + b] ELSE it
  BY DEF agedItem, effectivePriority
<1>2. b \in Nat
  OBVIOUS
<1> HIDE DEF b
<1>3. CASE it.st = "pending"
  <2>1. agedItem(it) = [kind |-> it.kind, st |-> it.st, priority |-> it.priority + b,
                        enqueuedAt |-> it.enqueuedAt, nextRetryAt |-> it.nextRetryAt,
                        attempts |-> it.attempts, asked |-> it.asked,
                        past |-> it.past]
    BY <1>1, <1>3, ItemFields
  <2>2. it.priority + b \in Int
    BY <1>2, ItemFields
  <2>3. agedItem(it) \in Item
    BY <2>1, <2>2, ItemFields DEF Item
  <2>4. gain(agedItem(it)) = gain(it) + b
    BY <2>1, <1>2, ItemFields DEF gain
  <2> QED
    BY <2>1, <2>3, <2>4, <1>3 DEF b
<1>4. CASE it.st # "pending"
  BY <1>1, <1>4, ItemFields
<1> QED
  BY <1>3, <1>4

(* What the other changes of an item do: they end its being undisturbed,   *)
(* keep its kind and enqueue time, and do not raise its gain above the    *)
(* larger of what it was and none.                                         *)
LEMMA ItemChanges ==
  ASSUME NEW it \in Item, clock \in Nat
  PROVE  /\ it.attempts < MaxAttempts =>
              /\ claimedItem(it) \in Item /\ claimedItem(it).st = "claimed"
              /\ claimedItem(it).attempts > 0
              /\ claimedItem(it).past # "none"
              /\ claimedItem(it).enqueuedAt = it.enqueuedAt
              /\ claimedItem(it).kind = it.kind
              /\ gain(claimedItem(it)) = gain(it)
         /\ \A p \in Priorities :
              /\ raisedItem(it, p) \in Item /\ raisedItem(it, p).st = it.st
              /\ raisedItem(it, p).attempts = it.attempts
              /\ raisedItem(it, p).past # "none"
              /\ raisedItem(it, p).enqueuedAt = it.enqueuedAt
              /\ gain(raisedItem(it, p)) = 0
         /\ it.attempts > 0 =>
              /\ failedItem(it) \in Item
              /\ failedItem(it).st # "claimed"
              /\ failedItem(it).st = "pending" => failedItem(it).attempts < MaxAttempts
              /\ failedItem(it).past = it.past
              /\ failedItem(it).enqueuedAt = it.enqueuedAt
              /\ gain(failedItem(it)) = gain(it)
         /\ /\ doneItem(it) \in Item /\ doneItem(it).st = "done"
            /\ doneItem(it).past = it.past
            /\ doneItem(it).enqueuedAt = it.enqueuedAt
            /\ gain(doneItem(it)) = gain(it)
         /\ /\ revivedItem(it) \in Item /\ revivedItem(it).st = "pending"
            /\ revivedItem(it).attempts = 0
            /\ revivedItem(it).past = it.past
            /\ revivedItem(it).enqueuedAt = it.enqueuedAt
            /\ gain(revivedItem(it)) = gain(it)
<1>0. /\ it = [kind |-> it.kind, st |-> it.st, priority |-> it.priority,
               enqueuedAt |-> it.enqueuedAt, nextRetryAt |-> it.nextRetryAt,
               attempts |-> it.attempts, asked |-> it.asked, past |-> it.past]
      /\ it.kind \in Kinds /\ it.st \in {"pending", "claimed", "done", "dead"}
      /\ it.priority \in Int /\ it.enqueuedAt \in Nat /\ it.nextRetryAt \in Nat
      /\ it.attempts \in 0..MaxAttempts /\ it.asked \in Priorities /\ it.asked \in Int
      /\ it.past \in {"none", "raised", "claimed"}
  BY ItemFields
<1>6. it.attempts > 0 => clock + Backoff[it.attempts] \in Nat
  BY ItemFields, OrderAssumption
<1>7. it.attempts < MaxAttempts => it.attempts + 1 \in 0..MaxAttempts
  BY ItemFields, OrderAssumption
<1>8. 0 \in 0..MaxAttempts /\ Priorities \subseteq Int
  BY OrderAssumption
<1>9. it.attempts < MaxAttempts =>
        /\ claimedItem(it) \in Item /\ claimedItem(it).st = "claimed"
        /\ claimedItem(it).attempts > 0
        /\ claimedItem(it).past # "none"
        /\ claimedItem(it).enqueuedAt = it.enqueuedAt
        /\ claimedItem(it).kind = it.kind
        /\ gain(claimedItem(it)) = gain(it)
  <2> DEFINE next == it.attempts + 1
  <2>1. claimedItem(it) = [it EXCEPT !.st = "claimed", !.attempts = next,
                                     !.nextRetryAt = 0, !.past = "claimed"]
    BY DEF claimedItem
  <2>2. it.attempts < MaxAttempts => next \in 0..MaxAttempts /\ next > 0
    BY <1>0, <1>7
  <2> HIDE DEF next
  <2>3. claimedItem(it) = [kind |-> it.kind, st |-> "claimed", priority |-> it.priority,
                           enqueuedAt |-> it.enqueuedAt, nextRetryAt |-> 0,
                           attempts |-> next, asked |-> it.asked, past |-> "claimed"]
    BY <2>1, <1>0
  <2> QED
    BY <2>2, <2>3, <1>0 DEF Item, gain
<1>10. ASSUME NEW p \in Priorities
       PROVE  /\ raisedItem(it, p) \in Item /\ raisedItem(it, p).st = it.st
              /\ raisedItem(it, p).attempts = it.attempts
              /\ raisedItem(it, p).past # "none"
              /\ raisedItem(it, p).enqueuedAt = it.enqueuedAt
              /\ gain(raisedItem(it, p)) = 0
  <2>0. raisedItem(it, p) = [it EXCEPT !.priority = p, !.asked = p, !.past = "raised"]
    BY DEF raisedItem
  <2>1. raisedItem(it, p) = [kind |-> it.kind, st |-> it.st, priority |-> p,
                             enqueuedAt |-> it.enqueuedAt, nextRetryAt |-> it.nextRetryAt,
                             attempts |-> it.attempts, asked |-> p, past |-> "raised"]
    BY <2>0, <1>0
  <2>2. p \in Int
    BY <1>8
  <2> QED
    BY <2>1, <2>2, <1>0 DEF Item, gain
<1>11. it.attempts > 0 =>
         /\ failedItem(it) \in Item
         /\ failedItem(it).st # "claimed"
         /\ failedItem(it).st = "pending" => failedItem(it).attempts < MaxAttempts
         /\ failedItem(it).past = it.past
         /\ failedItem(it).enqueuedAt = it.enqueuedAt
         /\ gain(failedItem(it)) = gain(it)
  BY <1>0, <1>6 DEF failedItem, Item, gain
<1>12. /\ doneItem(it) \in Item /\ doneItem(it).st = "done"
       /\ doneItem(it).past = it.past
       /\ doneItem(it).enqueuedAt = it.enqueuedAt
       /\ gain(doneItem(it)) = gain(it)
  BY <1>0 DEF doneItem, Item, gain
<1>13. /\ revivedItem(it) \in Item /\ revivedItem(it).st = "pending"
       /\ revivedItem(it).attempts = 0
       /\ revivedItem(it).past = it.past
       /\ revivedItem(it).enqueuedAt = it.enqueuedAt
       /\ gain(revivedItem(it)) = gain(it)
  BY <1>0, <1>8 DEF revivedItem, Item, gain
<1> QED
  BY <1>9, <1>10, <1>11, <1>12, <1>13

(* The part of the invariant that speaks of the items alone. *)
ItemsInv == queue \in Seq(Item) /\ clock \in Nat /\ InOrder /\ GainKept /\ AttemptsLeft

(* Writing one item, which is disturbed by it and gains nothing, keeps the *)
(* order of the others.                                                    *)
LEMMA WriteKeeps ==
  ASSUME ItemsInv, NEW k \in DOMAIN queue, NEW it \in Item,
         queue' = [queue EXCEPT ![k] = it], clock' = clock,
         it.enqueuedAt = queue[k].enqueuedAt, it.past # "none",
         gain(it) <= gain(queue[k]) \/ gain(it) = 0,
         it.st = "pending" => it.attempts < MaxAttempts,
         it.st = "claimed" => it.attempts > 0
  PROVE  ItemsInv'
<1>1. /\ queue' \in Seq(Item) /\ DOMAIN queue' = DOMAIN queue
      /\ \A i \in DOMAIN queue : queue'[i] = IF i = k THEN it ELSE queue[i]
  BY WriteItem DEF ItemsInv
<1>2. \A i \in DOMAIN queue : queue[i] \in Item
  BY LenProperties DEF ItemsInv
<1>3. \A i \in DOMAIN queue : queue'[i].enqueuedAt = queue[i].enqueuedAt
  BY <1>1
<1>4. InOrder'
  BY <1>1, <1>3 DEF ItemsInv, InOrder
<1>5. ASSUME NEW i \in DOMAIN queue, queue'[i].past = "none"
      PROVE  /\ i # k /\ queue'[i] = queue[i]
             /\ queue[i].st = "pending" /\ queue[i].nextRetryAt = 0 /\ gain(queue[i]) >= 0
             /\ \A j \in DOMAIN queue : i < j => gain(queue[i]) >= gain(queue[j])
  BY <1>1, <1>5 DEF ItemsInv, GainKept
<1>6. ASSUME NEW i \in DOMAIN queue, queue'[i].past = "none",
             NEW j \in DOMAIN queue, i < j
      PROVE  gain(queue'[i]) >= gain(queue'[j])
  <2>1. gain(queue[i]) >= gain(queue[j]) /\ gain(queue[i]) >= 0 /\ queue'[i] = queue[i]
    BY <1>5, <1>6
  <2>2. gain(queue[i]) \in Int /\ gain(queue[j]) \in Int /\ gain(it) \in Int
    BY <1>2, ItemFields
  <2>3. CASE j = k
    <3>1. queue'[j] = it
      BY <1>1, <2>3
    <3> QED
      BY <2>1, <2>2, <2>3, <3>1
  <2>4. CASE j # k
    <3>1. queue'[j] = queue[j]
      BY <1>1, <2>4
    <3> QED
      BY <2>1, <3>1
  <2> QED
    BY <2>3, <2>4
<1>7. GainKept'
  <2>1. GainKept' =
          \A i \in DOMAIN queue' :
            queue'[i].past = "none" =>
              /\ queue'[i].st = "pending" /\ queue'[i].nextRetryAt = 0
              /\ gain(queue'[i]) >= 0
              /\ \A j \in DOMAIN queue' : i < j => gain(queue'[i]) >= gain(queue'[j])
    BY DEF GainKept, gain
  <2> QED
    BY <2>1, <1>1, <1>5, <1>6
<1>8. AttemptsLeft'
  BY <1>1 DEF ItemsInv, AttemptsLeft
<1> QED
  BY <1>1, <1>4, <1>7, <1>8 DEF ItemsInv

(* Ageing the pending items keeps the order: an item gains at least what a *)
(* later one does.                                                         *)
LEMMA AgeingKeeps ==
  ASSUME ItemsInv, queue' = aged(queue), clock' = clock
  PROVE  /\ ItemsInv' /\ DOMAIN queue' = DOMAIN queue
         /\ \A i \in DOMAIN queue :
              /\ queue'[i].st = queue[i].st /\ queue'[i].past = queue[i].past
              /\ queue'[i].kind = queue[i].kind
              /\ queue'[i].nextRetryAt = queue[i].nextRetryAt
<1>1. DOMAIN queue = 1..Len(queue) /\ Len(queue) \in Nat
  BY LenProperties DEF ItemsInv
<1>2. \A i \in DOMAIN queue : queue[i] \in Item /\ queue[i].enqueuedAt <= clock
  BY LenProperties DEF ItemsInv, InOrder
<1>3. ASSUME NEW i \in DOMAIN queue PROVE ageBoost(queue[i]) \in Nat
  <2>1. queue[i].enqueuedAt \in Nat /\ queue[i].enqueuedAt <= clock /\ clock \in Nat
    BY <1>2, ItemFields DEF ItemsInv
  <2> QED
    BY <2>1, <1>2, BoostMonotone
<1>4. /\ DOMAIN queue' = DOMAIN queue
      /\ \A i \in DOMAIN queue : queue'[i] = agedItem(queue[i])
  BY DEF aged
<1>5. ASSUME NEW i \in DOMAIN queue
      PROVE  /\ queue'[i] \in Item
             /\ queue'[i].kind = queue[i].kind /\ queue'[i].st = queue[i].st
             /\ queue'[i].enqueuedAt = queue[i].enqueuedAt
             /\ queue'[i].nextRetryAt = queue[i].nextRetryAt
             /\ queue'[i].attempts = queue[i].attempts
             /\ queue'[i].past = queue[i].past
             /\ gain(queue'[i]) =
                  gain(queue[i]) + (IF queue[i].st = "pending" THEN ageBoost(queue[i]) ELSE 0)
  BY <1>2, <1>3, <1>4, AgedItem
<1>6. queue' \in Seq(Item)
  <2>1. queue' \in [1..Len(queue) -> Item]
    BY <1>1, <1>4, <1>5 DEF aged
  <2> QED
    BY <1>1, <2>1, FunctionIsSeq
<1>7. InOrder'
  BY <1>4, <1>5 DEF ItemsInv, InOrder
<1>8. ASSUME NEW i \in DOMAIN queue, queue'[i].past = "none"
      PROVE  /\ queue'[i].st = "pending" /\ queue'[i].nextRetryAt = 0
             /\ gain(queue'[i]) >= 0
             /\ \A j \in DOMAIN queue : i < j => gain(queue'[i]) >= gain(queue'[j])
  <2>1. /\ queue[i].st = "pending" /\ queue[i].nextRetryAt = 0 /\ gain(queue[i]) >= 0
        /\ \A j \in DOMAIN queue : i < j => gain(queue[i]) >= gain(queue[j])
    BY <1>5, <1>8 DEF ItemsInv, GainKept
  <2>2. gain(queue'[i]) = gain(queue[i]) + ageBoost(queue[i])
    BY <2>1, <1>5
  <2>3. gain(queue[i]) \in Int /\ ageBoost(queue[i]) \in Nat
    BY <1>2, <1>3, ItemFields
  <2>4. ASSUME NEW j \in DOMAIN queue, i < j PROVE gain(queue'[i]) >= gain(queue'[j])
    <3>1. queue[i].enqueuedAt <= queue[j].enqueuedAt /\ queue[j].enqueuedAt <= clock
      BY <2>4 DEF ItemsInv, InOrder
    <3>2. ageBoost(queue[i]) >= ageBoost(queue[j]) /\ ageBoost(queue[j]) \in Nat
      BY <3>1, <1>2, BoostMonotone DEF ItemsInv
    <3>3. gain(queue[j]) \in Int /\ gain(queue[i]) >= gain(queue[j])
      BY <1>2, ItemFields, <2>1, <2>4
    <3>4. gain(queue'[j]) = gain(queue[j]) + ageBoost(queue[j]) \/ gain(queue'[j]) = gain(queue[j])
      BY <1>5, <3>3
    <3> QED
      BY <2>2, <2>3, <3>2, <3>3, <3>4
  <2>5. queue'[i].st = "pending" /\ queue'[i].nextRetryAt = 0
    BY <1>5, <2>1
  <2> QED
    BY <2>1, <2>2, <2>3, <2>4, <2>5
<1>9. GainKept'
  <2>1. GainKept' =
          \A i \in DOMAIN queue' :
            queue'[i].past = "none" =>
              /\ queue'[i].st = "pending" /\ queue'[i].nextRetryAt = 0
              /\ gain(queue'[i]) >= 0
              /\ \A j \in DOMAIN queue' : i < j => gain(queue'[i]) >= gain(queue'[j])
    BY DEF GainKept, gain
  <2> QED
    BY <2>1, <1>4, <1>8
<1>10. AttemptsLeft'
  BY <1>4, <1>5 DEF ItemsInv, AttemptsLeft
<1>11. clock' \in Nat
  BY DEF ItemsInv
<1> QED
  BY <1>4, <1>5, <1>6, <1>7, <1>9, <1>10, <1>11 DEF ItemsInv

(* Between calls the loop has nothing to visit, so the items are all.      *)
LEMMA IdleStep ==
  ASSUME OrderInv, Idle, ItemsInv', UNCHANGED loopVars
  PROVE  OrderInv'
<1>1. /\ todo = {} /\ quota = 0 /\ refused = {}
      /\ todo' = {} /\ quota' = 0 /\ refused' = {}
  BY DEF OrderInv, LoopVisits, Idle, loopVars
<1>2. LoopVisits' /\ TypeOK'
  BY <1>1 DEF LoopVisits, ItemsInv, TypeOK
<1> QED
  BY <1>2 DEF OrderInv, ItemsInv

(* The empty queue is ordered: emptyState satisfies the invariant. *)
LEMMA InitOrdered == Init => OrderInv
BY DEF Init, OrderInv, TypeOK, InOrder, GainKept, AttemptsLeft, LoopVisits

(* Every step keeps the invariant; one step per action. *)
LEMMA NextOrdered == OrderInv /\ [Next]_vars => OrderInv'
<1> SUFFICES ASSUME OrderInv, [Next]_vars PROVE OrderInv'
  OBVIOUS
<1>1. ItemsInv /\ TypeOK /\ LoopVisits
  BY DEF OrderInv, ItemsInv, TypeOK
<1>2. DOMAIN queue = 1..Len(queue) /\ Len(queue) \in Nat /\ \A i \in DOMAIN queue : queue[i] \in Item
  BY <1>1, LenProperties DEF ItemsInv
<1>3. \A i \in DOMAIN queue : queue[i].st # "pending" => queue[i].past # "none"
  BY <1>1 DEF ItemsInv, GainKept
<1>4. ASSUME NEW kind \in Kinds, NEW p \in Priorities, Enqueue(kind, p) PROVE OrderInv'
  <2> DEFINE it == [kind |-> kind, st |-> "pending", priority |-> p,
                    enqueuedAt |-> clock, nextRetryAt |-> 0, attempts |-> 0,
                    asked |-> p, past |-> "none"]
             n == Len(queue) + 1
  <2>1. clock \in Nat /\ p \in Int
    BY <1>1, OrderAssumption DEF ItemsInv
  <2>2. it \in Item /\ gain(it) = 0 /\ it.past = "none" /\ it.st = "pending"
        /\ it.enqueuedAt = clock /\ it.nextRetryAt = 0 /\ it.attempts = 0
    BY <2>1, OrderAssumption DEF Item, gain
  <2>3. queue' = Append(queue, it) /\ clock' = clock
    BY <1>4 DEF Enqueue
  <2> HIDE DEF it
  <2>4. /\ queue' \in Seq(Item) /\ DOMAIN queue' = DOMAIN queue \cup {n} /\ n \notin DOMAIN queue
        /\ queue'[n] = it /\ \A i \in DOMAIN queue : queue'[i] = queue[i] /\ i < n
    <3>1. queue' \in Seq(Item) /\ Len(queue') = n
      BY <2>2, <2>3, AppendProperties, <1>1 DEF ItemsInv
    <3>2. DOMAIN queue' = 1..n
      BY <3>1, LenProperties
    <3>3. \A i \in 1..Len(queue) : queue'[i] = queue[i]
      BY <2>2, <2>3, AppendProperties, <1>1 DEF ItemsInv
    <3>4. queue'[n] = it
      BY <2>2, <2>3, AppendProperties, <1>1 DEF ItemsInv
    <3> QED
      BY <3>1, <3>2, <3>3, <3>4, <1>2
  <2>5. InOrder'
    <3>1. \A i \in DOMAIN queue : queue'[i].enqueuedAt <= clock
      BY <2>4, <1>1 DEF ItemsInv, InOrder
    <3>2. ASSUME NEW i \in DOMAIN queue', NEW j \in DOMAIN queue', i < j
          PROVE  queue'[i].enqueuedAt <= queue'[j].enqueuedAt
      <4>1. i \in DOMAIN queue
        BY <2>4, <3>2, <1>2
      <4>2. CASE j = n
        BY <4>1, <4>2, <3>1, <2>2, <2>4
      <4>3. CASE j \in DOMAIN queue
        BY <4>1, <4>3, <3>2, <2>4, <1>1 DEF ItemsInv, InOrder
      <4> QED
        BY <4>2, <4>3, <2>4
    <3>3. \A i \in DOMAIN queue' : queue'[i].enqueuedAt <= clock'
      BY <3>1, <2>1, <2>2, <2>3, <2>4
    <3> QED
      BY <3>2, <3>3 DEF InOrder
  <2>6. GainKept'
    <3>1. GainKept' =
            \A i \in DOMAIN queue' :
              queue'[i].past = "none" =>
                /\ queue'[i].st = "pending" /\ queue'[i].nextRetryAt = 0
                /\ gain(queue'[i]) >= 0
                /\ \A j \in DOMAIN queue' : i < j => gain(queue'[i]) >= gain(queue'[j])
      BY DEF GainKept, gain
    <3>2. ASSUME NEW i \in DOMAIN queue, queue'[i].past = "none"
          PROVE  /\ queue'[i].st = "pending" /\ queue'[i].nextRetryAt = 0
                 /\ gain(queue'[i]) >= 0
                 /\ \A j \in DOMAIN queue' : i < j => gain(queue'[i]) >= gain(queue'[j])
      <4>1. /\ queue[i].st = "pending" /\ queue[i].nextRetryAt = 0 /\ gain(queue[i]) >= 0
            /\ \A j \in DOMAIN queue : i < j => gain(queue[i]) >= gain(queue[j])
        BY <3>2, <2>4, <1>1 DEF ItemsInv, GainKept
      <4> QED
        BY <4>1, <2>2, <2>4
    <3>3. \A j \in DOMAIN queue' : ~(n < j)
      BY <2>4, <1>2
    <3>4. gain(queue'[n]) >= 0
      BY <2>2, <2>4
    <3> QED
      BY <3>1, <3>2, <3>3, <3>4, <2>2, <2>4
  <2>7. AttemptsLeft'
    BY <2>2, <2>4, <1>1, OrderAssumption DEF ItemsInv, AttemptsLeft
  <2> QED
    BY <2>1, <2>3, <2>4, <2>5, <2>6, <2>7, <1>4, IdleStep DEF ItemsInv, Enqueue
<1>5. ASSUME NEW i \in DOMAIN queue, NEW p \in Priorities, Raise(i, p) PROVE OrderInv'
  <2>1. queue[i] \in Item /\ queue[i].attempts < MaxAttempts /\ clock \in Nat
    BY <1>1, <1>2, <1>5 DEF Raise, ItemsInv, AttemptsLeft
  <2> DEFINE it == raisedItem(queue[i], p)
  <2>2. /\ it \in Item /\ it.st = queue[i].st /\ it.attempts = queue[i].attempts
        /\ it.past # "none" /\ it.enqueuedAt = queue[i].enqueuedAt /\ gain(it) = 0
    BY <2>1, ItemChanges
  <2>3. queue' = [queue EXCEPT ![i] = it] /\ clock' = clock /\ queue[i].st = "pending"
    BY <1>5 DEF Raise
  <2> HIDE DEF it
  <2>4. ItemsInv'
    BY <1>1, <2>1, <2>2, <2>3, WriteKeeps
  <2> QED
    BY <2>4, <1>5, IdleStep DEF Raise
<1>6. ASSUME NEW i \in DOMAIN queue, Complete(i) PROVE OrderInv'
  <2>1. queue[i] \in Item /\ queue[i].past # "none" /\ clock \in Nat
    BY <1>1, <1>2, <1>3, <1>6 DEF Complete, ItemsInv
  <2> DEFINE it == doneItem(queue[i])
  <2>2. /\ it \in Item /\ it.st = "done" /\ it.past # "none"
        /\ it.enqueuedAt = queue[i].enqueuedAt /\ gain(it) = gain(queue[i])
    BY <2>1, ItemChanges
  <2>3. queue' = [queue EXCEPT ![i] = it] /\ clock' = clock
    BY <1>6 DEF Complete
  <2> HIDE DEF it
  <2>5. /\ gain(it) <= gain(queue[i]) \/ gain(it) = 0
        /\ it.st = "pending" => it.attempts < MaxAttempts
        /\ it.st # "claimed"
    <3>1. gain(queue[i]) \in Int
      BY <2>1, ItemFields
    <3> QED
      BY <3>1, <2>2, <2>3
  <2>4. ItemsInv'
    BY <1>1, <2>2, <2>3, <2>5, WriteKeeps
  <2> QED
    BY <2>4, <1>6, IdleStep DEF Complete
<1>7. ASSUME NEW i \in DOMAIN queue, Fail(i) PROVE OrderInv'
  <2>1. queue[i] \in Item /\ queue[i].past # "none" /\ queue[i].attempts > 0 /\ clock \in Nat
    BY <1>1, <1>2, <1>3, <1>7 DEF Fail, ItemsInv, AttemptsLeft
  <2> DEFINE it == failedItem(queue[i])
  <2>2. /\ it \in Item /\ it.st # "claimed" /\ it.past # "none"
        /\ it.st = "pending" => it.attempts < MaxAttempts
        /\ it.enqueuedAt = queue[i].enqueuedAt /\ gain(it) = gain(queue[i])
    BY <2>1, ItemChanges
  <2>3. queue' = [queue EXCEPT ![i] = it] /\ clock' = clock
    BY <1>7 DEF Fail
  <2> HIDE DEF it
  <2>5. /\ gain(it) <= gain(queue[i]) \/ gain(it) = 0
        /\ it.st = "pending" => it.attempts < MaxAttempts
        /\ it.st # "claimed"
    <3>1. gain(queue[i]) \in Int
      BY <2>1, ItemFields
    <3> QED
      BY <3>1, <2>2, <2>3
  <2>4. ItemsInv'
    BY <1>1, <2>2, <2>3, <2>5, WriteKeeps
  <2> QED
    BY <2>4, <1>7, IdleStep DEF Fail
<1>8. ASSUME NEW i \in DOMAIN queue, RequeueDead(i) PROVE OrderInv'
  <2>1. queue[i] \in Item /\ queue[i].past # "none" /\ clock \in Nat
    BY <1>1, <1>2, <1>3, <1>8 DEF RequeueDead, ItemsInv
  <2> DEFINE it == revivedItem(queue[i])
  <2>2. /\ it \in Item /\ it.st = "pending" /\ it.attempts = 0 /\ it.past # "none"
        /\ it.enqueuedAt = queue[i].enqueuedAt /\ gain(it) = gain(queue[i])
    BY <2>1, ItemChanges
  <2>3. queue' = [queue EXCEPT ![i] = it] /\ clock' = clock /\ 0 < MaxAttempts
    BY <1>8, OrderAssumption DEF RequeueDead
  <2> HIDE DEF it
  <2>5. /\ gain(it) <= gain(queue[i]) \/ gain(it) = 0
        /\ it.st = "pending" => it.attempts < MaxAttempts
        /\ it.st # "claimed"
    <3>1. gain(queue[i]) \in Int
      BY <2>1, ItemFields
    <3> QED
      BY <3>1, <2>2, <2>3
  <2>4. ItemsInv'
    BY <1>1, <2>2, <2>3, <2>5, WriteKeeps
  <2> QED
    BY <2>4, <1>8, IdleStep DEF RequeueDead
<1>9. CASE AgeQueue
  BY <1>1, <1>9, AgeingKeeps, IdleStep DEF AgeQueue
<1>10. ASSUME NEW limit \in Limits, NEW age \in BOOLEAN, startClaim(limit, age) PROVE OrderInv'
  <2>1. limit \in Nat /\ limit > 0
    BY OrderAssumption
  <2>2. /\ ItemsInv' /\ DOMAIN queue' = DOMAIN queue
        /\ \A i \in DOMAIN queue : queue'[i].st = queue[i].st /\ queue'[i].past = queue[i].past
    <3>1. CASE age
      BY <1>1, <1>10, <3>1, AgeingKeeps DEF startClaim
    <3>2. CASE ~age
      <4>1. queue' = queue /\ clock' = clock
        BY <1>10, <3>2 DEF startClaim
      <4> QED
        BY <4>1, <1>1 DEF ItemsInv, InOrder, GainKept, AttemptsLeft
    <3> QED
      BY <3>1, <3>2
  <2>3. todo' = claimable(queue) /\ quota' = limit /\ refused' = refused
    BY <1>10 DEF startClaim
  <2>4. TypeOK'
    BY <1>1, <2>1, <2>2, <2>3 DEF ItemsInv, TypeOK, claimable
  <2>5. \A i \in todo' : queue'[i].st = "pending"
    BY <2>2, <2>3 DEF claimable
  <2>6. claimable(queue)' = todo'
    <3>1. clock' = clock /\ \A i \in DOMAIN queue : queue'[i].nextRetryAt = queue[i].nextRetryAt
      <4>1. CASE age
        BY <1>1, <1>10, <4>1, AgeingKeeps DEF startClaim
      <4>2. CASE ~age
        BY <1>10, <4>2 DEF startClaim
      <4> QED
        BY <4>1, <4>2
    <3> QED
      BY <2>2, <2>3, <3>1 DEF claimable
  <2>7. LoopVisits'
    BY <2>1, <2>3, <2>5, <2>6 DEF LoopVisits
  <2> QED
    BY <2>2, <2>4, <2>7 DEF OrderInv, ItemsInv
<1>11. CASE claimNext
  <2>1. PICK i \in todo : serve(i) \/ passOver(i)
    BY <1>11 DEF claimNext
  <2>2. i \in DOMAIN queue /\ queue[i].st = "pending" /\ quota > 0 /\ quota \in Nat /\ clock' = clock
    BY <1>1, <1>11 DEF claimNext, TypeOK, LoopVisits
  <2>3. CASE serve(i)
    <3> DEFINE it == claimedItem(queue[i])
    <3>1. queue[i] \in Item /\ queue[i].attempts < MaxAttempts /\ clock \in Nat
      BY <2>2, <1>1, <1>2 DEF ItemsInv, AttemptsLeft
    <3>2. /\ it \in Item /\ it.st = "claimed" /\ it.attempts > 0 /\ it.past # "none"
          /\ it.enqueuedAt = queue[i].enqueuedAt /\ it.kind = queue[i].kind
          /\ gain(it) = gain(queue[i])
      BY <3>1, ItemChanges
    <3>3. /\ queue' = [queue EXCEPT ![i] = it] /\ quota' = quota - 1
          /\ todo' = IF quota = 1 THEN {} ELSE todo \ {i}
          /\ refused' = IF quota = 1 THEN {} ELSE refused
      BY <2>3 DEF serve
    <3> HIDE DEF it
    <3>4. gain(it) <= gain(queue[i]) \/ gain(it) = 0
      <4>1. gain(queue[i]) \in Int
        BY <3>1, ItemFields
      <4> QED
        BY <4>1, <3>2
    <3>5. ItemsInv'
      BY <1>1, <2>2, <3>2, <3>3, <3>4, WriteKeeps
    <3>6. /\ DOMAIN queue' = DOMAIN queue
          /\ \A j \in DOMAIN queue : queue'[j] = IF j = i THEN it ELSE queue[j]
      BY <1>1, <2>2, <3>2, <3>3, WriteItem DEF ItemsInv
    <3>7. /\ todo' \subseteq todo \ {i} /\ refused' \subseteq refused /\ quota' \in Nat
          /\ quota' = 0 => todo' = {} /\ refused' = {}
          /\ quota' > 0 => todo' = todo \ {i} /\ refused' = refused
      BY <2>2, <3>3
    <3>8. TypeOK'
      BY <3>5, <3>6, <3>7, <1>1 DEF TypeOK, ItemsInv
    <3>9. \A j \in todo' : queue'[j].st = "pending"
      BY <3>6, <3>7, <1>1 DEF LoopVisits, TypeOK
    <3>10. ASSUME quota' > 0, NEW j \in claimable(queue)'
           PROVE  j \in todo' \/ queue'[j].kind \in refused'
      <4>1. j \in claimable(queue) /\ j # i /\ queue'[j] = queue[j]
        BY <2>2, <3>2, <3>6, <3>10 DEF claimable
      <4>2. j \in todo \/ queue[j].kind \in refused
        BY <4>1, <3>10, <1>1, <2>2 DEF LoopVisits
      <4> QED
        BY <4>1, <4>2, <3>7, <3>10
    <3>11. LoopVisits'
      BY <3>7, <3>9, <3>10 DEF LoopVisits
    <3> QED
      BY <3>5, <3>8, <3>11 DEF OrderInv, ItemsInv
  <2>4. CASE passOver(i)
    <3>1. /\ queue' = queue /\ quota' = quota /\ todo' = todo \ {i}
          /\ refused' = refused \cup {queue[i].kind} /\ queue[i].kind \in Kinds
      BY <2>2, <2>4, <1>2, ItemFields DEF passOver
    <3>2. ItemsInv' /\ TypeOK'
      BY <1>1, <2>2, <3>1 DEF ItemsInv, InOrder, GainKept, AttemptsLeft, TypeOK
    <3>4. \A j \in claimable(queue)' : j \in todo' \/ queue'[j].kind \in refused'
      <4>1. claimable(queue)' = claimable(queue)
        BY <2>2, <3>1 DEF claimable
      <4> QED
        BY <4>1, <1>1, <2>2, <3>1 DEF LoopVisits
    <3>5. LoopVisits'
      BY <1>1, <2>2, <3>1, <3>4 DEF LoopVisits
    <3> QED
      BY <3>2, <3>5 DEF OrderInv, ItemsInv
  <2> QED
    BY <2>1, <2>3, <2>4
<1>12. CASE claimDone
  <2>1. queue' = queue /\ clock' = clock /\ todo' = {} /\ quota' = 0 /\ refused' = {}
    BY <1>12 DEF claimDone
  <2>2. ItemsInv' /\ TypeOK' /\ LoopVisits'
    BY <1>1, <2>1 DEF ItemsInv, InOrder, GainKept, AttemptsLeft, TypeOK, LoopVisits
  <2> QED
    BY <2>2 DEF OrderInv, ItemsInv
<1>13. CASE Tick
  <2>1. queue' = queue /\ clock' = clock + 1 /\ clock \in Nat
    BY <1>1, <1>13 DEF Tick, ItemsInv
  <2>2. InOrder'
    <3>1. \A i \in DOMAIN queue : queue[i].enqueuedAt \in Nat /\ queue[i].enqueuedAt <= clock
      BY <1>1, <1>2, ItemFields DEF ItemsInv, InOrder
    <3>2. \A i \in DOMAIN queue : queue[i].enqueuedAt <= clock + 1
      BY <2>1, <3>1
    <3> QED
      BY <2>1, <3>2, <1>1 DEF ItemsInv, InOrder
  <2>3. ItemsInv'
    BY <2>1, <2>2, <1>1 DEF ItemsInv, GainKept, AttemptsLeft
  <2> QED
    BY <2>3, <1>13, IdleStep DEF Tick
<1>14. CASE UNCHANGED vars
  <2>1. /\ queue' = queue /\ clock' = clock /\ todo' = todo /\ quota' = quota
        /\ refused' = refused
    BY <1>14 DEF vars, loopVars
  <2>2. TypeOK' /\ ItemsInv'
    BY <1>1, <2>1 DEF TypeOK, ItemsInv, InOrder, GainKept, AttemptsLeft
  <2>3. claimable(queue)' = claimable(queue)
    BY <2>1 DEF claimable
  <2>4. LoopVisits'
    BY <1>1, <2>1, <2>3 DEF LoopVisits
  <2> QED
    BY <2>2, <2>4 DEF OrderInv, ItemsInv
<1> QED
  BY <1>4, <1>5, <1>6, <1>7, <1>8, <1>9, <1>10, <1>11, <1>12, <1>13, <1>14 DEF Next

----------------------------------------------------------------------------
(* The invariant holds of every behaviour. *)
THEOREM OrderInvHolds == Spec => []OrderInv
BY InitOrdered, NextOrdered, PTL DEF Spec

(* The types of the items, the clock and the claim loop. *)
THEOREM OrderTypeCorrect == Spec => []TypeOK
<1>1. OrderInv => TypeOK
  BY DEF OrderInv
<1> QED
  BY <1>1, OrderInvHolds, PTL

(* The step that claims a later item while an earlier one of its kind,     *)
(* never claimed nor raised, stays pending.                                *)
Overtakes(i, j) ==
  /\ i < j /\ queue[i].kind = queue[j].kind
  /\ queue[j].st = "pending" /\ queue'[j].st = "claimed"
  /\ queue[i].st = "pending" /\ queue[i].past = "none"

(* Only the claim loop claims, and what it claims comes first of all it    *)
(* has still to visit.                                                     *)
LEMMA ClaimedIsFirst ==
  ASSUME OrderInv, Next, NEW i \in DOMAIN queue, NEW j \in DOMAIN queue, Overtakes(i, j)
  PROVE  i \in todo /\ ahead(j, i)
<1>1. ItemsInv /\ TypeOK /\ LoopVisits
  BY DEF OrderInv, ItemsInv, TypeOK
<1>2. \A k \in DOMAIN queue : queue[k] \in Item
  BY <1>1, LenProperties DEF ItemsInv
<1>3. /\ queue[j].st = "pending" /\ queue'[j].st = "claimed" /\ queue'[j] # queue[j]
      /\ queue[i].past = "none" /\ queue[i].kind = queue[j].kind /\ i # j
  BY <1>1, LenProperties DEF Overtakes, ItemsInv
<1>4. ASSUME NEW k \in DOMAIN queue, NEW it, queue' = [queue EXCEPT ![k] = it], it.st # "claimed"
      PROVE  FALSE
  BY <1>3, <1>4
<1>5. ASSUME NEW kind \in Kinds, NEW p \in Priorities, Enqueue(kind, p) PROVE FALSE
  <2>1. PICK it \in Item : queue' = Append(queue, it)
    <3>1. clock \in Nat /\ p \in Int /\ 0 \in 0..MaxAttempts
      BY <1>1, OrderAssumption DEF ItemsInv
    <3> QED
      BY <3>1, <1>5 DEF Enqueue, Item
  <2>2. queue'[j] = queue[j]
    BY <2>1, <1>1, AppendProperties, LenProperties DEF ItemsInv
  <2> QED
    BY <2>2, <1>3
<1>7. ASSUME NEW k \in DOMAIN queue, NEW p \in Priorities, Raise(k, p) PROVE FALSE
  <2>1. raisedItem(queue[k], p).st = "pending"
    BY <1>1, <1>2, <1>7, ItemChanges DEF Raise, ItemsInv
  <2> QED
    BY <2>1, <1>4, <1>7 DEF Raise
<1>8. ASSUME NEW k \in DOMAIN queue, Complete(k) PROVE FALSE
  <2>1. doneItem(queue[k]).st = "done"
    BY <1>1, <1>2, ItemChanges DEF ItemsInv
  <2> QED
    BY <2>1, <1>4, <1>8 DEF Complete
<1>9. ASSUME NEW k \in DOMAIN queue, Fail(k) PROVE FALSE
  <2>1. failedItem(queue[k]).st # "claimed"
    BY <1>1, <1>2, <1>9, ItemChanges DEF Fail, ItemsInv, AttemptsLeft
  <2> QED
    BY <2>1, <1>4, <1>9 DEF Fail
<1>10. ASSUME NEW k \in DOMAIN queue, RequeueDead(k) PROVE FALSE
  <2>1. revivedItem(queue[k]).st = "pending"
    BY <1>1, <1>2, ItemChanges DEF ItemsInv
  <2> QED
    BY <2>1, <1>4, <1>10 DEF RequeueDead
<1>11. ASSUME AgeQueue PROVE FALSE
  BY <1>1, <1>3, <1>11, AgeingKeeps DEF AgeQueue
<1>12. ASSUME NEW limit \in Limits, NEW age \in BOOLEAN, startClaim(limit, age) PROVE FALSE
  <2>1. CASE age
    BY <1>1, <1>3, <1>12, <2>1, AgeingKeeps DEF startClaim
  <2>2. CASE ~age
    BY <1>3, <1>12, <2>2 DEF startClaim
  <2> QED
    BY <2>1, <2>2
<1>13. ASSUME claimDone \/ Tick PROVE FALSE
  BY <1>3, <1>13 DEF claimDone, Tick
<1>14. claimNext
  BY <1>5, <1>7, <1>8, <1>9, <1>10, <1>11, <1>12, <1>13 DEF Next
<1>15. PICK k \in todo : isFirst(k, todo) /\ (serve(k) \/ passOver(k))
  BY <1>14 DEF claimNext
<1>16. serve(k)
  BY <1>3, <1>15 DEF passOver
<1>17. k = j
  BY <1>3, <1>16 DEF serve
<1>18. quota > 0 /\ queue[j].kind \notin refused
  BY <1>14, <1>16, <1>17 DEF claimNext, serve, mayGetWorker
<1>19. i \in todo
  <2>1. i \in claimable(queue)
    BY <1>1, <1>3 DEF ItemsInv, GainKept, claimable
  <2> QED
    BY <2>1, <1>1, <1>3, <1>18 DEF LoopVisits
<1> QED
  BY <1>3, <1>15, <1>17, <1>19 DEF isFirst

(* For all kinds, workers, priorities, boosts and queue lengths: an item   *)
(* never claimed nor raised is overtaken only by a priority lead larger    *)
(* than its extra wait is worth.                                           *)
THEOREM ServedInOrder == Spec => OvertakenOnlyByLead
<1>1. ASSUME OrderInv, Next, NEW i \in DOMAIN queue, NEW j \in DOMAIN queue, Overtakes(i, j)
      PROVE  queue[j].asked - queue[i].asked > ageBoost(queue[i]) - ageBoost(queue[j])
  <2>1. ItemsInv
    BY <1>1 DEF OrderInv, ItemsInv, TypeOK
  <2>2. queue[i] \in Item /\ queue[j] \in Item /\ clock \in Nat
    BY <2>1, LenProperties DEF ItemsInv
  <2>3. i < j /\ i \in Int /\ j \in Int
    BY <1>1, <2>1, LenProperties DEF Overtakes, ItemsInv
  <2>4. ageBoost(queue[i]) \in Nat /\ ageBoost(queue[j]) \in Nat
    BY <2>1, <2>2, <2>3, BoostMonotone DEF ItemsInv, InOrder
  <2>5. gain(queue[i]) >= gain(queue[j])
    BY <1>1, <2>1, <2>3 DEF ItemsInv, GainKept, Overtakes
  <2>6. ahead(j, i)
    BY <1>1, ClaimedIsFirst
  <2>7. queue[j].priority + ageBoost(queue[j]) > queue[i].priority + ageBoost(queue[i])
    BY <2>3, <2>6 DEF ahead, effectivePriority
  <2>8. /\ queue[i].priority \in Int /\ queue[j].priority \in Int
        /\ queue[i].asked \in Int /\ queue[j].asked \in Int
    BY <2>2, ItemFields
  <2> QED
    BY <2>4, <2>5, <2>7, <2>8 DEF gain
<1> DEFINE Lead ==
      \A i, j \in DOMAIN queue :
        (/\ i < j /\ queue[i].kind = queue[j].kind
         /\ queue[j].st = "pending" /\ queue'[j].st = "claimed"
         /\ queue[i].st = "pending" /\ queue[i].past = "none")
          => queue[j].asked - queue[i].asked > ageBoost(queue[i]) - ageBoost(queue[j])
<1>2. OrderInv /\ [Next]_vars => [Lead]_vars
  BY <1>1 DEF Overtakes
<1>3. OvertakenOnlyByLead <=> [][Lead]_vars
  BY DEF OvertakenOnlyByLead
<1> HIDE DEF Lead
<1>4. Spec => [][Lead]_vars
  BY <1>2, OrderInvHolds, PTL DEF Spec
<1> QED
  BY <1>3, <1>4

(* For all kinds, workers, limits and queue lengths: a claim call that     *)
(* ends below its limit leaves no claimable item but of kinds that no      *)
(* worker was found for.                                                   *)
THEOREM NoHeadOfLineBlocking == Spec => WorkConserving
<1> DEFINE Served == claimDone => \A i \in claimable(queue) : queue[i].kind \in refused
<1>1. OrderInv /\ [Next]_vars => [Served]_vars
  BY DEF OrderInv, LoopVisits, claimDone
<1>2. WorkConserving <=> [][Served]_vars
  BY DEF WorkConserving
<1> HIDE DEF Served
<1>3. Spec => [][Served]_vars
  BY <1>1, OrderInvHolds, PTL DEF Spec
<1> QED
  BY <1>2, <1>3
=============================================================================
