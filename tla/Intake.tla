------------------------------- MODULE Intake -------------------------------
(***************************************************************************)
(* How work enters and how results leave: webhooks with their dedupe and   *)
(* rate limit, forge events, native submissions, Task YAML in git, the     *)
(* admission of each under the budget, and the delivery of every outcome   *)
(* to the native record, the manifest, the journal and the outbound log.   *)
(*                                                                         *)
(* Sources: webhook.ts, ratelimit.ts, budget.ts, admission.ts, tasks.ts,   *)
(* connectors.ts, deliver.ts, journal.ts, github.ts of src/src, with the   *)
(* queue of queue.ts and the drain of scheduler.ts as far as an item's     *)
(* admission and outcome are concerned.  Workers, priorities, backoff and  *)
(* runs that a reclaim overtakes are those of WorkQueue and QueueOrder;    *)
(* every lookup of an item is by its id, first match.                      *)
(***************************************************************************)
EXTENDS Integers, Sequences, SequencesExt, FiniteSets, FiniteSetsExt, Functions

CONSTANTS
  Deliveries,      \* x-github-delivery ids
  Agents,
  NativeIds,       \* ids of tasks submitted to the native inbox
  GitIds,          \* names of Task manifests
  AgentOf,         \* the agent a submission or a manifest names
  AgentOrder,      \* the agents in the order of their definitions
  ScanOrder,       \* the manifests in the order of their file names
  Modes,           \* delivery modes a submission may ask for
  Refused,         \* agents a policy refuses: sandbox or denied tool
  Prices,          \* what a reconcile may set: units of a task by agent, from its
                   \* harness profile, and maxUnits of the policies with a budget
  BudgetWindow, RateWindow,  \* in ticks
  RateLimit,       \* events of a repo per window
  SeenMax,         \* deliveries remembered
  MaxAttempts,
  Delivers,        \* agents whose runs comment on the forge
  MaxItems, MaxForgotten, MaxChanges   \* bounds: items, evictions, changes

ASSUME IntakeAssumption ==
  /\ AgentOf \in [NativeIds \cup GitIds -> Agents]
  /\ Prices \subseteq [cost : [Agents -> Nat \ {0}], budgets : SUBSET (Nat \ {0})]
  /\ \A p \in Prices : IsFiniteSet(p.budgets)
  /\ {BudgetWindow, RateWindow, RateLimit, SeenMax, MaxAttempts, MaxItems} \subseteq Nat \ {0}
  /\ {MaxForgotten, MaxChanges} \subseteq Nat /\ Modes \subseteq {"ui", "git", "webhook", "github"}
  /\ ScanOrder \in Seq(GitIds) /\ ToSet(ScanOrder) = GitIds
  /\ AgentOrder \in Seq(Agents) /\ ToSet(AgentOrder) = Agents /\ IsInjective(AgentOrder)

VARIABLES
  queue,       \* the items, oldest first
  ledger,      \* the budget window: its age and the units charged in it
  bucket,      \* the rate window of the repo: its age and its count
  seen,        \* the deliveries remembered, oldest first
  listening,   \* the agents whose definition matches the event
  prices,      \* the estimates and the budgets in force
  native,      \* status and mode of the records of the inbox
  manifest,    \* the status in each Task file, none if it is missing or unreadable
  connectors,  \* the kinds enabled
  journal,     \* deliveries recorded: the id, what it says and to whom
  changes,     \* operator commands, events without an id and failures so far
  \* history
  passed,      \* events that passed the rate limit, by age in ticks
  forgotten,   \* evictions of a delivery from the memory
  succeeded,   \* ids of tasks of which a run succeeded
  crowded,     \* units charged in the window by tasks not admitted alone, or
               \* before the estimates or the budgets changed
  forced       \* manifests enqueued by command rather than by a sync

ingress == <<bucket, seen, listening, prices, passed, forgotten>>
records == <<native, manifest, connectors, journal, succeeded>>
vars == <<queue, ledger, crowded, forced, changes, ingress, records>>

eventId == <<"event">>
deliveryTask(d, a) == <<"webhook", d, a>>
nativeTask(n) == <<"native", n>>
gitTask(g) == <<"git", g>>
hasManifest(id) == id[1] = "git"
(* The code has one space of ids, in which a submission may choose its     *)
(* own: assumed here is that ids of different origin never collide.        *)
Ids == {eventId} \cup {deliveryTask(d, a) : d \in Deliveries, a \in Agents}
         \cup {nativeTask(n) : n \in NativeIds} \cup {gitTask(g) : g \in GitIds}

QueuedTask == [id : Ids, agent : Agents, mode : {"ui", "git", "webhook", "github"},
               status : {"pending", "claimed", "done", "failed", "dead"},
               attempts : 0..MaxAttempts, run : BOOLEAN, alone : BOOLEAN]

TypeOK ==
  /\ queue \in Seq(QueuedTask)
  /\ ledger \in [age : 0..BudgetWindow, units : Nat] /\ crowded \in Nat
  /\ bucket \in [age : 0..RateWindow, count : 0..RateLimit]
  /\ passed \in [0..(RateWindow - 1) -> Nat]
  /\ seen \in Seq(Deliveries) /\ Len(seen) <= SeenMax
  /\ listening \subseteq Agents /\ prices \in Prices
  /\ native \in [NativeIds -> [status : {"none", "pending", "running", "done", "failed"},
                               mode : {"ui", "git", "webhook", "github"}]]
  /\ manifest \in [GitIds -> {"none", "pending", "done", "failed"}]
  /\ connectors \subseteq {"ui", "git", "webhook", "github"}
  /\ journal \subseteq Ids \X {"result", "error"} \X {"webhook", "github"}
  /\ changes \in 0..MaxChanges
  /\ forgotten \in [Deliveries -> Nat] /\ forced \in [GitIds -> Nat]
  /\ succeeded \subseteq Ids

----------------------------------------------------------------------------
(* The budget.  A ledger that was never written is one whose window is     *)
(* over.  The tightest of several policies counts.  A task is estimated    *)
(* anew when it is charged, with the profile and the policies of then; the *)
(* policies differ in their units only, not in window or scope.            *)

UnitCost == prices.cost
BudgetPolicies == prices.budgets

limited == BudgetPolicies # {}
activeBudgetPolicy == Min(BudgetPolicies)

rollWindow(l) == IF l.age >= BudgetWindow THEN [age |-> 0, units |-> 0] ELSE l

budgetStatus(s) ==
  IF limited THEN [s EXCEPT !.ledger = rollWindow(@),
                            !.crowded = IF s.ledger.age >= BudgetWindow THEN 0 ELSE @]
  ELSE s

estimateTaskUnits(a) == UnitCost[a]

(* Admission that only asks whether anything is left.                      *)
admitWhatIsLeft(s, a) == limited => s.ledger.units < activeBudgetPolicy

admitBudget(s, a) ==
  limited => s.ledger.units + estimateTaskUnits(a) <= activeBudgetPolicy

admitTask(s, a) == admitBudget(s, a) /\ a \notin Refused

charged(item) == [item EXCEPT !.alone = FALSE]

chargeBudget(s, i) ==
  LET rolled == budgetStatus(s)
      units == estimateTaskUnits(s.queue[i].agent)
  IN  IF ~limited THEN s
      ELSE [queue |-> [s.queue EXCEPT ![i] = charged(@)],
            ledger |-> [age |-> rolled.ledger.age, units |-> rolled.ledger.units + units],
            crowded |-> IF s.queue[i].alone THEN rolled.crowded ELSE rolled.crowded + units]

----------------------------------------------------------------------------
(* The queue.  An item is open while it may still be charged.              *)

isOpen(item) == item.status \in {"pending", "claimed"} \/ item.run

withId(q, id, sts) == {i \in DOMAIN q : q[i].id = id /\ q[i].status \in sts}
anyStatus == {"pending", "claimed", "done", "failed", "dead"}

submitted(id, a, mode, admitted, alone) ==
  [id |-> id, agent |-> a, mode |-> mode,
   status |-> IF admitted THEN "pending" ELSE "failed",
   attempts |-> 0, run |-> FALSE, alone |-> admitted /\ alone]

enqueueTask(s, id, a, mode) ==
  LET now == budgetStatus(s)
      alone == ~\E i \in DOMAIN s.queue : isOpen(s.queue[i])
  IN  IF withId(s.queue, id, {"pending"}) # {} THEN s
      ELSE [now EXCEPT !.queue = Append(@, submitted(id, a, mode, admitTask(now, a), alone))]

state == [queue |-> queue, ledger |-> ledger, crowded |-> crowded]

Becomes(s) == queue' = s.queue /\ ledger' = s.ledger /\ crowded' = s.crowded

firstOf(q, id) == Min(withId(q, id, anyStatus))

settled(item, ok) ==
  LET retry == item.attempts > 0 /\ item.attempts < MaxAttempts
  IN  [item EXCEPT !.status = IF ok THEN "done" ELSE IF retry THEN "pending" ELSE "dead",
                   !.alone = @ /\ (ok \/ retry)]

(* An outcome goes to the first item of that id, whatever its status.      *)
completeQueued(s, id, ok) ==
  LET i == firstOf(s.queue, id)
      after == [s.queue EXCEPT ![i] = settled(@, ok)]
      ended == [s EXCEPT !.queue = after]
  IN  IF ok THEN chargeBudget(ended, i) ELSE ended

Change == changes < MaxChanges /\ changes' = changes + 1

claimed(item) == [item EXCEPT !.status = "claimed", !.attempts = @ + 1, !.run = TRUE]

Claim(i) ==
  /\ queue[i].status = "pending" /\ queue[i].attempts < MaxAttempts
  /\ queue' = [queue EXCEPT ![i] = claimed(@)]
  /\ UNCHANGED <<changes, ledger, crowded, forced, ingress, records>>

(* Oldest first; an expired claim fails whichever item its id finds.       *)
reclaimed(expired) ==
  LET after[k \in 0..Len(queue)] ==
        IF k = 0 THEN state
        ELSE IF k \in expired THEN completeQueued(after[k - 1], queue[k].id, FALSE)
        ELSE after[k - 1]
  IN  after[Len(queue)]

(* Claims that an abandoned drain or a completion of another item of the   *)
(* same id left behind run out.                                            *)
ReclaimExpiredLeases ==
  \E expired \in SUBSET {i \in DOMAIN queue : queue[i].status = "claimed" /\ ~queue[i].run} \ {{}} :
    /\ Becomes(reclaimed(expired))
    /\ UNCHANGED <<changes, forced, ingress, records>>

halted(item) == [item EXCEPT !.run = FALSE]

(* A drain is abandoned, and its runs with it.                             *)
Crash ==
  /\ Change /\ \E i \in DOMAIN queue : queue[i].run
  /\ queue' = [i \in DOMAIN queue |-> halted(queue[i])]
  /\ UNCHANGED <<ledger, crowded, forced, ingress, records>>

forcedAgain(id) ==
  [g \in GitIds |-> IF id = gitTask(g) THEN forced[g] + 1 ELSE forced[g]]

requeued(item) == [item EXCEPT !.status = "pending", !.attempts = 0, !.alone = FALSE]

RequeueDead(id) ==
  /\ withId(queue, id, {"dead"}) # {} /\ Change
  /\ LET i == Min(withId(queue, id, {"dead"}))
     IN  queue' = [queue EXCEPT ![i] = requeued(@)]
  /\ forced' = forcedAgain(id)
  /\ UNCHANGED <<ledger, crowded, ingress, records>>

----------------------------------------------------------------------------
(* Outcomes.                                                               *)

resolveDeliverySpec(item) ==
  IF \E n \in NativeIds : item.id = nativeTask(n)
    THEN LET n == CHOOSE n \in NativeIds : item.id = nativeTask(n) IN native[n].mode
    ELSE item.mode

(* A result is written before it is known whether the item is settled.     *)
finalizeAsDone(n, item) ==
  IF item.id = nativeTask(n)
    THEN [native[n] EXCEPT !.status = IF item.status = "dead" THEN "failed" ELSE "done"]
    ELSE native[n]

finalizeNativeTask(n, item) ==
  IF item.id = nativeTask(n)
    THEN [native[n] EXCEPT !.status = IF item.status = "done" THEN "done" ELSE "failed"]
    ELSE native[n]

writesManifest(item) ==
  hasManifest(item.id) /\ "git" \in connectors /\ item.status \in {"done", "dead"}

(* The file cannot be read back, or is no manifest any more.               *)
deliveryThrows(item) == writesManifest(item) /\ manifest[item.id[2]] = "none"

writeTaskManifestDelivery(item) ==
  IF writesManifest(item) /\ ~deliveryThrows(item)
    THEN [manifest EXCEPT ![item.id[2]] = IF item.status = "done" THEN "done" ELSE "failed"]
    ELSE manifest

(* What a webhook is told, of every attempt, and what a forge is told: the *)
(* run itself journals its comment and a github connector does once more.  *)
posts(item, ok) ==
  IF resolveDeliverySpec(item) = "webhook" /\ "webhook" \in connectors
    THEN {<<item.id, IF ok THEN "result" ELSE "error", "webhook">>} ELSE {}

comments(item, ok) ==
  IF ok /\ item.agent \in Delivers THEN {<<item.id, "result", "github">>} ELSE {}

(* Every post is recorded outbound as well.                                *)
outbound == {entry \in journal : entry[3] = "webhook"}

deliverTaskOutcome(item, ok) ==
  /\ native' = [n \in NativeIds |-> finalizeNativeTask(n, item)]
  /\ manifest' = writeTaskManifestDelivery(item)
  /\ journal' = journal \cup posts(item, ok) \cup comments(item, ok)

markNativeTaskRunning(id) ==
  native' = [n \in NativeIds |->
               IF id = nativeTask(n) THEN [native[n] EXCEPT !.status = "running"] ELSE native[n]]

StartRun(i) ==
  /\ queue[i].run /\ \E n \in NativeIds : queue[i].id = nativeTask(n) /\ native[n].status # "running"
  /\ markNativeTaskRunning(queue[i].id)
  /\ UNCHANGED <<changes, queue, ledger, crowded, forced, ingress, manifest, connectors, journal,
                 succeeded>>

(* A run ends.  When its success cannot be written to the manifest, the    *)
(* drain completes the item a second time, as a failure.                   *)
RunEnds(i, ok) ==
  /\ queue[i].run
  /\ LET id == queue[i].id
         over == [state EXCEPT !.queue = [queue EXCEPT ![i] = halted(@)]]
         ended == completeQueued(over, id, ok)
         item == ended.queue[firstOf(queue, id)]
     IN  /\ Becomes(IF ok /\ deliveryThrows(item) THEN completeQueued(ended, id, FALSE) ELSE ended)
         /\ deliverTaskOutcome(item, ok)
         /\ succeeded' = IF ok THEN succeeded \cup {id} ELSE succeeded
  /\ UNCHANGED <<changes, forced, ingress, connectors>>

----------------------------------------------------------------------------
(* The native inbox and the manifests.                                     *)

room == Len(queue) < MaxItems

SubmitNativeTask(n, mode) ==
  /\ room /\ native[n].status = "none"
  /\ native' = [native EXCEPT ![n] = [status |-> "pending", mode |-> mode]]
  /\ Becomes(enqueueTask(state, nativeTask(n), AgentOf[n], mode))
  /\ UNCHANGED <<changes, forced, ingress, manifest, connectors, journal, succeeded>>

(* A sync that looks at the file only, not at the queue.                   *)
skipSettled(s, g) == manifest[g] # "pending"

shouldSkipEnqueue(s, g) ==
  \/ manifest[g] # "pending"
  \/ withId(s.queue, gitTask(g), {"pending", "claimed", "done"}) # {}

syncOne(g, s) ==
  IF shouldSkipEnqueue(s, g) THEN s ELSE enqueueTask(s, gitTask(g), AgentOf[g], "git")

scanned ==
  LET after[k \in 0..Len(ScanOrder)] ==
        IF k = 0 THEN state ELSE syncOne(ScanOrder[k], after[k - 1])
  IN  after[Len(ScanOrder)]

(* Files that cannot be read are reported and skipped.                     *)
SyncTasks ==
  /\ Len(queue) + Len(ScanOrder) <= MaxItems
  /\ Becomes(scanned)
  /\ UNCHANGED <<changes, forced, ingress, records>>

(* `tasks apply` does not ask whether the task is claimed or done already. *)
ApplyTask(g) ==
  /\ room /\ Change /\ manifest[g] = "pending"
  /\ Becomes(enqueueTask(state, gitTask(g), AgentOf[g], "git"))
  /\ forced' = forcedAgain(gitTask(g))
  /\ UNCHANGED <<ingress, records>>

AuthorWrites(g, content) ==
  /\ Change /\ manifest[g] # content
  /\ manifest' = [manifest EXCEPT ![g] = content]
  /\ UNCHANGED <<queue, ledger, crowded, forced, ingress, native, connectors, journal, succeeded>>

SetConnectorEnabled(kind) ==
  /\ Change
  /\ connectors' = SymDiff(connectors, {kind})
  /\ UNCHANGED <<queue, ledger, crowded, forced, ingress, native, manifest, journal, succeeded>>

----------------------------------------------------------------------------
(* Webhooks.                                                               *)

slidingWindowOver(b) == b.age >= RateWindow - 1

windowOver(b) == b.age >= RateWindow

checkRateLimit(b) == IF windowOver(b) THEN [age |-> 0, count |-> 0] ELSE b

hasSeen(d) == d \in ToSet(seen)

(* Forget the newest instead of the oldest.                                *)
rememberFirst(d) == SubSeq(Append(seen, d), 1, Min({SeenMax, Len(seen) + 1}))

rememberNewest(d) ==
  LET all == Append(seen, d) IN SubSeq(all, Max({1, Len(all) - SeenMax + 1}), Len(all))

rememberWebhookDelivery(d) == IF hasSeen(d) THEN seen ELSE rememberNewest(d)

(* A task for each agent that listens, under the id it has for the agent.  *)
enqueueForAll(ids) ==
  LET after[k \in 0..Len(AgentOrder)] ==
        LET a == AgentOrder[k]
        IN  IF k = 0 THEN state
            ELSE IF a \in listening THEN enqueueTask(after[k - 1], ids[a], a, "github")
            ELSE after[k - 1]
  IN  after[Len(AgentOrder)]

allowed == checkRateLimit(bucket).count < RateLimit

(* The count goes up with every event that passes, and with no other.      *)
Counted ==
  LET b == checkRateLimit(bucket)
  IN  /\ bucket' = IF allowed THEN [b EXCEPT !.count = @ + 1] ELSE b
      /\ passed' = IF allowed THEN [passed EXCEPT ![0] = @ + 1] ELSE passed

roomForAll == Len(queue) + Cardinality(listening) <= MaxItems

(* Duplicates, bad signatures and unknown payloads change nothing; a rate  *)
(* limited delivery is not remembered, so that its sender may try again.   *)
IngestGithubWebhook(d) ==
  /\ ~hasSeen(d) /\ roomForAll /\ Counted
  /\ Becomes(IF allowed THEN enqueueForAll([a \in Agents |-> deliveryTask(d, a)]) ELSE state)
  /\ seen' = IF allowed THEN rememberWebhookDelivery(d) ELSE seen
  /\ \A e \in ToSet(seen) \ ToSet(seen') : forgotten[e] < MaxForgotten
  /\ forgotten' = [e \in Deliveries |->
                     IF e \in ToSet(seen) \ ToSet(seen') THEN forgotten[e] + 1 ELSE forgotten[e]]
  /\ UNCHANGED <<changes, forced, listening, prices, records>>

(* An event without a delivery id: the task id has no agent in it, so the  *)
(* agents after the first find the task pending.                           *)
EventToTask ==
  /\ roomForAll /\ Change /\ Counted
  /\ Becomes(IF allowed THEN enqueueForAll([a \in Agents |-> eventId]) ELSE state)
  /\ UNCHANGED <<forced, seen, forgotten, listening, prices, records>>

(* `github simulate` asks no rate limit.                                   *)
SimulateEvent ==
  /\ roomForAll /\ Change
  /\ Becomes(enqueueForAll([a \in Agents |-> eventId]))
  /\ UNCHANGED <<forced, ingress, records>>

(* A task that was admitted at other prices was not admitted for what it   *)
(* will be charged.                                                        *)
repriced(item) == [item EXCEPT !.alone = FALSE]

(* A reconcile changes which agents listen to the event, what their tasks  *)
(* cost, or the budgets.                                                   *)
Reconciled(agents, p) ==
  /\ Change /\ <<listening, prices>> # <<agents, p>>
  /\ listening' = agents /\ prices' = p
  /\ queue' = IF p = prices THEN queue ELSE [i \in DOMAIN queue |-> repriced(queue[i])]
  /\ crowded' = IF p = prices THEN crowded ELSE ledger.units
  /\ UNCHANGED <<ledger, forced, bucket, seen, passed, forgotten, records>>

Tick ==
  /\ ledger' = [ledger EXCEPT !.age = Min({@ + 1, BudgetWindow})]
  /\ bucket' = [bucket EXCEPT !.age = Min({@ + 1, RateWindow})]
  /\ passed' = [t \in DOMAIN passed |-> IF t = 0 THEN 0 ELSE passed[t - 1]]
  /\ UNCHANGED <<changes, queue, crowded, forced, seen, listening, prices, forgotten, records>>

Init ==
  /\ queue = <<>> /\ ledger = [age |-> BudgetWindow, units |-> 0] /\ crowded = 0
  /\ bucket = [age |-> RateWindow, count |-> 0]
  /\ passed = [t \in 0..(RateWindow - 1) |-> 0]
  /\ seen = <<>> /\ listening \in {{a} : a \in Agents} /\ prices \in Prices
  /\ native = [n \in NativeIds |-> [status |-> "none", mode |-> "ui"]]
  /\ manifest \in [GitIds -> {"none", "pending"}]
  /\ connectors = {"ui", "git"} /\ journal = {} /\ changes = 0
  /\ forgotten = [d \in Deliveries |-> 0] /\ forced = [g \in GitIds |-> 0]
  /\ succeeded = {}

Next ==
  \/ Tick \/ Crash \/ ReclaimExpiredLeases \/ EventToTask \/ SimulateEvent
  \/ \E d \in Deliveries : IngestGithubWebhook(d)
  \/ \E agents \in SUBSET Agents, p \in Prices : Reconciled(agents, p)
  \/ \E n \in NativeIds, mode \in Modes : SubmitNativeTask(n, mode)
  \/ SyncTasks \/ \E g \in GitIds : ApplyTask(g)
  \/ \E g \in GitIds, content \in {"none", "pending"} : AuthorWrites(g, content)
  \/ \E kind \in (Modes \cup {"git"}) \ {"ui"} : SetConnectorEnabled(kind)
  \/ \E i \in DOMAIN queue : Claim(i) \/ StartRun(i) \/ \E ok \in BOOLEAN : RunEnds(i, ok)
  \/ \E id \in Ids : RequeueDead(id)

Spec == Init /\ [][Next]_vars

----------------------------------------------------------------------------
(* Admission compares what is charged and reserves nothing, so tasks       *)
(* admitted together may overrun the budget, and so may a task whose       *)
(* estimate, or whose budget, a reconcile changed after it was admitted.   *)
(* Nothing else does: a window is overrun by at most what was charged for  *)
(* tasks that came in while another was open, without an admission, or     *)
(* before the last such change, and by what was charged before it.         *)
OverrunIsOverlap == limited => ledger.units <= activeBudgetPolicy + crowded

(* A delivery that arrives again, or is retried after a rate limit, adds a *)
(* task of its own only when it was forgotten in between.                  *)
DeliveredOnce ==
  \A d \in Deliveries, a \in Agents :
    Cardinality(withId(queue, deliveryTask(d, a), anyStatus)) <= 1 + forgotten[d]

(* How many events passed less than n ticks ago.                           *)
passedWithin(p) ==
  LET within[n \in 0..RateWindow] == IF n = 0 THEN 0 ELSE within[n - 1] + p[n - 1]
  IN  within

(* Windows are fixed, so events at the end of one and the start of the     *)
(* next pass together: a span as long as a window lets less than twice its *)
(* limit pass.                                                             *)
SpanLimit == passedWithin(passed)[RateWindow] <= 2 * RateLimit - 1

(* Whatever tells a user that a task succeeded, the record of the inbox,   *)
(* the manifest or the journal, does so after a run of it succeeded; and   *)
(* record and queue agree on which native tasks are done.                  *)
SettledIsEarned ==
  /\ \A n \in NativeIds :
       (native[n].status = "done") = (withId(queue, nativeTask(n), {"done"}) # {})
  /\ \A g \in GitIds : manifest[g] = "done" => gitTask(g) \in succeeded
  /\ \A entry \in journal : entry[2] = "result" => entry[1] \in succeeded

(* A manifest has at most one open task, however denials, retries, late    *)
(* runs and syncs interleave, plus one for each command that enqueued it   *)
(* without asking.                                                         *)
OneOpenPerManifest ==
  \A g \in GitIds :
    Cardinality(withId(queue, gitTask(g), {"pending", "claimed"})) <= 1 + forced[g]
============================================================================
