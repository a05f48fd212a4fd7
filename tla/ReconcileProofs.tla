--------------------------- MODULE ReconcileProofs ---------------------------
(***************************************************************************)
(* For any manifests, any number of tasks and any budget: what may be live *)
(* fits the policy, the drift report covers the plan, a full reconcile     *)
(* leaves nothing to report that it can repair, a canary one rolls no more *)
(* than its budget, and the workers of on-demand agents finish what they   *)
(* run.                                                                    *)
(***************************************************************************)
EXTENDS Reconcile, FiniteSetTheorems, FunctionTheorems, WellFoundedInduction, TLAPS

(* A worker's record, whatever its image. *)
IsRecord(w) ==
  w = [st |-> w.st, image |-> w.image, cordoned |-> w.cordoned, used |-> w.used]

(* All that the plan needs to know of the pool. *)
PoolOK ==
  /\ source \in Manifests
  /\ workers = [s \in live |-> workers[s]]
  /\ \A s \in live : IsRecord(workers[s])

(* Definitions and policy in force come from one manifest. *)
InForce ==
  \/ desired = <<>> /\ policyCap = Unlimited
  \/ \E m \in Manifests : desired = derived[m] /\ policyCap = maxReplicas(m.caps)

(* What is live is meant to be, or belongs to an on-demand agent. *)
LiveIsMeant == \A s \in live : onDemand(desired, s.agent) \/ s \in standing(desired)

CapacityInv == InForce /\ LiveIsMeant

----------------------------------------------------------------------------
(* The definitions and the plan.                                           *)

(* A definition is found under its own name. *)
LEMMA DerivedByName ==
  ASSUME NEW m \in Manifests, NEW a \in DOMAIN derived[m]
  PROVE  derived[m][a].agent = a
<1>1. PICK defs : derived[m] = byName(defs)
  BY DEF derived
<1>2. PICK d \in defs : a = d.agent
  BY <1>1 DEF byName
<1>3. derived[m][a] = CHOOSE e \in defs : e.agent = a
  BY <1>1, <1>2 DEF byName
<1> QED
  BY <1>2, <1>3

(* A slot that should stand belongs to no on-demand agent. *)
LEMMA StandingNotOnDemand ==
  ASSUME NEW m \in Manifests, NEW s \in standing(derived[m])
  PROVE  ~onDemand(derived[m], s.agent)
<1>1. PICK d \in Range(derived[m]) : s \in expandWorkers(d)
  BY DEF standing
<1>2. PICK a \in DOMAIN derived[m] : d = derived[m][a]
  BY DEF Range
<1>3. d.mode # "onDemand" /\ s.agent = d.agent
  BY <1>1 DEF expandWorkers, slots
<1>4. d.agent = a
  BY <1>2, DerivedByName
<1> QED
  BY <1>2, <1>3, <1>4 DEF onDemand

(* A plan leaves the standing slots and the workers kept. *)
LEMMA PlanLeaves ==
  ASSUME NEW defs, NEW strategy
  PROVE  LET plan == planReconcile(defs, strategy)
         IN  plan.create \cup plan.update = standing(defs) \cup keptRunners(defs)
<1> DEFINE want == standing(defs)
           roll == selectCanaryRolls({s \in want \cap live : ~matches(defs, s)}, strategy)
<1>1. roll \subseteq want \cap live
  BY DEF selectCanaryRolls
<1>2. /\ planReconcile(defs, strategy).create = (want \ live) \cup roll
      /\ planReconcile(defs, strategy).update = ((want \cap live) \ roll) \cup keptRunners(defs)
  BY DEF planReconcile
<1> HIDE DEF want, roll
<1>3. ((want \ live) \cup roll) \cup (((want \cap live) \ roll) \cup keptRunners(defs))
        = want \cup keptRunners(defs)
  BY <1>1
<1> QED
  BY <1>2, <1>3 DEF want

(* Without a budget every standing worker of another image is rolled. *)
LEMMA RecreateRollsAll ==
  ASSUME NEW defs
  PROVE  planReconcile(defs, "recreate").create
           = (standing(defs) \ live) \cup {s \in standing(defs) \cap live : ~matches(defs, s)}
<1>1. \A M : selectCanaryRolls(M, "recreate") = M
  BY DEF selectCanaryRolls
<1> QED
  BY <1>1 DEF planReconcile

(* Nothing to report, nothing to create or to retire. *)
LEMMA DriftCoversPlan == DriftExplainsPlan
<1> DEFINE plan == planReconcile(desired, "recreate")
           roll == {s \in standing(desired) \cap live : ~matches(desired, s)}
<1> SUFFICES ASSUME NoDrift
             PROVE  plan.create = {} /\ plan.retire = {}
  BY DEF DriftExplainsPlan
<1>1. missing = {} /\ extra = {} /\ stale = {}
  BY DEF NoDrift, detectDrift
<1>2. plan.create = (standing(desired) \ live) \cup roll
  BY RecreateRollsAll
<1>3. plan.retire = roll \cup (live \ (standing(desired) \cup keptRunners(desired)))
  <2>1. selectCanaryRolls(roll, "recreate") = roll
    BY DEF selectCanaryRolls
  <2> QED
    BY <2>1 DEF planReconcile
<1>4. roll = {}
  BY <1>1 DEF stale
<1>5. standing(desired) \ live = {}
  BY <1>1 DEF missing
<1>6. live \ (standing(desired) \cup keptRunners(desired)) = {}
  BY <1>1 DEF extra, stale, keptRunners
<1> QED
  BY <1>2, <1>3, <1>4, <1>5, <1>6

----------------------------------------------------------------------------
(* What is left of the cap.                                                *)

(* A nonempty set of naturals has a least element: what the inductions     *)
(* below rest on, by way of a least counterexample.                         *)
LEMMA LeastNatural ==
  ASSUME NEW T, T \subseteq Nat, T # {}
  PROVE  \E x \in T : \A y \in T : x <= y
<1> DEFINE R == {p \in Nat \X Nat : p[1] < p[2]}
<1>1. IsWellFoundedOn(R, Nat)
  BY NatLessThanWellFounded DEF OpToRel
<1>2. PICK x \in T : \A y \in T : ~(<<y, x>> \in R)
  BY <1>1, WFMin
<1>3. ASSUME NEW y \in T, y < x PROVE FALSE
  <2>1. <<y, x>> \in R
    BY <1>3
  <2> QED
    BY <1>2, <2>1
<1>4. \A y \in T : x <= y
  BY <1>3
<1> QED
  BY <1>4

(* The smaller and the greater of two integers. *)
LEMMA MinOfTwo ==
  ASSUME NEW x \in Int, NEW y \in Int
  PROVE  Min({x, y}) = IF x <= y THEN x ELSE y
<1>1. \E m \in {x, y} : \A z \in {x, y} : m <= z
  BY x <= y \/ y <= x
<1>2. Min({x, y}) \in {x, y} /\ \A z \in {x, y} : Min({x, y}) <= z
  BY <1>1 DEF Min
<1> QED
  BY <1>2

LEMMA MaxOfTwo ==
  ASSUME NEW x \in Int, NEW y \in Int
  PROVE  Max({x, y}) = IF x >= y THEN x ELSE y
<1>1. \E m \in {x, y} : \A z \in {x, y} : m >= z
  BY x <= y \/ y <= x
<1>2. Max({x, y}) \in {x, y} /\ \A z \in {x, y} : Max({x, y}) >= z
  BY <1>1 DEF Max
<1> QED
  BY <1>2

(* A definition is allowed no more than it requests and than is left. *)
LEMMA AllowedFits ==
  ASSUME NEW d, d.count \in Nat, NEW rest \in Nat
  PROVE  allowed(d, rest) \in 0..rest
<1>1. requested(d) \in Nat
  BY MaxOfTwo DEF requested
<1>2. Max({0, rest}) = rest
  BY MaxOfTwo
<1>3. allowed(d, rest) = Min({requested(d), rest})
  BY <1>2 DEF allowed
<1>4. Min({requested(d), rest}) = IF requested(d) <= rest THEN requested(d) ELSE rest
  BY <1>1, MinOfTwo
<1> QED
  BY <1>1, <1>3, <1>4

(* A policy has a cap, the least of those it states. *)
LEMMA CapIsNatural ==
  ASSUME NEW m \in Manifests
  PROVE  maxReplicas(m.caps) \in Nat
<1> DEFINE caps == m.caps \cup {Unlimited}
<1>1. caps \subseteq Nat /\ caps # {}
  BY ReconcileAssumption
<1>2. PICK x \in caps : \A y \in caps : x <= y
  BY <1>1, LeastNatural
<1>3. Min(caps) \in caps
  BY <1>2 DEF Min
<1> QED
  BY <1>1, <1>3 DEF maxReplicas

(* The definition of what is left, as a recursion that has a solution. *)
LEMMA LeftUnfolds ==
  ASSUME NEW defs, Len(defs) \in Nat, NEW cap
  PROVE  leftAfter(defs, cap) =
           [k \in 0..Len(defs) |->
              IF k = 0 THEN cap
              ELSE leftAfter(defs, cap)[k - 1] - allowed(defs[k], leftAfter(defs, cap)[k - 1])]
<1> DEFINE Solves(f, n) ==
             f = [k \in 0..n |->
                    IF k = 0 THEN cap ELSE f[k - 1] - allowed(defs[k], f[k - 1])]
           Unsolved == {n \in Nat : ~(\E f : Solves(f, n))}
<1>1. ASSUME Unsolved # {} PROVE FALSE
  <2>1. PICK n \in Unsolved : \A m \in Unsolved : n <= m
    BY <1>1, LeastNatural
  <2>2. n # 0
    <3>1. Solves([k \in 0..0 |-> cap], 0)
      OBVIOUS
    <3> QED
      BY <2>1, <3>1
  <2>3. n \in Nat /\ n - 1 \in Nat /\ n - 1 \notin Unsolved
    <3>1. n \in Nat
      BY <2>1
    <3> HIDE DEF Unsolved
    <3> QED
      BY <2>1, <2>2, <3>1
  <2>4. PICK f : Solves(f, n - 1)
    BY <2>3
  <2>5. PICK g : g = [k \in 0..n |->
                       IF k = n THEN f[n - 1] - allowed(defs[n], f[n - 1]) ELSE f[k]]
    OBVIOUS
  <2>6. \A k \in 0..n : g[k] = IF k = 0 THEN cap
                                ELSE g[k - 1] - allowed(defs[k], g[k - 1])
    <3> SUFFICES ASSUME NEW k \in 0..n
                 PROVE  g[k] = IF k = 0 THEN cap
                               ELSE g[k - 1] - allowed(defs[k], g[k - 1])
      OBVIOUS
    <3>1. \A j \in 0..(n - 1) : g[j] = f[j]
      BY <2>1, <2>3, <2>5
    <3>2. CASE k = n
      BY <2>2, <2>3, <2>5, <3>1, <3>2
    <3>3. CASE k # n
      <4>1. k \in 0..(n - 1)
        BY <3>3, <2>3
      <4>2. f[k] = IF k = 0 THEN cap ELSE f[k - 1] - allowed(defs[k], f[k - 1])
        BY <2>4, <4>1
      <4> QED
        BY <3>1, <4>1, <4>2, <2>3
    <3> QED
      BY <3>2, <3>3
  <2>7. Solves(g, n)
    BY <2>5, <2>6
  <2> QED
    BY <2>1, <2>7
<1>2. \E f : Solves(f, Len(defs))
  BY <1>1
<1>3. leftAfter(defs, cap) = CHOOSE f : Solves(f, Len(defs))
  BY DEF leftAfter
<1>4. Solves(leftAfter(defs, cap), Len(defs))
  BY <1>2, <1>3
<1> QED
  BY <1>4

(* What is left is a natural number and shrinks by what is allowed. *)
LEMMA LeftShrinks ==
  ASSUME NEW defs, Len(defs) \in Nat, NEW cap \in Nat,
         \A k \in 1..Len(defs) : defs[k].count \in Nat
  PROVE  LET left == leftAfter(defs, cap)
         IN  /\ \A k \in 0..Len(defs) : left[k] \in 0..cap
             /\ \A k \in 1..Len(defs) :
                  /\ allowed(defs[k], left[k - 1]) \in 0..left[k - 1]
                  /\ left[k] = left[k - 1] - allowed(defs[k], left[k - 1])
<1> DEFINE left == leftAfter(defs, cap)
           Wrong == {k \in Nat : k \in 0..Len(defs) /\ left[k] \notin 0..cap}
<1>1. \A k \in 0..Len(defs) :
        left[k] = IF k = 0 THEN cap ELSE left[k - 1] - allowed(defs[k], left[k - 1])
  BY LeftUnfolds
<1> HIDE DEF left
<1>2. ASSUME Wrong # {} PROVE FALSE
  <2>1. PICK k \in Wrong : \A j \in Wrong : k <= j
    BY <1>2, LeastNatural
  <2>2. k # 0
    BY <1>1, <2>1
  <2>3. left[k - 1] \in 0..cap
    BY <2>1, <2>2
  <2>4. allowed(defs[k], left[k - 1]) \in 0..left[k - 1]
    BY <2>1, <2>2, <2>3, AllowedFits
  <2>5. left[k] = left[k - 1] - allowed(defs[k], left[k - 1])
    BY <1>1, <2>1, <2>2
  <2> QED
    BY <2>1, <2>3, <2>4, <2>5
<1>3. \A k \in 0..Len(defs) : left[k] \in 0..cap
  BY <1>2
<1>4. ASSUME NEW k \in 1..Len(defs)
      PROVE  /\ allowed(defs[k], left[k - 1]) \in 0..left[k - 1]
             /\ left[k] = left[k - 1] - allowed(defs[k], left[k - 1])
  <2>1. k - 1 \in 0..Len(defs) /\ k \in 0..Len(defs) /\ k # 0
    BY <1>4
  <2>2. left[k - 1] \in Nat
    BY <1>3, <2>1
  <2> QED
    BY <1>1, <2>1, <2>2, AllowedFits
<1> QED
  BY <1>3, <1>4 DEF left

(* Later definitions find less. *)
LEMMA LeftFalls ==
  ASSUME NEW defs, Len(defs) \in Nat, NEW cap \in Nat,
         \A k \in 1..Len(defs) : defs[k].count \in Nat,
         NEW j \in 0..Len(defs), NEW k \in 0..Len(defs), j <= k
  PROVE  leftAfter(defs, cap)[k] <= leftAfter(defs, cap)[j]
<1> DEFINE left == leftAfter(defs, cap)
           Wrong == {i \in Nat : i \in j..Len(defs) /\ ~(left[i] <= left[j])}
<1>1. /\ \A i \in 0..Len(defs) : left[i] \in 0..cap
      /\ \A i \in 1..Len(defs) :
           /\ allowed(defs[i], left[i - 1]) \in 0..left[i - 1]
           /\ left[i] = left[i - 1] - allowed(defs[i], left[i - 1])
  BY LeftShrinks
<1> HIDE DEF left
<1>2. ASSUME Wrong # {} PROVE FALSE
  <2>1. PICK i \in Wrong : \A n \in Wrong : i <= n
    BY <1>2, LeastNatural
  <2>2. i # j
    BY <1>1, <2>1
  <2>3. i - 1 \in j..Len(defs) /\ i \in 1..Len(defs) /\ i - 1 \in Nat
    BY <2>1, <2>2
  <2>4. left[i - 1] <= left[j]
    BY <2>1, <2>3
  <2>5. left[i] <= left[i - 1]
    <3>1. left[i - 1] \in Nat
      BY <1>1, <2>3
    <3>2. PICK n \in 0..left[i - 1] : left[i] = left[i - 1] - n
      BY <1>1, <2>3
    <3> QED
      BY <3>1, <3>2
  <2> QED
    BY <1>1, <2>1, <2>3, <2>4, <2>5
<1>3. k \notin Wrong /\ k \in j..Len(defs) /\ k \in Nat
  BY <1>2
<1> QED
  BY <1>3 DEF left
(* A definition in force takes the share of the cap that was left at its   *)
(* turn.                                                                   *)
LEMMA ShareOfCap ==
  ASSUME NEW m \in Manifests, NEW a \in DOMAIN derived[m]
  PROVE  LET defs == expandDesired(m.items)
             left == leftAfter(defs, maxReplicas(m.caps))
         IN  \E k \in 1..Len(defs) :
               /\ defs[k].agent = a
               /\ derived[m][a].count = allowed(defs[k], left[k - 1])
<1>1. PICK defs : defs = expandDesired(m.items)
  OBVIOUS
<1>2. PICK cap : cap = maxReplicas(m.caps)
  OBVIOUS
<1>3. derived[m] = byName(applyReplicaCap(defs, cap))
  BY <1>1, <1>2 DEF derived
<1>4. derived[m][a] \in applyReplicaCap(defs, cap)
  <2>1. PICK D : D = applyReplicaCap(defs, cap)
    OBVIOUS
  <2> QED
    BY <1>3, <2>1 DEF byName
<1>5. PICK k \in 1..Len(defs) :
        derived[m][a] = [defs[k] EXCEPT !.count = allowed(defs[k], leftAfter(defs, cap)[k - 1])]
  BY <1>4 DEF applyReplicaCap
<1>6. IsDefinition(defs[k])
  BY <1>1, DefinitionAssumption
<1>7. \A n : /\ [defs[k] EXCEPT !.count = n].count = n
             /\ [defs[k] EXCEPT !.count = n].agent = defs[k].agent
  BY <1>6 DEF IsDefinition
<1>8. /\ derived[m][a].count = allowed(defs[k], leftAfter(defs, cap)[k - 1])
      /\ derived[m][a].agent = defs[k].agent
  <2>1. PICK n : n = allowed(defs[k], leftAfter(defs, cap)[k - 1])
    OBVIOUS
  <2> QED
    BY <1>5, <1>7, <2>1
<1>9. defs[k].agent = a
  BY <1>8, DerivedByName
<1> QED
  BY <1>1, <1>2, <1>8, <1>9

(* The workers that a manifest may have, standing or spawned, fit its cap.  *)
LEMMA SlotsFit ==
  ASSUME NEW m \in Manifests
  PROVE  LET all == UNION {slots(d) : d \in Range(derived[m])}
         IN  IsFiniteSet(all) /\ Cardinality(all) <= maxReplicas(m.caps)
<1>1. PICK defs : defs = expandDesired(m.items)
  OBVIOUS
<1>2. PICK cap : cap = maxReplicas(m.caps)
  OBVIOUS
<1>3. cap \in Nat
  BY <1>2, CapIsNatural
<1>4. Len(defs) \in Nat /\ \A k \in 1..Len(defs) : defs[k].count \in Nat
  BY <1>1, DefinitionAssumption DEF IsDefinition
<1> DEFINE left == leftAfter(defs, cap)
           share(k) == allowed(defs[k], left[k - 1])
           all == UNION {slots(d) : d \in Range(derived[m])}
           turn(a) == CHOOSE k \in 1..Len(defs) :
                        defs[k].agent = a /\ derived[m][a].count = share(k)
<1>5. ASSUME NEW a \in DOMAIN derived[m]
      PROVE  /\ turn(a) \in 1..Len(defs)
             /\ derived[m][a].count = share(turn(a))
             /\ defs[turn(a)].agent = a
  <2>1. \E k \in 1..Len(defs) : defs[k].agent = a /\ derived[m][a].count = share(k)
    BY <1>1, <1>2, ShareOfCap
  <2> HIDE DEF share
  <2> QED
    BY <2>1
<1>6. /\ \A k \in 0..Len(defs) : left[k] \in 0..cap
      /\ \A k \in 1..Len(defs) :
           share(k) \in 0..left[k - 1] /\ left[k] = left[k - 1] - share(k)
  BY <1>3, <1>4, LeftShrinks
<1>7. \A j, k \in 0..Len(defs) : j <= k => left[k] <= left[j]
  BY <1>3, <1>4, LeftFalls
<1> DEFINE place(s) == left[turn(s.agent) - 1] - 1 - s.replica
<1> HIDE DEF left, share, turn
(* A slot, and its place in the part of the cap that its agent took. *)
<1>8. ASSUME NEW s \in all
      PROVE  /\ s = [agent |-> s.agent, replica |-> s.replica]
             /\ s.replica \in Nat
             /\ turn(s.agent) \in 1..Len(defs) /\ defs[turn(s.agent)].agent = s.agent
             /\ left[turn(s.agent) - 1] \in 0..cap /\ left[turn(s.agent)] \in 0..cap
             /\ left[turn(s.agent)] <= place(s) /\ place(s) < left[turn(s.agent) - 1]
             /\ place(s) \in Int
  <2>1. PICK a \in DOMAIN derived[m] : s \in slots(derived[m][a])
    BY DEF Range
  <2>2. PICK r \in 0..(derived[m][a].count - 1) : s = [agent |-> a, replica |-> r]
    BY <2>1, DerivedByName DEF slots
  <2>3. PICK k : k = turn(a)
    OBVIOUS
  <2>4. k \in 1..Len(defs) /\ derived[m][a].count = share(k) /\ defs[k].agent = a
    BY <1>5, <2>3
  <2>5. k \in 0..Len(defs) /\ k - 1 \in 0..Len(defs)
    BY <1>4, <2>4
  <2>6. left[k] \in 0..cap /\ left[k - 1] \in 0..cap
    BY <1>6, <2>5
  <2>7. share(k) \in Nat /\ left[k] = left[k - 1] - share(k)
    BY <1>6, <2>4, <2>6, <1>3
  <2>8. s.agent = a /\ s.replica = r /\ r \in Nat /\ r < share(k)
    BY <2>2, <2>4, <2>7
  <2>9. place(s) = left[k - 1] - 1 - r
    BY <2>3, <2>8
  <2>10. left[k] <= place(s) /\ place(s) < left[k - 1] /\ place(s) \in Int
    BY <1>3, <2>6, <2>7, <2>8, <2>9
  <2> HIDE DEF place
  <2> QED
    BY <2>2, <2>3, <2>4, <2>6, <2>8, <2>10
<1>9. ASSUME NEW s \in all, NEW t \in all, turn(s.agent) < turn(t.agent)
      PROVE  place(t) < place(s)
  <2>1. PICK j : j = turn(s.agent)
    OBVIOUS
  <2>2. PICK k : k = turn(t.agent)
    OBVIOUS
  <2>3. PICK x : x = place(s)
    OBVIOUS
  <2>4. PICK y : y = place(t)
    OBVIOUS
  <2> HIDE DEF all, place
  <2>5. j \in 1..Len(defs) /\ left[j] \in 0..cap /\ left[j] <= x /\ x \in Int
    BY <1>8, <2>1, <2>3
  <2>6. k \in 1..Len(defs) /\ left[k - 1] \in 0..cap /\ y < left[k - 1] /\ y \in Int
    BY <1>8, <2>2, <2>4
  <2>7. j <= k - 1 /\ j \in 0..Len(defs) /\ k - 1 \in 0..Len(defs)
    BY <1>4, <1>9, <2>1, <2>2, <2>5, <2>6
  <2>8. left[k - 1] <= left[j]
    BY <1>7, <2>7
  <2> QED
    BY <1>3, <2>3, <2>4, <2>5, <2>6, <2>8
<1>10. ASSUME NEW s \in all, NEW t \in all, place(s) = place(t)
       PROVE  s = t
  <2>1. place(s) \in Int /\ place(t) \in Int
    BY <1>8
  <2>2. turn(s.agent) = turn(t.agent)
    <3> HIDE DEF all, place
    <3>1. turn(s.agent) \in Int /\ turn(t.agent) \in Int
      BY <1>4, <1>8
    <3>2. ~(turn(s.agent) < turn(t.agent)) /\ ~(turn(t.agent) < turn(s.agent))
      BY <1>9, <1>10, <2>1
    <3> QED
      BY <3>1, <3>2
  <2>3. s.agent = t.agent
    <3> HIDE DEF all, place
    <3> QED
      BY <1>8, <2>2
  <2>4. left[turn(s.agent) - 1] \in Int /\ s.replica \in Nat /\ t.replica \in Nat
    <3> HIDE DEF all, place
    <3> QED
      BY <1>3, <1>8
  <2>5. s.replica = t.replica
    BY <1>10, <2>3, <2>4
  <2> HIDE DEF all, place
  <2> QED
    BY <1>8, <2>3, <2>5
<1>11. ASSUME NEW s \in all
       PROVE  place(s) \in 0..(cap - 1)
  <2> HIDE DEF all, place
  <2>1. place(s) \in Int /\ left[turn(s.agent)] \in 0..cap
          /\ left[turn(s.agent) - 1] \in 0..cap
          /\ left[turn(s.agent)] <= place(s) /\ place(s) < left[turn(s.agent) - 1]
    BY <1>8
  <2> QED
    BY <1>3, <2>1
<1> HIDE DEF all, place
<1> DEFINE f == [s \in all |-> place(s)]
<1>12. f \in Injection(all, 0..(cap - 1))
  <2>1. f \in [all -> 0..(cap - 1)]
    BY <1>11
  <2>2. \A s, t \in all : f[s] = f[t] => s = t
    BY <1>10
  <2> QED
    BY <2>1, <2>2 DEF Injection, IsInjective
<1>13. IsFiniteSet(0..(cap - 1)) /\ Cardinality(0..(cap - 1)) = cap
  BY <1>3, FS_Interval
<1>14. IsFiniteSet(all) /\ Cardinality(all) <= cap
  BY <1>12, <1>13, FS_Injection
<1> QED
  BY <1>2, <1>14 DEF all
(* A definition in force has a natural number of slots. *)
LEMMA CountIsNatural ==
  ASSUME NEW m \in Manifests, NEW a \in DOMAIN derived[m]
  PROVE  derived[m][a].count \in Nat
<1>1. PICK defs : defs = expandDesired(m.items)
  OBVIOUS
<1>2. PICK cap : cap = maxReplicas(m.caps)
  OBVIOUS
<1>3. cap \in Nat
  BY <1>2, CapIsNatural
<1>4. Len(defs) \in Nat /\ \A k \in 1..Len(defs) : defs[k].count \in Nat
  BY <1>1, DefinitionAssumption DEF IsDefinition
<1> DEFINE left == leftAfter(defs, cap)
<1>5. PICK k \in 1..Len(defs) : derived[m][a].count = allowed(defs[k], left[k - 1])
  BY <1>1, <1>2, ShareOfCap
<1>6. left[k - 1] \in 0..cap /\ allowed(defs[k], left[k - 1]) \in 0..left[k - 1]
  <2>1. k - 1 \in 0..Len(defs)
    BY <1>4
  <2> QED
    BY <1>3, <1>4, <2>1, LeftShrinks
<1> QED
  BY <1>3, <1>5, <1>6

(* Of an agent's slots a canary plan rolls a few, those with the lowest     *)
(* replicas: all but the highest of them are lower mismatches of that one.  *)
LEMMA CanaryRollsFew ==
  ASSUME NEW m \in Manifests, NEW a \in DOMAIN derived[m],
         NEW M, M \subseteq standing(derived[m])
  PROVE  Cardinality({s \in selectCanaryRolls(M, "canary") : s.agent = a}) <= CanaryCount
<1> DEFINE mine == {s \in M : s.agent = a}
           few == {s \in selectCanaryRolls(M, "canary") : s.agent = a}
           lower(s) == {t \in M : t.agent = s.agent /\ t.replica < s.replica}
<1>1. PICK n \in Nat : n = derived[m][a].count
  BY CountIsNatural
<1>2. few \subseteq mine /\ \A s \in few : Cardinality(lower(s)) < CanaryCount
  BY DEF selectCanaryRolls
<1>3. ASSUME NEW s \in mine
      PROVE  s \in slots(derived[m][a])
  <2>1. PICK b \in DOMAIN derived[m] : s \in slots(derived[m][b])
    BY <1>3 DEF standing, expandWorkers, Range
  <2>2. s.agent = b
    BY <2>1, DerivedByName DEF slots
  <2> QED
    BY <1>3, <2>1, <2>2
<1>4. \A s \in mine : s.replica \in 0..(n - 1) /\ s = [agent |-> a, replica |-> s.replica]
  BY <1>1, <1>3, DerivedByName DEF slots
<1>5. IsFiniteSet(mine)
  <2>1. mine \subseteq UNION {slots(d) : d \in Range(derived[m])}
    BY <1>3 DEF Range
  <2> QED
    BY <2>1, SlotsFit, FS_Subset
<1>6. CASE few = {}
  BY <1>6, FS_EmptySet, ReconcileAssumption
<1>7. CASE few # {}
  <2> DEFINE gaps == {g \in Nat : \E s \in few : g = n - s.replica}
  <2>1. \A s \in few : n - s.replica \in gaps
    BY <1>2, <1>4
  <2>2. gaps \subseteq Nat /\ gaps # {}
    BY <1>7, <2>1
  <2>3. PICK g \in gaps : \A h \in gaps : g <= h
    BY <2>2, LeastNatural
  <2>4. PICK s \in few : g = n - s.replica
    BY <2>3
  <2>5. \A t \in few : t.replica <= s.replica
    BY <1>2, <1>4, <2>1, <2>3, <2>4
  <2>6. few \ {s} \subseteq lower(s)
    <3> SUFFICES ASSUME NEW t \in few, t # s
                 PROVE  t \in M /\ t.agent = s.agent /\ t.replica < s.replica
      OBVIOUS
    <3>1. t \in mine /\ s \in mine /\ t.replica <= s.replica
      BY <1>2, <2>5
    <3>2. t.replica # s.replica
      BY <1>4, <3>1
    <3> QED
      BY <1>4, <3>1, <3>2
  <2>7. lower(s) \subseteq mine
    BY <2>4
  <2> HIDE DEF lower, few, mine
  <2>8. IsFiniteSet(lower(s)) /\ IsFiniteSet(few)
    BY <1>2, <1>5, <2>7, FS_Subset
  <2>9. Cardinality(few \ {s}) <= Cardinality(lower(s))
    BY <2>6, <2>8, FS_Subset
  <2>10. Cardinality(few \ {s}) = Cardinality(few) - 1
    BY <2>8, FS_RemoveElement
  <2>11. Cardinality(few) \in Nat /\ Cardinality(lower(s)) \in Nat
    BY <2>8, FS_CardinalityType
  <2>12. Cardinality(few) <= CanaryCount
    BY <1>2, <2>9, <2>10, <2>11, ReconcileAssumption
  <2> QED
    BY <2>12 DEF few
<1> QED
  BY <1>6, <1>7

----------------------------------------------------------------------------
(* Steps.                                                                  *)

(* What a reconcile makes of the pool: a worker is new, or it stays what it *)
(* was but for the cordon.                                                  *)
AppliedOK(defs, plan, new) ==
  /\ DOMAIN new = standing(defs) \cup keptRunners(defs)
  /\ new = [s \in DOMAIN new |-> new[s]]
  /\ \A s \in plan.create : new[s] = workerFromDesired(defs[s.agent], "idle")
  /\ \A s \in DOMAIN new \ plan.create :
       /\ s \in plan.update /\ s \in live
       /\ IsRecord(new[s])
       /\ new[s].st = workers[s].st /\ new[s].image = workers[s].image
       /\ s \in plan.cordon => new[s].cordoned = TRUE

LEMMA AppliedWorker ==
  ASSUME PoolOK, NEW defs, NEW strategy
  PROVE  AppliedOK(defs, planReconcile(defs, strategy),
                   applied(defs, planReconcile(defs, strategy)))
<1> DEFINE plan == planReconcile(defs, strategy)
           new == applied(defs, plan)
<1>1. plan.create \cup plan.update = standing(defs) \cup keptRunners(defs)
  BY PlanLeaves
<1>2. plan.update \subseteq live
  BY DEF planReconcile, keptRunners
<1> HIDE DEF plan
<1>3. /\ DOMAIN new = plan.create \cup plan.update
      /\ new = [s \in DOMAIN new |-> new[s]]
      /\ \A s \in plan.create : new[s] = workerFromDesired(defs[s.agent], "idle")
  BY DEF applied
<1>4. ASSUME NEW s \in DOMAIN new \ plan.create
      PROVE  /\ s \in plan.update /\ s \in live
             /\ IsRecord(new[s])
             /\ new[s].st = workers[s].st /\ new[s].image = workers[s].image
             /\ s \in plan.cordon => new[s].cordoned = TRUE
  <2>1. s \in plan.update /\ s \in live
    BY <1>2, <1>3, <1>4
  <2>2. new[s] = [workers[s] EXCEPT !.cordoned = @ \/ s \in plan.cordon]
    BY <1>3, <1>4 DEF applied
  <2>3. IsRecord(workers[s])
    BY <2>1 DEF PoolOK
  <2>4. PICK c : c = (workers[s].cordoned \/ s \in plan.cordon)
    OBVIOUS
  <2>5. new[s] = [workers[s] EXCEPT !.cordoned = c]
    BY <2>2, <2>4
  <2>6. new[s] = [st |-> workers[s].st, image |-> workers[s].image, cordoned |-> c,
                  used |-> workers[s].used]
    BY <2>3, <2>5 DEF IsRecord
  <2>7. s \in plan.cordon => c = TRUE
    BY <2>4
  <2> QED
    BY <2>1, <2>6, <2>7 DEF IsRecord
<1> HIDE DEF new
<1>5. AppliedOK(defs, plan, new)
  BY <1>1, <1>3, <1>4 DEF AppliedOK
<1> QED
  BY <1>5 DEF plan, new

(* The pool keeps its shape. *)
LEMMA PoolOKStep == PoolOK /\ [Next]_vars => PoolOK'
<1> SUFFICES ASSUME PoolOK, [Next]_vars
             PROVE  PoolOK'
  OBVIOUS
<1>1. CASE UNCHANGED <<source, workers>>
  BY <1>1 DEF live, PoolOK
<1>2. CASE commit
  BY <1>2 DEF commit, pool, live, PoolOK
<1>3. ASSUME NEW strategy, apply(strategy)
      PROVE  PoolOK'
  <2> DEFINE defs == derived[source]
             plan == planReconcile(defs, strategy)
             new == applied(defs, plan)
  <2>1. workers' = new /\ source' = source
    BY <1>3 DEF apply
  <2>0. AppliedOK(defs, plan, new)
    BY AppliedWorker
  <2> HIDE DEF new, plan
  <2>2. /\ new = [s \in DOMAIN new |-> new[s]]
        /\ \A s \in plan.create : new[s] = workerFromDesired(defs[s.agent], "idle")
        /\ \A s \in DOMAIN new \ plan.create : IsRecord(new[s])
    BY <2>0 DEF AppliedOK
  <2>3. \A s \in plan.create : IsRecord(new[s])
    <3>1. \A d : IsRecord(workerFromDesired(d, "idle"))
      BY DEF workerFromDesired, IsRecord
    <3> QED
      BY <2>2, <3>1
  <2> QED
    BY <2>1, <2>2, <2>3 DEF live, PoolOK
<1>4. ASSUME NEW gone, workers' = without(gone), source' = source
      PROVE  PoolOK'
  BY <1>4 DEF without, live, PoolOK
<1>5. ASSUME NEW s \in live, NEW w, IsRecord(w), workers' = [workers EXCEPT ![s] = w],
             source' = source
      PROVE  PoolOK'
  BY <1>5 DEF live, PoolOK
<1>6. ASSUME NEW t, NEW a, acquireWorker(t, a)
      PROVE  PoolOK'
  <2>1. CASE \E s \in pickIdleWorker(a) : workers' = [workers EXCEPT ![s].st = "running"]
    <3>1. PICK s \in live : workers' = [workers EXCEPT ![s].st = "running"]
      BY <2>1 DEF pickIdleWorker, liveOf
    <3>2. IsRecord([workers[s] EXCEPT !.st = "running"])
      BY <3>1 DEF IsRecord, PoolOK
    <3> QED
      BY <1>5, <1>6, <3>1, <3>2 DEF acquireWorker
  <2>2. ASSUME NEW s, NEW d,
               workers' = [r \in live \cup {s} |->
                             IF r = s THEN workerFromDesired(d, "running") ELSE workers[r]]
        PROVE  PoolOK'
    <3>1. /\ live' = live \cup {s}
          /\ workers' = [r \in live' |-> workers'[r]]
          /\ \A r \in live' :
               workers'[r] = IF r = s THEN workerFromDesired(d, "running") ELSE workers[r]
      BY <2>2 DEF live
    <3>2. IsRecord(workerFromDesired(d, "running"))
      BY DEF IsRecord, workerFromDesired
    <3> QED
      BY <1>6, <3>1, <3>2 DEF acquireWorker, PoolOK
  <2> QED
    BY <1>6, <2>1, <2>2 DEF acquireWorker
<1>7. ASSUME NEW t, settle(t)
      PROVE  PoolOK'
  <2> DEFINE s == claims[t]
  <2>1. CASE s \notin live
    BY <1>1, <1>7, <2>1 DEF settle, releaseOrDestroyWorker
  <2>2. CASE s \in live /\ onDemand(desired, s.agent) /\ ~desired[s.agent].warm
    BY <1>4, <1>7, <2>2 DEF settle, releaseOrDestroyWorker
  <2>3. CASE s \in live /\ ~(onDemand(desired, s.agent) /\ ~desired[s.agent].warm)
    <3>1. PICK c : c = (workers[s].cordoned /\ ~onDemand(desired, s.agent))
      OBVIOUS
    <3>2. workers' = [workers EXCEPT ![s] =
                        [st |-> "idle", image |-> workers[s].image, used |-> TRUE,
                         cordoned |-> workers[s].cordoned /\ ~onDemand(desired, s.agent)]]
      BY <1>7, <2>3 DEF settle, releaseOrDestroyWorker, live
    <3> DEFINE w == [st |-> "idle", image |-> workers[s].image, used |-> TRUE, cordoned |-> c]
    <3>3. workers' = [workers EXCEPT ![s] = w]
      BY <3>1, <3>2
    <3>4. IsRecord(w)
      BY DEF IsRecord
    <3> HIDE DEF w
    <3> QED
      BY <1>5, <1>7, <2>3, <3>3, <3>4 DEF settle
  <2> QED
    BY <2>1, <2>2, <2>3
<1>8. ASSUME NEW s \in live, NEW c, workers' = [workers EXCEPT ![s].cordoned = c],
             source' = source
      PROVE  PoolOK'
  <2>1. IsRecord([workers[s] EXCEPT !.cordoned = c])
    BY DEF IsRecord, PoolOK
  <2> QED
    BY <1>5, <1>8, <2>1
<1>9. ASSUME NEW s \in live, evictWorker(s)
      PROVE  PoolOK'
  BY <1>4, <1>8, <1>9 DEF evictWorker
<1>10. ASSUME NEW s \in live, NEW value, cordonWorker(s, value)
       PROVE  PoolOK'
  BY <1>8, <1>10 DEF cordonWorker
<1>11. CASE Next
  <2>1. CASE editSoul
    BY <1>1, <2>1 DEF editSoul, pool
  <2>2. CASE gcOrphanWorktrees
    BY <1>1, <2>2 DEF gcOrphanWorktrees
  <2>3. ASSUME NEW strategy, diff(strategy)
        PROVE  PoolOK'
    BY <1>1, <2>3 DEF diff
  <2>4. ASSUME NEW gone, sweepIdleWorkers(gone)
        PROVE  PoolOK'
    BY <1>4, <2>4 DEF sweepIdleWorkers
  <2> QED
    BY <1>2, <1>3, <1>6, <1>7, <1>9, <1>10, <1>11, <2>1, <2>2, <2>3, <2>4 DEF Next
<1> QED
  BY <1>1, <1>11 DEF vars

(* A full reconcile repairs what it can and cordons the rest. *)
LEMMA ApplyRepairs ==
  ASSUME PoolOK, apply("recreate")
  PROVE  /\ missing' = {} /\ extra' = {} /\ miscounted' = {}
         /\ \A s \in stale' : workers'[s].st = "running" /\ workers'[s].cordoned
<1> DEFINE defs == derived[source]
           plan == planReconcile(defs, "recreate")
           want == standing(defs)
           kept == keptRunners(defs)
           new == applied(defs, plan)
<1>1. desired' = defs /\ workers' = new /\ soul' = soul
  BY DEF apply
<1>2. plan = planReconcile(defs, "recreate")
  OBVIOUS
<1>3. AppliedOK(defs, plan, new)
  BY AppliedWorker
<1> HIDE DEF new, plan
<1>4. /\ DOMAIN new = standing(defs) \cup keptRunners(defs)
      /\ \A r \in plan.create : new[r] = workerFromDesired(defs[r.agent], "idle")
      /\ \A r \in DOMAIN new \ plan.create :
           /\ r \in live /\ new[r].st = workers[r].st /\ new[r].image = workers[r].image
           /\ r \in plan.cordon => new[r].cordoned = TRUE
  BY <1>3 DEF AppliedOK
<1>5. live' = want \cup kept
  BY <1>1, <1>4 DEF live
<1>6. standing(desired)' = want
  BY <1>1 DEF standing
<1>7. \A a : onDemand(desired, a)' = onDemand(defs, a)
  BY <1>1 DEF onDemand
<1>8. \A s \in kept : onDemand(defs, s.agent)
  BY DEF keptRunners
<1>9. \A d : digest(d)' = digest(d)
  BY <1>1 DEF digest
<1>10. missing' = {}
  BY <1>5, <1>6 DEF missing
<1>11. extra' = {}
  BY <1>5, <1>6, <1>7, <1>8 DEF extra
<1>12. miscounted' = {}
  <2> SUFFICES ASSUME NEW a, ~onDemand(defs, a)
               PROVE  liveOf(a)' = {s \in want : s.agent = a}
    BY <1>6, <1>7 DEF miscounted
  <2> QED
    BY <1>5, <1>8 DEF liveOf
<1>13. ASSUME NEW s \in stale'
       PROVE  workers'[s].st = "running" /\ workers'[s].cordoned
  <2>1. s \in live' /\ workers'[s].image # digest(defs[s.agent])
    BY <1>1, <1>9 DEF stale, matches
  <2>2. s \notin plan.create
    <3>1. ASSUME s \in plan.create
          PROVE  workers'[s].image = digest(defs[s.agent])
      <4>1. workers'[s] = workerFromDesired(defs[s.agent], "idle")
        BY <1>4, <1>1, <3>1
      <4> QED
        BY <4>1 DEF workerFromDesired
    <3> QED
      BY <2>1, <3>1
  <2>3. s \in live /\ ~matches(defs, s)
    BY <1>4, <1>1, <2>1, <2>2 DEF live, matches
  <2>4. s \notin want
    BY <1>2, <2>2, <2>3, RecreateRollsAll
  <2>5. s \in kept /\ workers[s].st = "running"
    BY <1>5, <2>1, <2>3, <2>4 DEF keptRunners
  <2>6. s \in plan.cordon
    BY <1>2, <2>3, <2>5 DEF planReconcile
  <2> QED
    BY <1>4, <1>1, <2>1, <2>2, <2>5, <2>6 DEF live
<1> QED
  BY <1>10, <1>11, <1>12, <1>13

(* A runner is kept by every plan, and is no slot to create. *)
LEMMA ApplyKeepsRunners ==
  ASSUME PoolOK, NEW strategy, apply(strategy), NEW s \in live,
         workers[s].st = "running", onDemand(desired', s.agent)
  PROVE  s \in live' /\ workers'[s].st = "running" /\ workers'[s].image = workers[s].image
<1> DEFINE defs == derived[source]
           plan == planReconcile(defs, strategy)
           new == applied(defs, plan)
<1>1. desired' = defs /\ workers' = new
  BY DEF apply
<1>2. plan = planReconcile(defs, strategy)
  OBVIOUS
<1>3. AppliedOK(defs, plan, new)
  BY AppliedWorker
<1> HIDE DEF new, plan
<1>4. /\ DOMAIN new = standing(defs) \cup keptRunners(defs)
      /\ \A r \in plan.create : new[r] = workerFromDesired(defs[r.agent], "idle")
      /\ \A r \in DOMAIN new \ plan.create :
           /\ r \in live /\ new[r].st = workers[r].st /\ new[r].image = workers[r].image
           /\ r \in plan.cordon => new[r].cordoned = TRUE
  BY <1>3 DEF AppliedOK
<1>5. s \in keptRunners(defs)
  BY <1>1 DEF keptRunners
<1>6. s \notin standing(defs)
  BY <1>1, StandingNotOnDemand DEF PoolOK
<1>7. plan.create \subseteq standing(defs)
  BY <1>2 DEF planReconcile, selectCanaryRolls
<1>8. s \in live'
  BY <1>1, <1>4, <1>5 DEF live
<1> QED
  BY <1>1, <1>4, <1>6, <1>7, <1>8 DEF live

(* Workers that go, and those a claim adds, leave the rest as meant. *)
LEMMA CapacityInvStep == PoolOK /\ CapacityInv /\ [Next]_vars => CapacityInv'
<1> SUFFICES ASSUME PoolOK, CapacityInv, [Next]_vars
             PROVE  CapacityInv'
  OBVIOUS
<1>1. ASSUME desired' = desired, policyCap' = policyCap,
             \A s \in live' : s \in live \/ onDemand(desired, s.agent)
      PROVE  CapacityInv'
  <2>1. InForce'
    BY <1>1 DEF CapacityInv, InForce
  <2>2. standing(desired)' = standing(desired)
    BY <1>1 DEF standing
  <2>3. \A a : onDemand(desired, a)' = onDemand(desired, a)
    BY <1>1 DEF onDemand
  <2> QED
    BY <1>1, <2>1, <2>2, <2>3 DEF CapacityInv, LiveIsMeant
<1>2. CASE UNCHANGED <<desired, policyCap, workers>>
  BY <1>1, <1>2 DEF live
<1>3. ASSUME NEW strategy, apply(strategy)
      PROVE  CapacityInv'
  <2> DEFINE defs == derived[source]
             plan == planReconcile(defs, strategy)
  <2>1. /\ workers' = applied(defs, plan) /\ desired' = defs
        /\ policyCap' = maxReplicas(source.caps)
    BY <1>3 DEF apply
  <2>2. AppliedOK(defs, plan, applied(defs, plan))
    BY AppliedWorker
  <2> HIDE DEF plan
  <2>3. live' = standing(defs) \cup keptRunners(defs)
    BY <2>1, <2>2 DEF AppliedOK, live
  <2>4. standing(desired)' = standing(defs)
    BY <2>1 DEF standing
  <2>5. \A a : onDemand(desired, a)' = onDemand(defs, a)
    BY <2>1 DEF onDemand
  <2>6. \A s \in keptRunners(defs) : onDemand(defs, s.agent)
    BY DEF keptRunners
  <2>7. LiveIsMeant'
    BY <2>3, <2>4, <2>5, <2>6 DEF LiveIsMeant
  <2>8. InForce'
    BY <2>1 DEF PoolOK, InForce
  <2> QED
    BY <2>7, <2>8 DEF CapacityInv
<1>4. ASSUME NEW gone, workers' = without(gone), desired' = desired, policyCap' = policyCap
      PROVE  CapacityInv'
  <2>1. live' = live \ gone
    BY <1>4 DEF without, live
  <2> QED
    BY <1>1, <1>4, <2>1
<1>5. ASSUME NEW s, NEW w, workers' = [workers EXCEPT ![s] = w],
             desired' = desired, policyCap' = policyCap
      PROVE  CapacityInv'
  <2>1. live' = live
    BY <1>5 DEF live
  <2> QED
    BY <1>1, <1>5, <2>1
<1>6. ASSUME NEW t, NEW a, acquireWorker(t, a)
      PROVE  CapacityInv'
  <2>1. desired' = desired /\ policyCap' = policyCap
    BY <1>6 DEF acquireWorker
  <2>2. CASE \E s \in pickIdleWorker(a) : workers' = [workers EXCEPT ![s].st = "running"]
    <3>1. live' = live
      BY <2>2 DEF live
    <3> QED
      BY <1>1, <2>1, <3>1
  <2>3. ASSUME NEW s, s.agent = a, canSpawnWorker(a), DOMAIN workers' = live \cup {s}
        PROVE  CapacityInv'
    <3>1. onDemand(desired, s.agent)
      BY <2>3 DEF canSpawnWorker
    <3> QED
      BY <1>1, <2>1, <2>3, <3>1 DEF live
  <2>4. CASE LET s == [agent |-> a, replica |-> nextReplicaIndex(a)]
             IN  /\ pickIdleWorker(a) = {} /\ canSpawnWorker(a)
                 /\ workers' = [r \in live \cup {s} |->
                                 IF r = s THEN workerFromDesired(desired[a], "running")
                                 ELSE workers[r]]
                 /\ claims' = claims @@ (t :> s)
                 /\ tree' = tree \cup {s}
    <3>1. PICK s : s = [agent |-> a, replica |-> nextReplicaIndex(a)]
      OBVIOUS
    <3>2. s.agent = a /\ canSpawnWorker(a) /\ DOMAIN workers' = live \cup {s}
      BY <2>4, <3>1
    <3> QED
      BY <2>3, <3>2
  <2> QED
    BY <1>6, <2>2, <2>4 DEF acquireWorker
<1>7. ASSUME NEW t, settle(t)
      PROVE  CapacityInv'
  BY <1>2, <1>4, <1>5, <1>7 DEF settle, releaseOrDestroyWorker
<1>8. ASSUME NEW s \in live, evictWorker(s)
      PROVE  CapacityInv'
  <2>1. desired' = desired /\ policyCap' = policyCap
    BY <1>8 DEF evictWorker
  <2>2. CASE workers[s].st = "running"
    <3>1. live' = live
      BY <1>8, <2>2 DEF evictWorker, live
    <3> QED
      BY <1>1, <2>1, <3>1
  <2>3. CASE workers[s].st # "running"
    BY <1>4, <1>8, <2>1, <2>3 DEF evictWorker
  <2> QED
    BY <2>2, <2>3
<1>9. ASSUME NEW s \in live, NEW value, cordonWorker(s, value)
      PROVE  CapacityInv'
  <2>1. live' = live
    BY <1>9 DEF cordonWorker, live
  <2> QED
    BY <1>1, <1>9, <2>1 DEF cordonWorker
<1>10. CASE Next
  <2>1. CASE commit
    BY <1>2, <2>1 DEF commit, pool
  <2>2. CASE editSoul
    BY <1>2, <2>2 DEF editSoul, pool
  <2>3. CASE gcOrphanWorktrees
    BY <1>2, <2>3 DEF gcOrphanWorktrees
  <2>4. ASSUME NEW strategy, diff(strategy)
        PROVE  CapacityInv'
    BY <1>2, <2>4 DEF diff
  <2>5. ASSUME NEW gone, sweepIdleWorkers(gone)
        PROVE  CapacityInv'
    BY <1>4, <2>5 DEF sweepIdleWorkers
  <2> QED
    BY <1>3, <1>6, <1>7, <1>8, <1>9, <1>10, <2>1, <2>2, <2>3, <2>4, <2>5 DEF Next
<1> QED
  BY <1>2, <1>10 DEF vars

(* Standing workers and slots to spawn are slots of one manifest. *)
LEMMA MeantFitsPolicy == CapacityInv => CapacityWithinPolicy
<1> SUFFICES ASSUME CapacityInv
             PROVE  CapacityWithinPolicy
  OBVIOUS
<1> DEFINE standingWorkers == {s \in live : ~onDemand(desired, s.agent)}
           spawnSlots == UNION {slots(d) : d \in {e \in Range(desired) : e.mode = "onDemand"}}
           all == UNION {slots(d) : d \in Range(desired)}
<1>1. standing(desired) \subseteq all
  BY DEF standing, expandWorkers
<1>2. standingWorkers \subseteq all
  BY <1>1 DEF CapacityInv, LiveIsMeant
<1>3. spawnSlots \subseteq all
  OBVIOUS
<1>4. IsFiniteSet(all) /\ Cardinality(all) <= policyCap /\ policyCap \in Nat
  <2>1. CASE desired = <<>> /\ policyCap = Unlimited
    <3>1. all = {}
      BY <2>1 DEF Range
    <3> QED
      BY <2>1, <3>1, FS_EmptySet, ReconcileAssumption
  <2>2. CASE \E m \in Manifests : desired = derived[m] /\ policyCap = maxReplicas(m.caps)
    BY <2>2, SlotsFit, CapIsNatural
  <2> QED
    BY <2>1, <2>2 DEF CapacityInv, InForce
<1> HIDE DEF standingWorkers, spawnSlots, all
<1>5. /\ IsFiniteSet(standingWorkers \cup spawnSlots)
      /\ Cardinality(standingWorkers \cup spawnSlots) <= Cardinality(all)
  BY <1>2, <1>3, <1>4, FS_Subset
<1>6. Cardinality(standingWorkers \cup spawnSlots) <= policyCap
  BY <1>4, <1>5, FS_CardinalityType
<1> QED
  BY <1>6 DEF standingWorkers, spawnSlots, CapacityWithinPolicy

(* Only what a canary plan rolls changes its image. *)
LEMMA ApplyChangesFew ==
  ASSUME PoolOK, apply("canary"), NEW a \in DOMAIN desired'
  PROVE  Cardinality(rolledBy(liveOf(a))) <= CanaryCount
<1> DEFINE defs == derived[source]
           plan == planReconcile(defs, "canary")
           new == applied(defs, plan)
           M == {s \in standing(defs) \cap live : ~matches(defs, s)}
           few == {s \in selectCanaryRolls(M, "canary") : s.agent = a}
<1>1. desired' = defs /\ workers' = new
  BY DEF apply
<1>2. AppliedOK(defs, plan, new)
  BY AppliedWorker
<1>3. plan.create = (standing(defs) \ live) \cup selectCanaryRolls(M, "canary")
  BY DEF planReconcile
<1>4. source \in Manifests
  BY DEF PoolOK
<1> HIDE DEF plan, new
<1>5. rolledBy(liveOf(a)) \subseteq few
  <2> SUFFICES ASSUME NEW s \in live, s.agent = a, s \in live',
                      workers'[s].image # workers[s].image
               PROVE  s \in few
    BY DEF rolledBy, liveOf
  <2>1. s \in DOMAIN new
    BY <1>1 DEF live
  <2>2. s \in plan.create
    BY <1>1, <1>2, <2>1 DEF AppliedOK
  <2> QED
    BY <1>3, <2>2
<1>6. IsFiniteSet(few) /\ Cardinality(few) <= CanaryCount
  <2>1. M \subseteq standing(defs)
    OBVIOUS
  <2>2. few \subseteq UNION {slots(d) : d \in Range(defs)}
    BY DEF selectCanaryRolls, standing, expandWorkers
  <2>3. IsFiniteSet(UNION {slots(d) : d \in Range(defs)})
    BY <1>4, SlotsFit
  <2>4. IsFiniteSet(few)
    BY <2>2, <2>3, FS_Subset
  <2>5. Cardinality(few) <= CanaryCount
    BY <1>1, <1>4, <2>1, CanaryRollsFew
  <2> QED
    BY <2>4, <2>5
<1> HIDE DEF few
<1>7. /\ IsFiniteSet(rolledBy(liveOf(a)))
      /\ Cardinality(rolledBy(liveOf(a))) <= Cardinality(few)
  BY <1>5, <1>6, FS_Subset
<1> QED
  BY <1>6, <1>7, FS_CardinalityType, ReconcileAssumption

----------------------------------------------------------------------------
(* The pool has a record for every live worker, in every state. *)
LEMMA PoolInvariant == Spec => []PoolOK
<1>1. Init => PoolOK
  BY DEF Init, PoolOK, live
<1> QED
  BY <1>1, PoolOKStep, PTL DEF Spec

(* The drift report is never silent about a worker that another reconcile  *)
(* would create or retire: report and plan compute what should be live in  *)
(* two programs of their own.                                              *)
THEOREM ReportCoversPlan == Spec => []DriftExplainsPlan
BY DriftCoversPlan, PTL

(* A full reconcile, whatever the pool was, leaves nothing missing, extra  *)
(* or miscounted, and of old images only runners that take no more work.   *)
THEOREM FullReconcileRepairs == Spec => ApplyLeavesNoDrift
<1>1. PoolOK /\ [Next]_vars =>
        [apply("recreate") =>
           /\ missing' = {} /\ extra' = {} /\ miscounted' = {}
           /\ \A s \in stale' : workers'[s].st = "running" /\ workers'[s].cordoned]_vars
  BY ApplyRepairs
<1> QED
  BY <1>1, PoolInvariant, PTL DEF Spec, ApplyLeavesNoDrift

(* No reconcile, in full or in canary steps, takes a running worker of an  *)
(* on-demand agent away from its task or changes the image it runs.        *)
THEOREM ReconcileSparesRunners == Spec => RunnersFinish
<1>1. PoolOK /\ [Next]_vars =>
        [\A strategy \in Strategies : apply(strategy) =>
           \A s \in live : workers[s].st = "running" /\ onDemand(desired', s.agent) =>
             s \in live' /\ workers'[s].st = "running"
               /\ workers'[s].image = workers[s].image]_vars
  BY ApplyKeepsRunners
<1> QED
  BY <1>1, PoolInvariant, PTL DEF Spec, RunnersFinish

(* Whatever manifests came and went, and whichever workers were claimed,    *)
(* evicted and rolled in between: standing workers and the slots of          *)
(* on-demand agents fit the policy together.                                 *)
THEOREM PolicyBoundsCapacity == Spec => []CapacityWithinPolicy
<1>1. Init => CapacityInv
  BY DEF Init, CapacityInv, InForce, LiveIsMeant, live
<1> QED
  BY <1>1, CapacityInvStep, MeantFitsPolicy, PoolInvariant, PTL DEF Spec

(* A canary reconcile changes the image of at most CanaryCount workers of    *)
(* an agent, however many are of an old image and wherever they stand.       *)
THEOREM CanaryKeepsBudget == Spec => CanaryBudget
<1>1. PoolOK /\ [Next]_vars =>
        [apply("canary") =>
           \A a \in DOMAIN desired' : Cardinality(rolledBy(liveOf(a))) <= CanaryCount]_vars
  BY ApplyChangesFew
<1> QED
  BY <1>1, PoolInvariant, PTL DEF Spec, CanaryBudget
=============================================================================
