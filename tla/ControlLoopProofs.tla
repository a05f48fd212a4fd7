------------------------- MODULE ControlLoopProofs --------------------------
(***************************************************************************)
(* For any repositories, trees, agents, facts and skills: no command       *)
(* retires agents in passing, an exported promotion is never narrowed but  *)
(* by a commit, and the version of a skill that an agent loads never gets  *)
(* older.                                                                  *)
(***************************************************************************)
EXTENDS ControlLoop, SequenceTheorems, WellFoundedInduction, TLAPS

----------------------------------------------------------------------------
(* Numbers and recursion.                                                  *)

(* A set of natural numbers that is not empty has a least element.         *)
LEMMA LeastNatural ==
  ASSUME NEW T, T \subseteq Nat, T # {}
  PROVE  \E x \in T : \A y \in T : x <= y
<1> DEFINE R == {p \in Nat \X Nat : p[1] < p[2]}
<1>1. IsWellFoundedOn(R, Nat)
  BY NatLessThanWellFounded DEF OpToRel
<1>2. PICK x \in T : \A y \in T : ~(<<y, x>> \in R)
  BY <1>1, WFMin
<1>3. ASSUME NEW y \in T, y < x PROVE FALSE
  <2>1. <<y, x>> \in R
    BY <1>3
  <2> QED
    BY <1>2, <2>1
<1>4. \A y \in T : x <= y
  BY <1>3
<1> QED
  BY <1>4

(* What a recursion over 0..n keeps from one value to the next, it keeps.  *)
LEMMA StaysIn ==
  ASSUME NEW n \in Nat, NEW T, NEW f, f[0] \in T[0],
         \A k \in 1..n : f[k - 1] \in T[k - 1] => f[k] \in T[k]
  PROVE  \A k \in 0..n : f[k] \in T[k]
<1> DEFINE Wrong == {k \in Nat : k \in 0..n /\ f[k] \notin T[k]}
<1>1. ASSUME Wrong # {} PROVE FALSE
  <2>1. PICK k \in Wrong : \A j \in Wrong : k <= j
    BY <1>1, LeastNatural
  <2>2. k # 0
    BY <2>1
  <2>3. f[k - 1] \in T[k - 1] /\ k \in 1..n
    BY <2>1, <2>2
  <2> QED
    BY <2>1, <2>3
<1> QED
  BY <1>1

Steppers(n, S) == [1..n -> [S -> S]]

Recurs(f, n, S, base, g) ==
  f \in [0..n -> S] /\ f[0] = base /\ \A k \in 1..n : f[k] = g[k][f[k - 1]]

(* A recursion over 0..n whose steps stay in a set has a solution there.   *)
LEMMA RecursionExists ==
  ASSUME NEW n \in Nat, NEW S, NEW base \in S, NEW g \in Steppers(n, S)
  PROVE  \E f : Recurs(f, n, S, base, g)
<1> DEFINE Solves(f, m) == Recurs(f, m, S, base, g)
           Unsolved == {m \in Nat : m <= n /\ ~(\E f : Solves(f, m))}
<1>1. ASSUME Unsolved # {} PROVE FALSE
  <2>1. PICK m \in Unsolved : \A j \in Unsolved : m <= j
    BY <1>1, LeastNatural
  <2>2. m # 0
    <3>1. Solves([k \in 0..0 |-> base], 0)
      BY DEF Recurs
    <3> QED
      BY <2>1, <3>1
  <2>3. m \in 1..n /\ m - 1 \in Nat /\ m - 1 <= n /\ m - 1 \notin Unsolved
    <3>1. m \in Nat /\ m <= n
      BY <2>1
    <3> HIDE DEF Unsolved
    <3> QED
      BY <2>1, <2>2, <3>1
  <2>4. PICK f : Solves(f, m - 1)
    BY <2>3
  <2>5. PICK last : last = g[m][f[m - 1]]
    OBVIOUS
  <2>6. PICK h : h = [k \in 0..m |-> IF k = m THEN last ELSE f[k]]
    OBVIOUS
  <2>7. \A j \in 0..(m - 1) : h[j] = f[j] /\ f[j] \in S
    BY <2>3, <2>4, <2>6 DEF Recurs
  <2>8. last \in S
    <3>1. f[m - 1] \in S
      BY <2>3, <2>7
    <3> QED
      BY <2>3, <2>5, <3>1 DEF Steppers
  <2>9. ASSUME NEW k \in 1..m
        PROVE  h[k] = g[k][h[k - 1]]
    <3>1. k - 1 \in 0..(m - 1) /\ h[k - 1] = f[k - 1]
      BY <2>3, <2>7
    <3>2. CASE k = m
      BY <2>3, <2>5, <2>6, <3>1, <3>2
    <3>3. CASE k # m
      BY <2>3, <2>4, <2>7, <3>1, <3>3 DEF Recurs
    <3> QED
      BY <3>2, <3>3
  <2>10. h \in [0..m -> S] /\ h[0] = base
    BY <2>3, <2>4, <2>6, <2>7, <2>8 DEF Recurs
  <2>11. Solves(h, m)
    BY <2>9, <2>10 DEF Recurs
  <2> QED
    BY <2>1, <2>11
<1>2. n \notin Unsolved
  BY <1>1
<1> QED
  BY <1>2

(* A bounded set of natural numbers has a greatest element, its Max.       *)
LEMMA GreatestIsMax ==
  ASSUME NEW n \in Nat, NEW T, T \subseteq 0..n, T # {}
  PROVE  Max(T) \in T /\ \A y \in T : y <= Max(T)
<1> DEFINE U == {m \in Nat : m <= n /\ n - m \in T}
<1>1. U \subseteq Nat /\ U # {}
  <2>1. PICK x \in T : TRUE
    OBVIOUS
  <2>2. n - x \in Nat /\ n - x <= n /\ n - (n - x) = x
    BY <2>1
  <2>3. n - x \in U
    BY <2>1, <2>2
  <2> QED
    BY <2>3
<1>2. PICK m \in U : \A k \in U : m <= k
  BY <1>1, LeastNatural
<1>3. n - m \in T
  BY <1>2
<1>4. ASSUME NEW y \in T PROVE n - m >= y
  <2>1. y \in 0..n /\ n - y \in Nat /\ n - y <= n /\ n - (n - y) = y
    OBVIOUS
  <2>2. n - y \in U
    BY <2>1
  <2>3. m <= n - y
    BY <1>2, <2>2
  <2> QED
    BY <1>2, <2>1, <2>3
<1>5. \E x \in T : \A y \in T : x >= y
  BY <1>3, <1>4
<1>6. Max(T) \in T /\ \A y \in T : Max(T) >= y
  BY <1>5 DEF Max
<1> QED
  BY <1>6

(* Of two numbers the greater.                                             *)
LEMMA MaxOfTwo ==
  ASSUME NEW i \in Int, NEW j \in Int
  PROVE  Max({i, j}) = IF i >= j THEN i ELSE j
<1>1. \E x \in {i, j} : \A y \in {i, j} : x >= y
  OBVIOUS
<1>2. Max({i, j}) \in {i, j} /\ \A y \in {i, j} : Max({i, j}) >= y
  BY <1>1 DEF Max
<1> QED
  BY <1>2

(* Of two numbers the lesser.                                              *)
LEMMA MinOfTwo ==
  ASSUME NEW i \in Int, NEW j \in Int
  PROVE  Min({i, j}) = IF i <= j THEN i ELSE j
<1>1. \E x \in {i, j} : \A y \in {i, j} : x <= y
  OBVIOUS
<1>2. Min({i, j}) \in {i, j} /\ \A y \in {i, j} : Min({i, j}) <= y
  BY <1>1 DEF Min
<1> QED
  BY <1>2

----------------------------------------------------------------------------
(* Facts.                                                                  *)

Facts == Seq(SharedMemoryFact)

rank(scope) == SCOPE_RANK[scope]

(* The four scopes have ranks from none to three.                          *)
LEMMA Ranks ==
  /\ Scopes = {"worker", "agent", "fleet", "cluster"}
  /\ \A scope \in Scopes : rank(scope) \in 0..3
  /\ rank("worker") = 0 /\ rank("agent") = 1
BY DEF Scopes, SCOPE_RANK, rank

(* The first of some facts.                                                *)
LEMMA FirstIsFact ==
  ASSUME NEW facts \in Facts, facts # <<>>
  PROVE  facts[1] \in SharedMemoryFact /\ Len(facts) \in Nat /\ Len(facts) # 0
<1>1. Len(facts) \in Nat /\ Len(facts) # 0 /\ 1 \in 1..Len(facts)
  BY DEF Facts
<1> QED
  BY <1>1 DEF Facts

(* A fact put in the place of the first leaves facts.                      *)
LEMMA FirstReplaced ==
  ASSUME NEW facts \in Facts, facts # <<>>, NEW f \in SharedMemoryFact
  PROVE  /\ [facts EXCEPT ![1] = f] \in Facts /\ [facts EXCEPT ![1] = f][1] = f
         /\ Len([facts EXCEPT ![1] = f]) = Len(facts) /\ facts[1] \in SharedMemoryFact
<1>1. Len(facts) \in Nat /\ Len(facts) # 0 /\ 1 \in 1..Len(facts)
  BY DEF Facts
<1> QED
  BY <1>1, ExceptSeq DEF Facts

(* The first fact of a name is promoted.                                   *)
LEMMA Promoted ==
  ASSUME NEW m \in Memory, NEW id \in FactIds, NEW scope \in Scopes, m[id] # <<>>
  PROVE  /\ promote(m, id, scope) \in Memory
         /\ Len(promote(m, id, scope)[id]) = Len(m[id])
         /\ find(promote(m, id, scope), id) = [find(m, id) EXCEPT !.scope = scope]
         /\ find(promote(m, id, scope), id) \in SharedMemoryFact
         /\ \A other \in FactIds \ {id} : promote(m, id, scope)[other] = m[other]
<1> DEFINE f == [m[id][1] EXCEPT !.scope = scope]
<1>1. m[id] \in Facts
  BY DEF Memory, Facts
<1>2. m[id][1] \in SharedMemoryFact
  <2>1. Len(m[id]) \in Nat /\ Len(m[id]) # 0
    BY <1>1 DEF Facts
  <2> QED
    BY <1>1, <2>1 DEF Facts
<1>3. f \in SharedMemoryFact /\ f.scope = scope
  BY <1>2 DEF SharedMemoryFact
<1>4. promote(m, id, scope) = [m EXCEPT ![id] = [m[id] EXCEPT ![1] = f]]
  BY DEF promote
<1> HIDE DEF f
<1>5. /\ [m[id] EXCEPT ![1] = f] \in Facts /\ [m[id] EXCEPT ![1] = f][1] = f
      /\ Len([m[id] EXCEPT ![1] = f]) = Len(m[id])
  BY <1>1, <1>3, FirstReplaced
<1> QED
  BY <1>3, <1>4, <1>5 DEF Memory, Facts, find, f

(* What a promotion may do to the facts of a name: nothing, or widen the   *)
(* scope of the first.                                                     *)
LEMMA PromotionWidens ==
  ASSUME NEW m \in Memory, NEW id \in FactIds, NEW scope \in Scopes
  PROVE  /\ promoteMemoryFact(m, id, scope)[id] \in Facts
         /\ Len(promoteMemoryFact(m, id, scope)[id]) = Len(m[id])
         /\ m[id] # <<>> =>
              rank(find(promoteMemoryFact(m, id, scope), id).scope) >= rank(find(m, id).scope)
<1>1. m[id] \in Facts /\ (m[id] # <<>> => find(m, id) \in SharedMemoryFact)
  BY FirstReplaced DEF Memory, Facts, find
<1>2. CASE mayPromote(m, id, scope)
  <2>1. m[id] # <<>> /\ rank(scope) >= rank(find(m, id).scope)
    BY <1>2 DEF mayPromote, rank
  <2>2. find(promote(m, id, scope), id).scope = scope
    BY <1>1, <2>1, Promoted DEF SharedMemoryFact
  <2> QED
    BY <1>2, <2>1, <2>2, Promoted DEF promoteMemoryFact, Memory, Facts
<1>3. CASE ~mayPromote(m, id, scope)
  <2>1. promoteMemoryFact(m, id, scope) = m
    BY <1>3 DEF promoteMemoryFact
  <2>2. m[id] # <<>> => rank(find(m, id).scope) \in 0..3
    BY <1>1, Ranks DEF SharedMemoryFact
  <2> QED
    BY <1>1, <2>1, <2>2
<1> QED
  BY <1>2, <1>3

(* The facts of destroyed workers, and nothing else, are widened.          *)
LEMMA DestroyedWorkers ==
  ASSUME NEW m \in Memory, NEW destroyed, NEW id \in FactIds
  PROVE  /\ promoteWorkerMemory(m, destroyed) \in Memory
         /\ Len(promoteWorkerMemory(m, destroyed)[id]) = Len(m[id])
         /\ m[id] # <<>> =>
              rank(find(promoteWorkerMemory(m, destroyed), id).scope) >= rank(find(m, id).scope)
<1> DEFINE Held(k) == \E i \in DOMAIN m[k] :
             m[k][i].scope = "worker" /\ m[k][i].worker /\ m[k][i].agent \in destroyed
           p == promoteWorkerMemory(m, destroyed)
           one(k) == promoteMemoryFact(m, k, "agent")[k]
<1>1. p = [k \in FactIds |-> IF Held(k) THEN one(k) ELSE m[k]]
  BY DEF promoteWorkerMemory
<1> HIDE DEF Held, p
<1>2. "agent" \in Scopes
  BY Ranks
<1>3. \A k \in FactIds : m[k] \in Facts /\ one(k) \in Facts
  BY <1>2, PromotionWidens DEF Memory, Facts
<1>4. Len(one(id)) = Len(m[id]) /\ (m[id] # <<>> => rank(one(id)[1].scope) >= rank(find(m, id).scope))
  BY <1>2, PromotionWidens DEF find
<1>5. m[id] # <<>> => rank(find(m, id).scope) \in 0..3
  <2>1. m[id] # <<>> => m[id][1] \in SharedMemoryFact
    BY <1>3, FirstIsFact
  <2> QED
    BY <2>1, Ranks DEF find, SharedMemoryFact
<1> HIDE DEF one
<1>6. p \in Memory
  BY <1>1, <1>3 DEF Memory, Facts
<1>7. CASE Held(id)
  BY <1>1, <1>4, <1>6, <1>7 DEF p, find
<1>8. CASE ~Held(id)
  BY <1>1, <1>5, <1>6, <1>8 DEF p, find
<1> QED
  BY <1>7, <1>8

(* The manifest of a fact, and the fact of a manifest.                     *)
LEMMA ManifestsOfFacts ==
  /\ \A f \in SharedMemoryFact :
       memoryManifestDoc(f) \in Manifest /\ memoryManifestDoc(f).scope = f.scope
       /\ [f EXCEPT !.git = TRUE] \in SharedMemoryFact /\ [f EXCEPT !.git = TRUE].scope = f.scope
       /\ f.scope \in Scopes
  /\ \A doc \in Manifest :
       factFromManifest(doc) \in SharedMemoryFact /\ factFromManifest(doc).scope = doc.scope
BY DEF SharedMemoryFact, Manifest, memoryManifestDoc, factFromManifest

(* A manifest decides the scope of the first fact of its name.             *)
LEMMA Upserted ==
  ASSUME NEW facts \in Facts, NEW f \in SharedMemoryFact
  PROVE  /\ upsertGitFact(facts, f) \in Facts /\ upsertGitFact(facts, f) # <<>>
         /\ upsertGitFact(facts, f)[1].scope = f.scope
         /\ facts # <<>> => Len(upsertGitFact(facts, f)) = Len(facts)
<1>1. CASE facts = <<>>
  <2>1. upsertGitFact(facts, f) = <<f>>
    BY <1>1 DEF upsertGitFact
  <2>2. <<f>> \in Facts /\ <<f>> # <<>> /\ <<f>>[1] = f
    BY DEF Facts
  <2> QED
    BY <1>1, <2>1, <2>2
<1>2. CASE facts # <<>> /\ facts[1].git /\ memoryManifestDoc(facts[1]) = memoryManifestDoc(f)
  <2>1. upsertGitFact(facts, f) = facts
    BY <1>2 DEF upsertGitFact
  <2>2. facts[1] \in SharedMemoryFact
    BY <1>2, FirstReplaced
  <2>3. facts[1].scope = f.scope
    BY <1>2, <2>2, ManifestsOfFacts
  <2> QED
    BY <1>2, <2>1, <2>3
<1>3. CASE facts # <<>> /\ ~(facts[1].git /\ memoryManifestDoc(facts[1]) = memoryManifestDoc(f))
  <2>1. upsertGitFact(facts, f) = [facts EXCEPT ![1] = f]
    BY <1>3 DEF upsertGitFact
  <2>2. Len(facts) # 0 /\ Len(facts) \in Nat
    BY <1>3 DEF Facts
  <2>3. /\ [facts EXCEPT ![1] = f] \in Facts /\ [facts EXCEPT ![1] = f][1] = f
        /\ Len([facts EXCEPT ![1] = f]) = Len(facts)
    BY <1>3, FirstReplaced
  <2> QED
    BY <2>1, <2>2, <2>3
<1> QED
  BY <1>1, <1>2, <1>3

(* A memory directory is synced name by name.                              *)
LEMMA SyncedFromDir ==
  ASSUME NEW m \in Memory, NEW dir \in Directory, NEW id \in FactIds
  PROVE  /\ syncMemoryFromDir(m, dir) \in Memory
         /\ dir[id] = Absent => syncMemoryFromDir(m, dir)[id] = m[id]
         /\ dir[id] # Absent =>
              /\ syncMemoryFromDir(m, dir)[id] # <<>>
              /\ find(syncMemoryFromDir(m, dir), id).scope = dir[id].scope
              /\ m[id] # <<>> => Len(syncMemoryFromDir(m, dir)[id]) = Len(m[id])
<1> DEFINE new(k) == upsertGitFact(m[k], factFromManifest(dir[k]))
           q == syncMemoryFromDir(m, dir)
<1>1. q = [k \in FactIds |-> IF dir[k] = Absent THEN m[k] ELSE new(k)]
  BY DEF syncMemoryFromDir
<1>2. ASSUME NEW k \in FactIds, dir[k] # Absent
      PROVE  /\ new(k) \in Facts /\ new(k) # <<>> /\ new(k)[1].scope = dir[k].scope
             /\ m[k] # <<>> => Len(new(k)) = Len(m[k])
  <2>1. dir[k] \in Manifest /\ m[k] \in Facts
    BY <1>2 DEF Directory, Memory, Facts
  <2>2. PICK f \in SharedMemoryFact : f = factFromManifest(dir[k]) /\ f.scope = dir[k].scope
    BY <2>1, ManifestsOfFacts
  <2> QED
    BY <2>1, <2>2, Upserted
<1> HIDE DEF new, q
<1>3. q \in Memory
  BY <1>1, <1>2 DEF Memory, Facts
<1>4. q[id] = IF dir[id] = Absent THEN m[id] ELSE new(id)
  BY <1>1
<1> QED
  BY <1>2, <1>3, <1>4 DEF q, find

(* A run leaves a fact behind the others of its name.                      *)
LEMMA Remembered ==
  ASSUME NEW m \in Memory, NEW t \in Tasks
  PROVE  /\ remember(m, t) \in Memory /\ t \in FactIds
         /\ Len(remember(m, t)[t]) = Len(m[t]) + 1
         /\ Last(remember(m, t)[t]) \in SharedMemoryFact
         /\ \A id \in FactIds \ {t} : remember(m, t)[id] = m[id]
<1> DEFINE a == AgentOf[t]
           f == [agent |-> a, scope |-> rememberScope(a), fleet |-> a \in Fleet,
                 worker |-> TRUE, git |-> FALSE]
<1>1. t \in FactIds /\ a \in Agents /\ WriteScope[a] \in Scopes
  BY MemoryAssumption DEF FactIds
<1>2. rememberScope(a) \in Scopes
  BY <1>1, Ranks DEF rememberScope
<1>3. f \in SharedMemoryFact
  BY <1>1, <1>2 DEF SharedMemoryFact
<1>4. remember(m, t) = [m EXCEPT ![t] = Append(m[t], f)]
  BY DEF remember
<1> HIDE DEF f
<1>5. m[t] \in Facts
  BY <1>1 DEF Memory, Facts
<1>6. Append(m[t], f) \in Facts /\ Len(Append(m[t], f)) = Len(m[t]) + 1 /\ Last(Append(m[t], f)) = f
  BY <1>3, <1>5 DEF Facts, Last
<1> QED
  BY <1>1, <1>3, <1>4, <1>6 DEF Memory, Facts

----------------------------------------------------------------------------
(* What every command keeps of the state.                                  *)

Grants == [FactIds -> 0..3]

(* A fact alone under its name has the scope it was granted, and so has    *)
(* its manifest.                                                           *)
Standing(s, g) ==
  \A id \in FactIds :
    /\ g[id] > 0 => s.memory[id] # <<>>
    /\ Len(s.memory[id]) = 1 =>
         /\ rank(find(s.memory, id).scope) >= g[id]
         /\ s.files[id] # Absent => rank(s.files[id].scope) >= g[id]

(* The versions of a skill that an agent may load.                         *)
Loadable(registry, skill, a) ==
  {v \in DOMAIN registry[skill] :
     registry[skill][v].originAgent = a \/ a \in registry[skill][v].sharedWith}

Grows(r, q) == \A skill \in Skills, a \in Agents : Loadable(r, skill, a) \subseteq Loadable(q, skill, a)

(* One state after another, whatever was granted.                          *)
Follows(s, x) ==
  /\ ClusterType(x)
  /\ Grows(s.registry, x.registry)
  /\ \A g \in Grants : Standing(s, g) => Standing(x, g)

SameFleet(s, x) == x.desired = s.desired /\ x.repos = s.repos

(* Commands follow one another.                                            *)
LEMMA FollowsOn ==
  ASSUME NEW s, NEW x, NEW y, Follows(s, x), Follows(x, y)
  PROVE  Follows(s, y)
BY DEF Follows, Grows

(* A state follows itself.                                                 *)
LEMMA FollowsItself ==
  ASSUME NEW s, ClusterType(s)
  PROVE  Follows(s, s) /\ SameFleet(s, s)
BY DEF Follows, Grows, SameFleet

(* What leaves memory, manifests and skills alone keeps them.              *)
LEMMA SameMind ==
  ASSUME NEW s, NEW x, ClusterType(x),
         x.memory = s.memory, x.files = s.files, x.registry = s.registry
  PROVE  Follows(s, x)
BY DEF Follows, Grows, Standing

(* The cap leaves agents of the manifests read, and all of them if no      *)
(* policy has one.                                                         *)
LEMMA Capped ==
  ASSUME NEW read
  PROVE  /\ applyReplicaCap(read) \subseteq UNION {x.tree.agents : x \in read}
         /\ collectPolicies(read) = {} => applyReplicaCap(read) = UNION {x.tree.agents : x \in read}
<1> DEFINE defs == expandDesired(read)
           taken(d) == MapThenSumSet(LAMBDA e : Requested[e[2]], {e \in defs : expandsBefore(e, d)})
           beyond(cap) == {d \in defs : taken(d) >= cap}
           gone == UNION {beyond(cap) : cap \in collectPolicies(read)}
<1>1. applyReplicaCap(read) = {d[2] : d \in defs \ gone}
  BY DEF applyReplicaCap
<1>2. collectPolicies(read) = {} => gone = {}
  OBVIOUS
<1> HIDE DEF gone
<1>3. defs = UNION {{<<x.at, a>> : a \in x.tree.agents} : x \in read}
  BY DEF expandDesired
<1> HIDE DEF defs
<1>4. {d[2] : d \in defs} = UNION {x.tree.agents : x \in read}
  <2>1. ASSUME NEW d \in defs PROVE d[2] \in UNION {x.tree.agents : x \in read}
    BY <1>3
  <2>2. ASSUME NEW x \in read, NEW a \in x.tree.agents PROVE \E d \in defs : d[2] = a
    <3>1. <<x.at, a>> \in defs /\ <<x.at, a>>[2] = a
      BY <1>3
    <3> QED
      BY <3>1
  <2> QED
    BY <2>1, <2>2
<1> QED
  BY <1>1, <1>2, <1>4

(* A reconcile replaces agents and repositories.                           *)
LEMMA Reconciled ==
  ASSUME NEW s, ClusterType(s), NEW read, \A x \in read : x.tree \in ManifestTree
  PROVE  /\ Follows(s, planReconcile(s, read))
         /\ planReconcile(s, read).desired = applyReplicaCap(read)
         /\ planReconcile(s, read).repos = UNION {x.tree.repos : x \in read}
<1> DEFINE agents == applyReplicaCap(read)
           learning == UNION {x.tree.learning : x \in read}
           repos == UNION {x.tree.repos : x \in read}
           y == [s EXCEPT !.desired = agents, !.learning = agents \cap learning, !.repos = repos]
<1>1. planReconcile(s, read) = y
  BY DEF planReconcile
<1>2. \A x \in read : x.tree.agents \subseteq Agents /\ x.tree.repos \subseteq Repos
  BY DEF ManifestTree
<1>3. agents \subseteq Agents /\ repos \subseteq Repos
  BY <1>2, Capped
<1> HIDE DEF agents, learning, repos
<1>4. /\ ClusterType(y) /\ y.memory = s.memory /\ y.files = s.files /\ y.registry = s.registry
      /\ y.desired = agents /\ y.repos = repos
  BY <1>3 DEF ClusterType
<1> HIDE DEF y
<1> QED
  BY <1>1, <1>4, SameMind DEF agents, repos

(* One manifest alone is all that is read.                                 *)
LEMMA ReadAlone ==
  ASSUME NEW s, ClusterType(s), NEW m \in ManifestTree
  PROVE  /\ Follows(s, planReconcile(s, alone(m)))
         /\ planReconcile(s, alone(m)).desired = applyReplicaCap(alone(m))
         /\ planReconcile(s, alone(m)).repos = m.repos
<1>1. \A x \in alone(m) : x.tree = m
  BY DEF alone
<1>2. UNION {x.tree.repos : x \in alone(m)} = m.repos
  BY DEF alone
<1> QED
  BY <1>1, <1>2, Reconciled

(* Ages change nothing else.                                               *)
LEMMA Aged ==
  ASSUME NEW s, ClusterType(s), NEW age \in [Repos -> 0..Interval]
  PROVE  Follows(s, [s EXCEPT !.age = age]) /\ SameFleet(s, [s EXCEPT !.age = age])
<1> DEFINE x == [s EXCEPT !.age = age]
<1>1. /\ ClusterType(x) /\ x.memory = s.memory /\ x.files = s.files /\ x.registry = s.registry
      /\ x.desired = s.desired /\ x.repos = s.repos
  BY DEF ClusterType
<1> HIDE DEF x
<1> QED
  BY <1>1, SameMind DEF x, SameFleet

(* A change of memory and manifests is one of the state.                   *)
LEMMA Reminded ==
  ASSUME NEW s, ClusterType(s), NEW m \in Memory, NEW files \in Directory,
         \A g \in Grants : Standing(s, g) => Standing([memory |-> m, files |-> files], g)
  PROVE  /\ Follows(s, [s EXCEPT !.memory = m, !.files = files])
         /\ SameFleet(s, [s EXCEPT !.memory = m, !.files = files])
<1> DEFINE x == [s EXCEPT !.memory = m, !.files = files]
<1>1. /\ ClusterType(x) /\ x.memory = m /\ x.files = files /\ x.registry = s.registry
      /\ x.desired = s.desired /\ x.repos = s.repos
  BY DEF ClusterType
<1> HIDE DEF x
<1>2. \A g \in Grants : Standing(s, g) => Standing(x, g)
  BY <1>1 DEF Standing
<1>3. Grows(s.registry, x.registry)
  BY <1>1 DEF Grows
<1> QED
  BY <1>1, <1>2, <1>3 DEF x, Follows, SameFleet

(* A change of memory alone.                                               *)
LEMMA RemindedAlone ==
  ASSUME NEW s, ClusterType(s), NEW m \in Memory,
         \A g \in Grants : Standing(s, g) => Standing([memory |-> m, files |-> s.files], g)
  PROVE  Follows(s, [s EXCEPT !.memory = m]) /\ SameFleet(s, [s EXCEPT !.memory = m])
<1>1. s.files \in Directory /\ [s EXCEPT !.memory = m] = [s EXCEPT !.memory = m, !.files = s.files]
  BY DEF ClusterType
<1> QED
  BY <1>1, Reminded

(* The first fact of a name has a rank, and so has a manifest.             *)
LEMMA RanksInState ==
  ASSUME NEW s, ClusterType(s), NEW id \in FactIds
  PROVE  /\ s.memory[id] \in Facts /\ Len(s.memory[id]) \in Nat
         /\ (s.memory[id] = <<>>) = (Len(s.memory[id]) = 0)
         /\ s.memory[id] # <<>> => /\ find(s.memory, id) \in SharedMemoryFact
                                   /\ rank(find(s.memory, id).scope) \in 0..3
         /\ s.files[id] # Absent => /\ s.files[id] \in Manifest
                                    /\ rank(s.files[id].scope) \in 0..3
<1>1. s.memory \in Memory /\ s.files \in Directory
  BY DEF ClusterType
<1>2. s.memory[id] \in Facts
  BY <1>1 DEF Memory, Facts
<1>3. s.memory[id] # <<>> => find(s.memory, id) \in SharedMemoryFact
  BY <1>2, FirstIsFact DEF find
<1>4. s.files[id] # Absent => s.files[id] \in Manifest
  BY <1>1 DEF Directory
<1>5. \A f \in SharedMemoryFact : rank(f.scope) \in 0..3
  BY Ranks DEF SharedMemoryFact
<1>6. \A doc \in Manifest : rank(doc.scope) \in 0..3
  BY Ranks DEF Manifest
<1>7. Len(s.memory[id]) \in Nat /\ (s.memory[id] = <<>>) = (Len(s.memory[id]) = 0)
  BY <1>2 DEF Facts
<1> QED
  BY <1>2, <1>3, <1>4, <1>5, <1>6, <1>7

(* A fact alone under its name has a rank.                                 *)
LEMMA RankAlone ==
  ASSUME NEW s, ClusterType(s), NEW id \in FactIds
  PROVE  /\ Len(s.memory[id]) = 1 => rank(find(s.memory, id).scope) \in 0..3
         /\ s.files[id] # Absent => rank(s.files[id].scope) \in 0..3
<1>1. s.memory[id] = <<>> => Len(s.memory[id]) = 0
  OBVIOUS
<1>2. Len(s.memory[id]) = 1 => s.memory[id] # <<>>
  BY <1>1
<1> QED
  BY <1>2, RanksInState

(* A sweep of idle workers.                                                *)
LEMMA Swept ==
  ASSUME NEW s, ClusterType(s), NEW destroyed
  PROVE  Follows(s, destroyWorkers(s, destroyed)) /\ SameFleet(s, destroyWorkers(s, destroyed))
<1> DEFINE m == promoteWorkerMemory(s.memory, destroyed)
<1>1. s.memory \in Memory
  BY DEF ClusterType
<1>2. \A id \in FactIds : /\ m \in Memory /\ Len(m[id]) = Len(s.memory[id])
                          /\ s.memory[id] # <<>> => rank(find(m, id).scope) >= rank(find(s.memory, id).scope)
  BY <1>1, DestroyedWorkers
<1>3. m \in Memory
  <2>1. CASE FactIds = {}
    BY <2>1 DEF promoteWorkerMemory, Memory
  <2>2. CASE FactIds # {}
    BY <1>2, <2>2
  <2> QED
    BY <2>1, <2>2
<1>4. destroyWorkers(s, destroyed) = [s EXCEPT !.memory = m]
  BY DEF destroyWorkers
<1> HIDE DEF m
<1>5. ASSUME NEW g \in Grants, Standing(s, g), NEW id \in FactIds
      PROVE  /\ g[id] > 0 => m[id] # <<>>
             /\ Len(m[id]) = 1 => /\ rank(find(m, id).scope) >= g[id]
                                  /\ s.files[id] # Absent => rank(s.files[id].scope) >= g[id]
  <2>1. Len(m[id]) = Len(s.memory[id]) /\ m[id] \in Facts
    BY <1>2, <1>3 DEF Memory, Facts
  <2>2. (m[id] = <<>>) = (s.memory[id] = <<>>)
    BY <2>1, RanksInState DEF Facts
  <2>3. s.memory[id] # <<>> => m[id][1] \in SharedMemoryFact
    BY <2>1, <2>2, FirstIsFact
  <2>4. s.memory[id] # <<>> => rank(find(m, id).scope) \in 0..3
    BY <2>3, Ranks DEF find, SharedMemoryFact
  <2>5. Len(s.memory[id]) = 1 => s.memory[id] # <<>>
    BY RanksInState
  <2>6. g[id] \in 0..3
    BY DEF Grants
  <2>7. Len(m[id]) = 1 => rank(find(m, id).scope) >= g[id]
    BY <1>2, <1>5, <2>1, <2>4, <2>5, <2>6, RanksInState DEF Standing
  <2> QED
    BY <1>5, <2>1, <2>2, <2>7 DEF Standing
<1>6. \A g \in Grants : Standing(s, g) => Standing([memory |-> m, files |-> s.files], g)
  BY <1>5 DEF Standing
<1> QED
  BY <1>3, <1>4, <1>6, RemindedAlone

\* One state is like another but for a fact and its manifest.
SameElsewhere(s, x, id) ==
  \A other \in FactIds \ {id} : x.memory[other] = s.memory[other] /\ x.files[other] = s.files[other]

(* A fact takes the place of the first of its name and its manifest.       *)
LEMMA Exported ==
  ASSUME NEW s, ClusterType(s), NEW id \in FactIds, s.memory[id] # <<>>, NEW f \in SharedMemoryFact
  PROVE  /\ ClusterType(exported(s, id, f)) /\ SameFleet(s, exported(s, id, f))
         /\ exported(s, id, f).registry = s.registry
         /\ find(exported(s, id, f).memory, id).scope = f.scope
         /\ exported(s, id, f).files[id].scope = f.scope
         /\ Len(exported(s, id, f).memory[id]) = Len(s.memory[id])
         /\ SameElsewhere(s, exported(s, id, f), id)
<1> DEFINE k == [f EXCEPT !.git = TRUE]
           m == [s.memory EXCEPT ![id] = [s.memory[id] EXCEPT ![1] = k]]
           files == [s.files EXCEPT ![id] = memoryManifestDoc(f)]
<1>1. k \in SharedMemoryFact /\ k.scope = f.scope /\ memoryManifestDoc(f) \in Manifest
      /\ memoryManifestDoc(f).scope = f.scope
  BY ManifestsOfFacts
<1>2. exported(s, id, f) = [s EXCEPT !.files = files, !.memory = m]
  BY DEF exported, exportMemoryFactToGit
<1>3. s.memory \in Memory /\ s.files \in Directory /\ s.memory[id] \in Facts
  BY DEF ClusterType, Memory, Facts
<1> HIDE DEF k
<1>4. /\ [s.memory[id] EXCEPT ![1] = k] \in Facts /\ [s.memory[id] EXCEPT ![1] = k][1] = k
      /\ Len([s.memory[id] EXCEPT ![1] = k]) = Len(s.memory[id])
  BY <1>1, <1>3, FirstReplaced
<1>5. /\ m \in Memory /\ m[id][1] = k /\ Len(m[id]) = Len(s.memory[id])
      /\ \A other \in FactIds \ {id} : m[other] = s.memory[other]
  BY <1>3, <1>4 DEF Memory, Facts
<1>6. /\ files \in Directory /\ files[id] = memoryManifestDoc(f)
      /\ \A other \in FactIds \ {id} : files[other] = s.files[other]
  BY <1>1, <1>3 DEF Directory
<1> DEFINE x == exported(s, id, f)
<1> HIDE DEF m, files
<1>7. /\ ClusterType(x) /\ x.memory = m /\ x.files = files /\ x.registry = s.registry
      /\ x.desired = s.desired /\ x.repos = s.repos
  BY <1>2, <1>5, <1>6 DEF ClusterType
<1> HIDE DEF x
<1> QED
  BY <1>1, <1>5, <1>6, <1>7 DEF find, SameFleet, SameElsewhere, x

(* The export of many facts: name by name the last of them.                *)
LEMMA ExportedMany ==
  ASSUME NEW s, ClusterType(s), NEW ids, NEW force
  PROVE  Follows(s, exportMemoryFacts(s, ids, force)) /\ SameFleet(s, exportMemoryFacts(s, ids, force))
<1> DEFINE chosen(id) == {i \in DOMAIN s.memory[id] : id \in ids /\ (s.memory[id][i].git => force)}
           last(id) == s.memory[id][Max(chosen(id))]
           files == [id \in FactIds |-> IF chosen(id) = {} THEN s.files[id]
                                        ELSE memoryManifestDoc(last(id))]
           m == [id \in FactIds |-> IF chosen(id) = {} THEN s.memory[id]
                   ELSE [s.memory[id] EXCEPT ![1] = [last(id) EXCEPT !.git = TRUE]]]
<1>1. exportMemoryFacts(s, ids, force) = [s EXCEPT !.memory = m, !.files = files]
  <2>1. exportMemoryFacts(s, ids, force) = [s EXCEPT !.files = files, !.memory = m]
    BY DEF exportMemoryFacts
  <2>2. [s EXCEPT !.files = files, !.memory = m] = [s EXCEPT !.memory = m, !.files = files]
    BY DEF ClusterType
  <2> QED
    BY <2>1, <2>2
<1>2. ASSUME NEW id \in FactIds, chosen(id) # {}
      PROVE  /\ last(id) \in SharedMemoryFact /\ s.memory[id] # <<>>
             /\ Len(s.memory[id]) = 1 => last(id) = find(s.memory, id)
  <2>1. s.memory[id] \in Facts /\ Len(s.memory[id]) \in Nat
    BY RanksInState
  <2>2. chosen(id) \subseteq 0..Len(s.memory[id])
    BY <2>1 DEF Facts
  <2>3. Max(chosen(id)) \in chosen(id)
    BY <1>2, <2>1, <2>2, GreatestIsMax
  <2>4. Max(chosen(id)) \in 1..Len(s.memory[id])
    BY <2>1, <2>3 DEF Facts
  <2> HIDE DEF chosen
  <2> QED
    BY <2>1, <2>4 DEF Facts, find
<1> HIDE DEF chosen, last
<1>3. ASSUME NEW id \in FactIds, chosen(id) # {}
      PROVE  /\ memoryManifestDoc(last(id)) \in Manifest
             /\ memoryManifestDoc(last(id)).scope = last(id).scope
             /\ m[id] \in Facts /\ Len(m[id]) = Len(s.memory[id]) /\ m[id][1].scope = last(id).scope
  <2>1. /\ memoryManifestDoc(last(id)) \in Manifest
        /\ memoryManifestDoc(last(id)).scope = last(id).scope
        /\ [last(id) EXCEPT !.git = TRUE] \in SharedMemoryFact
        /\ [last(id) EXCEPT !.git = TRUE].scope = last(id).scope
    BY <1>2, <1>3, ManifestsOfFacts
  <2>2. s.memory[id] \in Facts /\ s.memory[id] # <<>>
    BY <1>2, <1>3, RanksInState
  <2>3. m[id] = [s.memory[id] EXCEPT ![1] = [last(id) EXCEPT !.git = TRUE]]
    BY <1>3
  <2>4. PICK k \in SharedMemoryFact : k = [last(id) EXCEPT !.git = TRUE] /\ k.scope = last(id).scope
    BY <2>1
  <2>5. m[id] = [s.memory[id] EXCEPT ![1] = k]
    BY <2>3, <2>4
  <2>6. /\ [s.memory[id] EXCEPT ![1] = k] \in Facts /\ [s.memory[id] EXCEPT ![1] = k][1] = k
        /\ Len([s.memory[id] EXCEPT ![1] = k]) = Len(s.memory[id])
    BY <2>2, FirstReplaced
  <2> HIDE DEF m
  <2> QED
    BY <2>1, <2>4, <2>5, <2>6
<1>4. \A id \in FactIds : chosen(id) = {} => m[id] = s.memory[id] /\ files[id] = s.files[id]
  OBVIOUS
<1>5. \A id \in FactIds : chosen(id) # {} => files[id] = memoryManifestDoc(last(id))
  OBVIOUS
<1>6. m \in Memory
  <2>1. m = [id \in FactIds |-> m[id]]
    OBVIOUS
  <2> HIDE DEF m
  <2>2. \A id \in FactIds : m[id] \in Facts
    BY <1>3, <1>4, RanksInState
  <2> QED
    BY <2>1, <2>2 DEF Memory, Facts
<1>7. files \in Directory
  <2>1. files = [id \in FactIds |-> files[id]]
    OBVIOUS
  <2> HIDE DEF files
  <2>2. \A id \in FactIds : files[id] \in Manifest \cup {Absent}
    BY <1>3, <1>4, <1>5 DEF ClusterType, Directory
  <2> QED
    BY <2>1, <2>2 DEF Directory
<1> HIDE DEF m, files
<1>8. ASSUME NEW g \in Grants, Standing(s, g), NEW id \in FactIds
      PROVE  /\ g[id] > 0 => m[id] # <<>>
             /\ Len(m[id]) = 1 => /\ rank(find(m, id).scope) >= g[id]
                                  /\ files[id] # Absent => rank(files[id].scope) >= g[id]
  <2>1. CASE chosen(id) = {}
    BY <1>4, <1>8, <2>1 DEF Standing, find
  <2>2. CASE chosen(id) # {}
    <3>1. Len(m[id]) = Len(s.memory[id]) /\ m[id] \in Facts /\ s.memory[id] # <<>>
      BY <1>2, <1>3, <2>2
    <3>2. m[id] # <<>>
      BY <3>1, RanksInState DEF Facts
    <3>3. find(m, id).scope = last(id).scope /\ files[id].scope = last(id).scope
      BY <1>3, <1>5, <2>2 DEF find
    <3>4. Len(s.memory[id]) = 1 => rank(last(id).scope) >= g[id]
      BY <1>2, <1>8, <2>2 DEF Standing
    <3> QED
      BY <3>1, <3>2, <3>3, <3>4
  <2> QED
    BY <2>1, <2>2
<1>9. \A g \in Grants : Standing(s, g) => Standing([memory |-> m, files |-> files], g)
  BY <1>8 DEF Standing
<1>10. /\ Follows(s, [s EXCEPT !.memory = m, !.files = files])
       /\ SameFleet(s, [s EXCEPT !.memory = m, !.files = files])
  BY <1>6, <1>7, <1>9, Reminded
<1> QED
  BY <1>1, <1>10

(* A sync of the memory directory of the workspace.                        *)
LEMMA SyncedHere ==
  ASSUME NEW s, ClusterType(s)
  PROVE  /\ Follows(s, [s EXCEPT !.memory = syncMemoryFromDir(s.memory, s.files)])
         /\ SameFleet(s, [s EXCEPT !.memory = syncMemoryFromDir(s.memory, s.files)])
<1> DEFINE m == syncMemoryFromDir(s.memory, s.files)
<1>1. s.memory \in Memory /\ s.files \in Directory
  BY DEF ClusterType
<1>2. \A id \in FactIds :
         /\ m \in Memory
         /\ s.files[id] = Absent => m[id] = s.memory[id]
         /\ s.files[id] # Absent =>
              /\ m[id] # <<>> /\ find(m, id).scope = s.files[id].scope
              /\ s.memory[id] # <<>> => Len(m[id]) = Len(s.memory[id])
  BY <1>1, SyncedFromDir
<1>3. m \in Memory
  <2>1. CASE FactIds = {}
    BY <2>1 DEF syncMemoryFromDir, Memory
  <2>2. CASE FactIds # {}
    BY <1>2, <2>2
  <2> QED
    BY <2>1, <2>2
<1> HIDE DEF m
<1>4. ASSUME NEW g \in Grants, Standing(s, g), NEW id \in FactIds
      PROVE  /\ g[id] > 0 => m[id] # <<>>
             /\ Len(m[id]) = 1 => /\ rank(find(m, id).scope) >= g[id]
                                  /\ s.files[id] # Absent => rank(s.files[id].scope) >= g[id]
  <2>1. CASE s.files[id] = Absent
    BY <1>2, <1>4, <2>1 DEF Standing, find
  <2>2. CASE s.files[id] # Absent
    <3>1. g[id] \in 0..3 /\ rank(s.files[id].scope) \in 0..3
      BY <2>2, RanksInState DEF Grants
    <3>2. CASE s.memory[id] = <<>>
      <4>1. ~(g[id] > 0)
        BY <1>4, <3>2 DEF Standing
      <4> QED
        BY <1>2, <2>2, <3>1, <4>1
    <3>3. CASE s.memory[id] # <<>>
      BY <1>2, <1>4, <2>2, <3>3 DEF Standing
    <3> QED
      BY <3>2, <3>3
  <2> QED
    BY <2>1, <2>2
<1>5. \A g \in Grants : Standing(s, g) => Standing([memory |-> m, files |-> s.files], g)
  BY <1>4 DEF Standing
<1> QED
  BY <1>3, <1>5, RemindedAlone DEF m

----------------------------------------------------------------------------
(* Skills.                                                                 *)

(* A new version is loaded beside the old ones.                            *)
LEMMA Registered ==
  ASSUME NEW r \in Registry, NEW skill \in Skills, NEW a \in Agents
  PROVE  registerSkill(r, skill, a) \in Registry /\ Grows(r, registerSkill(r, skill, a))
<1> DEFINE rec == [originAgent |-> a, sharedWith |-> {}]
           q == registerSkill(r, skill, a)
<1>1. rec \in SkillRecord
  BY DEF SkillRecord
<1>2. q = [r EXCEPT ![skill] = Append(r[skill], rec)]
  BY DEF registerSkill
<1> HIDE DEF rec, q
<1>3. r[skill] \in Seq(SkillRecord)
  BY DEF Registry
<1>4. /\ Append(r[skill], rec) \in Seq(SkillRecord)
      /\ DOMAIN r[skill] \subseteq DOMAIN Append(r[skill], rec)
      /\ \A v \in DOMAIN r[skill] : Append(r[skill], rec)[v] = r[skill][v]
  BY <1>1, <1>3
<1>5. q \in Registry
  BY <1>2, <1>4 DEF Registry
<1>6. ASSUME NEW k \in Skills, NEW b \in Agents
      PROVE  Loadable(r, k, b) \subseteq Loadable(q, k, b)
  <2>1. CASE k = skill
    <3>1. q[k] = Append(r[k], rec)
      BY <1>2, <2>1 DEF Registry
    <3> QED
      BY <1>4, <2>1, <3>1 DEF Loadable
  <2>2. CASE k # skill
    BY <1>2, <2>2 DEF Loadable, Registry
  <2> QED
    BY <2>1, <2>2
<1> QED
  BY <1>5, <1>6 DEF Grows, q

(* A version that is shared with more agents stays with those it was       *)
(* shared with.                                                            *)
LEMMA SharedWithMore ==
  ASSUME NEW r \in Registry, NEW skill \in Skills, r[skill] # <<>>, NEW more, more \subseteq Agents,
         NEW v, v = latestSkill(r, skill),
         NEW q, q = [r EXCEPT ![skill][v].sharedWith = @ \cup more]
  PROVE  q \in Registry /\ Grows(r, q)
<1> DEFINE rec == [r[skill][v] EXCEPT !.sharedWith = r[skill][v].sharedWith \cup more]
<1>1. r[skill] \in Seq(SkillRecord)
  BY DEF Registry
<1>2. v \in 1..Len(r[skill]) /\ r[skill][v] \in SkillRecord
  <2>1. Len(r[skill]) \in Nat /\ Len(r[skill]) # 0
    BY <1>1
  <2> QED
    BY <1>1, <2>1 DEF latestSkill
<1>3. /\ rec \in SkillRecord /\ rec.originAgent = r[skill][v].originAgent
      /\ r[skill][v].sharedWith \subseteq rec.sharedWith
  BY <1>2 DEF SkillRecord
<1>4. q = [r EXCEPT ![skill] = [r[skill] EXCEPT ![v] = rec]]
  OBVIOUS
<1> HIDE DEF rec
<1>5. /\ [r[skill] EXCEPT ![v] = rec] \in Seq(SkillRecord)
      /\ Len([r[skill] EXCEPT ![v] = rec]) = Len(r[skill])
      /\ \A j \in 1..Len(r[skill]) : [r[skill] EXCEPT ![v] = rec][j] = IF j = v THEN rec ELSE r[skill][j]
  BY <1>1, <1>2, <1>3, ExceptSeq
<1>6. q \in Registry /\ q[skill] = [r[skill] EXCEPT ![v] = rec]
  BY <1>4, <1>5 DEF Registry
<1>7. ASSUME NEW k \in Skills, NEW b \in Agents
      PROVE  Loadable(r, k, b) \subseteq Loadable(q, k, b)
  <2>1. CASE k = skill
    <3>1. DOMAIN q[skill] = 1..Len(r[skill]) /\ DOMAIN r[skill] = 1..Len(r[skill])
      BY <1>1, <1>5, <1>6
    <3>2. \A j \in 1..Len(r[skill]) : /\ q[skill][j].originAgent = r[skill][j].originAgent
                                      /\ r[skill][j].sharedWith \subseteq q[skill][j].sharedWith
      BY <1>3, <1>5, <1>6
    <3> QED
      BY <2>1, <3>1, <3>2 DEF Loadable
  <2>2. CASE k # skill
    BY <1>4, <2>2 DEF Loadable, Registry
  <2> QED
    BY <2>1, <2>2
<1> QED
  BY <1>6, <1>7 DEF Grows

(* Nothing that is loaded goes: no agent gets an older version.            *)
LEMMA GrowsNewer ==
  ASSUME NEW r \in Registry, NEW q \in Registry, Grows(r, q), NEW skill \in Skills, NEW a \in Agents
  PROVE  skillForAgent(q, skill, a) >= skillForAgent(r, skill, a)
<1>1. r[skill] \in Seq(SkillRecord) /\ q[skill] \in Seq(SkillRecord)
  BY DEF Registry
<1>2. PICK n \in Nat : n = Len(r[skill])
  BY <1>1
<1>3. PICK k \in Nat : k = Len(q[skill])
  BY <1>1
<1>4. Loadable(r, skill, a) \subseteq 1..n /\ Loadable(q, skill, a) \subseteq 1..k
  BY <1>1, <1>2, <1>3 DEF Loadable
<1>5. PICK A : A = {0} \cup Loadable(r, skill, a)
  OBVIOUS
<1>6. PICK B : B = {0} \cup Loadable(q, skill, a)
  OBVIOUS
<1>7. A \subseteq 0..n /\ A # {} /\ B \subseteq 0..k /\ B # {} /\ A \subseteq B
  BY <1>4, <1>5, <1>6 DEF Grows
<1>8. Max(A) \in A
  BY <1>7, GreatestIsMax
<1>9. Max(B) \in B /\ \A y \in B : y <= Max(B)
  BY <1>7, GreatestIsMax
<1>10. Max(A) \in 0..n /\ Max(B) \in 0..k /\ Max(A) \in B
  BY <1>7, <1>8, <1>9
<1> DEFINE old == Max(A)
           new == Max(B)
<1>11. old <= new
  BY <1>9, <1>10
<1> HIDE DEF old, new
<1>12. new >= old
  BY <1>10, <1>11 DEF old, new
<1>13. skillForAgent(r, skill, a) = Max(A) /\ skillForAgent(q, skill, a) = Max(B)
  BY <1>5, <1>6 DEF skillForAgent, Loadable
<1> QED
  BY <1>13, <1>12 DEF old, new

(* A registry that grows is a change of the state.                         *)
LEMMA Skilled ==
  ASSUME NEW s, NEW x, ClusterType(x), x.memory = s.memory, x.files = s.files,
         Grows(s.registry, x.registry)
  PROVE  Follows(s, x)
BY DEF Follows, Standing

(* A registry put in place of another.                                     *)
LEMMA RegistryReplaced ==
  ASSUME NEW s, ClusterType(s), NEW q \in Registry, Grows(s.registry, q)
  PROVE  Follows(s, [s EXCEPT !.registry = q]) /\ SameFleet(s, [s EXCEPT !.registry = q])
<1> DEFINE x == [s EXCEPT !.registry = q]
<1>1. /\ ClusterType(x) /\ x.memory = s.memory /\ x.files = s.files /\ x.registry = q
      /\ x.desired = s.desired /\ x.repos = s.repos
  BY DEF ClusterType
<1> HIDE DEF x
<1> QED
  BY <1>1, Skilled DEF x, SameFleet

(* What an agent learns is a version more.                                 *)
LEMMA Taught ==
  ASSUME NEW s, ClusterType(s), NEW t \in Tasks
  PROVE  Follows(s, learn(s, t)) /\ SameFleet(s, learn(s, t))
<1> DEFINE q == registerSkill(s.registry, SkillOf[t], AgentOf[t])
           x == learn(s, t)
<1>1. AgentOf[t] \in Agents /\ SkillOf[t] \in Skills /\ s.registry \in Registry
  BY MemoryAssumption DEF Skills, ClusterType
<1>2. q \in Registry /\ Grows(s.registry, q)
  BY <1>1, Registered
<1>3. x = [s EXCEPT !.learned = s.learned \cup {<<AgentOf[t], SkillOf[t]>>}, !.registry = q]
  BY DEF learn
<1> HIDE DEF q, x
<1>4. PICK known : known = s.learned \cup {<<AgentOf[t], SkillOf[t]>>}
  OBVIOUS
<1>5. known \subseteq Agents \X Skills /\ x = [s EXCEPT !.learned = known, !.registry = q]
  BY <1>1, <1>3, <1>4 DEF ClusterType
<1>6. /\ ClusterType(x) /\ x.memory = s.memory /\ x.files = s.files /\ x.registry = q
      /\ x.desired = s.desired /\ x.repos = s.repos
  BY <1>2, <1>5 DEF ClusterType
<1> QED
  BY <1>2, <1>6, Skilled DEF x, SameFleet

----------------------------------------------------------------------------
(* The end of a run.                                                       *)

(* The list of trajectories is capped.                                     *)
LEMMA Recorded ==
  ASSUME NEW s, ClusterType(s), NEW t \in Tasks, NEW long \in BOOLEAN
  PROVE  Follows(s, recordTrajectory(s, t, long)) /\ SameFleet(s, recordTrajectory(s, t, long))
<1> DEFINE all == Append(s.trajectories, [task |-> t, long |-> long])
           first == Max({1, Len(all) - TrajectoryCap + 1})
           kept == SubSeq(all, first, Len(all))
           x == recordTrajectory(s, t, long)
<1>1. s.trajectories \in Seq(TrajectoryRecord) /\ TrajectoryCap \in Nat \ {0}
  BY MemoryAssumption DEF ClusterType
<1>2. [task |-> t, long |-> long] \in TrajectoryRecord
  BY DEF TrajectoryRecord
<1>3. all \in Seq(TrajectoryRecord) /\ Len(all) \in Nat
  BY <1>1, <1>2
<1> HIDE DEF all
<1>4. first \in Nat \ {0} /\ first >= Len(all) - TrajectoryCap + 1
  BY <1>1, <1>3, MaxOfTwo
<1> HIDE DEF first
<1>5. kept \in Seq(TrajectoryRecord)
  BY <1>3, <1>4
<1>6. Len(kept) <= TrajectoryCap
  BY <1>1, <1>3, <1>4
<1>7. x = [s EXCEPT !.trajectories = kept]
  BY DEF recordTrajectory, all, first
<1> HIDE DEF kept, x
<1>8. /\ ClusterType(x) /\ x.memory = s.memory /\ x.files = s.files /\ x.registry = s.registry
      /\ x.desired = s.desired /\ x.repos = s.repos
  BY <1>5, <1>6, <1>7 DEF ClusterType
<1> QED
  BY <1>8, SameMind DEF x, SameFleet

(* What a run remembers is a fact more, exported or not: beside others of  *)
(* its name, or alone under a name that nothing was granted to.            *)
LEMMA Remembering ==
  ASSUME NEW s, ClusterType(s), NEW t \in Tasks,
         NEW knows, knows = [s EXCEPT !.memory = remember(s.memory, t)],
         NEW kept, kept = exported(knows, t, Last(knows.memory[t]))
  PROVE  /\ Follows(s, knows) /\ SameFleet(s, knows)
         /\ Follows(s, kept) /\ SameFleet(s, kept)
<1> DEFINE m == remember(s.memory, t)
<1>1. s.memory \in Memory
  BY DEF ClusterType
<1>2. /\ m \in Memory /\ t \in FactIds /\ Len(m[t]) = Len(s.memory[t]) + 1
      /\ Last(m[t]) \in SharedMemoryFact /\ \A id \in FactIds \ {t} : m[id] = s.memory[id]
  BY <1>1, Remembered
<1> HIDE DEF m
<1>3. m[t] \in Facts /\ Len(m[t]) \in Nat /\ m[t] # <<>> /\ Len(s.memory[t]) \in Nat
  <2>1. Len(s.memory[t]) \in Nat
    BY <1>2, RanksInState
  <2>2. m[t] \in Facts
    BY <1>2 DEF Memory, Facts
  <2> QED
    BY <1>2, <2>1, <2>2 DEF Facts
<1>4. ASSUME NEW g \in Grants, Standing(s, g), Len(m[t]) = 1
      PROVE  g[t] = 0
  <2> DEFINE n == Len(s.memory[t])
  <2>1. n \in Nat /\ n + 1 = 1
    BY <1>2, <1>3, <1>4
  <2> HIDE DEF n
  <2>2. Len(s.memory[t]) = 0
    BY <2>1 DEF n
  <2>3. s.memory[t] = <<>>
    BY <1>2, <2>2, RanksInState
  <2> QED
    BY <1>2, <1>4, <2>3 DEF Standing, Grants
<1>5. ClusterType(knows) /\ knows = [s EXCEPT !.memory = m] /\ knows.memory = m /\ knows.files = s.files
  BY <1>2 DEF ClusterType, m
<1>6. ASSUME NEW x, ClusterType(x), Len(x.memory[t]) = Len(m[t]),
             \A id \in FactIds \ {t} : x.memory[id] = m[id] /\ x.files[id] = s.files[id],
             NEW g \in Grants, Standing(s, g), NEW id \in FactIds
      PROVE  /\ g[id] > 0 => x.memory[id] # <<>>
             /\ Len(x.memory[id]) = 1 => /\ rank(find(x.memory, id).scope) >= g[id]
                                         /\ x.files[id] # Absent => rank(x.files[id].scope) >= g[id]
  <2>1. CASE id = t
    <3>1. x.memory[t] # <<>>
      BY <1>2, <1>3, <1>6, RanksInState
    <3>2. Len(x.memory[t]) = 1 => g[t] = 0
      BY <1>4, <1>6
    <3>3. /\ rank(find(x.memory, t).scope) \in 0..3
          /\ x.files[t] # Absent => rank(x.files[t].scope) \in 0..3
      BY <1>2, <1>6, <3>1, RanksInState
    <3> QED
      BY <2>1, <3>1, <3>2, <3>3
  <2>2. CASE id # t
    BY <1>2, <1>6, <2>2 DEF Standing, find
  <2> QED
    BY <2>1, <2>2
<1>7. \A g \in Grants : Standing(s, g) => Standing(knows, g)
  <2>1. \A id \in FactIds \ {t} : knows.memory[id] = m[id] /\ knows.files[id] = s.files[id]
    BY <1>5
  <2> QED
    BY <1>5, <1>6, <2>1 DEF Standing
<1>8. Follows(s, knows) /\ SameFleet(s, knows)
  BY <1>5, <1>7 DEF Follows, Grows, SameFleet
<1>9. PICK f \in SharedMemoryFact : f = Last(knows.memory[t])
  BY <1>2, <1>5
<1>10. kept = exported(knows, t, f) /\ knows.memory[t] # <<>>
  BY <1>3, <1>5, <1>9
<1> DEFINE e == exported(knows, t, f)
<1>11. /\ ClusterType(e) /\ SameFleet(knows, e) /\ e.registry = knows.registry
       /\ Len(e.memory[t]) = Len(knows.memory[t]) /\ SameElsewhere(knows, e, t)
  <2>1. ClusterType(knows) /\ t \in FactIds /\ knows.memory[t] # <<>>
    BY <1>2, <1>5, <1>10
  <2>2. ClusterType(e)
    BY <2>1, Exported
  <2>3. SameFleet(knows, e)
    BY <2>1, Exported
  <2>4. e.registry = knows.registry
    BY <2>1, Exported
  <2>5. Len(e.memory[t]) = Len(knows.memory[t])
    BY <2>1, Exported
  <2>6. SameElsewhere(knows, e, t)
    BY <2>1, Exported
  <2> HIDE DEF e
  <2> QED
    BY <2>2, <2>3, <2>4, <2>5, <2>6
<1> HIDE DEF e
<1>12. /\ ClusterType(kept) /\ SameFleet(knows, kept) /\ kept.registry = knows.registry
       /\ Len(kept.memory[t]) = Len(m[t])
       /\ \A id \in FactIds \ {t} : kept.memory[id] = m[id] /\ kept.files[id] = s.files[id]
  BY <1>5, <1>10, <1>11 DEF e, SameElsewhere
<1>13. \A g \in Grants : Standing(s, g) => Standing(kept, g)
  BY <1>6, <1>12 DEF Standing
<1>14. knows.registry = s.registry /\ knows.desired = s.desired /\ knows.repos = s.repos
  BY <1>5
<1>15. Follows(s, kept) /\ SameFleet(s, kept)
  BY <1>12, <1>13, <1>14 DEF Follows, Grows, SameFleet
<1> QED
  BY <1>8, <1>15

(* The end of a run, however far it gets.                                  *)
LEMMA RunEnded ==
  ASSUME NEW s, ClusterType(s), NEW t \in Tasks, NEW long \in BOOLEAN, NEW written \in BOOLEAN
  PROVE  Follows(s, runEnds(s, t, long, written)) /\ SameFleet(s, runEnds(s, t, long, written))
<1> DEFINE a == AgentOf[t]
           new == skillForAgent(s.registry, SkillOf[t], a) = 0
           taught == IF new /\ learns(s, t, long \/ t \in EventTasks) THEN learn(s, t) ELSE s
           knows == [taught EXCEPT !.memory = remember(taught.memory, t)]
           sent == exported(knows, t, Last(knows.memory[t]))
           kept == IF a \in Exporting THEN sent ELSE knows
           over == [kept EXCEPT !.pending = kept.pending \ {t}]
           x == runEnds(s, t, long, written)
<1>1. x = IF ~canWrite(rememberScope(a), memoryContextFor(a)) THEN taught
          ELSE IF a \in Exporting /\ ~written THEN knows
          ELSE recordTrajectory(over, t, long)
  BY DEF runEnds
<1>2. Follows(s, taught) /\ SameFleet(s, taught)
  BY Taught, FollowsItself
<1> HIDE DEF taught, x
<1>3. ClusterType(taught)
  BY <1>2 DEF Follows
<1>4. /\ Follows(taught, knows) /\ SameFleet(taught, knows)
      /\ Follows(taught, sent) /\ SameFleet(taught, sent)
  BY <1>3, Remembering
<1> HIDE DEF knows, sent
<1>5. Follows(taught, kept) /\ SameFleet(taught, kept)
  BY <1>4
<1> HIDE DEF kept
<1>6. ClusterType(kept)
  BY <1>5 DEF Follows
<1>7. /\ ClusterType(over) /\ over.memory = kept.memory /\ over.files = kept.files
      /\ over.registry = kept.registry /\ over.desired = kept.desired /\ over.repos = kept.repos
  BY <1>6 DEF ClusterType
<1> HIDE DEF over
<1>8. Follows(kept, over) /\ SameFleet(kept, over)
  BY <1>7, SameMind DEF SameFleet
<1>9. Follows(over, recordTrajectory(over, t, long)) /\ SameFleet(over, recordTrajectory(over, t, long))
  BY <1>7, Recorded
<1>10. CASE x = taught
  BY <1>2, <1>10 DEF x
<1>11. CASE x = knows
  BY <1>2, <1>4, <1>11, FollowsOn DEF x, SameFleet
<1>12. CASE x = recordTrajectory(over, t, long)
  <2>1. Follows(s, kept) /\ SameFleet(s, kept)
    BY <1>2, <1>5, FollowsOn DEF SameFleet
  <2>2. Follows(s, over) /\ SameFleet(s, over)
    BY <1>8, <2>1, FollowsOn DEF SameFleet
  <2> QED
    BY <1>9, <1>12, <2>2, FollowsOn DEF x, SameFleet
<1> QED
  BY <1>1, <1>10, <1>11, <1>12

(* What is learned again from a trajectory.                                *)
LEMMA LearnedAgain ==
  ASSUME NEW s, ClusterType(s), NEW traj \in TrajectoryRecord
  PROVE  Follows(s, learnFromTrajectory(s, traj)) /\ SameFleet(s, learnFromTrajectory(s, traj))
<1>1. traj.task \in Tasks
  BY DEF TrajectoryRecord
<1> QED
  BY <1>1, Taught, FollowsItself DEF learnFromTrajectory

----------------------------------------------------------------------------
(* Repositories.                                                           *)

Content == ManifestTree \cup {Broken, Absent}
Checkouts == [Places -> Content]

(* A repository is read at a place.                                        *)
LEMMA PlaceOfRepo ==
  ASSUME NEW tr, NEW r \in Repos
  PROVE  resolveRepoLocalPath(tr, r) \in Places
BY DEF resolveRepoLocalPath, Places

(* Of the repositories with one path the first is read: every tree that    *)
(* can be read is.                                                         *)
LEMMA SyncReadsAll ==
  ASSUME NEW tr, NEW repos, repos \subseteq Repos
  PROVE  readManifestTree(tr, collectMultiRepoManifests(tr, repos)) =
           readManifestTree(tr, readable(tr, repos))
<1> DEFINE path(r) == resolveRepoLocalPath(tr, r)
           collected == collectMultiRepoManifests(tr, repos)
<1>1. collected \subseteq readable(tr, repos)
  BY DEF collectMultiRepoManifests
<1>2. \A q \in readable(tr, repos) :
        q \notin collected =>
          \E i, j \in DOMAIN RepoOrder :
             i < j /\ RepoOrder[j] = q /\ RepoOrder[i] \in repos /\ path(RepoOrder[i]) = path(q)
  BY DEF collectMultiRepoManifests
<1>3. \A q : q \in readable(tr, repos) <=> q \in repos /\ tr[path(q)] # Absent
  BY DEF readable
<1>4. readManifestTree(tr, collected) = {tr[path(r)] : r \in collected}
  BY DEF readManifestTree
<1>5. readManifestTree(tr, readable(tr, repos)) = {tr[path(r)] : r \in readable(tr, repos)}
  BY DEF readManifestTree
<1> HIDE DEF path, collected
<1>6. ASSUME NEW r \in readable(tr, repos)
      PROVE  \E q \in collected : path(q) = path(r)
  <2> DEFINE T == {i \in DOMAIN RepoOrder : RepoOrder[i] \in repos /\ path(RepoOrder[i]) = path(r)}
  <2>1. PICK k \in DOMAIN RepoOrder : RepoOrder[k] = r
    BY <1>3, ControlAssumption DEF ToSet
  <2>2. k \in T /\ T \subseteq Nat
    BY <1>3, <2>1, ControlAssumption
  <2>3. PICK i \in T : \A j \in T : i <= j
    BY <2>2, LeastNatural
  <2>4. RepoOrder[i] \in readable(tr, repos) /\ path(RepoOrder[i]) = path(r) /\ i \in DOMAIN RepoOrder
    BY <1>3, <2>3
  <2>5. ASSUME RepoOrder[i] \notin collected PROVE FALSE
    <3>1. PICK h, j \in DOMAIN RepoOrder :
             /\ h < j /\ RepoOrder[j] = RepoOrder[i] /\ RepoOrder[h] \in repos
             /\ path(RepoOrder[h]) = path(RepoOrder[i])
      BY <1>2, <2>4, <2>5
    <3>2. j = i
      BY <2>4, <3>1, ControlAssumption
    <3>3. h \in T
      BY <2>4, <3>1
    <3>4. i <= h /\ h \in Nat /\ i \in Nat
      BY <2>2, <2>3, <3>3
    <3> QED
      BY <3>1, <3>2, <3>4
  <2> QED
    BY <2>4, <2>5
<1>7. ASSUME NEW t \in readManifestTree(tr, readable(tr, repos))
      PROVE  t \in readManifestTree(tr, collected)
  <2>1. PICK r \in readable(tr, repos) : t = tr[path(r)]
    BY <1>5
  <2>2. PICK q \in collected : path(q) = path(r)
    BY <1>6
  <2> QED
    BY <1>4, <2>1, <2>2
<1>8. readManifestTree(tr, collected) \subseteq readManifestTree(tr, readable(tr, repos))
  BY <1>1, <1>4, <1>5
<1> QED
  BY <1>7, <1>8 DEF collected

(* Trees that parse are manifests.                                         *)
LEMMA TreesRead ==
  ASSUME NEW tr \in Checkouts, NEW repos, repos \subseteq Repos, parses(tr, repos)
  PROVE  readManifestTree(tr, collectMultiRepoManifests(tr, repos)) \subseteq ManifestTree
<1> DEFINE collected == collectMultiRepoManifests(tr, repos)
<1>1. ASSUME NEW t \in readManifestTree(tr, collected)
      PROVE  t \in ManifestTree
  <2>1. PICK r \in collected : t = tr[resolveRepoLocalPath(tr, r)]
    BY DEF readManifestTree
  <2>2. r \in repos /\ t # Absent
    BY <2>1 DEF collectMultiRepoManifests, readable
  <2>3. t # Broken
    BY DEF parses
  <2>4. t \in Content
    BY <2>1, <2>2, PlaceOfRepo DEF Checkouts
  <2> QED
    BY <2>2, <2>3, <2>4 DEF Content
<1> QED
  BY <1>1

(* What is read from the repositories are their trees.                     *)
LEMMA UnionOfTrees ==
  ASSUME NEW tr, NEW repos
  PROVE  {x.tree : x \in unionOf(tr, repos)} = readManifestTree(tr, repos)
<1> DEFINE place(r) == CHOOSE i \in DOMAIN RepoOrder : RepoOrder[i] = r
           content(r) == tr[resolveRepoLocalPath(tr, r)]
           read == {[at |-> place(r), tree |-> content(r)] : r \in repos}
<1> HIDE DEF place, content
<1>1. {x.tree : x \in read} = {content(r) : r \in repos}
  <2>1. ASSUME NEW r \in repos PROVE \E x \in read : x.tree = content(r)
    <3>1. [at |-> place(r), tree |-> content(r)] \in read
      OBVIOUS
    <3> QED
      BY <3>1
  <2>2. ASSUME NEW x \in read PROVE x.tree \in {content(r) : r \in repos}
    OBVIOUS
  <2> QED
    BY <2>1, <2>2
<1> QED
  BY <1>1 DEF unionOf, readManifestTree, place, content

(* An agent of a tree that can be read is in force, unless a policy among  *)
(* those trees has a cap.                                                  *)
LEMMA InForceUncapped ==
  ASSUME NEW tr, NEW repos, repos \subseteq Repos, NEW a, a \notin inForce(tr, repos),
         NEW t \in readManifestTree(tr, readable(tr, repos)), a \in t.agents
  PROVE  \E u \in readManifestTree(tr, readable(tr, repos)) : u.caps # {}
<1> DEFINE read == unionOf(tr, collectMultiRepoManifests(tr, repos))
<1>1. {x.tree : x \in read} = readManifestTree(tr, readable(tr, repos))
  BY UnionOfTrees, SyncReadsAll
<1>2. a \notin applyReplicaCap(read)
  BY DEF inForce
<1> HIDE DEF read
<1>3. PICK x \in read : x.tree = t
  BY <1>1
<1>4. collectPolicies(read) # {}
  BY <1>2, <1>3, Capped
<1>5. PICK y \in read : y.tree.caps # {}
  BY <1>4 DEF collectPolicies
<1> QED
  BY <1>1, <1>5

\* What a sync may make of the agents: nothing, or those in force.
Reads(s, x, tr) == SameFleet(s, x) \/ x.desired = inForce(tr, s.repos)

(* A sync leaves the state it was given, when nothing can be read, or      *)
(* makes of the one on disk the union of the trees.                        *)
LEMMA Synced ==
  ASSUME NEW base, ClusterType(base), NEW s, ClusterType(s), NEW tr \in Checkouts,
         parses(tr, s.repos), NEW x, x = syncMultiRepo(base, s, tr)
  PROVE  (x = s \/ Follows(base, x)) /\ Reads(s, x, tr)
<1> DEFINE resolved == collectAll(s, tr)
           read == unionOf(tr, resolved)
           y == planReconcile(base, read)
           age == [r \in Repos |-> IF r \in resolved THEN 0 ELSE y.age[r]]
<1>1. s.repos \subseteq Repos
  BY DEF ClusterType
<1>2. {e.tree : e \in read} \subseteq ManifestTree
  BY <1>1, TreesRead, UnionOfTrees DEF collectAll
<1>3. inForce(tr, s.repos) = applyReplicaCap(read)
  BY DEF inForce, collectAll
<1> HIDE DEF read
<1>4. Follows(base, y) /\ y.desired = inForce(tr, s.repos)
  <2>1. \A e \in read : e.tree \in ManifestTree
    BY <1>2
  <2> QED
    BY <1>3, <2>1, Reconciled
<1> HIDE DEF y
<1>5. age \in [Repos -> 0..Interval] /\ ClusterType(y)
  <2>1. ClusterType(y)
    BY <1>4 DEF Follows
  <2>2. y.age \in [Repos -> 0..Interval] /\ 0 \in 0..Interval
    BY <2>1, ControlAssumption DEF ClusterType
  <2> QED
    BY <2>1, <2>2
<1>6. stampSyncStatus(y, resolved) = [y EXCEPT !.age = age]
  BY DEF stampSyncStatus
<1>7. x = IF resolved = {} THEN s ELSE stampSyncStatus(y, resolved)
  BY DEF syncMultiRepo, y, read
<1> HIDE DEF age, resolved
<1>8. Follows(y, [y EXCEPT !.age = age]) /\ SameFleet(y, [y EXCEPT !.age = age])
  BY <1>5, Aged
<1>9. CASE resolved = {}
  BY <1>7, <1>9 DEF Reads, SameFleet
<1>10. CASE resolved # {}
  <2>1. x = [y EXCEPT !.age = age]
    BY <1>6, <1>7, <1>10
  <2>2. Follows(base, x) /\ x.desired = inForce(tr, s.repos)
    BY <1>4, <1>8, <2>1, FollowsOn DEF SameFleet
  <2> QED
    BY <2>2 DEF Reads
<1> QED
  BY <1>9, <1>10

(* Clones change ages and checkouts.                                       *)
LEMMA Cloned ==
  ASSUME NEW s, ClusterType(s), NEW o, NEW works
  PROVE  Follows(s, cloneAllGitRepos(s, o, works)) /\ SameFleet(s, cloneAllGitRepos(s, o, works))
<1> DEFINE age == [r \in Repos |-> upsertCloneStatus(s, r, o, works)]
<1>1. age \in [Repos -> 0..Interval]
  <2>1. s.age \in [Repos -> 0..Interval] /\ 0 \in 0..Interval /\ Interval \in 0..Interval
    BY ControlAssumption DEF ClusterType
  <2>2. \A r \in Repos : upsertCloneStatus(s, r, o, works) \in 0..Interval
    BY <2>1 DEF upsertCloneStatus
  <2> QED
    BY <2>2
<1>2. cloneAllGitRepos(s, o, works) = [s EXCEPT !.age = age]
  BY DEF cloneAllGitRepos
<1> HIDE DEF age
<1> QED
  BY <1>1, <1>2, Aged

(* What is checked out is an upstream tree, what was there, or nothing.    *)
LEMMA CheckedOut ==
  ASSUME tree \in Checkouts, NEW s, ClusterType(s), NEW o, NEW works
  PROVE  treeAfterClone(s, o, works) \in Checkouts
<1>1. ASSUME NEW r \in s.repos
      PROVE  checkedOut(r, o, works) \in Content
  <2>1. r \in Repos /\ checkout(r) \in Places
    BY DEF ClusterType, Places
  <2>2. tree[checkout(r)] \in Content /\ Upstream[r] \in Content /\ Absent \in Content
    BY <2>1, ControlAssumption DEF Checkouts, Content
  <2> QED
    BY <2>2 DEF checkedOut
<1>2. \A p \in Places : tree[p] \in Content
  BY DEF Checkouts
<1> QED
  BY <1>1, <1>2 DEF treeAfterClone, Checkouts

(* The sweep of idle workers.                                              *)
LEMMA SweptWorkers ==
  ASSUME NEW s, ClusterType(s), NEW x \in sweepIdleWorkers(s)
  PROVE  Follows(s, x) /\ SameFleet(s, x) /\ x.age = s.age
<1>1. PICK idle : x = destroyWorkers(s, idle)
  BY DEF sweepIdleWorkers
<1>2. x.age = s.age
  BY <1>1 DEF destroyWorkers, ClusterType
<1> QED
  BY <1>1, <1>2, Swept

(* The drain ends one run or none.                                         *)
LEMMA Drained ==
  ASSUME NEW s, ClusterType(s), NEW x \in drainQueue(s)
  PROVE  Follows(s, x) /\ SameFleet(s, x)
<1>1. CASE x = s
  BY <1>1, FollowsItself
<1>2. CASE x # s
  <2>1. PICK t \in s.pending, long \in BOOLEAN, written \in BOOLEAN : x = runEnds(s, t, long, written)
    BY <1>2 DEF drainQueue
  <2>2. t \in Tasks
    BY DEF ClusterType
  <2> QED
    BY <2>1, <2>2, RunEnded
<1> QED
  BY <1>1, <1>2

(* A tick sweeps, syncs what is due and drains.                            *)
LEMMA Ticked ==
  ASSUME tree \in Checkouts, NEW s, ClusterType(s), NEW skip \in BOOLEAN,
         ~skip /\ reposDueForSync(s) # {} => parses(tree, s.repos),
         NEW x \in controlPlaneTick(s, skip)
  PROVE  Follows(s, x) /\ (skip => SameFleet(s, x)) /\ Reads(s, x, tree)
<1>1. PICK y \in sweepIdleWorkers(s) : x \in drainQueue(IF skip THEN y ELSE syncDueGitRepos(y, y, tree))
  BY DEF controlPlaneTick
<1>2. Follows(s, y) /\ SameFleet(s, y) /\ y.age = s.age /\ ClusterType(y)
  BY <1>1, SweptWorkers DEF Follows
<1>3. reposDueForSync(y) = reposDueForSync(s) /\ y.repos = s.repos
  BY <1>2 DEF reposDueForSync, isRepoDue, SameFleet
<1> DEFINE z == IF skip THEN y ELSE syncDueGitRepos(y, y, tree)
<1>4. Follows(y, z) /\ Reads(y, z, tree) /\ (skip => z = y)
  <2>1. CASE z = y
    BY <1>2, <2>1, FollowsItself DEF Reads, SameFleet
  <2>2. CASE z # y
    <3>1. ~skip /\ reposDueForSync(y) # {} /\ z = syncMultiRepo(y, y, tree)
      BY <2>2 DEF syncDueGitRepos
    <3>2. parses(tree, y.repos)
      BY <1>3, <3>1
    <3>3. (z = y \/ Follows(y, z)) /\ Reads(y, z, tree)
      BY <1>2, <3>1, <3>2, Synced
    <3> QED
      BY <2>2, <3>1, <3>3
  <2> QED
    BY <2>1, <2>2
<1> HIDE DEF z
<1>5. Follows(z, x) /\ SameFleet(z, x)
  BY <1>1, <1>4, Drained DEF z, Follows
<1>6. Follows(s, x)
  BY <1>2, <1>4, <1>5, FollowsOn
<1>7. Reads(s, x, tree)
  BY <1>2, <1>4, <1>5 DEF Reads, SameFleet
<1>8. skip => SameFleet(s, x)
  BY <1>2, <1>4, <1>5 DEF SameFleet
<1> QED
  BY <1>6, <1>7, <1>8

(* The stack is brought up with the agents of its manifest, and its tick   *)
(* takes nothing away from them.                                           *)
LEMMA BroughtUp ==
  ASSUME tree \in Checkouts, NEW s, ClusterType(s), NEW m \in ManifestTree, NEW tick \in BOOLEAN,
         NEW x \in stackUp(s, m, tick)
  PROVE  Follows(s, x) /\ x.desired = applyReplicaCap(alone(m)) /\ x.repos = m.repos
<1> DEFINE p == planReconcile(s, alone(m))
           up == [p EXCEPT !.paused = FALSE, !.stack = "up"]
<1>1. Follows(s, p) /\ p.desired = applyReplicaCap(alone(m)) /\ p.repos = m.repos
  BY ReadAlone
<1>2. PICK y \in sweepIdleWorkers(up) : x \in (IF tick THEN stackTick(y) ELSE {y})
  BY DEF stackUp
<1> HIDE DEF p
<1>3. Follows(p, up) /\ ClusterType(up) /\ SameFleet(p, up)
  <2>1. ClusterType(p)
    BY <1>1 DEF Follows
  <2>2. /\ ClusterType(up) /\ up.memory = p.memory /\ up.files = p.files /\ up.registry = p.registry
        /\ up.desired = p.desired /\ up.repos = p.repos
    BY <2>1 DEF ClusterType
  <2> QED
    BY <2>2, SameMind DEF SameFleet
<1> HIDE DEF up
<1>4. Follows(up, y) /\ SameFleet(up, y) /\ ClusterType(y)
  BY <1>2, <1>3, SweptWorkers DEF Follows
<1>5. Follows(y, x) /\ SameFleet(y, x)
  <2>1. CASE tick
    <3>1. x \in controlPlaneTick(y, TRUE)
      BY <1>2, <2>1 DEF stackTick
    <3> QED
      BY <1>4, <3>1, Ticked
  <2>2. CASE ~tick
    BY <1>2, <1>4, <2>2, FollowsItself
  <2> QED
    BY <2>1, <2>2
<1>6. Follows(s, x)
  BY <1>1, <1>3, <1>4, <1>5, FollowsOn
<1> QED
  BY <1>1, <1>3, <1>4, <1>5, <1>6 DEF SameFleet

(* The stack is brought down: workers go, agents stay.                     *)
LEMMA BroughtDown ==
  ASSUME NEW s, ClusterType(s)
  PROVE  Follows(s, stackDown(s)) /\ SameFleet(s, stackDown(s))
<1> DEFINE y == destroyWorkers(s, OnDemand \cap s.desired)
           x == stackDown(s)
<1>1. Follows(s, y) /\ SameFleet(s, y)
  BY Swept
<1>2. x = [y EXCEPT !.paused = TRUE, !.stack = "down"]
  BY DEF stackDown
<1> HIDE DEF x, y
<1>3. ClusterType(y)
  BY <1>1 DEF Follows
<1>4. /\ ClusterType(x) /\ x.memory = y.memory /\ x.files = y.files /\ x.registry = y.registry
      /\ x.desired = y.desired /\ x.repos = y.repos
  BY <1>2, <1>3 DEF ClusterType
<1>5. Follows(y, x) /\ SameFleet(y, x)
  BY <1>4, SameMind DEF SameFleet
<1> QED
  BY <1>1, <1>5, FollowsOn DEF x, SameFleet

----------------------------------------------------------------------------
(* Memory and skills at an operator's command.                             *)

(* The memory directories of repositories are synced in order: a name      *)
(* that none of them has keeps its facts.                                  *)
LEMMA SyncedFromRepos ==
  ASSUME tree \in Checkouts, NEW m \in Memory, NEW repos, repos \subseteq Repos
  PROVE  /\ syncMemoryFromGitRepos(m, repos) \in Memory
         /\ \A id \in FactIds :
              (\A dir \in memoryDirs(repos) : dir[id] = Absent) =>
                syncMemoryFromGitRepos(m, repos)[id] = m[id]
<1> DEFINE Unknown(id) == \A dir \in memoryDirs(repos) : dir[id] = Absent
           S == {x \in Memory : \A id \in FactIds : Unknown(id) => x[id] = m[id]}
           place(n) == resolveRepoLocalPath(tree, RepoOrder[n])
           step(n, x) == IF RepoOrder[n] \in repos /\ tree[place(n)] \notin {Absent, Broken}
                         THEN syncMemoryFromDir(x, tree[place(n)].facts) ELSE x
           N == Len(RepoOrder)
           Solves(f) == f = [n \in 0..N |-> IF n = 0 THEN m ELSE step(n, f[n - 1])]
           upTo == CHOOSE f : Solves(f)
<1>1. N \in Nat /\ m \in S
  BY ControlAssumption
<1>2. ASSUME NEW n \in 1..N, NEW x \in S
      PROVE  step(n, x) \in S
  <2>1. CASE RepoOrder[n] \in repos /\ tree[place(n)] \notin {Absent, Broken}
    <3>1. tree[place(n)] \in ManifestTree
      BY <2>1, PlaceOfRepo DEF Checkouts, Content
    <3>2. PICK dir \in Directory : dir = tree[place(n)].facts
      BY <3>1 DEF ManifestTree
    <3>3. tree[place(n)] \in readManifestTree(tree, readable(tree, repos)) \ {Broken}
      BY <2>1 DEF readManifestTree, readable
    <3>4. dir \in memoryDirs(repos)
      BY <3>2, <3>3 DEF memoryDirs
    <3>5. step(n, x) = syncMemoryFromDir(x, dir)
      BY <2>1, <3>2
    <3> HIDE DEF step
    <3>6. \A id \in FactIds : /\ syncMemoryFromDir(x, dir) \in Memory
                              /\ dir[id] = Absent => syncMemoryFromDir(x, dir)[id] = x[id]
      BY SyncedFromDir
    <3>7. syncMemoryFromDir(x, dir) \in Memory
      <4>1. CASE FactIds = {}
        BY <4>1 DEF syncMemoryFromDir, Memory
      <4>2. CASE FactIds # {}
        BY <3>6, <4>2
      <4> QED
        BY <4>1, <4>2
    <3>8. \A id \in FactIds : Unknown(id) => syncMemoryFromDir(x, dir)[id] = m[id]
      BY <3>4, <3>6
    <3> QED
      BY <3>5, <3>7, <3>8
  <2>2. CASE ~(RepoOrder[n] \in repos /\ tree[place(n)] \notin {Absent, Broken})
    BY <2>2
  <2> QED
    BY <2>1, <2>2
<1> HIDE DEF S, step
<1>3. \E f : Solves(f)
  <2>1. PICK g : g = [n \in 1..N |-> [x \in S |-> step(n, x)]]
    OBVIOUS
  <2>2. g \in Steppers(N, S)
    BY <1>2, <2>1 DEF Steppers
  <2>3. PICK f : Recurs(f, N, S, m, g)
    BY <1>1, <2>2, RecursionExists
  <2>4. \A n \in 1..N : n - 1 \in 0..N /\ n # 0
    BY <1>1
  <2>5. \A n \in 1..N : f[n] = step(n, f[n - 1])
    BY <2>1, <2>3, <2>4 DEF Recurs
  <2>6. \A n \in 0..N : f[n] = IF n = 0 THEN m ELSE step(n, f[n - 1])
    BY <1>1, <2>3, <2>5 DEF Recurs
  <2> QED
    BY <2>3, <2>6 DEF Recurs
<1>4. Solves(upTo)
  BY <1>3
<1>5. syncMemoryFromGitRepos(m, repos) = upTo[N]
  BY DEF syncMemoryFromGitRepos, step
<1> HIDE DEF upTo
<1>6. upTo[0] = m /\ N \in 0..N /\ \A n \in 1..N : upTo[n] = step(n, upTo[n - 1])
  BY <1>1, <1>4
<1>7. PICK T : T = [n \in 0..N |-> S]
  OBVIOUS
<1>8. \A n \in 0..N : upTo[n] \in T[n]
  <2>1. upTo[0] \in T[0]
    BY <1>1, <1>6, <1>7
  <2>2. ASSUME NEW n \in 1..N, upTo[n - 1] \in T[n - 1]
        PROVE  upTo[n] \in T[n]
    <3>1. n \in 0..N /\ n - 1 \in 0..N
      BY <1>1
    <3> QED
      BY <1>2, <1>6, <1>7, <2>2, <3>1
  <2> HIDE DEF N
  <2> QED
    BY <1>1, <2>1, <2>2, StaysIn
<1>9. upTo[N] \in S
  BY <1>6, <1>7, <1>8
<1> QED
  BY <1>5, <1>9 DEF S

(* A promotion without export widens the fact and leaves its manifest.     *)
LEMMA PromotedOnly ==
  ASSUME NEW s, ClusterType(s), NEW id \in FactIds, NEW scope \in Scopes,
         mayPromote(s.memory, id, scope)
  PROVE  /\ Follows(s, [s EXCEPT !.memory = promote(s.memory, id, scope)])
         /\ SameFleet(s, [s EXCEPT !.memory = promote(s.memory, id, scope)])
<1> DEFINE m == promote(s.memory, id, scope)
<1>1. s.memory \in Memory /\ s.memory[id] # <<>> /\ rank(scope) >= rank(find(s.memory, id).scope)
  BY DEF ClusterType, mayPromote, rank
<1>2. /\ m \in Memory /\ Len(m[id]) = Len(s.memory[id])
      /\ find(m, id) = [find(s.memory, id) EXCEPT !.scope = scope]
      /\ \A other \in FactIds \ {id} : m[other] = s.memory[other]
  BY <1>1, Promoted
<1> HIDE DEF m
<1>3. find(s.memory, id) \in SharedMemoryFact /\ rank(find(s.memory, id).scope) \in 0..3
  BY <1>1, RanksInState
<1>4. find(m, id).scope = scope
  BY <1>2, <1>3 DEF SharedMemoryFact
<1>5. m[id] \in Facts /\ m[id] # <<>> /\ rank(scope) \in 0..3
  <2>1. m[id] \in Facts /\ s.memory[id] \in Facts
    BY <1>1, <1>2 DEF Memory, Facts
  <2> QED
    BY <1>1, <1>2, <2>1, RanksInState, Ranks DEF Facts
<1>6. ASSUME NEW g \in Grants, Standing(s, g), NEW k \in FactIds
      PROVE  /\ g[k] > 0 => m[k] # <<>>
             /\ Len(m[k]) = 1 => /\ rank(find(m, k).scope) >= g[k]
                                 /\ s.files[k] # Absent => rank(s.files[k].scope) >= g[k]
  <2>1. CASE k = id
    <3>1. g[id] \in 0..3
      BY DEF Grants
    <3>2. Len(m[id]) = 1 => /\ rank(find(s.memory, id).scope) >= g[id]
                            /\ s.files[id] # Absent => rank(s.files[id].scope) >= g[id]
      BY <1>2, <1>6 DEF Standing
    <3> QED
      BY <1>1, <1>3, <1>4, <1>5, <2>1, <3>1, <3>2
  <2>2. CASE k # id
    BY <1>2, <1>6, <2>2 DEF Standing, find
  <2> QED
    BY <2>1, <2>2
<1>7. \A g \in Grants : Standing(s, g) => Standing([memory |-> m, files |-> s.files], g)
  BY <1>6 DEF Standing
<1> QED
  BY <1>2, <1>7, RemindedAlone DEF m

(* A promotion with export: fact and manifest have the scope granted.      *)
LEMMA PromotedAndExported ==
  ASSUME NEW s, ClusterType(s), NEW id \in FactIds, NEW scope \in Scopes,
         mayPromote(s.memory, id, scope), NEW g \in Grants, Standing(s, g),
         NEW x, x = promoteAndExport(s, id, scope)
  PROVE  /\ ClusterType(x) /\ SameFleet(s, x) /\ x.registry = s.registry
         /\ Standing(x, [g EXCEPT ![id] = rank(scope)])
<1> DEFINE m == promote(s.memory, id, scope)
           y == [s EXCEPT !.memory = m]
<1>1. s.memory \in Memory /\ s.memory[id] # <<>> /\ find(s.memory, id) \in SharedMemoryFact
  BY RanksInState DEF ClusterType, mayPromote
<1>2. /\ m \in Memory /\ Len(m[id]) = Len(s.memory[id]) /\ find(m, id) \in SharedMemoryFact
      /\ find(m, id) = [find(s.memory, id) EXCEPT !.scope = scope]
      /\ \A other \in FactIds \ {id} : m[other] = s.memory[other]
  BY <1>1, Promoted
<1>3. x = exported(y, id, find(m, id))
  BY DEF promoteAndExport
<1> HIDE DEF m
<1>4. find(m, id).scope = scope
  BY <1>1, <1>2 DEF SharedMemoryFact
<1>5. /\ ClusterType(y) /\ y.memory = m /\ y.files = s.files /\ y.registry = s.registry
      /\ SameFleet(s, y)
  BY <1>2 DEF ClusterType, SameFleet
<1> HIDE DEF y
<1>6. y.memory[id] # <<>>
  <2>1. Len(s.memory[id]) \in Nat /\ Len(s.memory[id]) # 0
    BY <1>1, RanksInState
  <2> QED
    BY <1>2, <1>5, <2>1, RanksInState
<1> DEFINE e == exported(y, id, find(m, id))
<1>7. ClusterType(e) /\ SameFleet(y, e) /\ e.registry = y.registry
  BY <1>2, <1>5, <1>6, Exported
<1>8. find(e.memory, id).scope = scope /\ e.files[id].scope = scope
  <2>1. PICK f \in SharedMemoryFact : f = find(m, id) /\ f.scope = scope
    BY <1>2, <1>4
  <2>2. find(exported(y, id, f).memory, id).scope = f.scope
    BY <1>5, <1>6, Exported
  <2>3. exported(y, id, f).files[id].scope = f.scope
    BY <1>5, <1>6, Exported
  <2> QED
    BY <2>1, <2>2, <2>3
<1>9. Len(e.memory[id]) = Len(y.memory[id])
  BY <1>2, <1>5, <1>6, Exported
<1>10. SameElsewhere(y, e, id)
  BY <1>2, <1>5, <1>6, Exported
<1> HIDE DEF e
<1>11. rank(scope) \in 0..3 /\ e.memory[id] # <<>>
  <2>1. Len(y.memory[id]) # 0 /\ rank(scope) \in 0..3
    BY <1>5, <1>6, RanksInState, Ranks
  <2> QED
    BY <1>7, <1>9, <2>1, RanksInState
<1> DEFINE h == [g EXCEPT ![id] = rank(scope)]
<1>12. h[id] = rank(scope) /\ \A k \in FactIds \ {id} : h[k] = g[k]
  BY DEF Grants
<1> HIDE DEF h
<1>13. ASSUME NEW k \in FactIds
       PROVE  /\ h[k] > 0 => e.memory[k] # <<>>
              /\ Len(e.memory[k]) = 1 => /\ rank(find(e.memory, k).scope) >= h[k]
                                         /\ e.files[k] # Absent => rank(e.files[k].scope) >= h[k]
  <2>1. CASE k = id
    BY <1>8, <1>11, <1>12, <2>1
  <2>2. CASE k # id
    <3>1. e.memory[k] = s.memory[k] /\ e.files[k] = s.files[k] /\ h[k] = g[k]
      BY <1>2, <1>5, <1>10, <1>12, <2>2 DEF SameElsewhere
    <3> QED
      BY <3>1 DEF Standing, find
  <2> QED
    BY <2>1, <2>2
<1>14. Standing(e, h)
  BY <1>13 DEF Standing
<1> QED
  BY <1>3, <1>5, <1>7, <1>14 DEF SameFleet, e, h

(* A skill is shared with one agent.                                       *)
LEMMA Shared ==
  ASSUME NEW s, ClusterType(s), NEW skill \in Skills, s.registry[skill] # <<>>, NEW to \in Agents
  PROVE  /\ Follows(s, [s EXCEPT !.registry = shareSkill(s.registry, skill, to)])
         /\ SameFleet(s, [s EXCEPT !.registry = shareSkill(s.registry, skill, to)])
<1> DEFINE r == s.registry
           v == latestSkill(r, skill)
           q == [r EXCEPT ![skill][v].sharedWith = @ \cup {to}]
           new == shareSkill(r, skill, to)
<1>1. r \in Registry
  BY DEF ClusterType
<1>2. q \in Registry /\ Grows(r, q)
  BY <1>1, SharedWithMore
<1>3. new = r \/ new = q
  BY DEF shareSkill
<1> HIDE DEF q, new
<1>4. new \in Registry /\ Grows(r, new)
  BY <1>1, <1>2, <1>3 DEF Grows
<1> QED
  BY <1>4, RegistryReplaced DEF new

(* A skill is shared with every agent of the state.                        *)
LEMMA SharedWithAll ==
  ASSUME NEW s, ClusterType(s), NEW skill \in Skills, s.registry[skill] # <<>>
  PROVE  /\ Follows(s, [s EXCEPT !.registry = promoteSkill(s.registry, skill, s.desired)])
         /\ SameFleet(s, [s EXCEPT !.registry = promoteSkill(s.registry, skill, s.desired)])
<1> DEFINE r == s.registry
           v == latestSkill(r, skill)
           more == s.desired \ {r[skill][v].originAgent}
           q == [r EXCEPT ![skill][v].sharedWith = @ \cup more]
           new == promoteSkill(r, skill, s.desired)
<1>1. r \in Registry /\ more \subseteq Agents
  BY DEF ClusterType
<1>2. new = q
  BY DEF promoteSkill
<1> HIDE DEF more
<1>3. q \in Registry /\ Grows(r, q)
  BY <1>1, SharedWithMore
<1> HIDE DEF q, new
<1> QED
  BY <1>2, <1>3, RegistryReplaced DEF new

----------------------------------------------------------------------------
(* The invariant and the steps.                                            *)

Left == [control : Nat, memory : Nat]

LoopInv == LoopTypeOK /\ Standing(cluster, granted)

\* What every step but a restore and a promotion makes of the state.
Along == Follows(cluster, cluster') /\ granted' = granted

\* A command that may retire agents, by the manifest, place or snapshot it names.
Replaces ==
  \/ \E m \in StackManifests : cluster'.desired = applyReplicaCap(alone(m))
  \/ \E p \in Places : Watch(p)
  \/ Restore

(* A step that goes along keeps the invariant.                             *)
LEMMA AlongKeeps ==
  ASSUME LoopInv, Along, tree' \in Checkouts, left' \in Left,
         snapshot' = snapshot \/ snapshot' = cluster
  PROVE  LoopInv' /\ Grows(cluster.registry, cluster'.registry)
<1>1. granted \in Grants /\ Standing(cluster, granted) /\ ClusterType(cluster)
  BY DEF LoopInv, LoopTypeOK, Grants
<1>2. ClusterType(cluster') /\ Grows(cluster.registry, cluster'.registry) /\ Standing(cluster', granted')
  BY <1>1 DEF Along, Follows
<1>3. snapshot' # Absent => ClusterType(snapshot')
  BY <1>1 DEF LoopInv, LoopTypeOK
<1>4. tree' \in [Places -> ManifestTree \cup {Broken, Absent}]
  BY DEF Checkouts, Content
<1>5. granted' \in [FactIds -> 0..3] /\ left' \in [control : Nat, memory : Nat]
  BY <1>1 DEF Along, Grants, Left
<1>6. LoopTypeOK'
  BY <1>2, <1>3, <1>4, <1>5 DEF LoopTypeOK
<1> QED
  BY <1>2, <1>6 DEF LoopInv

(* The parts of the type.                                                  *)
LEMMA LoopTypes ==
  ASSUME LoopTypeOK
  PROVE  /\ ClusterType(cluster) /\ tree \in Checkouts /\ left \in Left /\ granted \in Grants
         /\ cluster.repos \subseteq Repos
BY DEF LoopTypeOK, ClusterType, Checkouts, Content, Left, Grants

(* A command counts one of those left.                                     *)
LEMMA Counted ==
  ASSUME LoopTypeOK, Command("control") \/ Command("memory")
  PROVE  left' \in Left
<1>1. left \in [control : Nat, memory : Nat]
  BY DEF LoopTypeOK
<1>2. CASE Command("control")
  <2>1. left.control > 0 /\ left' = [left EXCEPT !.control = left.control - 1]
    BY <1>2 DEF Command
  <2> QED
    BY <1>1, <2>1 DEF Left
<1>3. CASE Command("memory")
  <2>1. left.memory > 0 /\ left' = [left EXCEPT !.memory = left.memory - 1]
    BY <1>3 DEF Command
  <2> QED
    BY <1>1, <2>1 DEF Left
<1> QED
  BY <1>2, <1>3

(* A pass of the watch over the repositories.                              *)
LEMMA Watched ==
  ASSUME LoopTypeOK, NEW remote \in BOOLEAN, NEW force \in BOOLEAN, NEW works,
         watchDeclaredRepos(remote, force, works)
  PROVE  Follows(cluster, cluster') /\ Reads(cluster, cluster', tree') /\ tree' \in Checkouts
<1> DEFINE o == [remote |-> remote, dryRun |-> FALSE, force |-> FALSE]
           cloning == remote /\ (force \/ reposDueForSync(cluster) # {})
           s == IF cloning THEN cloneAllGitRepos(cluster, o, works) ELSE cluster
<1>1. /\ tree' = IF cloning THEN treeAfterClone(cluster, o, works) ELSE tree
      /\ cluster' = IF parses(tree', cluster.repos) THEN syncMultiRepo(cluster, s, tree') ELSE cluster
  BY DEF watchDeclaredRepos
<1> HIDE DEF o, cloning
<1>2. tree' \in Checkouts
  BY <1>1, CheckedOut, LoopTypes
<1>3. Follows(cluster, s) /\ SameFleet(cluster, s)
  BY LoopTypes, Cloned, FollowsItself
<1> HIDE DEF s
<1>4. CASE ~parses(tree', cluster.repos)
  <2>1. cluster' = cluster
    BY <1>1, <1>4
  <2> QED
    BY <1>2, <2>1, FollowsItself, LoopTypes DEF Reads, SameFleet
<1>5. CASE parses(tree', cluster.repos)
  <2>1. ClusterType(s) /\ parses(tree', s.repos) /\ cluster' = syncMultiRepo(cluster, s, tree')
    BY <1>1, <1>3, <1>5 DEF Follows, SameFleet
  <2>2. (cluster' = s \/ Follows(cluster, cluster')) /\ Reads(s, cluster', tree')
    BY <1>2, <2>1, LoopTypes, Synced
  <2>3. Reads(cluster, cluster', tree')
    BY <1>3, <2>2 DEF Reads, SameFleet
  <2> QED
    BY <1>2, <1>3, <2>2, <2>3
<1> QED
  BY <1>4, <1>5

(* Every step, of the operator, of the loop or of time.                    *)
LEMMA LoopSteps ==
  ASSUME LoopInv, Next
  PROVE  /\ LoopInv'
         /\ Restore \/ Grows(cluster.registry, cluster'.registry)
         /\ Replaces \/ Reads(cluster, cluster', tree')
<1> DEFINE Fine == /\ LoopInv'
                   /\ Restore \/ Grows(cluster.registry, cluster'.registry)
                   /\ Replaces \/ Reads(cluster, cluster', tree')
<1> USE DEF LoopInv
<1>1. CASE Elapse
  <2> DEFINE age == [r \in Repos |-> Min({cluster.age[r] + 1, Interval})]
  <2>1. age \in [Repos -> 0..Interval]
    <3>1. cluster.age \in [Repos -> 0..Interval] /\ Interval \in Nat
      BY LoopTypes, ControlAssumption DEF ClusterType
    <3>2. ASSUME NEW r \in Repos PROVE Min({cluster.age[r] + 1, Interval}) \in 0..Interval
      BY <3>1, MinOfTwo
    <3> QED
      BY <3>2
  <2>2. cluster' = [cluster EXCEPT !.age = age]
    BY <1>1 DEF Elapse
  <2> HIDE DEF age
  <2>3. Follows(cluster, cluster') /\ SameFleet(cluster, cluster')
    BY <2>1, <2>2, Aged, LoopTypes
  <2> QED
    BY <1>1, <2>3, AlongKeeps, LoopTypes DEF Elapse, Along, Reads
<1>2. CASE watchReposLoop
  <2>1. Follows(cluster, cluster') /\ Reads(cluster, cluster', tree') /\ tree' \in Checkouts
    BY <1>2, Watched DEF watchReposLoop
  <2> QED
    BY <1>2, <2>1, AlongKeeps, LoopTypes DEF watchReposLoop, Along
<1>3. ASSUME NEW force \in BOOLEAN, WatchRemote(force) PROVE Fine
  <2>1. Follows(cluster, cluster') /\ Reads(cluster, cluster', tree') /\ tree' \in Checkouts
    BY <1>3, Watched DEF WatchRemote
  <2> QED
    BY <1>3, <2>1, AlongKeeps, LoopTypes DEF WatchRemote, Along
<1>4. ASSUME NEW clone \in BOOLEAN, Tick(clone) PROVE Fine
  <2>1. PICK remote, works :
          LET s == IF clone THEN planCloneAll(cluster, remote, works) ELSE cluster
              due == reposDueForSync(s) # {}
          IN  (due => parses(tree, s.repos)) /\ cluster' \in controlPlaneTick(s, FALSE)
    BY <1>4 DEF Tick
  <2> DEFINE s == IF clone THEN planCloneAll(cluster, remote, works) ELSE cluster
  <2>2. Follows(cluster, s) /\ SameFleet(cluster, s)
    BY LoopTypes, Cloned, FollowsItself DEF planCloneAll
  <2>3. (reposDueForSync(s) # {} => parses(tree, s.repos)) /\ cluster' \in controlPlaneTick(s, FALSE)
    BY <2>1
  <2> HIDE DEF s
  <2>4. Follows(s, cluster') /\ Reads(s, cluster', tree)
    BY <2>2, <2>3, Ticked, LoopTypes DEF Follows
  <2>5. Follows(cluster, cluster') /\ Reads(cluster, cluster', tree)
    BY <2>2, <2>4, FollowsOn DEF Reads, SameFleet
  <2> QED
    BY <1>4, <2>5, AlongKeeps, LoopTypes DEF Tick, Along
<1>5. ASSUME NEW dueOnly \in BOOLEAN, Sync(dueOnly) PROVE Fine
  <2>1. Follows(cluster, cluster') /\ Reads(cluster, cluster', tree)
    <3>1. parses(tree, cluster.repos) /\ cluster' = syncMultiRepo(cluster, cluster, tree)
      BY <1>5 DEF Sync
    <3> QED
      BY <3>1, Synced, FollowsItself, LoopTypes
  <2> QED
    BY <1>5, <2>1, AlongKeeps, Counted, LoopTypes DEF Sync, Along
<1>6. ASSUME NEW o \in CloneOptions, Clone(o) \/ PostClone(o) PROVE Fine
  <2>1. PICK works : cluster' = cloneAllGitRepos(cluster, o, works) /\ tree' = treeAfterClone(cluster, o, works)
    BY <1>6 DEF Clone, PostClone
  <2>2. Follows(cluster, cluster') /\ SameFleet(cluster, cluster') /\ tree' \in Checkouts
    BY <2>1, Cloned, CheckedOut, LoopTypes
  <2>3. left' \in Left /\ granted' = granted /\ snapshot' = snapshot
    BY <1>6, Counted DEF Clone, PostClone
  <2> QED
    BY <2>2, <2>3, AlongKeeps DEF Along, Reads
<1>7. ASSUME NEW p \in Places, Watch(p) PROVE Fine
  <2>1. tree[p] \in ManifestTree /\ cluster' = planReconcile(cluster, alone(tree[p]))
    BY <1>7, LoopTypes DEF Watch, watchOnce, Checkouts, Content
  <2>2. Follows(cluster, cluster')
    BY <2>1, ReadAlone, LoopTypes
  <2>3. Replaces
    BY <1>7 DEF Replaces
  <2> QED
    BY <1>7, <2>2, <2>3, AlongKeeps, Counted, LoopTypes DEF Watch, Along
<1>8. ASSUME NEW p \in Places, NEW t \in Trees[p], Commit(p, t) PROVE Fine
  <2>1. t \in Content /\ tree' = [tree EXCEPT ![p] = t] /\ UNCHANGED <<cluster, snapshot, granted>>
    BY <1>8, ControlAssumption DEF Commit, Content
  <2>2. tree' \in Checkouts /\ Follows(cluster, cluster') /\ SameFleet(cluster, cluster')
    BY <2>1, FollowsItself, LoopTypes DEF Checkouts
  <2> QED
    BY <1>8, <2>1, <2>2, AlongKeeps, Counted DEF Commit, Along, Reads
<1>9. ASSUME NEW m \in StackManifests, Apply(m) \/ UpDies(m) PROVE Fine
  <2>1. m \in ManifestTree
    BY ControlAssumption
  <2>2. cluster' = planReconcile(cluster, alone(m))
    BY <1>9 DEF Apply, UpDies
  <2>3. Follows(cluster, cluster') /\ cluster'.desired = applyReplicaCap(alone(m))
    BY <2>1, <2>2, ReadAlone, LoopTypes
  <2>4. left' \in Left /\ UNCHANGED <<tree, snapshot, granted>>
    BY <1>9, Counted DEF Apply, UpDies
  <2> QED
    BY <2>3, <2>4, AlongKeeps, LoopTypes DEF Along, Replaces
<1>10. ASSUME NEW m \in StackManifests, NEW tick \in BOOLEAN, Up(m, tick) PROVE Fine
  <2>1. Follows(cluster, cluster') /\ cluster'.desired = applyReplicaCap(alone(m))
    BY <1>10, BroughtUp, LoopTypes, ControlAssumption DEF Up
  <2> QED
    BY <1>10, <2>1, AlongKeeps, Counted, LoopTypes DEF Up, Along, Replaces
<1>11. CASE UpFails
  <2>1. /\ ClusterType(cluster') /\ cluster'.memory = cluster.memory /\ cluster'.files = cluster.files
        /\ cluster'.registry = cluster.registry /\ SameFleet(cluster, cluster')
    BY <1>11, LoopTypes DEF UpFails, ClusterType, SameFleet
  <2>2. Follows(cluster, cluster')
    BY <2>1, SameMind
  <2> QED
    BY <1>11, <2>1, <2>2, AlongKeeps, Counted, LoopTypes DEF UpFails, Along, Reads
<1>12. CASE Down
  <2>1. Follows(cluster, cluster') /\ SameFleet(cluster, cluster')
    BY <1>12, BroughtDown, LoopTypes DEF Down
  <2> QED
    BY <1>12, <2>1, AlongKeeps, Counted, LoopTypes DEF Down, Along, Reads
<1>13. CASE writeSnapshot
  <2>1. Follows(cluster, cluster') /\ SameFleet(cluster, cluster')
    BY <1>13, FollowsItself, LoopTypes DEF writeSnapshot
  <2> QED
    BY <1>13, <2>1, AlongKeeps, Counted, LoopTypes DEF writeSnapshot, Along, Reads
<1>14. CASE Restore
  <2>1. ClusterType(snapshot) /\ ClusterType(cluster)
    BY <1>14, LoopTypes DEF Restore, LoopTypeOK
  <2>2. ClusterType(cluster')
    <3>1. cluster' = [snapshot EXCEPT !.files = cluster.files]
      BY <1>14 DEF Restore, restoreSnapshot
    <3> QED
      BY <2>1, <3>1 DEF ClusterType
  <2>3. granted' \in Grants /\ \A id \in FactIds : granted'[id] = 0
    BY <1>14 DEF Restore, Grants
  <2>4. Standing(cluster', granted')
    <3>1. ASSUME NEW id \in FactIds
          PROVE  /\ granted'[id] > 0 => cluster'.memory[id] # <<>>
                 /\ Len(cluster'.memory[id]) = 1 =>
                      /\ rank(find(cluster'.memory, id).scope) >= granted'[id]
                      /\ cluster'.files[id] # Absent => rank(cluster'.files[id].scope) >= granted'[id]
      BY <2>2, <2>3, RanksInState
    <3> QED
      BY <3>1 DEF Standing
  <2>5. LoopTypeOK'
    BY <1>14, <2>2, <2>3, Counted DEF LoopTypeOK, Restore, Grants, Left
  <2> QED
    BY <1>14, <2>4, <2>5 DEF Replaces
<1>15. ASSUME NEW t \in Tasks, Enqueue(t) PROVE Fine
  <2>1. cluster' = [cluster EXCEPT !.pending = cluster.pending \cup {t}]
    BY <1>15 DEF Enqueue
  <2>2. PICK pending : pending = cluster.pending \cup {t}
    OBVIOUS
  <2>3. pending \subseteq Tasks
    BY <2>2, LoopTypes DEF ClusterType
  <2>4. /\ ClusterType(cluster') /\ cluster'.memory = cluster.memory /\ cluster'.files = cluster.files
        /\ cluster'.registry = cluster.registry /\ SameFleet(cluster, cluster')
    BY <2>1, <2>2, <2>3, LoopTypes DEF ClusterType, SameFleet
  <2>5. Follows(cluster, cluster')
    BY <2>4, SameMind
  <2> QED
    BY <1>15, <2>4, <2>5, AlongKeeps, Counted, LoopTypes DEF Enqueue, Along, Reads
<1>16. CASE MemorySync
  <2>1. Follows(cluster, cluster') /\ SameFleet(cluster, cluster')
    BY <1>16, SyncedHere, LoopTypes DEF MemorySync
  <2> QED
    BY <1>16, <2>1, AlongKeeps, Counted, LoopTypes DEF MemorySync, Along, Reads
<1>17. CASE MemorySyncRepos
  <2> DEFINE m == syncMemoryFromGitRepos(cluster.memory, cluster.repos)
             Unknown(id) == \A dir \in memoryDirs(cluster.repos) : dir[id] = Absent
  <2>1. m \in Memory /\ \A id \in FactIds : Unknown(id) => m[id] = cluster.memory[id]
    BY SyncedFromRepos, LoopTypes DEF ClusterType
  <2>2. /\ cluster' = [cluster EXCEPT !.memory = m]
        /\ granted' = [id \in FactIds |-> IF Unknown(id) THEN granted[id] ELSE 0]
    BY <1>17 DEF MemorySyncRepos
  <2> HIDE DEF m, Unknown
  <2>3. /\ ClusterType(cluster') /\ cluster'.memory = m /\ cluster'.files = cluster.files
        /\ cluster'.registry = cluster.registry /\ SameFleet(cluster, cluster')
    BY <2>1, <2>2, LoopTypes DEF ClusterType, SameFleet
  <2>4. granted' \in Grants
    BY <2>2, LoopTypes DEF Grants
  <2>5. ASSUME NEW id \in FactIds
        PROVE  /\ granted'[id] > 0 => m[id] # <<>>
               /\ Len(m[id]) = 1 =>
                    /\ rank(find(m, id).scope) >= granted'[id]
                    /\ cluster.files[id] # Absent => rank(cluster.files[id].scope) >= granted'[id]
    <3>1. CASE Unknown(id)
      <4>1. granted'[id] = granted[id] /\ m[id] = cluster.memory[id]
        BY <2>1, <2>2, <3>1
      <4> QED
        BY <4>1 DEF Standing, find
    <3>2. CASE ~Unknown(id)
      <4>1. granted'[id] = 0
        BY <2>2, <3>2
      <4>2. /\ Len(m[id]) = 1 => rank(find(m, id).scope) \in 0..3
            /\ cluster.files[id] # Absent => rank(cluster.files[id].scope) \in 0..3
        <5>1. cluster'.memory[id] = m[id] /\ find(cluster'.memory, id) = find(m, id)
          BY <2>3 DEF find
        <5>2. cluster'.files[id] = cluster.files[id]
          BY <2>3
        <5>3. /\ Len(cluster'.memory[id]) = 1 => rank(find(cluster'.memory, id).scope) \in 0..3
              /\ cluster'.files[id] # Absent => rank(cluster'.files[id].scope) \in 0..3
          BY <2>3, RankAlone
        <5> QED
          BY <5>1, <5>2, <5>3
      <4> QED
        BY <4>1, <4>2
    <3> QED
      BY <3>1, <3>2
  <2>6. Standing(cluster', granted')
    BY <2>3, <2>5 DEF Standing
  <2>7. LoopTypeOK'
    BY <1>17, <2>3, <2>4, Counted DEF LoopTypeOK, MemorySyncRepos, Grants, Left
  <2>8. Grows(cluster.registry, cluster'.registry)
    BY <2>3 DEF Grows
  <2> QED
    BY <2>3, <2>6, <2>7, <2>8 DEF Reads
<1>18. ASSUME NEW id \in FactIds, NEW scope \in Scopes, NEW export \in BOOLEAN, MemoryPromote(id, scope, export)
       PROVE  Fine
  <2>1. CASE export
    <3>1. /\ mayPromote(cluster.memory, id, scope) /\ cluster' = promoteAndExport(cluster, id, scope)
          /\ granted' = [granted EXCEPT ![id] = rank(scope)]
      BY <1>18, <2>1 DEF MemoryPromote, rank
    <3>2. /\ ClusterType(cluster') /\ SameFleet(cluster, cluster') /\ cluster'.registry = cluster.registry
          /\ Standing(cluster', granted')
      BY <3>1, PromotedAndExported, LoopTypes
    <3>3. granted' \in Grants
      BY <3>1, Ranks, LoopTypes DEF Grants
    <3>4. LoopTypeOK'
      BY <1>18, <3>2, <3>3, Counted DEF LoopTypeOK, MemoryPromote, Grants, Left
    <3>5. Grows(cluster.registry, cluster'.registry)
      BY <3>2 DEF Grows
    <3> QED
      BY <3>2, <3>4, <3>5 DEF Reads
  <2>2. CASE ~export
    <3>1. Follows(cluster, cluster') /\ SameFleet(cluster, cluster') /\ granted' = granted
      BY <1>18, <2>2, PromotedOnly, LoopTypes DEF MemoryPromote
    <3> QED
      BY <1>18, <3>1, AlongKeeps, Counted, LoopTypes DEF MemoryPromote, Along, Reads
  <2> QED
    BY <2>1, <2>2
<1>19. ASSUME NEW id \in FactIds, NEW doc \in Documents, CommitFact(id, doc) PROVE Fine
  <2>1. /\ cluster' = [cluster EXCEPT !.files = [cluster.files EXCEPT ![id] = doc]]
        /\ granted' = [granted EXCEPT ![id] = 0]
    BY <1>19 DEF CommitFact
  <2>2. PICK files : files = [cluster.files EXCEPT ![id] = doc]
    OBVIOUS
  <2>3. files \in Directory /\ \A k \in FactIds \ {id} : files[k] = cluster.files[k]
    BY <2>2, LoopTypes, ControlAssumption DEF ClusterType, Directory
  <2>4. /\ ClusterType(cluster') /\ cluster'.memory = cluster.memory /\ cluster'.files = files
        /\ cluster'.registry = cluster.registry /\ SameFleet(cluster, cluster')
    BY <2>1, <2>2, <2>3, LoopTypes DEF ClusterType, SameFleet
  <2>5. granted' \in Grants /\ granted'[id] = 0 /\ \A k \in FactIds \ {id} : granted'[k] = granted[k]
    BY <2>1, LoopTypes DEF Grants
  <2>6. ASSUME NEW k \in FactIds
        PROVE  /\ granted'[k] > 0 => cluster'.memory[k] # <<>>
               /\ Len(cluster'.memory[k]) = 1 =>
                    /\ rank(find(cluster'.memory, k).scope) >= granted'[k]
                    /\ cluster'.files[k] # Absent => rank(cluster'.files[k].scope) >= granted'[k]
    <3>1. CASE k = id
      <4>1. /\ Len(cluster'.memory[id]) = 1 => rank(find(cluster'.memory, id).scope) \in 0..3
            /\ cluster'.files[id] # Absent => rank(cluster'.files[id].scope) \in 0..3
        BY <2>4, RankAlone
      <4> QED
        BY <2>5, <3>1, <4>1
    <3>2. CASE k # id
      <4>1. granted'[k] = granted[k] /\ cluster'.files[k] = cluster.files[k] /\ cluster'.memory[k] = cluster.memory[k]
        BY <2>3, <2>4, <2>5, <3>2
      <4> QED
        BY <4>1 DEF Standing, find
    <3> QED
      BY <3>1, <3>2
  <2>7. Standing(cluster', granted')
    BY <2>6 DEF Standing
  <2>8. LoopTypeOK'
    BY <1>19, <2>4, <2>5, Counted DEF LoopTypeOK, CommitFact, Grants, Left
  <2>9. Grows(cluster.registry, cluster'.registry)
    BY <2>4 DEF Grows
  <2> QED
    BY <2>4, <2>7, <2>8, <2>9 DEF Reads
<1>20. ASSUME NEW ids, NEW force \in BOOLEAN, MemoryExport(ids, force) PROVE Fine
  <2>1. Follows(cluster, cluster') /\ SameFleet(cluster, cluster')
    BY <1>20, ExportedMany, LoopTypes DEF MemoryExport
  <2> QED
    BY <1>20, <2>1, AlongKeeps, Counted, LoopTypes DEF MemoryExport, Along, Reads
<1>21. ASSUME NEW skill \in Skills, SkillsPromote(skill) PROVE Fine
  <2>1. Follows(cluster, cluster') /\ SameFleet(cluster, cluster')
    BY <1>21, SharedWithAll, LoopTypes DEF SkillsPromote
  <2> QED
    BY <1>21, <2>1, AlongKeeps, Counted, LoopTypes DEF SkillsPromote, Along, Reads
<1>22. ASSUME NEW skill \in Skills, NEW to \in Agents, SkillsShare(skill, to) PROVE Fine
  <2>1. Follows(cluster, cluster') /\ SameFleet(cluster, cluster')
    BY <1>22, Shared, LoopTypes DEF SkillsShare
  <2> QED
    BY <1>22, <2>1, AlongKeeps, Counted, LoopTypes DEF SkillsShare, Along, Reads
<1>23. ASSUME NEW i \in DOMAIN cluster.trajectories, Learn(cluster.trajectories[i]) PROVE Fine
  <2>1. cluster.trajectories[i] \in TrajectoryRecord
    BY LoopTypes DEF ClusterType
  <2>2. Follows(cluster, cluster') /\ SameFleet(cluster, cluster')
    BY <1>23, <2>1, LearnedAgain, LoopTypes DEF Learn
  <2> QED
    BY <1>23, <2>2, AlongKeeps, Counted, LoopTypes DEF Learn, Along, Reads
<1> HIDE DEF Fine
<1>24. Fine
  BY <1>1, <1>2, <1>3, <1>4, <1>5, <1>6, <1>7, <1>8, <1>9, <1>10, <1>11, <1>12, <1>13, <1>14, <1>15,
     <1>16, <1>17, <1>18, <1>19, <1>20, <1>21, <1>22, <1>23 DEF Next, Fine
<1> QED
  BY <1>24 DEF Fine

(* The invariant holds in the first state.                                 *)
LEMMA LoopStarts ==
  ASSUME Init
  PROVE  LoopInv
<1>1. PICK m \in StackManifests : cluster = planReconcile(emptyState, alone(m))
  BY DEF Init
<1>2. m \in ManifestTree
  BY ControlAssumption
<1>3. ClusterType(emptyState)
  <2>1. [r \in Repos |-> Interval] \in [Repos -> 0..Interval]
    BY ControlAssumption
  <2>2. [id \in FactIds |-> <<>>] \in Memory /\ emptyDirectory \in Directory
    BY DEF Memory, emptyDirectory, Directory
  <2>3. [skill \in Skills |-> <<>>] \in Registry
    BY DEF Registry
  <2>4. <<>> \in Seq(TrajectoryRecord) /\ Len(<<>>) <= TrajectoryCap
    BY MemoryAssumption
  <2> QED
    BY <2>1, <2>2, <2>3, <2>4 DEF emptyState, ClusterType
<1>4. ClusterType(cluster)
  BY <1>1, <1>2, <1>3, ReadAlone DEF Follows
<1>5. granted \in Grants /\ \A id \in FactIds : granted[id] = 0
  BY DEF Init, Grants
<1>6. Standing(cluster, granted)
  <2>1. ASSUME NEW id \in FactIds
        PROVE  /\ granted[id] > 0 => cluster.memory[id] # <<>>
               /\ Len(cluster.memory[id]) = 1 =>
                    /\ rank(find(cluster.memory, id).scope) >= granted[id]
                    /\ cluster.files[id] # Absent => rank(cluster.files[id].scope) >= granted[id]
    BY <1>4, <1>5, RankAlone
  <2> QED
    BY <2>1 DEF Standing
<1>7. tree \in [Places -> ManifestTree \cup {Broken, Absent}] /\ left \in [control : Nat, memory : Nat]
      /\ snapshot = Absent
  BY ControlAssumption DEF Init
<1> QED
  BY <1>4, <1>5, <1>6, <1>7 DEF LoopInv, LoopTypeOK, Grants

(* Nothing changes, and the invariant stays.                               *)
LEMMA LoopRests ==
  ASSUME LoopInv, UNCHANGED vars
  PROVE  LoopInv'
<1>1. cluster' = cluster /\ tree' = tree /\ snapshot' = snapshot /\ left' = left /\ granted' = granted
  BY DEF vars
<1> QED
  BY <1>1 DEF LoopInv, LoopTypeOK

(* In every state the invariant holds.                                     *)
LEMMA LoopInvariant == Spec => []LoopInv
<1>1. Init => LoopInv
  BY LoopStarts
<1>2. LoopInv /\ [Next]_vars => LoopInv'
  BY LoopSteps, LoopRests
<1> QED
  BY <1>1, <1>2, PTL DEF Spec

----------------------------------------------------------------------------
(* A granted fact stands in every state of the invariant.                  *)
LEMMA StandingSurvives ==
  ASSUME LoopInv
  PROVE  PromotionsSurvive
BY DEF LoopInv, Standing, PromotionsSurvive, rank

(* Steps do not make what an agent loads older.                            *)
LEMMA StepsNeverOlder ==
  ASSUME LoopInv, [Next]_vars
  PROVE  [\/ Restore
          \/ \A skill \in Skills, a \in Agents :
               skillForAgent(cluster'.registry, skill, a) >= skillForAgent(cluster.registry, skill, a)]_vars
<1>1. CASE UNCHANGED vars
  BY <1>1
<1>2. CASE Next
  <2>1. LoopInv' /\ (Restore \/ Grows(cluster.registry, cluster'.registry))
    BY <1>2, LoopSteps
  <2>2. cluster.registry \in Registry /\ cluster'.registry \in Registry
    BY <2>1 DEF LoopInv, LoopTypeOK, ClusterType
  <2> QED
    BY <2>1, <2>2, GrowsNewer
<1> QED
  BY <1>1, <1>2

\* Why an agent may be retired by a step.
MayLeave(a) ==
  LET read == readManifestTree(tree', readable(tree', cluster.repos))
  IN  \/ Replaces
      \/ \A t \in read : a \notin t.agents
      \/ a \notin inForce(tree', cluster.repos) /\ \E t \in read : t.caps # {}

\* What the stack is brought up with.
BringsUp(m, tick) ==
  Up(m, tick) => cluster'.desired = applyReplicaCap(alone(m)) /\ cluster'.repos = m.repos

(* Steps retire an agent by a command that replaces the whole set, or when *)
(* no tree that can be read has it or none of their caps has room for it;  *)
(* `up` leaves the agents of its manifest.                                 *)
LEMMA StepsKeepUnion ==
  ASSUME LoopInv, [Next]_vars
  PROVE  [/\ \A a \in cluster.desired \ cluster'.desired : MayLeave(a)
          /\ \A m \in StackManifests, tick \in BOOLEAN : BringsUp(m, tick)]_vars
<1>1. CASE UNCHANGED vars
  BY <1>1
<1>2. CASE Next
  <2>1. Replaces \/ Reads(cluster, cluster', tree')
    BY <1>2, LoopSteps
  <2>2. ASSUME NEW a \in cluster.desired \ cluster'.desired
        PROVE  MayLeave(a)
    <3> DEFINE read == readManifestTree(tree', readable(tree', cluster.repos))
    <3>1. CASE Replaces
      BY <3>1 DEF MayLeave
    <3>2. CASE ~Replaces
      <4>1. a \notin inForce(tree', cluster.repos)
        BY <2>1, <2>2, <3>2 DEF Reads, SameFleet
      <4>2. ASSUME NEW t \in read, a \in t.agents
            PROVE  \E u \in read : u.caps # {}
        BY <4>1, <4>2, InForceUncapped, LoopTypes DEF LoopInv
      <4> QED
        BY <4>1, <4>2 DEF MayLeave
    <3> QED
      BY <3>1, <3>2
  <2>3. ASSUME NEW m \in StackManifests, NEW tick \in BOOLEAN, Up(m, tick)
        PROVE  cluster'.desired = applyReplicaCap(alone(m)) /\ cluster'.repos = m.repos
    <3>1. cluster' \in stackUp(cluster, m, tick) /\ m \in ManifestTree
      BY <2>3, ControlAssumption DEF Up
    <3> QED
      BY <3>1, BroughtUp, LoopTypes DEF LoopInv
  <2>4. \A m \in StackManifests, tick \in BOOLEAN : BringsUp(m, tick)
    BY <2>3 DEF BringsUp
  <2> QED
    BY <2>2, <2>4
<1> QED
  BY <1>1, <1>2

----------------------------------------------------------------------------
(* Whatever is cloned, synced, ticked, remembered and restored, the state  *)
(* is one the program can be in: the agents that learn are agents of the   *)
(* state, and the trajectories kept do not outgrow their cap.              *)
THEOREM LoopTyped == Spec => []LoopTypeOK
BY LoopInvariant, PTL DEF LoopInv

(* A promotion that was exported stays, for any facts, manifests and       *)
(* repositories: no sweep, run, export or sync narrows a fact that is      *)
(* alone under its name, in the state or in its manifest.                  *)
THEOREM PromotionsStay == Spec => []PromotionsSurvive
BY LoopInvariant, StandingSurvives, PTL

(* The version of a skill that an agent loads never gets older, whoever    *)
(* learns, shares and promotes skills of that name.                        *)
THEOREM SkillsNeverOlder == Spec => LoadedNeverOlder
<1>1. LoopInv /\ [Next]_vars =>
        [\/ Restore
         \/ \A skill \in Skills, a \in Agents :
              skillForAgent(cluster'.registry, skill, a) >= skillForAgent(cluster.registry, skill, a)]_vars
  BY StepsNeverOlder
<1> QED
  BY <1>1, LoopInvariant, PTL DEF Spec, LoadedNeverOlder

(* Nothing is retired in passing: an agent that a readable repository of   *)
(* the state defines leaves only by a command that replaces the whole set, *)
(* however many repositories share a path and whichever of them are due,   *)
(* or because policies read with it have no room for it; and the tick of   *)
(* `up` takes nothing away from the manifest just applied.                 *)
THEOREM NothingRetiredInPassing == Spec => UnionKept
<1>1. LoopInv /\ [Next]_vars =>
        [/\ \A a \in cluster.desired \ cluster'.desired : MayLeave(a)
         /\ \A m \in StackManifests, tick \in BOOLEAN : BringsUp(m, tick)]_vars
  BY StepsKeepUnion
<1>2. LoopInv /\ [Next]_vars =>
        [/\ \A a \in cluster.desired \ cluster'.desired :
              LET read == readManifestTree(tree', readable(tree', cluster.repos))
              IN  \/ \E m \in StackManifests : cluster'.desired = applyReplicaCap(alone(m))
                  \/ \E p \in Places : Watch(p)
                  \/ Restore
                  \/ \A t \in read : a \notin t.agents
                  \/ a \notin inForce(tree', cluster.repos) /\ \E t \in read : t.caps # {}
         /\ \A m \in StackManifests, tick \in BOOLEAN :
              Up(m, tick) => cluster'.desired = applyReplicaCap(alone(m)) /\ cluster'.repos = m.repos]_vars
  BY <1>1 DEF MayLeave, BringsUp, Replaces
<1> QED
  BY <1>2, LoopInvariant, PTL DEF Spec, UnionKept
=============================================================================
