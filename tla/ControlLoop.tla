---------------------------- MODULE ControlLoop ----------------------------
(***************************************************************************)
(* The control loop: manifests in git repositories, their checkouts, the   *)
(* syncs that reconcile the union of the trees, the tick, the stack that   *)
(* is brought up and down, snapshots, and what agents remember and learn   *)
(* meanwhile (SharedMemory).                                               *)
(*                                                                         *)
(* Sources: gitrepo.ts, clone.ts, watch.ts, tick.ts, stack.ts, snapshot.ts *)
(* and the commands of cli.ts and api.ts over them, all under src/src.  A  *)
(* command loads, changes and saves the state in one step: what commands   *)
(* that overlap do to each other is the subject of StateFile.  Of what a   *)
(* reconcile does the agents and repositories it leaves are kept; workers  *)
(* are those of Reconcile and WorkQueue, as are the tick's reclaim and     *)
(* ageing; its container sweep is that of Sandbox.  The audit trail and    *)
(* autoscale, which recommends and changes nothing, are left out.          *)
(***************************************************************************)
EXTENDS SharedMemory

CONSTANTS
  Repos,
  RepoOrder,        \* the repositories as the state lists them
  Local,            \* repositories with a file:// url
  MentionsFleets,   \* repositories whose path mentions fleets
  Upstream,         \* what a clone of each repository checks out
  InitialTree,      \* what there is at each place to begin with
  Requested,        \* workers the definition of each agent asks for
  Position,         \* of the definition among those of a tree
  Trees,            \* manifests that may be committed to each place
  StackManifests,   \* manifests an operator applies or brings up
  Documents,        \* manifests that may be committed for a fact
  Interval,         \* between syncs, in ticks
  Budgets,          \* bounds: pairs of numbers of commands a behaviour may hold
  MaxFacts,         \* bound on the facts
  Broken            \* a tree that does not parse, or a checkout without the path

\* learning: those of the agents that learn; caps: the maxReplicas of the
\* policies; facts: the memory directory
ManifestTree ==
  {t \in [agents : SUBSET Agents, learning : SUBSET Agents, repos : SUBSET Repos, caps : SUBSET Nat,
          facts : Directory] :
     t.learning \subseteq t.agents}

declared(r) == <<"path", r>>
checkout(r) == <<"checkout", r>>
fleets == <<"fleets">>
Places == {declared(r) : r \in Repos} \cup {checkout(r) : r \in Repos} \cup {fleets}

ASSUME ControlAssumption ==
  /\ RepoOrder \in Seq(Repos) /\ ToSet(RepoOrder) = Repos
  /\ \A i, j \in DOMAIN RepoOrder : RepoOrder[i] = RepoOrder[j] => i = j
  /\ Local \cup MentionsFleets \subseteq Repos
  /\ Requested \in [Agents -> Nat \ {0}] /\ Position \in [Agents -> Nat]
  /\ Upstream \in [Repos -> ManifestTree \cup {Broken}]
  /\ InitialTree \in [Places -> ManifestTree \cup {Broken, Absent}]
  /\ Trees \in [Places -> SUBSET (ManifestTree \cup {Broken, Absent})]
  /\ StackManifests \subseteq ManifestTree /\ Documents \subseteq Manifest \cup {Absent}
  /\ {Interval, MaxFacts} \subseteq Nat \ {0}
  /\ Budgets \subseteq [control : Nat, memory : Nat]

VARIABLES
  cluster,      \* the saved state, with the memory directory of the workspace
  tree,         \* what is at each place a repository may be read from
  snapshot,     \* the state last written by `ropex snapshot`
  left,         \* commands and commits to come, on repositories and on memory
  granted       \* history: rank of the scope an exported promotion gave a fact

vars == <<cluster, tree, snapshot, left, granted>>

ClusterType(s) ==
  /\ s \in [desired : SUBSET Agents, learning : SUBSET Agents, repos : SUBSET Repos,
            age : [Repos -> 0..Interval], pending : SUBSET Tasks, paused : BOOLEAN,
            stack : {"up", "down"}, memory : Memory, files : Directory,
            learned : SUBSET (Agents \X Skills), registry : Registry,
            trajectories : Seq(TrajectoryRecord)]
  /\ s.learning \subseteq s.desired /\ Len(s.trajectories) <= TrajectoryCap

LoopTypeOK ==
  /\ ClusterType(cluster)
  /\ tree \in [Places -> ManifestTree \cup {Broken, Absent}]
  /\ snapshot # Absent => ClusterType(snapshot)
  /\ left \in [control : Nat, memory : Nat]
  /\ granted \in [FactIds -> 0..3]

----------------------------------------------------------------------------
(* Repositories.  One that never synced is as old as one whose interval    *)
(* has elapsed.                                                            *)

resolveRepoLocalPath(tr, r) ==
  IF tr[declared(r)] # Absent THEN declared(r)
  ELSE IF r \in MentionsFleets /\ tr[fleets] # Absent THEN fleets
  ELSE checkout(r)

readable(tr, repos) == {r \in repos : tr[resolveRepoLocalPath(tr, r)] # Absent}

\* Of two repositories with one path the first is read and stamped.
collectMultiRepoManifests(tr, repos) ==
  {r \in readable(tr, repos) :
     ~\E i, j \in DOMAIN RepoOrder :
        /\ i < j /\ RepoOrder[j] = r /\ RepoOrder[i] \in repos
        /\ resolveRepoLocalPath(tr, RepoOrder[i]) = resolveRepoLocalPath(tr, r)}

readManifestTree(tr, repos) == {tr[resolveRepoLocalPath(tr, r)] : r \in repos}

\* What is read together, in its order: one manifest, or the trees of
\* several repositories.
alone(m) == {[at |-> 1, tree |-> m]}

unionOf(tr, repos) ==
  {[at |-> CHOOSE i \in DOMAIN RepoOrder : RepoOrder[i] = r,
    tree |-> tr[resolveRepoLocalPath(tr, r)]] : r \in repos}

(* The agents of every tree come first, then the fleets.                   *)
expandDesired(read) == UNION {{<<x.at, a>> : a \in x.tree.agents} : x \in read}

expandsBefore(d, e) ==
  \/ d[2] \notin Fleet /\ e[2] \in Fleet
  \/ /\ d[2] \in Fleet <=> e[2] \in Fleet
     /\ d[1] < e[1] \/ (d[1] = e[1] /\ Position[d[2]] < Position[e[2]])

collectPolicies(read) == UNION {x.tree.caps : x \in read}

(* A definition for which those before it leave nothing of a cap is gone.  *)
applyReplicaCap(read) ==
  LET defs == expandDesired(read)
      taken(d) == MapThenSumSet(LAMBDA e : Requested[e[2]], {e \in defs : expandsBefore(e, d)})
      beyond(cap) == {d \in defs : taken(d) >= cap}
  IN  {d[2] : d \in defs \ UNION {beyond(cap) : cap \in collectPolicies(read)}}

planReconcile(s, read) ==
  LET agents == applyReplicaCap(read)
  IN  [s EXCEPT !.desired = agents,
                !.learning = agents \cap UNION {x.tree.learning : x \in read},
                !.repos = UNION {x.tree.repos : x \in read}]

stampSyncStatus(s, repos) ==
  [s EXCEPT !.age = [r \in Repos |-> IF r \in repos THEN 0 ELSE @[r]]]

\* Reading a tree that does not parse throws, before anything is saved.
parses(tr, repos) == Broken \notin readManifestTree(tr, collectMultiRepoManifests(tr, repos))

isRepoDue(s, r) == s.age[r] >= Interval
reposDueForSync(s) == {r \in s.repos : isRepoDue(s, r)}

(* Read the repositories that are due.                                     *)
collectDue(s, tr) == collectMultiRepoManifests(tr, reposDueForSync(s))

collectAll(s, tr) == collectMultiRepoManifests(tr, s.repos)


(* base: the state on disk, which is loaded again, or s if the caller will *)
(* save it.                                                                *)
syncMultiRepo(base, s, tr) ==
  LET resolved == collectAll(s, tr)
  IN  IF resolved = {} THEN s
      ELSE stampSyncStatus(planReconcile(base, unionOf(tr, resolved)), resolved)

syncDueGitRepos(base, s, tr) ==
  IF reposDueForSync(s) = {} THEN s ELSE syncMultiRepo(base, s, tr)

----------------------------------------------------------------------------
(* Clones.  o: the options remote, dryRun and force; works: repositories   *)
(* that can be fetched.                                                    *)

runGitClone(r, o, works) ==
  o.dryRun \/ (tree[checkout(r)] # Absent /\ ~o.force) \/ r \in works

cloneGitRepo(r, o, works) ==
  \/ tree[declared(r)] # Absent
  \/ r \in Local /\ r \in works
  \/ r \notin Local /\ o.remote /\ runGitClone(r, o, works)

\* With force the old checkout of a remote is gone before git is asked.
checkedOut(r, o, works) ==
  IF \/ tree[declared(r)] # Absent \/ o.dryRun \/ (tree[checkout(r)] # Absent /\ ~o.force)
     \/ (r \in Local /\ r \notin works) \/ (r \notin Local /\ ~o.remote)
  THEN tree[checkout(r)]
  ELSE IF r \in works THEN Upstream[r] ELSE Absent

upsertCloneStatus(s, r, o, works) ==
  IF r \notin s.repos THEN s.age[r] ELSE IF cloneGitRepo(r, o, works) THEN 0 ELSE Interval

cloneAllGitRepos(s, o, works) ==
  [s EXCEPT !.age = [r \in Repos |-> upsertCloneStatus(s, r, o, works)]]

treeAfterClone(s, o, works) ==
  [p \in Places |-> IF p[1] = "checkout" /\ p[2] \in s.repos
                    THEN checkedOut(p[2], o, works) ELSE tree[p]]

CloneOptions == [remote : BOOLEAN, dryRun : BOOLEAN, force : BOOLEAN]

----------------------------------------------------------------------------
(* The parts of a tick: the sweep of idle workers, the sync that is due    *)
(* and the drain, of which at most one run ends.                           *)

sweepIdleWorkers(s) == {destroyWorkers(s, idle) : idle \in SUBSET (OnDemand \cap s.desired)}

roomForFacts(s) == Cardinality(factsHeld(s.memory)) < MaxFacts

drainQueue(s) ==
  IF s.paused THEN {s}
  ELSE {s} \cup {runEnds(s, t, long, written) :
                   t \in {u \in s.pending : AgentOf[u] \in s.desired /\ roomForFacts(s)},
                   long \in BOOLEAN, written \in BOOLEAN}

planCloneAll(s, remote, works) ==
  cloneAllGitRepos(s, [remote |-> remote, dryRun |-> TRUE, force |-> FALSE], works)

controlPlaneTick(s, skipSync) ==
  UNION {drainQueue(IF skipSync THEN x ELSE syncDueGitRepos(x, x, tree)) : x \in sweepIdleWorkers(s)}

----------------------------------------------------------------------------
(* Commands on the repositories.                                           *)

Command(kind) == left[kind] > 0 /\ left' = [left EXCEPT ![kind] = @ - 1]

Apply(m) ==
  /\ Command("control")
  /\ cluster' = planReconcile(cluster, alone(m))
  /\ UNCHANGED <<tree, snapshot, granted>>

\* `ropex watch <path>`: the manifests of one place are all there is.
watchOnce(s, t) == planReconcile(s, alone(t))

Watch(p) ==
  /\ Command("control") /\ tree[p] \notin {Absent, Broken}
  /\ cluster' = watchOnce(cluster, tree[p])
  /\ UNCHANGED <<tree, snapshot, granted>>

Sync(dueOnly) ==
  /\ Command("control") /\ cluster.repos # {}
  /\ dueOnly => reposDueForSync(cluster) # {}
  /\ parses(tree, cluster.repos)
  /\ cluster' = syncMultiRepo(cluster, cluster, tree)
  /\ UNCHANGED <<tree, snapshot, granted>>

Clone(o) ==
  /\ Command("control") /\ cluster.repos # {} /\ ~o.dryRun
  /\ \E works \in SUBSET cluster.repos :
       /\ cluster' = cloneAllGitRepos(cluster, o, works)
       /\ tree' = treeAfterClone(cluster, o, works)
  /\ UNCHANGED <<snapshot, granted>>

\* The request saves the stamps of a dry run too.
PostClone(o) ==
  /\ Command("control")
  /\ \E works \in SUBSET cluster.repos :
       /\ cluster' = cloneAllGitRepos(cluster, o, works)
       /\ tree' = treeAfterClone(cluster, o, works)
  /\ UNCHANGED <<snapshot, granted>>

(* One pass of `ropex watch --repos`.  The sync loads the state again, so  *)
(* the stamps of the clones are saved only when nothing could be read; and *)
(* when it throws, only the checkouts are left of the pass.                *)
watchDeclaredRepos(remote, force, works) ==
  LET o == [remote |-> remote, dryRun |-> FALSE, force |-> FALSE]
      cloning == remote /\ (force \/ reposDueForSync(cluster) # {})
      s == IF cloning THEN cloneAllGitRepos(cluster, o, works) ELSE cluster
  IN  /\ tree' = IF cloning THEN treeAfterClone(cluster, o, works) ELSE tree
      /\ cluster' = IF parses(tree', cluster.repos) THEN syncMultiRepo(cluster, s, tree') ELSE cluster

watchReposLoop ==
  /\ cluster.repos # {}
  /\ watchDeclaredRepos(FALSE, FALSE, {})
  /\ UNCHANGED <<snapshot, left, granted>>

\* The same with --remote, and with --force perhaps.
WatchRemote(force) ==
  /\ cluster.repos # {}
  /\ \E works \in SUBSET cluster.repos : watchDeclaredRepos(TRUE, force, works)
  /\ UNCHANGED <<snapshot, left, granted>>

----------------------------------------------------------------------------
(* The tick and the stack.                                                 *)

\* With --clone the repositories are stamped before it is asked which are due.
Tick(clone) ==
  /\ \E remote \in BOOLEAN, works \in SUBSET (IF clone THEN cluster.repos ELSE {}) :
       LET s == IF clone THEN planCloneAll(cluster, remote, works) ELSE cluster
           due == reposDueForSync(s) # {}
       IN  /\ due => parses(tree, s.repos)
           /\ cluster' \in controlPlaneTick(s, FALSE)
  /\ UNCHANGED <<tree, snapshot, left, granted>>

stackTick(s) == controlPlaneTick(s, TRUE)

stackUp(s, m, tick) ==
  LET up == [planReconcile(s, alone(m)) EXCEPT !.paused = FALSE, !.stack = "up"]
  IN  UNION {IF tick THEN stackTick(x) ELSE {x} : x \in sweepIdleWorkers(up)}

Up(m, tick) ==
  /\ Command("control")
  /\ cluster' \in stackUp(cluster, m, tick)
  /\ UNCHANGED <<tree, snapshot, granted>>

\* The manifest is missing or does not parse.
UpFails ==
  /\ Command("control")
  /\ cluster' = [cluster EXCEPT !.stack = "down"]
  /\ UNCHANGED <<tree, snapshot, granted>>

\* The process ends after the manifest is applied on disk.
UpDies(m) ==
  /\ Command("control")
  /\ cluster' = planReconcile(cluster, alone(m))
  /\ UNCHANGED <<tree, snapshot, granted>>

stackDown(s) ==
  [destroyWorkers(s, OnDemand \cap s.desired) EXCEPT !.paused = TRUE, !.stack = "down"]

Down ==
  /\ Command("control")
  /\ cluster' = stackDown(cluster)
  /\ UNCHANGED <<tree, snapshot, granted>>

writeSnapshot ==
  /\ Command("control")
  /\ snapshot' = cluster
  /\ UNCHANGED <<cluster, tree, granted>>

\* The files beside the state stay as they are.
restoreSnapshot(files) == [snapshot EXCEPT !.files = files]

Restore ==
  /\ Command("control") /\ snapshot # Absent
  /\ cluster' = restoreSnapshot(cluster.files)
  /\ granted' = [id \in FactIds |-> 0]
  /\ UNCHANGED <<tree, snapshot>>

----------------------------------------------------------------------------
(* Commands on memory and skills.                                          *)

Enqueue(t) ==
  /\ Command("memory") /\ t \notin cluster.pending
  /\ cluster' = [cluster EXCEPT !.pending = @ \cup {t}]
  /\ UNCHANGED <<tree, snapshot, granted>>

MemorySync ==
  /\ Command("memory")
  /\ cluster' = [cluster EXCEPT !.memory = syncMemoryFromDir(@, cluster.files)]
  /\ UNCHANGED <<tree, snapshot, granted>>

\* The memory directories of the repositories, which may not exist.
memoryDirs(repos) ==
  {t.facts : t \in readManifestTree(tree, readable(tree, repos)) \ {Broken}}

\* In the order of the repositories; one that cannot be read is passed over.
syncMemoryFromGitRepos(m, repos) ==
  LET place(n) == resolveRepoLocalPath(tree, RepoOrder[n])
      upTo[n \in 0..Len(RepoOrder)] ==
        IF n = 0 THEN m
        ELSE IF RepoOrder[n] \in repos /\ tree[place(n)] \notin {Absent, Broken}
        THEN syncMemoryFromDir(upTo[n - 1], tree[place(n)].facts) ELSE upTo[n - 1]
  IN  upTo[Len(RepoOrder)]

MemorySyncRepos ==
  /\ Command("memory") /\ memoryDirs(cluster.repos) # {} /\ roomForFacts(cluster)
  /\ LET dirs == memoryDirs(cluster.repos)
     IN  /\ cluster' = [cluster EXCEPT !.memory = syncMemoryFromGitRepos(@, cluster.repos)]
         /\ granted' = [id \in FactIds |->
                          IF \A dir \in dirs : dir[id] = Absent THEN granted[id] ELSE 0]
  /\ UNCHANGED <<tree, snapshot>>

MemoryExport(ids, force) ==
  /\ Command("memory")
  /\ cluster' = exportMemoryFacts(cluster, ids, force)
  /\ UNCHANGED <<tree, snapshot, granted>>

\* --no-export leaves the manifest as it was.
MemoryPromote(id, scope, export) ==
  /\ Command("memory") /\ mayPromote(cluster.memory, id, scope)
  /\ cluster' = IF export THEN promoteAndExport(cluster, id, scope)
                ELSE [cluster EXCEPT !.memory = promote(@, id, scope)]
  /\ granted' = IF export THEN [granted EXCEPT ![id] = SCOPE_RANK[scope]] ELSE granted
  /\ UNCHANGED <<tree, snapshot>>

SkillsShare(skill, to) ==
  /\ Command("memory") /\ cluster.registry[skill] # <<>>
  /\ cluster' = [cluster EXCEPT !.registry = shareSkill(@, skill, to)]
  /\ UNCHANGED <<tree, snapshot, granted>>

SkillsPromote(skill) ==
  /\ Command("memory") /\ cluster.registry[skill] # <<>>
  /\ cluster' = [cluster EXCEPT !.registry = promoteSkill(@, skill, cluster.desired)]
  /\ UNCHANGED <<tree, snapshot, granted>>

Learn(traj) ==
  /\ Command("memory")
  /\ cluster' = learnFromTrajectory(cluster, traj)
  /\ UNCHANGED <<tree, snapshot, granted>>

----------------------------------------------------------------------------
(* Time, and commits to the trees and to the memory directory.             *)

Elapse ==
  /\ cluster' = [cluster EXCEPT !.age = [r \in Repos |-> Min({@[r] + 1, Interval})]]
  /\ UNCHANGED <<tree, snapshot, left, granted>>

Commit(p, t) ==
  /\ Command("control") /\ tree[p] # t
  /\ tree' = [tree EXCEPT ![p] = t]
  /\ UNCHANGED <<cluster, snapshot, granted>>

CommitFact(id, doc) ==
  /\ Command("memory")
  /\ cluster' = [cluster EXCEPT !.files[id] = doc]
  /\ granted' = [granted EXCEPT ![id] = 0]
  /\ UNCHANGED <<tree, snapshot>>

emptyState ==
  [desired |-> {}, learning |-> {}, repos |-> {}, age |-> [r \in Repos |-> Interval],
   pending |-> {}, paused |-> FALSE, stack |-> "down", memory |-> [id \in FactIds |-> <<>>],
   files |-> emptyDirectory, learned |-> {}, registry |-> [skill \in Skills |-> <<>>], trajectories |-> <<>>]

Init ==
  /\ \E m \in StackManifests : cluster = planReconcile(emptyState, alone(m))
  /\ tree = InitialTree /\ snapshot = Absent /\ left \in Budgets
  /\ granted = [id \in FactIds |-> 0]

Next ==
  \/ Elapse \/ watchReposLoop \/ \E force \in BOOLEAN : WatchRemote(force)
  \/ \E clone \in BOOLEAN : Tick(clone)
  \/ \E dueOnly \in BOOLEAN : Sync(dueOnly)
  \/ \E o \in CloneOptions : Clone(o) \/ PostClone(o)
  \/ \E p \in Places : Watch(p) \/ \E t \in Trees[p] : Commit(p, t)
  \/ \E m \in StackManifests :
       Apply(m) \/ UpDies(m) \/ \E tick \in BOOLEAN : Up(m, tick)
  \/ UpFails \/ Down \/ writeSnapshot \/ Restore
  \/ \E t \in Tasks : Enqueue(t)
  \/ MemorySync \/ MemorySyncRepos
  \/ \E id \in FactIds :
       \/ \E scope \in Scopes, export \in BOOLEAN : MemoryPromote(id, scope, export)
       \/ \E doc \in Documents : CommitFact(id, doc)
  \/ \E ids \in {FactIds} \cup {{id} : id \in FactIds}, force \in BOOLEAN : MemoryExport(ids, force)
  \/ \E skill \in Skills : SkillsPromote(skill) \/ \E to \in Agents : SkillsShare(skill, to)
  \/ \E i \in DOMAIN cluster.trajectories : Learn(cluster.trajectories[i])

Spec == Init /\ [][Next]_vars

\* `ropex watch --repos` runs until it is stopped, and is started again
\* when a tree that does not parse ended it.
FairSpec == Spec /\ WF_vars(watchReposLoop)

----------------------------------------------------------------------------
\* The agents of the repositories that can be read, which their policies,
\* taken together, have room for.
inForce(tr, repos) == applyReplicaCap(unionOf(tr, collectMultiRepoManifests(tr, repos)))

(* Nothing is retired in passing: whatever is synced, ticked, cloned or    *)
(* committed, an agent that a readable repository of the state defines     *)
(* leaves only by a command that replaces the whole set, by one manifest,  *)
(* by one place or by a snapshot, or because a policy among the readable   *)
(* repositories has no room for it; and the tick of `up` takes nothing     *)
(* away from the manifest just applied, whichever repositories are due.    *)
UnionKept ==
  [][/\ \A a \in cluster.desired \ cluster'.desired :
          LET read == readManifestTree(tree', readable(tree', cluster.repos))
          IN  \/ \E m \in StackManifests : cluster'.desired = applyReplicaCap(alone(m))
              \/ \E p \in Places : Watch(p)
              \/ Restore
              \/ \A t \in read : a \notin t.agents
              \/ a \notin inForce(tree', cluster.repos) /\ \E t \in read : t.caps # {}
     /\ \A m \in StackManifests, tick \in BOOLEAN :
          Up(m, tick) => cluster'.desired = applyReplicaCap(alone(m)) /\ cluster'.repos = m.repos]_vars

(* The version of a skill that an agent loads never gets older, whoever    *)
(* learns, shares and promotes, unless a snapshot is restored.             *)
LoadedNeverOlder ==
  [][\/ Restore
     \/ \A skill \in Skills, a \in Agents :
          skillForAgent(cluster'.registry, skill, a) >= skillForAgent(cluster.registry, skill, a)]_vars

(* A promotion that was exported stays: sweeps, runs, exports and syncs    *)
(* never narrow the fact again unless a commit to its manifest does, as    *)
(* long as the fact is the only one of its name.                           *)
PromotionsSurvive ==
  \A id \in FactIds :
    Len(cluster.memory[id]) = 1 => SCOPE_RANK[find(cluster.memory, id).scope] >= granted[id]

(* A repository that never synced, or whose interval has elapsed, is due   *)
(* until a sync reads it, from which on its agents are those of its tree,  *)
(* as far as the policies have room for them.                              *)
DueUntilSynced ==
  [][\/ Restore
     \/ \A r \in cluster.repos \cap cluster'.repos :
          LET t == tree'[resolveRepoLocalPath(tree', r)]
          IN  isRepoDue(cluster, r) /\ ~isRepoDue(cluster', r) /\ t \notin {Absent, Broken}
                => t.agents \cap inForce(tree', cluster.repos) \subseteq cluster'.desired]_vars

(* Under the watch the agents become those of the readable repositories,   *)
(* as far as the policies have room, and stay, once nobody commits or      *)
(* commands otherwise, whatever was applied, restored, cloned or half done *)
(* before: if the trees read declare the repositories they were read from. *)
(* Two repositories that declare only each other take turns for ever.      *)
converged ==
  LET read == readManifestTree(tree, readable(tree, cluster.repos))
      settled == UNION {t.repos : t \in read} = cluster.repos
  IN  read # {} /\ Broken \notin read /\ settled => cluster.desired = inForce(tree, cluster.repos)

============================================================================
