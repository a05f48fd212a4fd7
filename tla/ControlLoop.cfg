\* Three repositories, read in place, cloned and copied, and two agents that learn the same skill.
CONSTANTS
  r1 = r1  r2 = r2  r3 = r3  a1 = a1  a2 = a2  t1 = t1  t2 = t2  g1 = g1
  Absent = Absent  Broken = Broken
  Agents = {a1, a2}
  Tasks = {t1, t2}
  GitFacts = {g1}
  Repos = {r1, r2, r3}
  AgentOf <- MCAgentOf
  SkillOf <- MCSkillOf
  EventTasks = {t2}
  WriteScope <- MCWriteScope
  Fleet = {a2}
  Exporting = {a2}
  OnDemand = {a1}
  TrajectoryCap = 1
  RepoOrder <- MCRepoOrder
  Local = {r3}
  MentionsFleets = {r3}
  Upstream <- MCUpstream
  InitialTree <- MCInitialTree
  Requested <- MCRequested
  Position <- MCPosition
  Trees <- MCTrees
  StackManifests <- MCStackManifests
  Documents <- MCDocuments
  Interval = 1
  Budgets <- MCBudgets
  MaxFacts = 3
SPECIFICATION FairSpec
INVARIANT PromotionsSurvive
PROPERTIES UnionKept LoadedNeverOlder 
CHECK_DEADLOCK FALSE
