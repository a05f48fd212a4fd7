\* Fresh ids, drains that may be abandoned, commands between drains.
CONSTANTS
  t1 = t1  t2 = t2  t3 = t3  t4 = t4
  builder = builder  triage = triage
  b0 = b0  b1 = b1  r0 = r0  r1 = r1
  TaskIds <- MCTaskIds
  Agents <- MCAgents
  TaskAgent <- MCTaskAgent
  Workers <- MCWorkers
  WorkerAgent <- MCWorkerAgent
  OnDemand <- MCOnDemand
  Placeable <- MCPlaceable
  OldImage = {}
  IdleTTL <- MCWarmTTL
  PolicyCap = 2
  MaxAttempts = 2
  LeaseTime = 1
  Backoff <- MCBackoff
  Concurrency = 2
  Limits = {2}
  Scopes <- MCWholeQueue
  MaxItems = 3
  Hazards = {"drainDies"}
SPECIFICATION Spec
SYMMETRY Slots
INVARIANTS WorkerExclusive RunningIffClaimed ChargedOnceWhenDone PolicyCapHolds
PROPERTY ImplementsLifecycle
