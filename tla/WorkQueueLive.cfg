\* Two of four tasks: one that no warm worker may serve, one no worker may.
CONSTANTS
  t1 = t1  t2 = t2  t3 = t3  t4 = t4
  builder = builder  triage = triage
  b0 = b0  b1 = b1  r0 = r0  r1 = r1
  TaskIds <- MCFourTasks
  Agents <- MCAgents
  TaskAgent <- MCFourTaskAgent
  Workers <- MCFourWorkers
  WorkerAgent <- MCFourWorkerAgent
  OnDemand <- MCOnDemand
  Placeable <- MCGatedPlaceable
  OldImage = {b1}
  IdleTTL <- MCWarmTTL
  PolicyCap = 3
  MaxAttempts = 2
  LeaseTime = 1
  Backoff <- MCBackoff
  Concurrency = 1
  Limits = {1, 2}
  Scopes <- MCTwoScopes
  MaxItems = 2
  Hazards = {"drainDies", "deliveryThrows", "sharedObject"}
SPECIFICATION LiveSpec
PROPERTIES EveryTaskSettles WarmWorkersLeave
