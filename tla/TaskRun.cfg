\* Two tasks of one agent: every sandbox, runtime, policy and host of a few.
CONSTANTS
  t1 = t1  t2 = t2  a1 = a1  w1 = w1  w2 = w2  r1 = r1  r2 = r2  op = op
  Agents = {a1}
  Slots = {w1}
  Runs = {r1, r2}
  Operator = op
  LiveInFile = {}
  SizeOf <- MCSizeOf
  InSession = FALSE
  Tasks = {t1, t2}
  KindOf <- MCKindOf
  AgentOf <- MCAgentOf
  Setups <- MCSetups
  MaxTries = 1
  MaxFollow = 1
  MaxEvents = 1
SPECIFICATION Spec
INVARIANTS ContainersAccountedFor StoreWithinCap OneBuild GatedCallsApproved
PROPERTY RunsSettle
CHECK_DEADLOCK FALSE
