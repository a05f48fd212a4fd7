\* Two deliveries to two agents, a native task and a manifest, under a budget
\* of two units that tasks of one and two units share, until a reconcile swaps
\* their cost and leaves one unit.
CONSTANTS
  d1 = d1  d2 = d2  a1 = a1  a2 = a2  n1 = n1  g1 = g1
  Deliveries = {d1, d2}
  Agents = {a1, a2}
  NativeIds = {n1}
  GitIds = {g1}
  AgentOf <- MCAgentOf
  AgentOrder <- MCAgentOrder
  ScanOrder <- MCScanOrder
  Modes = {"webhook"}
  Delivers = {a2}
  Refused = {}
  Prices <- MCPrices
  BudgetWindow = 1
  RateWindow = 2
  RateLimit = 2
  SeenMax = 1
  MaxAttempts = 2
  MaxItems = 2
  MaxForgotten = 1
  MaxChanges = 2
SYMMETRY MCSymmetry
SPECIFICATION MCSpec
INVARIANTS OverrunIsOverlap DeliveredOnce SpanLimit SettledIsEarned OneOpenPerManifest
CHECK_DEADLOCK FALSE
