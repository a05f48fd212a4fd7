\* Manifests that change image, size, mode and policy, applied in full or in
\* canary steps between claims and operator commands.
CONSTANTS
  a = a  f = f  t1 = t1
  Manifests <- MCManifests
  Tasks = {t1}
  CanaryCount = 1
  Unlimited = 9
  MaxChanges = 2
SPECIFICATION Spec
INVARIANTS CapacityWithinPolicy DriftExplainsPlan
PROPERTIES ApplyLeavesNoDrift CanaryBudget RunnersFinish Converges
