\* Three items, two priorities, boosts of up to two steps.
CONSTANTS
  a = a  b = b
  Kinds <- MCKinds
  Priorities = {0, 1}
  BoostTicks = 1
  BoostMax = 2
  MaxAttempts = 2
  Backoff <- MCBackoff
  Limits = {2}
  MaxItems = 3
  Horizon = 2
  Ceiling = 2
SPECIFICATION Spec
SYMMETRY AnyKind
PROPERTIES OvertakenOnlyByLead WorkConserving
