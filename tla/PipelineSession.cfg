\* Sessions that end, fail or are lost at any point.  A system whose
\* pipelines are all over stops.
CONSTANTS
  p1 = p1  p2 = p2
  Pipelines <- MCTwo
  StageCount <- MCStages
  MaxAttempts = 2
  MaxKept = 2
  Exposed = {}
SPECIFICATION SessionSpec
CHECK_DEADLOCK FALSE
INVARIANTS HostDoneIsEarned EndedOnce WorkCarriedOver
