\* A pipeline of three stages whose tasks other drains and operators touch.
\* A system whose pipeline is over and whose queue is empty stops.
CONSTANTS
  p1 = p1
  Pipelines <- MCOne
  StageCount <- MCStages
  MaxAttempts = 2
  MaxKept = 1
  Exposed = {p1}
SPECIFICATION Spec
CHECK_DEADLOCK FALSE
INVARIANTS StagesInOrder DoneIsEarned OneResult ContextHandoff
PROPERTY PipelinesSettle
