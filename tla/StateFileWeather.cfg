SPECIFICATION Spec
CONSTANTS
  Actors = {a1, a2}
  Tasks = {t1, t2}
  MaxAttempts = 2
  MaxRuns = 2
  Hazards = {"overlap", "crash", "tornWrite"}
SYMMETRY FileSymmetry
INVARIANT OutcomesAreReal
