\* Two workers, two attempts, leases that expire, changing grants and budgets.
SPECIFICATION Spec
CONSTANTS
  w1 = w1
  w2 = w2
  t1 = t1
  t2 = t2
  p1 = p1
  p2 = p2
  o1 = o1
  Workers = {w1, w2}
  Tools = {}
  Plans = {p1, p2}
  Overruns <- TwoOverruns
  Rules <- ChangingRules
  FirstReasons = {"new_run", "approval_granted"}
  MaxAttempts = 2
  Expiring = TRUE
  Changing = TRUE
INVARIANTS SettledOnce CheckpointsCleared
SYMMETRY WorkerSymmetry
CHECK_DEADLOCK FALSE
