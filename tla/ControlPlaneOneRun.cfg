\* One run, two drains and every handler.
SPECIFICATION Spec
CONSTANTS
  r1 = r1
  r2 = r2
  h1 = h1
  d1 = d1
  d2 = d2
  Runs = {r1}
  Hashes = {h1}
  MaxAttempts = 2
  BaseDelay = 1
  MaxDelay = 3
  LeaseMs = 2
  ExtendByMs = {}
  ApprovalTtl = 1
  Horizon = 4
  MaxRecords = 4
  MaxApprovals = 2
  Drains = {d1, d2}
  MaxItems = 2
  Redriving = TRUE
INVARIANTS GatesMatchApprovals OutcomesTrue CancelledIsStopped
CHECK_DEADLOCK FALSE
