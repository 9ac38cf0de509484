\* The full life of one run that is enqueued once; its worker may never come back.
SPECIFICATION FairSpec
CONSTANTS
  r1 = r1
  r2 = r2
  h1 = h1
  h2 = h2
  Runs = {r1}
  Hashes = {h1, h2}
  MaxAttempts = 2
  BaseDelay = 1
  MaxDelay = 3
  LeaseMs = 2
  ExtendByMs = {}
  ApprovalTtl = 1
  Reenqueue = FALSE
  Horizon = 4
  MaxRecords = 4
  MaxApprovals = 2
INVARIANTS CancelSticks ApprovalFidelity OneActivePerRun
PROPERTIES CancelCompletes LeaseExclusive
CHECK_DEADLOCK FALSE
