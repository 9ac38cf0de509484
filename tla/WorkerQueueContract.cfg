\* Two runs that may be enqueued again and again, one payload hash.
SPECIFICATION Spec
CONSTANTS
  r1 = r1
  r2 = r2
  h1 = h1
  h2 = h2
  Runs = {r1, r2}
  Hashes = {h1}
  MaxAttempts = 2
  BaseDelay = 1
  MaxDelay = 3
  LeaseMs = 1
  ExtendByMs = {1}
  ApprovalTtl = 1
  Reenqueue = TRUE
  Horizon = 2
  MaxRecords = 3
  MaxApprovals = 1
INVARIANTS RetryChain
PROPERTIES ImplementsLifecycle
CHECK_DEADLOCK FALSE
