\* A paused run whose approval expires undecided.
SPECIFICATION FairSpec
CONSTANTS
  r1 = r1
  r2 = r2
  h1 = h1
  d1 = d1
  d2 = d2
  Runs = {r1}
  Hashes = {h1}
  MaxAttempts = 2
  BaseDelay = 1
  MaxDelay = 3
  LeaseMs = 1
  ExtendByMs = {}
  ApprovalTtl = 1
  Horizon = 3
  MaxRecords = 2
  MaxApprovals = 1
  Drains = {d1}
  MaxItems = 2
  Redriving = FALSE
PROPERTIES ExpiryCancelsWork
CHECK_DEADLOCK FALSE
