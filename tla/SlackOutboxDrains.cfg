\* Two messages, one of which is enqueued again, two drains and a crash.
SPECIFICATION FairSpec
CONSTANTS
  k1 = k1
  k2 = k2
  d1 = d1
  d2 = d2
  Keys = {k1, k2}
  Drains = {d1, d2}
  MaxAttempts = 2
  MaxPosts = 2
  RetryDelay = 1
  Limit = 2
  MaxContents = 3
  Horizon = 1
  MaxUnsaved = 1
  MaxCrashes = 1
INVARIANTS AckedOnce
PROPERTIES EndsUnlessCrashed
CHECK_DEADLOCK FALSE
