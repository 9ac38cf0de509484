\* Only the sandbox, or the pull request, needs an approval.
SPECIFICATION FairSpec
CONSTANTS
  w1 = w1
  w2 = w2
  t1 = t1
  t2 = t2
  p1 = p1
  p2 = p2
  o1 = o1
  Workers = {w1}
  Tools = {t1, t2}
  Plans = {p1}
  Overruns <- NoOverruns
  Rules <- OneCheckpoint
  FirstReasons = {"new_run", "approval_granted"}
  MaxAttempts = 3
  Expiring = FALSE
  Changing = FALSE
PROPERTIES RunEnds
CHECK_DEADLOCK FALSE
