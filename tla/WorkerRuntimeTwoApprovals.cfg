\* A run that is over budget and whose sandbox needs an approval.
SPECIFICATION FairSpec
CONSTANTS
  w1 = w1
  w2 = w2
  t1 = t1
  t2 = t2
  p1 = p1
  p2 = p2
  o1 = o1
  Workers = {w1}
  Tools = {t1}
  Plans = {p1}
  Overruns <- OneOverrun
  Rules <- AsksForBoth
  FirstReasons = {"new_run", "approval_granted"}
  MaxAttempts = 2
  Expiring = FALSE
  Changing = FALSE
PROPERTIES ApprovalResumesRuntime
CHECK_DEADLOCK FALSE
