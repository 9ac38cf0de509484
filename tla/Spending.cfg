CONSTANTS
  r1 = r1
  r2 = r2
  office = office
  lab = lab
  team = team
  org = org
  Runs = {r1, r2}
  Places = {office, lab}
  Policies <- PolicySet
  Governs <- Apart
  ModelPolicy <- MCModelPolicy
  Registry <- MCRegistry
  Mode = "auto"
  Usage <- MCUsage
  Unit = 10
  Estimates = {2, 4}
  Days = 1
  MaxAttempts = 2
  MaxPaid = 1
SPECIFICATION Spec
INVARIANT DayCeilingsKept
PROPERTY OverCeilingApproved
CHECK_DEADLOCK FALSE
