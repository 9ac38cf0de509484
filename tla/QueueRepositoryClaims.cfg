\* Two workers with late transactions, and stale snapshots that are saved between statements.
SPECIFICATION Spec
CONSTANTS
  k1 = k1
  a = a
  b = b
  Works = {k1}
  Workers = {a, b}
  LeaseMs = 1
  Extensions = {1, 2}
  Horizon = 2
  MaxLeases = 2
  MaxCalls = 4
  MaxSaves = 2
SYMMETRY Symmetric
INVARIANTS ClaimExclusive
CHECK_DEADLOCK FALSE
