\* A snapshot taken before a claim is merged after it.
SPECIFICATION Spec
CONSTANTS
  k1 = k1
  a = a
  b = b
  Works = {k1}
  Workers = {a, b}
  LeaseMs = 1
  Extensions = {1, 2}
  Horizon = 2
  MaxLeases = 2
  MaxCalls = 4
  MaxSaves = 2
PROPERTY OlderSnapshotHarmless
CHECK_DEADLOCK FALSE
