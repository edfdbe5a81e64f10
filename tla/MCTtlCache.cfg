CONSTANTS
  k1 = k1
  k2 = k2
  k3 = k3
  v1 = v1
  v2 = v2
  Keys = {k1, k2, k3}
  Values = {v1, v2}
  Capacities = {1, 2}
  Durations = {0, 2}
  MaxTime = 2
  MaxInstant = 3
  UsizeRange = 2
  None = None
SPECIFICATION Spec
SYMMETRY Perms
INVARIANTS
  TypeOK
  IterationComplete
PROPERTIES
  OnlyVacantOverfills
  ImplementsExpiringMap
