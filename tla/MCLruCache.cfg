CONSTANTS
  k1 = k1
  k2 = k2
  k3 = k3
  v1 = v1
  v2 = v2
  a1 = a1
  a2 = a2
  a3 = a3
  Keys = {k1, k2, k3}
  Values = {v1, v2}
  Addresses = {a1, a2, a3}
  Capacities = {0, 1, 2, 3}
  Sigil = Sigil
  Garbage = Garbage
SPECIFICATION PoplessSpec
INVARIANTS
  TypeOK
  RingMatchesMap
  CapacityRespected
PROPERTIES
  ImplementsLru
