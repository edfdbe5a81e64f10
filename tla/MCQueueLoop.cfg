CONSTANTS
  p1 = p1
  p2 = p2
  c1 = c1
  c2 = c2
  s1 = s1
  v1 = v1
  v2 = v2
  v3 = v3
  e1 = e1
  e2 = e2
  Threads = {p1, p2, c1, c2, s1}
  Epolls = {e1, e2}
  Setups <- AllSetups
  Values = {v1, v2, v3}
  Capacity = 2
  MaxUsize = 12
  MaxCount = 9
SPECIFICATION LoopFairSpec
CHECK_DEADLOCK FALSE
INVARIANTS
  LoopTypeOK
  NoSleepOverValue
PROPERTIES
  EveryValueTaken
  CloseObserved
