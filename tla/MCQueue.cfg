CONSTANTS
  t1 = t1
  t2 = t2
  t3 = t3
  v1 = v1
  Threads = {t1, t2, t3}
  Values = {v1}
  Capacity = 2
  MaxUsize = 9
  MaxCount = 2
SPECIFICATION FairSpec
INVARIANTS
  TypeOK
  PendingAccounting
  ValueAnnounced
  CounterAnnounced
  QuietConsistent
PROPERTIES
  ImplementsSignalledQueue
  SignalIsPrompt
