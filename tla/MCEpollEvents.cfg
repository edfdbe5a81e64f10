CONSTANTS
  f1 = f1
  f2 = f2
  Fds = {f1, f2}
  Conditions <- MCConditions
  Interests <- MCInterests
  Options <- MCOptions
  BufferSize = 1
  NotAsked = NotAsked
SPECIFICATION FairSpec
INVARIANTS
  EventsTypeOK
  ReadinessKept
  OneShotOnce
PROPERTIES
  EventsTellTruth
  ReadyReported
