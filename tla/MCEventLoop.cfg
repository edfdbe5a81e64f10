CONSTANTS
  Durations = {0, 1, 2, 3}
  MaxSec = 2
  MaxMono = 3
  MaxShift = 1
  NotAsked = NotAsked
  w1 = w1
  w2 = w2
  s1 = s1
  s2 = s2
  Workers = {w1, w2}
  Streams = {s1, s2}
  Programs <- AllPrograms
  BufferSize = 2
  MaxArrivals = 3
  MaxCount = 4
SPECIFICATION LoopFairSpec
CHECK_DEADLOCK FALSE
INVARIANTS
  LoopTypeOK
  ExpirationsReported
  ClockChangeNoticed
  GetTimeRestores
  NeverBlocks
  OneAtATime
PROPERTIES
  EverythingTaken
  AllStop
