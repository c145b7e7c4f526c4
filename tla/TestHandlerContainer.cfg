CONSTANTS
  NumHandlers = 3
  Durations <- ZeroOrOne
  MaxPackets = 4
SPECIFICATION FairSpec
INVARIANTS Inv SameTraffic
PROPERTIES FileReadWhole CaptureEnds
CHECK_DEADLOCK FALSE
