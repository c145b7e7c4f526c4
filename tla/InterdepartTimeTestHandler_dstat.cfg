CONSTANTS
  Word = 8
  HundredC = 122
  Host <- OneHost
  Time <- Stamps
  Long = 8
  MaxPackets = 6
SPECIFICATION Spec
INVARIANTS DStatIsLargest
