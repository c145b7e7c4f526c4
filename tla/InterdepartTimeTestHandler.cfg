CONSTANTS
  Word = 9
  HundredC = 122
  Host <- TwoHosts
  Time <- Stamps
  Long = 81
  MaxPackets = 8
SPECIFICATION Spec
INVARIANTS Inv GapsCounted SpacedIsExact SameIsNormal SilentIsAbnormal
