CONSTANTS
  Host <- LowAndHigh
  HalfWord <- MCWord
  HalfLong <- MCLong
  MaxPackets = 4
SPECIFICATION Spec
INVARIANTS ReportIsExact
