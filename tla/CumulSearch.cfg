CONSTANTS
  Word = 64
  HundredC = 122
  Timing <- Times
  KeyCount <- OneOrTwo
SPECIFICATION FairSearchSpec
INVARIANTS NeverFails FindsCurve Weighed
PROPERTIES SearchEnds
CHECK_DEADLOCK FALSE
