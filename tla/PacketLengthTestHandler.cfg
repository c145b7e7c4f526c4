CONSTANTS
  Length <- Lengths
  Word = 4
  HundredC = 122
  MaxPackets = 7
SPECIFICATION Spec
INVARIANTS Inv FileTallies TestIsExact EmptyIsNormal LearnedIsNormal
