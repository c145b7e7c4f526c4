CONSTANTS
  HalfWord = 8
  HalfLong = 32
  Unit = 4
  MaxReal = 599
  rightMargin = 24
  Precision = 2
  Text <- Texts
  Files <- OperatorFiles
  Lengths <- PacketLengths
  Times <- HostTimes
  MaxSaves = 3
  MaxFaults = 1
SPECIFICATION Spec
INVARIANTS TypeOK ReaderInv ReadsGrammar RewriteIsStable NeverWraps SectionsSurvive ParseEnds
