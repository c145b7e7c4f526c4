CONSTANTS
  Capture = {c1, c2}
  NumHandlers = 3
  CommandLine <- AllLines
  MaxAttempts = 2
  MaxFaults = 2
SPECIFICATION FairSpec
INVARIANTS Inv NeverOvercounted SavedInHandlerOrder SectionsDriftByFaults TestsSeeWholeModel
PROPERTIES NormalExitSavesUnlessTorn TornIsKept ImplementsStore EveryRunEnds
