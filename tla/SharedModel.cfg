CONSTANTS
  Process = {p1, p2, p3}
  NumHandlers = 3
  MaxFaults = 1
SPECIFICATION Spec
SYMMETRY Symmetry
INVARIANTS CountedOnce AloneIsKept SomeoneIsKept
CHECK_DEADLOCK FALSE
