CONSTANTS
  Capture = {c1}
  NumHandlers = 3
  CommandLine <- FileLines
  MaxAttempts = 2
  MaxFaults = 0
SPECIFICATION Spec
PROPERTIES MissingModelIsCreated
