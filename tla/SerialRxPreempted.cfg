SPECIFICATION Spec
CONSTANTS
  N = 2
  MaxWire = 5
  FifoDepth = 2
  IsrPreempts = TRUE
  Rebegins = TRUE
  PrintfPort = TRUE
INVARIANTS CountNeverAhead StoppedIsEmpty
