SPECIFICATION Spec
CONSTANTS
  N = 2
  MaxWire = 5
  FifoDepth = 2
  IsrPreempts = TRUE
  Rebegins = FALSE
  PrintfPort = TRUE
INVARIANT NoOverwrite
