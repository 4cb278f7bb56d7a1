SPECIFICATION Spec
CONSTANTS
  N = 3
  MaxWire = 6
  FifoDepth = 2
  IsrPreempts = FALSE
  Rebegins = TRUE
  PrintfPort = FALSE
PROPERTY ImplementsFifo
