SPECIFICATION PartsSpec
CONSTANTS
  MaxArm = 3
  CallbackBlocks = FALSE
  InitMayFail = FALSE
  NoCallback = "null"
  gpio_MaxCalls = 3
  MaxEdges = 6
  BufferSize = 2
  MessageLen <- MCMessageLen
  wire_MaxCalls = 4
  MaxMessages = 2
  Object = {"t", "u"}
  TimerId <- MCTimerId
  NoObject = "none"
  TIMER_ID_MAX = 1
  MaxCalls = 3
INVARIANTS TimersAgree OnceAtMostOnce InterruptIsOwn MessageDelivered
PROPERTY WaitsEnd
CHECK_DEADLOCK FALSE
