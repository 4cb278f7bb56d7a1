SPECIFICATION PartsSpec
CONSTANTS
  Frame <- MCFrame
  TxBufferSize = 3
  TxSizeWidth = 2
  WriteSize = {1, 2}
  MaxFrames = 2
  MaxMessages = 2
  Response <- MCResponse
  MaxRequests = 2
INVARIANTS AnswerIsServers FramesIntact
PROPERTY CallReturns
CHECK_DEADLOCK FALSE
