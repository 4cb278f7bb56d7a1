SPECIFICATION PartsSpec
CONSTANTS
  KeepAlive = 3
  SocketTimeout = 2
  MaxGap = 1
  MaxBacklog = 2
  IdMod = 3
  Base = 4
  Word = 16
  TopicLen = {1, 4}
  Plength = {0, 2, 11}
  Size = {0, 10, 15}
  writer_MaxCalls = 3
  BufferSize = 8
  Topic = {1}
  Payload = {0, 2}
  MaxPackets = 2
INVARIANTS SilenceNoticed AckMatches WholePackets PacketIsWhole
PROPERTIES HealthyBrokerKept ConnectReturns
CHECK_DEADLOCK FALSE
