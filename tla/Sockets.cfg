SPECIFICATION PartsSpec
CONSTANTS
  BufSize = 2
  Lengths = {0, 1, 3}
  Peers = {"p"}
  Group = "group"
  MaxDatagrams = 2
  MaxBytes = 3
  CallsMayFail = TRUE
  udp_None = "none"
  Retries = 2
  MaxSize = 2
  MaxSent = 3
  MaxCalls = 2
  Fionread = FALSE
  Accepted = FALSE
  PeerResets = TRUE
  Client = {"a", "b"}
  FD = {0, 1, 2}
  Talking = {"a"}
  tls_MaxCalls = 2
  tls_MaxBytes = 2
  MaxOthers = 1
  Clients = {c1, c2, c3}
  NumSockets = 4
  MaxBacklog = 2
INVARIANTS HolderIsUnique OnlyEndLeaks PacketsKept BytesAccounted SocketsKept BytesInOrder
PROPERTY CallsReturn
CHECK_DEADLOCK FALSE
