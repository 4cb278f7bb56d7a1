SPECIFICATION PartsSpec
CONSTANTS
  Text <- MCText
  Made <- MCMade
  MaxLen = 4
  SentByte = {"1", "2", "-", ".", " "}
  Target <- MCTarget
  Length = {0, 2}
  Terminator = {" "}
  Ignore = {" ", "-"}
  MaxBytes = 4
  Octet = {0, 7}
  Offset = {1, 3, 6, 11, 13, 15}
  Field = {0, 300}
  MaxReads = 1
  Packet <- MCPacket
  Domain <- MCDomain
  ReplyCode = {"Refused"}
  TTL = {7}
  MaxPackets = 3
  MaxCalls = 3
  Long = 64
  Word = 63
  LongLongBits = 12
  Number <- MCNumber
INVARIANTS StringIsExact StreamIsExact AddressesAgree AnswersItsDomain TextIsNumber
CHECK_DEADLOCK FALSE
