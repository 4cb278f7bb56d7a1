SPECIFICATION PartsSpec
CONSTANTS
  MaxScans = 4
  scan_RegisterMayFail = TRUE
  EventTaskFirst = TRUE
  Ssid = {"home", "office"}
  Rssi <- MCRssi
  MaxNets = 2
  MaxAps = 2
  IntMax = 2
  NoNetwork = "none"
  Service <- MCService
  NotifyChar = {"c1"}
  WideUuid = {"c4"}
  ValueSize = 1
  WriteLen = {1, 2}
  AdvCapacity = 31
  UuidLen = {16}
  DataLen = {0, 12}
  Written = {"c1"}
  ble_MaxCalls = 4
  MaxEvents = 4
  MaxCalls = 7
  RegisterMayFail = FALSE
  SoftAP = TRUE
PROPERTY ValueKept
CHECK_DEADLOCK FALSE
