------------------------------ MODULE Wireless ------------------------------
(* The radio, each part of it by itself: station and soft AP, WiFi scan,  *)
(* WiFiMulti and BLE.                                                     *)
EXTENDS WiFiStation, Integers

CONSTANTS
  MaxScans, scan_RegisterMayFail, EventTaskFirst,
  Ssid, Rssi, MaxNets, MaxAps, IntMax, NoNetwork,
  Service, NotifyChar, WideUuid, ValueSize, WriteLen, AdvCapacity, UuidLen,
  DataLen, Written, ble_MaxCalls

VARIABLES
  part,  \* the component that runs: it is chosen at the start
  sem, scan_registered, handler, aps, ap_num, scan_user, answer, scan,
  running, found, scan_events,
  aplist, status, joined, nets, pc, i, best, expired,
  m_initialized, m_advertising, m_actv, ethermind, services, finalized,
  legacy, bindings, handle, dbDone, len, notify, cmd, ble_pc, svc, requests,
  creating, database, radio, conn, notified, excuse, ble_calls

S == INSTANCE WiFiScan WITH
  RegisterMayFail <- scan_RegisterMayFail, registered <- scan_registered,
  user <- scan_user, events <- scan_events
M == INSTANCE WiFiMulti
B == INSTANCE Ble WITH
  MaxCalls <- ble_MaxCalls, pc <- ble_pc, calls <- ble_calls

ASSUME WirelessAssumption == S!ConstantsOK /\ M!ConstantsOK /\ B!ConstantsOK

scanVars == <<
  sem, scan_registered, handler, aps, ap_num, scan_user, answer, scan,
  running, found, scan_events>>
multiVars == <<
  aplist, status, joined, nets, pc, i, best, expired>>
bleVars == <<
  m_initialized, m_advertising, m_actv, ethermind, services, finalized,
  legacy, bindings, handle, dbDone, len, notify, cmd, ble_pc, svc, requests,
  creating, database, radio, conn, notified, excuse, ble_calls>>

Part == {"station", "scan", "multi", "ble"}
allVars == <<part, vars, scanVars, multiVars, bleVars>>

PartsInit ==
  /\ part \in Part
  /\ Init /\ S!Init /\ M!Init /\ B!Init
  /\ part # "ble" => ethermind

\* One component moves, with its own steps; the others rest.
PartsNext ==
  \/ part = "station" /\ Next /\ UNCHANGED <<part, scanVars, multiVars, bleVars>>
  \/ part = "scan" /\ S!Next /\ UNCHANGED <<part, vars, multiVars, bleVars>>
  \/ part = "multi" /\ M!Next /\ UNCHANGED <<part, vars, scanVars, bleVars>>
  \/ part = "ble" /\ B!Next /\ UNCHANGED <<part, vars, scanVars, multiVars>>

PartsSpec ==
  /\ PartsInit /\ [][PartsNext]_allVars
  /\ WF_scanVars(part = "scan" /\ S!EventTask)
  /\ WF_scanVars(part = "scan" /\ S!InCall)
  /\ WF_multiVars(part = "multi" /\ M!Inside)
  /\ WF_multiVars(part = "multi" /\ M!WaitExpire)
  /\ WF_bleVars(part = "ble" /\ B!Step)

\* Between calls the accessors of a scan see entries exactly when _ap_num says
\* so, and these are of the scan that the last call started.
ResultsAreOwn == S!ResultsAreOwn

\* WiFiMulti joins a network that it has an entry for, and no stronger one is
\* among the results.
JoinsTheStrongest == M!JoinsTheStrongest

\* What the BLE library believes is what the stack does: whether the radio
\* advertises, and which attribute of the stack is which characteristic.
StackAgrees == part = "ble" => B!RadioMatches /\ B!BindingsAreTheStacks

\* The value of a characteristic that the sketch or the peer has written stays
\* until the next one is.
ValueKept == B!ValueKept

\* scanNetworks(), WiFiMulti::run(), advertise() and stopAdvertise() return,
\* although the driver or the stack never answers.
CallsReturn == S!CallReturns /\ M!RunReturns /\ B!AdvertiseReturns
=============================================================================
