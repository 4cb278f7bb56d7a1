---------------------------- MODULE WirelessProofs ----------------------------
(***************************************************************************)
(* What holds of the users of the radio for every value of their constants,*)
(* each by itself: the station, the scan, WiFiMulti and BLE.               *)
(***************************************************************************)
EXTENDS Wireless, Integers, Sequences, FiniteSets, FiniteSetTheorems, FunctionTheorems, Recursion, TLAPS

\* The sum moves as its parts do: a step of it is a step of each, or leaves it as
\* it is.
LEMMA PartsMove ==
  /\ PartsInit => S!Init /\ M!Init /\ B!Init
  /\ [PartsNext]_allVars => [S!Next]_S!vars /\ [M!Next]_M!vars /\ [B!Next]_B!vars
BY DEF PartsInit, PartsNext, allVars, scanVars, multiVars, bleVars,
       S!vars, M!vars, B!vars, B!device, B!gatt, B!values

------------------------------------------------------------------------------
\* begin() has set the station's bit and has yet to start the station.
Beginning == {"beginStop", "beginConfig", "beginArm", "beginStart"}

\* RunningStationInMode needs the bit to be there when begin() starts the
\* station, several SDK calls after it has set it.
ModeInv ==
  /\ RunningStationInMode
  /\ user \in Beginning => "STA" \in mode

\* Whatever the SDK does, it touches neither.
LEMMA SdkKeepsMode ==
  ASSUME ModeInv, SDK \/ UNCHANGED vars
  PROVE  ModeInv'
BY DEF ModeInv, RunningStationInMode, SDK, Associate, LoseLink, NetifEvent, wifiGenericWifiEventCb,
       DropLink, vars

\* Calls that set or clear bits of _mode.
LEMMA ModeCallsKeepMode ==
  ASSUME ModeInv, Calls,
         \/ modeOff \/ config \/ begin
         \/ \E m \in (SUBSET {"STA", "AP"}) \ {{}} : modeSet(m)
         \/ \E off \in BOOLEAN : disconnect(off)
  PROVE  ModeInv'
<1> USE DEF ModeInv, RunningStationInMode, Beginning, Calls
<1>1. CASE modeOff
  BY <1>1 DEF modeOff, bk_wifi_sta_stop
<1>2. CASE config
  BY <1>2 DEF config, enableSTA
<1>3. CASE begin
  BY <1>3 DEF begin, enableSTA
<1>4. ASSUME NEW m \in (SUBSET {"STA", "AP"}) \ {{}}, modeSet(m)
      PROVE  ModeInv'
  BY <1>4 DEF modeSet, bk_wifi_sta_stop
<1>5. ASSUME NEW off \in BOOLEAN, disconnect(off)
      PROVE  ModeInv'
  BY <1>5 DEF disconnect
<1> QED
  BY <1>1, <1>2, <1>3, <1>4, <1>5

\* The rest of begin() and config().
LEMMA BeginKeepsMode ==
  ASSUME ModeInv, beginStop \/ beginConfig \/ beginArm \/ beginStart \/ configArm
  PROVE  ModeInv'
<1> USE DEF ModeInv, RunningStationInMode, Beginning
<1>1. CASE beginStop
  BY <1>1 DEF beginStop, bk_wifi_sta_stop
<1>2. CASE beginConfig
  BY <1>2 DEF beginConfig
<1>3. CASE beginArm
  BY <1>3 DEF beginArm
<1>4. CASE beginStart
  BY <1>4 DEF beginStart
<1>5. CASE configArm
  BY <1>5 DEF configArm
<1> QED
  BY <1>1, <1>2, <1>3, <1>4, <1>5

\* Calls that leave the station's bit alone.
LEMMA OtherCallsKeepMode ==
  ASSUME ModeInv,
         \/ onEvent \/ reconnect \/ softAP \/ softAPConfig
         \/ \E off \in BOOLEAN : softAPdisconnect(off)
  PROVE  ModeInv'
<1> USE DEF ModeInv, RunningStationInMode, Beginning, station
<1>1. CASE onEvent
  BY <1>1 DEF onEvent
<1>2. CASE reconnect
  BY <1>2 DEF reconnect
<1>3. CASE softAP
  BY <1>3 DEF softAP, enableAP
<1>4. CASE softAPConfig
  BY <1>4 DEF softAPConfig, enableAP
<1>5. ASSUME NEW off \in BOOLEAN, softAPdisconnect(off)
      PROVE  ModeInv'
  BY <1>5 DEF softAPdisconnect
<1> QED
  BY <1>1, <1>2, <1>3, <1>4, <1>5

\* A station that runs can be stopped through _mode, whatever sequence of
\* mode(), begin(), disconnect(), config() and soft AP calls was made and
\* whichever SDK call inside them failed.
THEOREM StationStoppable == Spec => []RunningStationInMode
<1>1. Init => ModeInv
  BY DEF Init, ModeInv, RunningStationInMode, Beginning
<1>2. ModeInv /\ [Next]_vars => ModeInv'
  <2> SUFFICES ASSUME ModeInv, [Next]_vars PROVE ModeInv'
    OBVIOUS
  <2>1. CASE SDK \/ UNCHANGED vars
    BY <2>1, SdkKeepsMode
  <2>2. CASE \/ modeOff \/ config \/ begin
             \/ \E m \in (SUBSET {"STA", "AP"}) \ {{}} : modeSet(m)
             \/ \E off \in BOOLEAN : disconnect(off)
    <3>1. Calls
      BY <2>2 DEF modeOff, config, begin, modeSet, disconnect
    <3> QED
      BY <2>2, <3>1, ModeCallsKeepMode
  <2>3. CASE beginStop \/ beginConfig \/ beginArm \/ beginStart \/ configArm
    BY <2>3, BeginKeepsMode
  <2>4. CASE \/ onEvent \/ reconnect \/ softAP \/ softAPConfig
             \/ \E off \in BOOLEAN : softAPdisconnect(off)
    BY <2>4, OtherCallsKeepMode
  <2> QED
    BY <2>1, <2>2, <2>3, <2>4 DEF Next, Sketch
<1>3. ModeInv => RunningStationInMode
  BY DEF ModeInv
<1> QED
  BY <1>1, <1>2, <1>3, PTL DEF Spec

------------------------------------------------------------------------------
\* The types that the argument about the address needs.
StaticTypes ==
  /\ useStaticIp \in BOOLEAN /\ registered \in BOOLEAN /\ wifiCb \in BOOLEAN /\ staticFlag \in BOOLEAN
  /\ handling \in {"none", "CONNECTED", "DISCONNECTED"}
  /\ events \in Seq({"CONNECTED", "DISCONNECTED"})

\* Once config() has returned, the SDK's flag is armed, but for the moment
\* between its netif callback, which clears it on a disconnect, and
\* wifiGenericWifiEventCb(), which arms it again.
Armed ==
  /\ registered => wifiCb
  /\ useStaticIp => wifiCb
  /\ useStaticIp => staticFlag \/ handling = "DISCONNECTED" \/ user = "configArm"

StaticInv == StaticTypes /\ Armed

\* An event that is posted is one of the two.
LEMMA PostTyped ==
  ASSUME events \in Seq({"CONNECTED", "DISCONNECTED"}), DropLink
  PROVE  events' \in Seq({"CONNECTED", "DISCONNECTED"})
BY DEF DropLink, Post

\* The event task, the driver and stuttering.
LEMMA SdkKeepsStatic ==
  ASSUME StaticInv, SDK \/ UNCHANGED vars
  PROVE  StaticInv'
<1> USE DEF StaticInv, StaticTypes, Armed
<1>1. CASE Associate
  BY <1>1 DEF Associate, Post, callbacks
<1>2. CASE LoseLink
  <2>1. events' \in Seq({"CONNECTED", "DISCONNECTED"})
    BY <1>2, PostTyped DEF LoseLink
  <2> QED
    BY <1>2, <2>1 DEF LoseLink, callbacks
<1>3. CASE NetifEvent
  <2>1. Head(events) \in {"CONNECTED", "DISCONNECTED"} /\ Tail(events) \in Seq({"CONNECTED", "DISCONNECTED"})
    BY <1>3 DEF NetifEvent
  <2> QED
    BY <1>3, <2>1 DEF NetifEvent, callbacks
<1>4. CASE wifiGenericWifiEventCb
  <2>1. StaticTypes'
    BY <1>4 DEF wifiGenericWifiEventCb, applyStaticIpIfConfigured, callbacks
  <2>2. CASE wifiCb /\ handling = "DISCONNECTED"
    <3>1. staticFlag' = (staticFlag \/ useStaticIp)
      BY <1>4, <2>2 DEF wifiGenericWifiEventCb, applyStaticIpIfConfigured
    <3> QED
      BY <1>4, <2>1, <2>2, <3>1 DEF wifiGenericWifiEventCb, callbacks
  <2>3. CASE ~(wifiCb /\ handling = "DISCONNECTED")
    BY <1>4, <2>1, <2>3 DEF wifiGenericWifiEventCb, callbacks
  <2> QED
    BY <2>2, <2>3
<1>5. CASE UNCHANGED vars
  BY <1>5 DEF vars
<1> QED
  BY <1>1, <1>2, <1>3, <1>4, <1>5 DEF SDK

\* The registration of the callbacks, where it cannot fail.
LEMMA RegistrationHolds ==
  ASSUME StaticInv, ~RegisterMayFail, ensureEventHandlersRegistered
  PROVE  registered' \in BOOLEAN /\ wifiCb' \in BOOLEAN /\ wifiCb'
BY Zenon DEF StaticInv, StaticTypes, Armed, ensureEventHandlersRegistered, callbacks

\* The sketch's calls.
LEMMA SketchKeepsStatic ==
  ASSUME StaticInv, ~RegisterMayFail, Sketch
  PROVE  StaticInv'
<1> USE DEF StaticInv, StaticTypes, Armed
<1>1. CASE onEvent
  <2>1. registered' \in BOOLEAN /\ wifiCb' \in BOOLEAN /\ wifiCb'
    BY <1>1, RegistrationHolds DEF onEvent
  <2> QED
    BY <1>1, <2>1 DEF onEvent, station
<1>2. CASE config
  <2>1. registered' \in BOOLEAN /\ wifiCb' \in BOOLEAN /\ wifiCb'
    BY <1>2, RegistrationHolds DEF config
  <2> QED
    BY <1>2, <2>1 DEF config, enableSTA
<1>3. CASE configArm
  BY <1>3 DEF configArm, callbacks
<1>4. CASE modeOff
  <2>1. events' \in Seq({"CONNECTED", "DISCONNECTED"})
    BY <1>4, PostTyped DEF modeOff, bk_wifi_sta_stop
  <2> QED
    BY <1>4, <2>1 DEF modeOff, callbacks, Calls
<1>5. ASSUME NEW m \in (SUBSET {"STA", "AP"}) \ {{}}, modeSet(m)
      PROVE  StaticInv'
  <2>1. events' \in Seq({"CONNECTED", "DISCONNECTED"})
    BY <1>5, PostTyped DEF modeSet, bk_wifi_sta_stop
  <2> QED
    BY <1>5, <2>1 DEF modeSet, callbacks, Calls
<1>6. ASSUME NEW off \in BOOLEAN, disconnect(off)
      PROVE  StaticInv'
  <2>1. events' \in Seq({"CONNECTED", "DISCONNECTED"})
    BY <1>6, PostTyped DEF disconnect
  <2> QED
    BY <1>6, <2>1 DEF disconnect, callbacks, Calls
<1>7. CASE begin
  BY <1>7 DEF begin, enableSTA, callbacks, Calls
<1>8. CASE beginStop
  <2>1. events' \in Seq({"CONNECTED", "DISCONNECTED"})
    BY <1>8, PostTyped DEF beginStop, bk_wifi_sta_stop
  <2> QED
    BY <1>8, <2>1 DEF beginStop, callbacks
<1>9. CASE beginConfig \/ beginStart
  <2>1. /\ UNCHANGED <<useStaticIp, registered, wifiCb, staticFlag, events, handling>>
        /\ user # "configArm"
    BY <1>9 DEF beginConfig, beginStart, callbacks
  <2> QED
    BY <2>1
<1>10. CASE beginArm
  <2>1. staticFlag' = (staticFlag \/ useStaticIp)
    BY <1>10 DEF beginArm, applyStaticIpIfConfigured
  <2> QED
    BY <1>10, <2>1 DEF beginArm, callbacks
<1>11. CASE reconnect
  <2>1. events' \in Seq({"CONNECTED", "DISCONNECTED"})
    BY <1>11, PostTyped DEF reconnect
  <2>2. staticFlag' = (staticFlag \/ useStaticIp)
    BY <1>11 DEF reconnect, applyStaticIpIfConfigured
  <2> QED
    BY <1>11, <2>1, <2>2 DEF reconnect, callbacks, Calls
<1>12. CASE softAP \/ softAPConfig \/ \E off \in BOOLEAN : softAPdisconnect(off)
  <2>1. UNCHANGED <<useStaticIp, registered, wifiCb, staticFlag, events, handling, user>>
    BY <1>12 DEF softAP, softAPConfig, softAPdisconnect, callbacks, station
  <2> QED
    BY <2>1
<1> QED
  BY <1>1, <1>2, <1>3, <1>4, <1>5, <1>6, <1>7, <1>8, <1>9, <1>10, <1>11, <1>12 DEF Sketch

\* Only the netif callback sets the address, and it finds the flag armed.
LEMMA AddressIsStatic ==
  ASSUME StaticInv, [Next]_vars, address # address', address' # "none", useStaticIp,
         user # "configArm"
  PROVE  address' = "static"
<1>1. NetifEvent
  BY DEF Next, SDK, Associate, LoseLink, wifiGenericWifiEventCb, Sketch, onEvent, modeOff, modeSet,
         begin, beginStop, beginConfig, beginArm, beginStart, reconnect, disconnect, config, configArm,
         softAP, softAPConfig, softAPdisconnect, station, vars
<1>2. handling = "none"
  BY <1>1 DEF NetifEvent
<1>3. staticFlag
  BY <1>2 DEF StaticInv, Armed
<1> QED
  BY <1>1, <1>3 DEF NetifEvent

\* If the event callbacks can be registered, an association that the event
\* task handles after config() has returned gets the static address, whatever
\* disconnects, reconnections and calls of begin() are under way.
THEOREM StaticAddressKept ==
  ASSUME ~RegisterMayFail
  PROVE  Spec => StaticIpSurvives
<1>1. Init => StaticInv
  <2> SUFFICES ASSUME Init PROVE StaticInv
    OBVIOUS
  <2>1. StaticTypes
    <3>1. events \in Seq({"CONNECTED", "DISCONNECTED"})
      BY DEF Init
    <3>2. FALSE \in BOOLEAN
      BY Zenon
    <3> QED
      BY <3>1, <3>2, Zenon DEF Init, StaticTypes
  <2>2. Armed
    BY Zenon DEF Init, Armed
  <2> QED
    BY <2>1, <2>2 DEF StaticInv
<1>2. StaticInv /\ [Next]_vars => StaticInv'
  BY SdkKeepsStatic, SketchKeepsStatic DEF Next
<1>3. StaticInv /\ [Next]_vars =>
        [address # address' /\ address' # "none" /\ useStaticIp /\ user # "configArm"
           => address' = "static"]_vars
  BY AddressIsStatic
<1> QED
  BY <1>1, <1>2, <1>3, PTL DEF Spec, StaticIpSurvives

------------------------------------------------------------------------------
(***************************************************************************)
(* WiFi scan.                                                              *)
(***************************************************************************)

\* Outside of the wait for it no scan is in progress; inside, it is the one
\* that the call has started, and once it is over its results are the driver's.
ScanIsOwn ==
  /\ scan_user \in {"idle", "start", "result"} => running = 0
  /\ scan_user \in {"ready", "wait"} => IF running = 0 THEN found = scan ELSE running = scan
  /\ scan_user = "result" => found = scan

\* No SCAN_DONE of an earlier scan can wake the call: the semaphore was drained
\* when no event was waiting, and only the call's own scan can give it since.
WakeIsOwn ==
  scan_user = "start" \/ (scan_user \in {"ready", "wait"} /\ running # 0) =>
         sem # "given" /\ scan_events = 0

\* The accessors have the entries of the last scan or none.
EntriesStand ==
  /\ scan_user # "idle" => aps = 0
  /\ aps \in {0, scan}
  /\ ap_num <=> aps # 0

ScanInv ==
  /\ scan \in Nat /\ scan_events \in Nat
  /\ scan_user \in {"idle", "start", "ready", "wait", "result"}
  /\ ScanIsOwn /\ WakeIsOwn /\ EntriesStand

LEMMA ScanInit == S!Init => ScanInv
BY DEF S!Init, ScanInv, ScanIsOwn, WakeIsOwn, EntriesStand

\* The driver and the event task.
LEMMA ScanDriver ==
  ASSUME ScanInv, S!Complete \/ S!EventTask
  PROVE  ScanInv'
<1>1. CASE S!Complete
  BY <1>1 DEF S!Complete, ScanInv, ScanIsOwn, WakeIsOwn, EntriesStand
<1>2. CASE S!EventTask
  BY <1>2 DEF S!EventTask, S!scanDoneEventHandler, ScanInv, ScanIsOwn, WakeIsOwn, EntriesStand
<1> QED
  BY <1>1, <1>2

\* The calls between two scans and the steps of scanNetworks(), each taken
\* when the event task has nothing left to do.
LEMMA ScanCall ==
  ASSUME ScanInv, EventTaskFirst, S!scanNetworks \/ S!scanDelete \/ S!InCall
  PROVE  ScanInv'
<1>0. scan_events = 0
  BY DEF S!InCall, S!scanNetworks, S!scanDelete, S!StartScan, S!ensureScanEventReady, S!Wake,
         S!Timeout, S!GetResult, S!LoopRuns
<1>1. CASE S!scanNetworks
  BY <1>0, <1>1 DEF S!scanNetworks, ScanInv, ScanIsOwn, WakeIsOwn, EntriesStand
<1>2. CASE S!scanDelete
  BY <1>2 DEF S!scanDelete, ScanInv, ScanIsOwn, WakeIsOwn, EntriesStand
<1>3. CASE S!StartScan
  <2>1. UNCHANGED <<sem, aps, ap_num, found, scan_events>> /\ scan_user = "start"
    BY <1>3 DEF S!StartScan
  <2>2. CASE running = 0 /\ scan' = scan + 1 /\ running' = scan + 1 /\ scan_user' = "ready"
    BY <2>1, <2>2 DEF ScanInv, ScanIsOwn, WakeIsOwn, EntriesStand
  <2>3. CASE scan_user' = "idle" /\ UNCHANGED <<scan, running>>
    BY <2>1, <2>3 DEF ScanInv, ScanIsOwn, WakeIsOwn, EntriesStand
  <2> QED
    BY <1>3, <2>2, <2>3 DEF S!StartScan, S!Return
<1>4. CASE S!ensureScanEventReady
  BY <1>4 DEF S!ensureScanEventReady, ScanInv, ScanIsOwn, WakeIsOwn, EntriesStand
<1>5. CASE S!Wake
  BY <1>5 DEF S!Wake, ScanInv, ScanIsOwn, WakeIsOwn, EntriesStand
<1>6. CASE S!Timeout
  <2>1. scan_events' \in {scan_events, scan_events + 1}
    BY <1>6 DEF S!Timeout
  <2>2. scan_user' = "idle" /\ running' = 0 /\ UNCHANGED <<sem, aps, ap_num, scan, found>>
    BY <1>6 DEF S!Timeout, S!Return
  <2> QED
    BY <2>1, <2>2 DEF ScanInv, ScanIsOwn, WakeIsOwn, EntriesStand
<1>7. CASE S!GetResult
  <2>1. scan_user = "result" /\ scan_user' = "idle" /\ UNCHANGED <<sem, scan, running, found, scan_events>>
    BY <1>7 DEF S!GetResult, S!Return
  <2>2. UNCHANGED <<aps, ap_num>> \/ (aps' \in {0, found} /\ ap_num' = (aps' # 0))
    BY <1>7 DEF S!GetResult
  <2>3. ap_num' <=> aps' # 0
    <3>1. CASE aps' = aps /\ ap_num' = ap_num
      BY <3>1 DEF ScanInv, EntriesStand
    <3>2. CASE ap_num' = (aps' # 0)
      BY <3>2, Zenon
    <3> QED
      BY <2>2, <3>1, <3>2
  <2>4. aps' \in {0, scan'}
    BY <2>1, <2>2 DEF ScanInv, ScanIsOwn, EntriesStand
  <2> QED
    BY <2>1, <2>3, <2>4 DEF ScanInv, ScanIsOwn, WakeIsOwn, EntriesStand
<1> QED
  BY <1>1, <1>2, <1>3, <1>4, <1>5, <1>6, <1>7 DEF S!InCall

\* For every number of scans and wherever the driver or the registration of the
\* handler fails: if the event task runs before the loop task goes on, the
\* accessors never see the results of an earlier scan.
THEOREM ResultsSafe ==
  ASSUME EventTaskFirst
  PROVE  PartsSpec => []ResultsAreOwn
<1>1. ScanInv /\ [S!Next]_S!vars => ScanInv'
  <2> SUFFICES ASSUME ScanInv, [S!Next]_S!vars PROVE ScanInv'
    OBVIOUS
  <2>1. CASE UNCHANGED S!vars
    BY <2>1 DEF S!vars, ScanInv, ScanIsOwn, WakeIsOwn, EntriesStand
  <2>2. CASE S!Next
    BY <2>2, ScanDriver, ScanCall DEF S!Next
  <2> QED
    BY <2>1, <2>2
<1>2. ScanInv => ResultsAreOwn
  BY DEF ResultsAreOwn, ScanInv, EntriesStand, S!ResultsAreOwn
<1> QED
  BY <1>1, <1>2, ScanInit, PartsMove, PTL DEF PartsSpec

------------------------------------------------------------------------------
(***************************************************************************)
(* WiFiMulti.                                                              *)
(***************************************************************************)

MultiTypes ==
  /\ nets \in Seq(M!Network)
  /\ i \in Int
  /\ best \in M!Network \cup {M!None}

\* bestNetwork is a result of the scan that can be joined, and as strong as
\* any other among those the loop has passed.  After the counter has wrapped
\* it has passed none.
BestSoFar ==
  pc \in {"select", "wait"} =>
    /\ best # M!None => \E m \in 1 .. Len(nets) : nets[m] = best /\ M!usable(best)
    /\ \A m \in 1 .. Len(nets) :
         m <= i /\ M!usable(nets[m]) => best # M!None /\ nets[m].rssi <= best.rssi

MultiInv ==
  /\ MultiTypes /\ BestSoFar
  /\ pc = "wait" => i >= Len(nets)

LEMMA NoneIsNoNetwork == M!ConstantsOK => M!None \notin M!Network
BY DEF M!ConstantsOK, M!None, M!Network

LEMMA MultiInit == M!Init => MultiInv
BY DEF M!Init, MultiInv, MultiTypes, BestSoFar

\* Which networks can be joined depends on the list of entries alone.
LEMMA UsableKept ==
  ASSUME UNCHANGED aplist
  PROVE  \A net : M!usable(net)' <=> M!usable(net)
BY DEF M!usable, M!match

\* Steps that leave the loop and its result alone.
LEMMA MultiSame ==
  ASSUME MultiInv, UNCHANGED <<nets, i, best>>,
         \/ pc' \notin {"select", "wait"}
         \/ UNCHANGED <<aplist, pc>>
         \/ (UNCHANGED aplist /\ pc = "select" /\ i >= Len(nets))
  PROVE  MultiInv'
<1>1. CASE pc' \notin {"select", "wait"}
  BY <1>1 DEF MultiInv, MultiTypes, BestSoFar
<1>2. CASE UNCHANGED <<aplist, pc>>
  BY <1>2, UsableKept DEF MultiInv, MultiTypes, BestSoFar
<1>3. CASE UNCHANGED aplist /\ pc = "select" /\ i >= Len(nets)
  BY <1>3, UsableKept DEF MultiInv, MultiTypes, BestSoFar
<1> QED
  BY <1>1, <1>2, <1>3

LEMMA MultiReturn ==
  ASSUME MultiInv, M!Return
  PROVE  MultiInv'
BY DEF M!Return, MultiInv, MultiTypes, BestSoFar

LEMMA MultiScan ==
  ASSUME MultiInv, M!Scan
  PROVE  MultiInv'
<1>1. CASE M!Return
  BY <1>1, MultiReturn
<1>2. CASE /\ \E n \in 0 .. MaxNets : nets' \in [1 .. n -> M!Network]
           /\ i' = 0 /\ best' = M!None /\ pc' = "select"
  <2>1. nets' \in Seq(M!Network)
    BY <1>2
  <2> QED
    BY <1>2, <2>1 DEF MultiInv, MultiTypes, BestSoFar
<1> QED
  BY <1>1, <1>2 DEF M!Scan

LEMMA MultiSelect ==
  ASSUME M!ConstantsOK, MultiInv, M!SelectStep
  PROVE  MultiInv'
<1>1. /\ pc = "select" /\ i < Len(nets) /\ UNCHANGED <<aplist, nets, pc>>
      /\ best' = IF M!valid(i) /\ M!better(nets[i + 1]) THEN nets[i + 1] ELSE best
      /\ i' = M!increment(i)
  BY DEF M!SelectStep
<1>2. nets \in Seq(M!Network) /\ i \in Int /\ best \in M!Network \cup {M!None}
  BY DEF MultiInv, MultiTypes
<1>3. i' \in Int /\ (i' = i + 1 \/ i' < 0)
  BY <1>1, <1>2 DEF M!increment, M!ConstantsOK
<1>4. \A m \in 1 .. Len(nets) : nets[m] \in M!Network /\ nets[m].rssi \in Int
  <2>1. \A m \in 1 .. Len(nets) : nets[m] \in M!Network
    BY <1>2
  <2>2. \A net \in M!Network : net.rssi \in Int
    BY DEF M!ConstantsOK, M!Network
  <2> QED
    BY <2>1, <2>2
<1>5. best # M!None => best.rssi \in Int
  BY <1>2 DEF M!ConstantsOK, M!Network
<1>6. i >= 0 => i + 1 \in 1 .. Len(nets) /\ M!valid(i)
  BY <1>1, <1>2 DEF M!valid
<1>7. best' = best \/ (M!valid(i) /\ M!better(nets[i + 1]) /\ best' = nets[i + 1])
  BY <1>1
<1>8. M!valid(i) => i >= 0
  BY DEF M!valid
<1>9. MultiTypes'
  BY <1>1, <1>2, <1>3, <1>4, <1>6, <1>7, <1>8 DEF MultiTypes
<1>10. BestSoFar'
  <2>1. /\ best # M!None => \E m \in 1 .. Len(nets) : nets[m] = best /\ M!usable(best)
        /\ \A m \in 1 .. Len(nets) :
             m <= i /\ M!usable(nets[m]) => best # M!None /\ nets[m].rssi <= best.rssi
    BY <1>1 DEF MultiInv, BestSoFar
  <2>2. best' # M!None => \E m \in 1 .. Len(nets) : nets[m] = best' /\ M!usable(best')
    BY <1>6, <1>7, <1>8, <2>1 DEF M!better
  <2>3. ASSUME NEW m \in 1 .. Len(nets), m <= i', M!usable(nets[m])
        PROVE  best' # M!None /\ nets[m].rssi <= best'.rssi
    <3>1. i' = i + 1 /\ i >= 0
      BY <1>2, <1>3, <2>3
    <3>2. CASE best' = best
      <4>1. CASE m <= i
        BY <2>1, <2>3, <3>2, <4>1
      <4>2. CASE m = i + 1
        <5>1. ~M!better(nets[m]) \/ nets[m] = best
          BY <1>1, <1>6, <3>1, <3>2, <4>2
        <5>2. best # M!None /\ nets[m].rssi <= best.rssi
          BY <1>4, <1>5, <2>3, <5>1, NoneIsNoNetwork DEF M!better
        <5> QED
          BY <3>2, <5>2
      <4> QED
        BY <1>2, <2>3, <3>1, <4>1, <4>2
    <3>3. CASE M!better(nets[i + 1]) /\ best' = nets[i + 1]
      <4>1. best' # M!None /\ best'.rssi \in Int
        BY <1>4, <1>6, <3>1, <3>3, NoneIsNoNetwork
      <4>2. best # M!None => best.rssi < best'.rssi
        BY <1>5, <3>3, <4>1 DEF M!better
      <4>3. CASE m <= i
        <5>1. best # M!None /\ nets[m].rssi <= best.rssi
          BY <2>1, <2>3, <4>3
        <5> QED
          BY <1>4, <1>5, <4>1, <4>2, <5>1
      <4>4. CASE m = i + 1
        BY <1>4, <3>3, <4>1, <4>4
      <4> QED
        BY <1>2, <2>3, <3>1, <4>3, <4>4
    <3> QED
      BY <1>7, <3>2, <3>3
  <2> QED
    BY <1>1, <2>2, <2>3, UsableKept DEF BestSoFar
<1> QED
  BY <1>1, <1>9, <1>10 DEF MultiInv

LEMMA MultiNext ==
  ASSUME M!ConstantsOK, MultiInv, [M!Next]_M!vars
  PROVE  MultiInv'
<1>1. CASE UNCHANGED M!vars
  BY <1>1, MultiSame DEF M!vars
<1>2. CASE (\E e \in M!Entry : M!addAP(e)) \/ M!RunConnected \/ M!Run \/ M!LinkChanges
  BY <1>2, MultiSame DEF M!addAP, M!RunConnected, M!Run, M!LinkChanges, M!vars
<1>3. CASE M!WaitPoll \/ M!WaitExpire
  BY <1>3, MultiSame DEF M!WaitPoll, M!WaitExpire
<1>4. CASE M!WaitEnd
  BY <1>4, MultiReturn DEF M!WaitEnd
<1>5. CASE M!SelectEnd
  BY <1>5, MultiReturn, MultiSame DEF M!SelectEnd
<1> QED
  BY <1>1, <1>2, <1>3, <1>4, <1>5, MultiScan, MultiSelect DEF M!Next, M!Inside

\* For every list of entries, every result of a scan and every width of the
\* loop's counter, the network that run() joins is the strongest that it can.
THEOREM StrongestSafe ==
  PartsSpec => []JoinsTheStrongest
<1>1. MultiInv /\ [M!Next]_M!vars => MultiInv'
  BY MultiNext, WirelessAssumption
<1>2. MultiInv => JoinsTheStrongest
  <2> SUFFICES ASSUME MultiInv, pc = "wait" \/ (pc = "select" /\ i >= Len(nets))
               PROVE  LET candidates ==
                            {nets[n] : n \in {m \in 1 .. Len(nets) : M!usable(nets[m])}} IN
                      IF candidates = {} THEN best = M!None
                      ELSE best \in candidates /\ \A net \in candidates : net.rssi <= best.rssi
    BY DEF JoinsTheStrongest, M!JoinsTheStrongest
  <2>1. i >= Len(nets) /\ i \in Int /\ Len(nets) \in Nat
    BY DEF MultiInv, MultiTypes
  <2>2. best # M!None => \E m \in 1 .. Len(nets) : nets[m] = best /\ M!usable(nets[m])
    BY DEF MultiInv, BestSoFar
  <2>3. \A m \in 1 .. Len(nets) :
          M!usable(nets[m]) => best # M!None /\ nets[m].rssi <= best.rssi
    BY <2>1 DEF MultiInv, BestSoFar
  <2> QED
    BY <2>2, <2>3
<1> QED
  BY <1>1, <1>2, MultiInit, PartsMove, PTL DEF PartsSpec

------------------------------------------------------------------------------
(***************************************************************************)
(* BLE.                                                                    *)
(***************************************************************************)

\* Nothing has happened that parts m_advertising from the radio.
InStep == excuse \subseteq {"lateDb"}

Building == {"ethermind", "legacy", "dbWait", "activity", "payload"}
Preparing == {"waitCreate", "waitData", "waitResponse"}

Command == {"create", "data", "response", "start", "stop", "restart"}

BleTypes ==
  /\ requests \in Seq(Command)
  /\ m_advertising \in BOOLEAN /\ radio \in BOOLEAN /\ conn \in BOOLEAN
  /\ ble_pc \in Building \cup Preparing \cup {"idle", "waitStart", "waitStop"}

\* An advertisement needs an activity, and a connection ends the advertisement.
ActivityStands ==
  /\ m_advertising => m_actv
  /\ ble_pc = "waitCreate" => ~m_actv
  /\ ble_pc \in {"payload", "waitData", "waitResponse", "waitStart", "waitStop"} => m_actv
  /\ conn => ~radio

\* Whatever else the stack has yet to answer, the command that is awaited comes
\* last, and when it is answered the radio does what it says.
LastStands ==
  "raced" \notin excuse =>
    /\ ble_pc = "waitStart" => IF requests = <<>> THEN cmd.ok => (radio <=> ~conn)
                               ELSE requests[Len(requests)] = "start"
    /\ ble_pc = "waitStop" => IF requests = <<>> THEN cmd.ok => ~radio
                              ELSE requests[Len(requests)] = "stop"

\* Between calls the stack has nothing to answer but restarts.
IdleInStep ==
  ble_pc = "idle" =>
        /\ m_advertising => /\ \A k \in 1 .. Len(requests) : requests[k] = "restart"
                            /\ requests = <<>> => (radio <=> ~conn)
        /\ ~m_advertising => requests = <<>> /\ ~radio

\* advertise() has at most one command under way, and the radio is off until
\* that is the start.
StartInStep ==
  /\ ble_pc \in Building => requests = <<>> /\ ~radio /\ ~m_advertising
  /\ ble_pc \in Preparing => /\ ~radio /\ ~m_advertising
                             /\ \/ requests = <<>>
                                \/ /\ cmd = B!NoCmd /\ Len(requests) = 1
                                   /\ requests[1] \in {"create", "data", "response"}
  /\ ble_pc = "waitStart" =>
           /\ ~m_advertising
           /\ \/ /\ requests = <<>> /\ cmd.name = "start" /\ cmd.ok \in BOOLEAN
                 /\ IF cmd.ok THEN radio <=> ~conn ELSE ~radio
              \/ requests # <<>> /\ cmd = B!NoCmd /\ Len(requests) = 1 /\ ~radio

\* stopAdvertise() comes after the restarts that the stack has yet to answer.
StopInStep ==
  ble_pc = "waitStop" =>
        /\ m_advertising
        /\ requests # <<>> =>
             /\ cmd = B!NoCmd
             /\ \A k \in 1 .. Len(requests) - 1 : requests[k] = "restart"
             /\ Len(requests) = 1 => (radio <=> ~conn)
        /\ requests = <<>> =>
             /\ cmd.name = "stop" /\ cmd.ok \in BOOLEAN
             /\ IF cmd.ok THEN ~radio ELSE radio <=> ~conn

BleInv ==
  /\ BleTypes /\ ActivityStands /\ LastStands
  /\ InStep => IdleInStep /\ StartInStep /\ StopInStep

LEMMA BleInit == B!Init => BleInv
<1> SUFFICES ASSUME B!Init PROVE BleInv
  OBVIOUS
<1>1. /\ m_advertising = FALSE /\ radio = FALSE /\ conn = FALSE /\ ble_pc = "idle" /\ requests = <<>>
  BY DEF B!Init
<1>2. BleTypes
  <2>1. requests \in Seq(Command)
    BY <1>1
  <2>2. m_advertising \in BOOLEAN /\ radio \in BOOLEAN /\ conn \in BOOLEAN
    BY <1>1
  <2> QED
    BY <1>1, <2>1, <2>2 DEF BleTypes
<1>3. ActivityStands /\ LastStands
  BY <1>1 DEF ActivityStands, LastStands
<1>4. IdleInStep /\ StartInStep /\ StopInStep
  BY <1>1 DEF IdleInStep, StartInStep, StopInStep, Building, Preparing
<1> QED
  BY <1>2, <1>3, <1>4 DEF BleInv

\* Steps that give the stack no command and take no answer: those of the sketch
\* between calls, and those that build the attribute database.
LEMMA BleMoves ==
  ASSUME BleInv, UNCHANGED <<m_advertising, m_actv, cmd, requests, radio, conn>>,
         excuse' \in {excuse, excuse \cup {"lateDb"}},
         \/ ble_pc' = ble_pc
         \/ (ble_pc \in Building /\ ble_pc' \in Building \cup {"idle"} /\ (ble_pc' = "payload" => m_actv))
  PROVE  BleInv'
<1>1. BleTypes' /\ ActivityStands'
  BY DEF BleInv, BleTypes, ActivityStands, Building, Preparing
<1>2. ("raced" \notin excuse' <=> "raced" \notin excuse) /\ (InStep' <=> InStep)
  BY DEF InStep
<1>3. LastStands'
  BY <1>2 DEF BleInv, LastStands, Building
<1>4. InStep' => IdleInStep' /\ StartInStep' /\ StopInStep'
  BY <1>2 DEF BleInv, IdleInStep, StartInStep, StopInStep, Building, Preparing
<1> QED
  BY <1>1, <1>3, <1>4 DEF BleInv

\* A call that has not started the advertisement returns.
LEMMA BleReturn ==
  ASSUME BleInv, UNCHANGED <<m_advertising, requests, radio, conn>>, ble_pc' = "idle",
         m_advertising => m_actv', InStep' => requests = <<>> /\ ~radio /\ ~m_advertising
  PROVE  BleInv'
<1>1. BleTypes' /\ ActivityStands' /\ LastStands'
  BY DEF BleInv, BleTypes, ActivityStands, LastStands
<1>2. InStep' => IdleInStep' /\ StartInStep' /\ StopInStep'
  BY DEF IdleInStep, StartInStep, StopInStep, Building, Preparing
<1> QED
  BY <1>1, <1>2 DEF BleInv

\* advertise() gives the stack its next command.
LEMMA BleIssue ==
  ASSUME BleInv, NEW name \in {"create", "data", "response", "start"}, cmd' = B!NoCmd,
         requests' = Append(requests, name),
         UNCHANGED <<m_advertising, radio, conn>>,
         InStep' => requests = <<>> /\ ~radio /\ ~m_advertising,
         m_advertising => m_actv',
         \/ (ble_pc' = "waitCreate" /\ name = "create" /\ ~m_actv')
         \/ (ble_pc' = "waitData" /\ name = "data" /\ m_actv')
         \/ (ble_pc' = "waitResponse" /\ name = "response" /\ m_actv')
         \/ (ble_pc' = "waitStart" /\ name = "start" /\ m_actv')
  PROVE  BleInv'
<1>1. requests \in Seq(Command) /\ name \in Command
  BY DEF BleInv, BleTypes, Command
<1>2. /\ requests' \in Seq(Command) /\ requests' # <<>> /\ Len(requests') = Len(requests) + 1
      /\ requests'[Len(requests')] = name
  BY <1>1
<1>3. BleTypes' /\ ActivityStands'
  <2>1. ble_pc' \in Preparing \cup {"waitStart"}
    BY DEF Preparing
  <2>2. BleTypes'
    BY <1>2, <2>1 DEF BleInv, BleTypes
  <2>3. ActivityStands'
    BY DEF BleInv, ActivityStands
  <2> QED
    BY <2>2, <2>3
<1>4. LastStands'
  BY <1>1, <1>2 DEF LastStands
<1>5. ASSUME InStep'
      PROVE  IdleInStep' /\ StartInStep' /\ StopInStep'
  <2>1. Len(requests') = 1 /\ requests'[1] = name
    BY <1>1, <1>2, <1>5
  <2> QED
    BY <1>1, <1>2, <1>5, <2>1 DEF IdleInStep, StartInStep, StopInStep, Building, Preparing
<1> QED
  BY <1>3, <1>4, <1>5 DEF BleInv

\* A wait that has ended in step has had its answer.
LEMMA Answered ==
  ASSUME BleInv, NEW name \in {"create", "data", "response", "start", "stop"},
         excuse' = excuse \cup B!timedOut(name), InStep'
  PROVE  /\ InStep /\ B!done(name)
         /\ ble_pc \in Preparing => requests = <<>> /\ ~radio /\ ~m_advertising
         /\ ble_pc \in {"waitStart", "waitStop"} => requests = <<>>
<1>1. InStep /\ B!done(name)
  BY DEF InStep, B!timedOut
<1>2. cmd # B!NoCmd
  BY <1>1 DEF B!done, B!NoCmd
<1> QED
  BY <1>1, <1>2 DEF BleInv, StartInStep, StopInStep

\* The steps of advertise() up to the start.
LEMMA BlePrepare ==
  ASSUME BleInv, NEW b \in BOOLEAN, NEW named \in BOOLEAN,
         \/ B!ensureActivity(b) \/ B!waitCreate \/ B!setAdvertisingPayload(b)
         \/ B!waitData(named, b) \/ B!waitResponse(b)
  PROVE  BleInv'
<1>0. m_advertising => m_actv
  BY DEF BleInv, ActivityStands
<1>1. CASE B!ensureActivity(b)
  <2>1. UNCHANGED <<m_advertising, m_actv, radio, conn, excuse>> /\ ble_pc = "activity"
    BY <1>1 DEF B!ensureActivity, B!device, B!rest
  <2>2. InStep' => requests = <<>> /\ ~radio /\ ~m_advertising
    BY <2>1 DEF InStep, BleInv, StartInStep, Building
  <2>3. CASE ble_pc' = "payload" /\ m_actv /\ UNCHANGED <<cmd, requests>>
    BY <2>1, <2>3, BleMoves DEF Building
  <2>4. CASE B!issue("create", "waitCreate") /\ ~m_actv
    <3>1. ~m_actv'
      BY <2>1, <2>4
    <3> QED
      BY <1>0, <2>1, <2>2, <2>4, <3>1, BleIssue DEF B!issue
  <2>5. CASE ble_pc' = "idle" /\ UNCHANGED <<cmd, requests>>
    BY <1>0, <2>1, <2>2, <2>5, BleReturn
  <2> QED
    BY <1>1, <2>3, <2>4, <2>5 DEF B!ensureActivity, B!return
<1>2. CASE B!waitCreate
  <2>1. /\ UNCHANGED <<m_advertising, radio, conn, cmd, requests>> /\ ble_pc = "waitCreate"
        /\ excuse' = excuse \cup B!timedOut("create")
    BY <1>2 DEF B!waitCreate, B!rest
  <2>2. InStep' => requests = <<>> /\ ~radio /\ ~m_advertising
    BY <2>1, Answered DEF Preparing
  <2>3. ~m_actv /\ ~m_advertising
    BY <1>0, <2>1 DEF BleInv, ActivityStands
  <2>4. CASE B!ok("create")
    <3>1. m_actv' /\ ble_pc' = "payload"
      BY <1>2, <2>4 DEF B!waitCreate
    <3>2. BleTypes' /\ ActivityStands' /\ LastStands'
      BY <2>1, <3>1 DEF BleInv, BleTypes, ActivityStands, LastStands, Building
    <3>3. InStep' => IdleInStep' /\ StartInStep' /\ StopInStep'
      BY <2>1, <2>2, <3>1 DEF IdleInStep, StartInStep, StopInStep, Building, Preparing
    <3> QED
      BY <3>2, <3>3 DEF BleInv
  <2>5. CASE ~B!ok("create")
    BY <1>2, <2>1, <2>2, <2>3, <2>5, BleReturn DEF B!waitCreate, B!return
  <2> QED
    BY <2>4, <2>5
<1>3. CASE B!setAdvertisingPayload(b)
  <2>1. UNCHANGED <<m_advertising, m_actv, radio, conn, excuse>> /\ ble_pc = "payload"
    BY <1>3 DEF B!setAdvertisingPayload, B!device, B!rest
  <2>2. InStep' => requests = <<>> /\ ~radio /\ ~m_advertising
    BY <2>1 DEF InStep, BleInv, StartInStep, Building
  <2>3. m_actv /\ m_actv'
    BY <2>1 DEF BleInv, ActivityStands
  <2>4. CASE B!issue("data", "waitData")
    BY <1>0, <2>1, <2>2, <2>3, <2>4, BleIssue DEF B!issue
  <2>5. CASE ble_pc' = "idle" /\ UNCHANGED <<cmd, requests>>
    BY <1>0, <2>1, <2>2, <2>5, BleReturn
  <2> QED
    BY <1>3, <2>4, <2>5 DEF B!setAdvertisingPayload, B!return
<1>4. CASE B!waitData(named, b)
  <2>1. /\ UNCHANGED <<m_advertising, m_actv, radio, conn>> /\ ble_pc = "waitData"
        /\ excuse' = excuse \cup B!timedOut("data")
    BY <1>4 DEF B!waitData, B!device, B!rest
  <2>2. InStep' => requests = <<>> /\ ~radio /\ ~m_advertising
    BY <2>1, Answered DEF Preparing
  <2>3. m_actv /\ m_actv'
    BY <2>1 DEF BleInv, ActivityStands
  <2>4. CASE B!issue("response", "waitResponse")
    BY <1>0, <2>1, <2>2, <2>3, <2>4, BleIssue DEF B!issue
  <2>5. CASE B!issue("start", "waitStart")
    BY <1>0, <2>1, <2>2, <2>3, <2>5, BleIssue DEF B!issue
  <2>6. CASE ble_pc' = "idle" /\ UNCHANGED <<cmd, requests>>
    BY <1>0, <2>1, <2>2, <2>6, BleReturn
  <2> QED
    BY <1>4, <2>4, <2>5, <2>6 DEF B!waitData, B!return
<1>5. CASE B!waitResponse(b)
  <2>1. /\ UNCHANGED <<m_advertising, m_actv, radio, conn>> /\ ble_pc = "waitResponse"
        /\ excuse' = excuse \cup B!timedOut("response")
    BY <1>5 DEF B!waitResponse, B!device, B!rest
  <2>2. InStep' => requests = <<>> /\ ~radio /\ ~m_advertising
    BY <2>1, Answered DEF Preparing
  <2>3. m_actv /\ m_actv'
    BY <2>1 DEF BleInv, ActivityStands
  <2>4. CASE B!issue("start", "waitStart")
    BY <1>0, <2>1, <2>2, <2>3, <2>4, BleIssue DEF B!issue
  <2>5. CASE ble_pc' = "idle" /\ UNCHANGED <<cmd, requests>>
    BY <1>0, <2>1, <2>2, <2>5, BleReturn
  <2> QED
    BY <1>5, <2>4, <2>5 DEF B!waitResponse, B!return
<1> QED
  BY <1>1, <1>2, <1>3, <1>4, <1>5

\* The ends of the waits for a start and for a stop.
LEMMA BleWaited ==
  ASSUME BleInv, B!waitStart \/ B!waitStop
  PROVE  BleInv'
<1>0. m_actv /\ UNCHANGED <<m_actv, radio, conn, requests>> /\ ble_pc' = "idle"
  BY DEF BleInv, ActivityStands, B!waitStart, B!waitStop, B!rest, B!return
<1>1. ASSUME m_advertising' \in BOOLEAN,
             InStep' /\ m_advertising' => requests = <<>> /\ (radio <=> ~conn),
             InStep' /\ ~m_advertising' => requests = <<>> /\ ~radio
      PROVE  BleInv'
  <2>1. BleTypes'
    BY <1>0, <1>1 DEF BleInv, BleTypes
  <2>2. ActivityStands' /\ LastStands'
    BY <1>0 DEF BleInv, ActivityStands, LastStands
  <2>3. InStep' => IdleInStep' /\ StartInStep' /\ StopInStep'
    BY <1>0, <1>1 DEF IdleInStep, StartInStep, StopInStep, Building, Preparing
  <2> QED
    BY <2>1, <2>2, <2>3 DEF BleInv
<1>2. CASE B!waitStart
  <2>1. ble_pc = "waitStart" /\ excuse' = B!settled("start") /\ m_advertising' = B!ok("start")
    BY <1>2 DEF B!waitStart
  <2>2. B!ok("start") \in BOOLEAN
    BY <2>1 DEF B!ok, B!done
  <2>3. CASE B!ok("start") /\ requests = <<>> /\ "raced" \notin excuse
    <3>1. radio <=> ~conn
      BY <2>1, <2>3 DEF BleInv, LastStands, B!ok
    <3> QED
      BY <1>1, <2>1, <2>2, <2>3, <3>1
  <2>4. CASE ~(B!ok("start") /\ requests = <<>> /\ "raced" \notin excuse)
    <3>1. excuse' = excuse \cup B!timedOut("start")
      BY <2>1, <2>4 DEF B!settled
    <3>2. InStep' => InStep /\ B!done("start") /\ requests = <<>>
      BY <2>1, <3>1, Answered
    <3>3. InStep' => "raced" \notin excuse
      BY <3>2 DEF InStep
    <3>4. InStep' => ~B!ok("start") /\ ~radio
      BY <2>1, <2>4, <3>2, <3>3 DEF BleInv, StartInStep, B!ok, B!done
    <3> QED
      BY <1>1, <2>1, <2>2, <3>2, <3>4
  <2> QED
    BY <2>3, <2>4
<1>3. CASE B!waitStop
  <2>1. ble_pc = "waitStop" /\ excuse' = B!settled("stop") /\ m_advertising' = ~B!ok("stop")
    BY <1>3 DEF B!waitStop, B!stillAdvertising
  <2>2. m_advertising' \in BOOLEAN
    BY <2>1
  <2>3. CASE B!ok("stop") /\ requests = <<>> /\ "raced" \notin excuse
    <3>1. ~radio /\ ~m_advertising'
      BY <2>1, <2>3 DEF BleInv, LastStands, B!ok
    <3> QED
      BY <1>1, <2>2, <2>3, <3>1
  <2>4. CASE ~(B!ok("stop") /\ requests = <<>> /\ "raced" \notin excuse)
    <3>1. excuse' = excuse \cup B!timedOut("stop")
      BY <2>1, <2>4 DEF B!settled
    <3>2. InStep' => InStep /\ B!done("stop") /\ requests = <<>>
      BY <2>1, <3>1, Answered
    <3>3. InStep' => "raced" \notin excuse
      BY <3>2 DEF InStep
    <3>4. InStep' => ~B!ok("stop") /\ (radio <=> ~conn)
      BY <2>1, <2>4, <3>2, <3>3 DEF BleInv, StopInStep, B!ok, B!done
    <3>5. InStep' => m_advertising'
      BY <2>1, <3>4
    <3> QED
      BY <1>1, <2>2, <3>2, <3>4, <3>5
  <2> QED
    BY <2>3, <2>4
<1> QED
  BY <1>2, <1>3

\* advertise() and stopAdvertise().
LEMMA BleBegin ==
  ASSUME BleInv, (\E b \in BOOLEAN : B!advertise(b)) \/ B!stopAdvertise
  PROVE  BleInv'
<1>1. ASSUME NEW b \in BOOLEAN, B!advertise(b)
      PROVE  BleInv'
  <2>1. /\ ble_pc = "idle" /\ ble_pc' \in {"idle", "activity", "ethermind", "legacy"}
        /\ UNCHANGED <<m_advertising, m_actv, cmd, requests, radio, conn>>
    BY <1>1 DEF B!advertise, B!return, B!values
  <2>2. InStep' => InStep /\ ~radio /\ ~m_advertising
    BY <1>1 DEF B!advertise, InStep
  <2>3. InStep' => requests = <<>>
    BY <2>1, <2>2 DEF BleInv, IdleInStep
  <2>4. BleTypes' /\ ActivityStands' /\ LastStands'
    BY <2>1 DEF BleInv, BleTypes, ActivityStands, LastStands, Building
  <2>5. InStep' => IdleInStep' /\ StartInStep' /\ StopInStep'
    BY <2>1, <2>2, <2>3 DEF IdleInStep, StartInStep, StopInStep, Building, Preparing
  <2> QED
    BY <2>4, <2>5 DEF BleInv
<1>2. CASE B!stopAdvertise
  <2>1. /\ ble_pc = "idle" /\ ble_pc' = "waitStop" /\ m_actv /\ m_advertising
        /\ cmd' = B!NoCmd /\ requests' = Append(requests, "stop")
        /\ UNCHANGED <<m_advertising, m_actv, radio, conn, excuse>>
    BY <1>2 DEF B!stopAdvertise, B!issue, B!device, B!rest
  <2>2. requests \in Seq(Command)
    BY DEF BleInv, BleTypes
  <2>3. /\ requests' \in Seq(Command) /\ requests' # <<>> /\ Len(requests') = Len(requests) + 1
        /\ requests'[Len(requests')] = "stop"
        /\ \A k \in 1 .. Len(requests) : requests'[k] = requests[k]
    <3>1. "stop" \in Command
      BY DEF Command
    <3> QED
      BY <2>1, <2>2, <3>1
  <2>4. BleTypes' /\ ActivityStands'
    BY <2>1, <2>3 DEF BleInv, BleTypes, ActivityStands
  <2>5. LastStands'
    BY <2>1, <2>3 DEF LastStands
  <2>6. ASSUME InStep'
        PROVE  IdleInStep' /\ StartInStep' /\ StopInStep'
    <3>1. /\ \A k \in 1 .. Len(requests) : requests[k] = "restart"
          /\ requests = <<>> => (radio <=> ~conn)
      BY <2>1, <2>6 DEF BleInv, InStep, IdleInStep
    <3>2. \A k \in 1 .. Len(requests') - 1 : requests'[k] = "restart"
      BY <2>2, <2>3, <3>1
    <3>3. Len(requests') = 1 => (radio <=> ~conn)
      BY <2>2, <2>3, <3>1
    <3> QED
      BY <2>1, <2>3, <3>2, <3>3 DEF IdleInStep, StartInStep, StopInStep, Building, Preparing
  <2> QED
    BY <2>4, <2>5, <2>6 DEF BleInv
<1> QED
  BY <1>1, <1>2

\* The stack answers its first command.
LEMMA BleAnswer ==
  ASSUME BleInv, NEW b \in BOOLEAN, B!Answer(b)
  PROVE  BleInv'
<1> DEFINE name == Head(requests)
<1>1. /\ requests # <<>> /\ requests' = Tail(requests)
      /\ UNCHANGED <<m_advertising, m_actv, ble_pc, conn>>
      /\ cmd' = IF name = "restart" THEN cmd ELSE [name |-> name, ok |-> b]
      /\ radio' = IF ~b THEN radio
                  ELSE IF name \in {"start", "restart"} THEN ~conn
                  ELSE IF name = "stop" THEN FALSE ELSE radio
      /\ excuse' = IF name = "restart" /\ ~b THEN excuse \cup {"restart"} ELSE excuse
  BY DEF B!Answer, B!device
<1>2. /\ requests \in Seq(Command) /\ m_advertising \in BOOLEAN /\ radio \in BOOLEAN
      /\ conn \in BOOLEAN
  BY DEF BleInv, BleTypes
<1>3. /\ requests' \in Seq(Command) /\ Len(requests) \in Nat /\ Len(requests) >= 1
      /\ Len(requests') = Len(requests) - 1
      /\ \A k \in 1 .. Len(requests') : requests'[k] = requests[k + 1]
      /\ name = requests[1] /\ name \in Command
      /\ (requests' = <<>>) <=> (Len(requests) = 1)
  <2>1. Len(requests) \in Nat /\ Len(requests) >= 1
    BY <1>1, <1>2
  <2>2. requests' \in Seq(Command) /\ Len(requests') = Len(requests) - 1
    BY <1>1, <1>2
  <2>3. \A k \in 1 .. Len(requests') : requests'[k] = requests[k + 1]
    BY <1>1, <1>2, <2>1, <2>2
  <2>4. name = requests[1] /\ name \in Command
    BY <1>1, <1>2, <2>1
  <2>5. (requests' = <<>>) <=> (Len(requests) = 1)
    BY <2>1, <2>2
  <2> QED
    BY <2>1, <2>2, <2>3, <2>4, <2>5
<1>4. Len(requests) # 1 => requests'[Len(requests')] = requests[Len(requests)]
  BY <1>3
<1>5. radio' \in BOOLEAN /\ (conn => ~radio')
  BY <1>1, <1>2 DEF BleInv, ActivityStands
<1>6. BleTypes'
  BY <1>1, <1>3, <1>5 DEF BleInv, BleTypes
<1>7. ActivityStands'
  BY <1>1, <1>5 DEF BleInv, ActivityStands
<1>8. "raced" \notin excuse' => "raced" \notin excuse
  BY <1>1
<1>9. LastStands'
  <2> SUFFICES ASSUME "raced" \notin excuse'
               PROVE  /\ ble_pc = "waitStart" => IF requests' = <<>> THEN cmd'.ok => (radio' <=> ~conn)
                                                 ELSE requests'[Len(requests')] = "start"
                      /\ ble_pc = "waitStop" => IF requests' = <<>> THEN cmd'.ok => ~radio'
                                                ELSE requests'[Len(requests')] = "stop"
    BY <1>1 DEF LastStands
  <2>1. /\ ble_pc = "waitStart" => requests[Len(requests)] = "start"
        /\ ble_pc = "waitStop" => requests[Len(requests)] = "stop"
    BY <1>1, <1>8 DEF BleInv, LastStands
  <2>2. CASE Len(requests) = 1
    <3>1. ble_pc = "waitStart" => (cmd'.ok => (radio' <=> ~conn))
      BY <1>1, <1>3, <2>1, <2>2
    <3>2. ble_pc = "waitStop" => (cmd'.ok => ~radio')
      BY <1>1, <1>3, <2>1, <2>2
    <3> QED
      BY <1>3, <2>2, <3>1, <3>2
  <2>3. CASE Len(requests) # 1
    BY <1>3, <1>4, <2>1, <2>3
  <2> QED
    BY <2>2, <2>3
<1>10. ASSUME InStep'
       PROVE  IdleInStep' /\ StartInStep' /\ StopInStep'
  <2>1. InStep /\ (name = "restart" => b) /\ "raced" \notin excuse
    BY <1>1, <1>10 DEF InStep
  <2>2. IdleInStep /\ StartInStep /\ StopInStep
    BY <2>1 DEF BleInv
  <2>3. CASE ble_pc = "idle"
    <3>1. m_advertising /\ \A k \in 1 .. Len(requests) : requests[k] = "restart"
      BY <1>1, <2>2, <2>3 DEF IdleInStep
    <3>2. name = "restart"
      BY <1>3, <3>1
    <3>3. radio' <=> ~conn
      BY <1>1, <2>1, <3>2
    <3>4. \A k \in 1 .. Len(requests') : requests'[k] = "restart"
      BY <1>3, <3>1
    <3> QED
      BY <1>1, <2>3, <3>1, <3>3, <3>4
         DEF IdleInStep, StartInStep, StopInStep, Building, Preparing
  <2>4. CASE ble_pc \in Building
    BY <1>1, <2>2, <2>4 DEF StartInStep
  <2>5. CASE ble_pc \in Preparing
    <3>1. /\ ~radio /\ ~m_advertising /\ Len(requests) = 1
          /\ name \in {"create", "data", "response"}
      BY <1>1, <1>3, <2>2, <2>5 DEF StartInStep
    <3>2. ~radio' /\ requests' = <<>>
      BY <1>1, <1>3, <3>1
    <3> QED
      BY <1>1, <2>5, <3>1, <3>2 DEF IdleInStep, StartInStep, StopInStep, Building, Preparing
  <2>6. CASE ble_pc = "waitStart"
    <3>1. ~m_advertising /\ Len(requests) = 1 /\ ~radio
      BY <1>1, <2>2, <2>6 DEF StartInStep
    <3>2. name = "start"
      BY <1>1, <1>3, <2>1, <2>6, <3>1 DEF BleInv, LastStands
    <3>3. requests' = <<>> /\ cmd' = [name |-> "start", ok |-> b]
      BY <1>1, <1>3, <3>1, <3>2
    <3>4. IF b THEN radio' <=> ~conn ELSE ~radio'
      BY <1>1, <3>1, <3>2
    <3>5. cmd'.name = "start" /\ cmd'.ok = b
      BY <3>3
    <3>6. StartInStep'
      BY <1>1, <2>6, <3>1, <3>3, <3>4, <3>5 DEF StartInStep, Building, Preparing
    <3> QED
      BY <1>1, <2>6, <3>6 DEF IdleInStep, StopInStep
  <2>7. CASE ble_pc = "waitStop"
    <3>1. /\ m_advertising /\ cmd = B!NoCmd
          /\ \A k \in 1 .. Len(requests) - 1 : requests[k] = "restart"
          /\ Len(requests) = 1 => (radio <=> ~conn)
      BY <1>1, <2>2, <2>7 DEF StopInStep
    <3>2. CASE Len(requests) = 1
      <4>1. name = "stop"
        BY <1>1, <1>3, <2>1, <2>7, <3>2 DEF BleInv, LastStands
      <4>2. requests' = <<>> /\ cmd' = [name |-> "stop", ok |-> b]
        BY <1>1, <1>3, <3>2, <4>1
      <4>3. IF b THEN ~radio' ELSE radio' <=> ~conn
        BY <1>1, <3>1, <3>2, <4>1
      <4>4. cmd'.name = "stop" /\ cmd'.ok = b
        BY <4>2
      <4> QED
        BY <1>1, <2>7, <3>1, <4>2, <4>3, <4>4
           DEF IdleInStep, StartInStep, StopInStep, Building, Preparing
    <3>3. CASE Len(requests) # 1
      <4>1. name = "restart"
        BY <1>3, <3>1, <3>3
      <4>2. cmd' = B!NoCmd /\ (radio' <=> ~conn)
        BY <1>1, <2>1, <3>1, <4>1
      <4>3. \A k \in 1 .. Len(requests') - 1 : requests'[k] = "restart"
        BY <1>3, <3>1
      <4>4. requests' # <<>>
        BY <1>3, <3>3
      <4> QED
        BY <1>1, <2>7, <3>1, <4>2, <4>3, <4>4
           DEF IdleInStep, StartInStep, StopInStep, Building, Preparing
    <3> QED
      BY <3>2, <3>3
  <2> QED
    BY <2>3, <2>4, <2>5, <2>6, <2>7 DEF BleInv, BleTypes
<1> QED
  BY <1>6, <1>7, <1>9, <1>10 DEF BleInv

\* A peer comes and goes.
LEMMA BlePeer ==
  ASSUME BleInv, B!Connect \/ B!Disconnect
  PROVE  BleInv'
<1>1. CASE B!Connect
  <2>1. /\ radio /\ ~conn /\ conn' = TRUE /\ radio' = FALSE
        /\ UNCHANGED <<m_advertising, m_actv, cmd, ble_pc, requests, excuse>>
    BY <1>1 DEF B!Connect, B!device
  <2>2. BleTypes'
    BY <2>1 DEF BleInv, BleTypes
  <2>3. ActivityStands' /\ LastStands'
    BY <2>1 DEF BleInv, ActivityStands, LastStands
  <2>4. InStep' => IdleInStep' /\ StartInStep' /\ StopInStep'
    BY <2>1 DEF BleInv, InStep, IdleInStep, StartInStep, StopInStep
  <2> QED
    BY <2>2, <2>3, <2>4 DEF BleInv
<1>2. CASE B!Disconnect
  <2>1. /\ conn /\ conn' = FALSE
        /\ requests' = IF m_actv /\ m_advertising THEN Append(requests, "restart") ELSE requests
        /\ excuse' = IF ble_pc \in {"waitStop", "waitStart"} THEN excuse \cup {"raced"} ELSE excuse
        /\ UNCHANGED <<m_advertising, m_actv, cmd, ble_pc, radio>>
    BY <1>2 DEF B!Disconnect, B!device, B!resumes
  <2>2. requests \in Seq(Command) /\ "restart" \in Command
    BY DEF BleInv, BleTypes, Command
  <2>3. ~radio
    BY <2>1 DEF BleInv, ActivityStands
  <2>4. requests' \in Seq(Command)
    BY <2>1, <2>2
  <2>5. BleTypes'
    BY <2>1, <2>4 DEF BleInv, BleTypes
  <2>6. ActivityStands'
    BY <2>1, <2>3 DEF BleInv, ActivityStands
  <2>7. LastStands'
    BY <2>1 DEF LastStands
  <2>8. ASSUME InStep'
        PROVE  IdleInStep' /\ StartInStep' /\ StopInStep'
    <3>1. InStep /\ ble_pc \notin {"waitStop", "waitStart"}
      BY <2>1, <2>8 DEF InStep
    <3>2. IdleInStep /\ StartInStep
      BY <3>1 DEF BleInv
    <3>3. CASE m_advertising
      <4>1. ble_pc = "idle" /\ m_actv
        BY <3>1, <3>2, <3>3 DEF StartInStep, BleInv, BleTypes, ActivityStands
      <4>2. \A k \in 1 .. Len(requests) : requests[k] = "restart"
        BY <3>2, <3>3, <4>1 DEF IdleInStep
      <4>3. requests' = Append(requests, "restart")
        BY <2>1, <3>3, <4>1
      <4>4. requests' # <<>> /\ \A k \in 1 .. Len(requests') : requests'[k] = "restart"
        BY <2>2, <4>2, <4>3
      <4> QED
        BY <2>1, <3>3, <4>1, <4>4 DEF IdleInStep, StartInStep, StopInStep, Building, Preparing
    <3>4. CASE ~m_advertising
      <4>1. requests' = requests
        BY <2>1, <3>4
      <4> QED
        BY <2>1, <2>3, <3>1, <3>2, <3>4, <4>1 DEF IdleInStep, StartInStep, StopInStep
    <3> QED
      BY <3>3, <3>4
  <2> QED
    BY <2>5, <2>6, <2>7, <2>8 DEF BleInv
<1> QED
  BY <1>1, <1>2

\* The attribute database, its values and its services.
LEMMA BleElse ==
  ASSUME BleInv,
         \/ (\E b \in BOOLEAN : B!finalizeEthermind(b)) \/ (\E b \in BOOLEAN : B!createDb(b))
         \/ (\E b \in BOOLEAN : B!dbWaited(b)) \/ B!legacyDone
         \/ (\E b \in BOOLEAN : B!DbCreated(b)) \/ (\E s \in DOMAIN Service : B!addService(s))
         \/ (\E c \in Written, n \in WriteLen : B!writeValue(c, n) \/ B!PeerWrite(c, n))
         \/ (\E c \in Written, b \in BOOLEAN : B!PeerSubscribe(c, b))
  PROVE  BleInv'
<1>1. ASSUME NEW b \in BOOLEAN, B!finalizeEthermind(b)
      PROVE  BleInv'
  <2>1. /\ UNCHANGED <<m_advertising, m_actv, cmd, requests, radio, conn, excuse>>
        /\ ble_pc = "ethermind" /\ ble_pc' \in {"activity", "legacy"}
    BY <1>1 DEF B!finalizeEthermind, B!device
  <2> QED
    BY <2>1, BleMoves DEF Building
<1>2. ASSUME NEW b \in BOOLEAN, B!createDb(b)
      PROVE  BleInv'
  <2>1. /\ UNCHANGED <<m_advertising, m_actv, cmd, requests, radio, conn, excuse>>
        /\ ble_pc = "legacy" /\ ble_pc' \in {"dbWait", "idle"}
    BY <1>2 DEF B!createDb, B!device, B!return
  <2> QED
    BY <2>1, BleMoves DEF Building
<1>3. ASSUME NEW b \in BOOLEAN, B!dbWaited(b)
      PROVE  BleInv'
  <2>1. /\ UNCHANGED <<m_advertising, m_actv, cmd, requests, radio, conn>>
        /\ excuse' \in {excuse, excuse \cup {"lateDb"}}
        /\ ble_pc = "dbWait" /\ ble_pc' \in {"legacy", "idle"}
    BY <1>3 DEF B!dbWaited, B!device, B!return
  <2> QED
    BY <2>1, BleMoves DEF Building
<1>4. CASE B!legacyDone
  <2>1. /\ UNCHANGED <<m_advertising, m_actv, cmd, requests, radio, conn, excuse>>
        /\ ble_pc = "legacy" /\ ble_pc' \in {"activity", "idle"}
    BY <1>4 DEF B!legacyDone, B!device, B!return
  <2> QED
    BY <2>1, BleMoves DEF Building
<1>5. ASSUME UNCHANGED <<m_advertising, m_actv, cmd, requests, radio, conn, excuse, ble_pc>>
      PROVE  BleInv'
  BY <1>5, BleMoves
<1>6. ASSUME NEW b \in BOOLEAN, B!DbCreated(b)
      PROVE  BleInv'
  BY <1>5, <1>6 DEF B!DbCreated, B!device
<1>7. ASSUME NEW s \in DOMAIN Service, B!addService(s)
      PROVE  BleInv'
  BY <1>5, <1>7 DEF B!addService, B!device
<1>8. ASSUME NEW c \in Written, NEW n \in WriteLen, B!writeValue(c, n) \/ B!PeerWrite(c, n)
      PROVE  BleInv'
  BY <1>5, <1>8 DEF B!writeValue, B!PeerWrite, B!device
<1>9. ASSUME NEW c \in Written, NEW b \in BOOLEAN, B!PeerSubscribe(c, b)
      PROVE  BleInv'
  BY <1>5, <1>9 DEF B!PeerSubscribe, B!device
<1> QED
  BY <1>1, <1>2, <1>3, <1>4, <1>6, <1>7, <1>8, <1>9

LEMMA BleNext ==
  BleInv /\ [B!Next]_(B!vars) => BleInv'
<1> SUFFICES ASSUME BleInv, [B!Next]_(B!vars) PROVE BleInv'
  OBVIOUS
<1>1. CASE UNCHANGED B!vars
  BY <1>1, BleMoves DEF B!vars, B!device
<1>2. CASE B!Step
  BY <1>2, BleElse, BlePrepare, BleWaited DEF B!Step
<1>3. CASE B!User
  BY <1>3, BleElse, BleBegin DEF B!User
<1>4. CASE B!Stack
  BY <1>4, BleElse, BleAnswer, BlePeer DEF B!Stack
<1> QED
  BY <1>1, <1>2, <1>3, <1>4 DEF B!Next

\* Whatever the stack answers, and whenever a peer comes and goes, between
\* calls m_advertising says what the radio does.
THEOREM RadioSafe == PartsSpec => []B!RadioMatches
<1>1. BleInv => B!RadioMatches
  <2> SUFFICES ASSUME BleInv, ble_pc = "idle", requests = <<>>, ~conn, excuse \subseteq {"lateDb"}
               PROVE  radio <=> m_advertising
    BY DEF B!RadioMatches
  <2>1. IdleInStep
    BY DEF BleInv, InStep
  <2> QED
    BY <2>1 DEF IdleInStep
<1> QED
  BY <1>1, BleInit, BleNext, PartsMove, PTL DEF PartsSpec

------------------------------------------------------------------------------
(***************************************************************************)
(* The attribute database of the legacy stack.  built() is a recursion over*)
(* the characteristics of a service: what it computes is shown by          *)
(* induction, and then the invariant follows finalizeDatabase() from one   *)
(* service to the next.                                                    *)
(***************************************************************************)

\* What a table holds while it is built for profile prf.
Attr == {"service", "declaration", "value", "cccd"} \X (B!Char \cup DOMAIN Service)
Bound(prf) == [char : B!Char, prf : {prf}, value : Nat, desc : Nat]
Binding == [char : B!Char, prf : Nat, value : Nat, desc : Nat]
Table(prf) == [att : Seq(Attr), bound : Seq(Bound(prf))]

\* The assumptions on the services, as the proofs use them.
LEMMA BleConstants ==
  /\ Service \in Seq(Seq(B!Char))
  /\ \A u \in DOMAIN Service : /\ Service[u] \in Seq(B!Char)
                               /\ Len(Service[u]) \in Nat /\ 1 + 3 * Len(Service[u]) < 256
                               /\ \A a, b \in 1 .. Len(Service[u]) : Service[u][a] = Service[u][b] => a = b
  /\ \A u, j \in DOMAIN Service : \A a \in 1 .. Len(Service[u]), b \in 1 .. Len(Service[j]) :
       Service[u][a] = Service[j][b] => u = j
<1>0. /\ Service \in Seq(Seq(B!Char))
      /\ \A u \in DOMAIN Service : B!IsInjective(Service[u]) /\ 1 + 3 * Len(Service[u]) < 256
      /\ \A u, j \in DOMAIN Service : u # j => B!Range(Service[u]) \cap B!Range(Service[j]) = {}
  BY WirelessAssumption DEF B!ConstantsOK
<1>1. ASSUME NEW u \in DOMAIN Service
      PROVE  Service[u] \in Seq(B!Char) /\ Len(Service[u]) \in Nat /\ DOMAIN Service[u] = 1 .. Len(Service[u])
  BY <1>0
<1>2. ASSUME NEW u \in DOMAIN Service, NEW a \in 1 .. Len(Service[u])
      PROVE  Service[u][a] \in B!Range(Service[u])
  BY <1>1 DEF B!Range
<1>3. ASSUME NEW u \in DOMAIN Service
      PROVE  \A a, b \in 1 .. Len(Service[u]) : Service[u][a] = Service[u][b] => a = b
  BY <1>0, <1>1 DEF B!IsInjective
<1> QED
  BY <1>0, <1>1, <1>2, <1>3

\* A characteristic more, and it is still such a table.
LEMMA AddCharTyped ==
  ASSUME NEW prf \in Nat, NEW x \in Table(prf), NEW c \in B!Char
  PROVE  B!addChar(x, c, prf) \in Table(prf)
<1>1. x.att \in Seq(Attr) /\ Len(x.att) \in Nat
  BY DEF Table
<1>2. <<"declaration", c>> \in Attr /\ <<"value", c>> \in Attr /\ <<"cccd", c>> \in Attr
  BY DEF Attr
<1>3. <<<<"declaration", c>>, <<"value", c>>>> \in Seq(Attr) /\ <<<<"cccd", c>>>> \in Seq(Attr)
      /\ <<>> \in Seq(Attr)
  BY <1>2
<1>4. B!addChar(x, c, prf).att \in Seq(Attr)
  BY <1>1, <1>3 DEF B!addChar
<1>5. B!addChar(x, c, prf).bound \in Seq(Bound(prf))
  BY <1>1 DEF B!addChar, Table, Bound, B!NoIdx
<1> QED
  BY <1>4, <1>5 DEF B!addChar, Table

\* The recursion of built() defines a function, and this is what it obeys.
LEMMA BuiltSteps ==
  ASSUME NEW u \in DOMAIN Service, NEW prf \in Nat
  PROVE  LET f == B!built(u, prf) IN
         /\ f \in [0 .. Len(Service[u]) -> Table(prf)]
         /\ f[0] = [att |-> <<<<"service", u>>>>, bound |-> <<>>]
         /\ \A n \in 1 .. Len(Service[u]) : f[n] = B!addChar(f[n - 1], Service[u][n], prf)
<1> DEFINE N == Len(Service[u])
           s0 == [att |-> <<<<"service", u>>>>, bound |-> <<>>]
           G == [d \in (1 .. N) \X Table(prf) |-> B!addChar(d[2], Service[u][d[1]], prf)]
           R(f) == [n \in 0 .. N |-> IF n = 0 THEN s0 ELSE B!addChar(f[n - 1], Service[u][n], prf)]
<1>0. N \in Nat /\ \A n \in 1 .. N : Service[u][n] \in B!Char
  BY BleConstants
<1>1. s0 \in Table(prf)
  BY DEF Table, Attr
<1>2. \A n \in 1 .. N : \A x \in Table(prf) : /\ G[<<n, x>>] = B!addChar(x, Service[u][n], prf)
                                              /\ G[<<n, x>>] \in Table(prf)
  BY <1>0, AddCharTyped
<1>3. PICK f \in [0 .. N -> Table(prf)] :
        Follows(f, s0, G, N)
  <2> HIDE DEF s0, G, N
  <2>1. Stays(G, Table(prf), N)
    BY <1>2 DEF Stays
  <2> QED BY <1>0, <1>1, <2>1, StepsExist
<1>4. f = R(f)
  <2>1. ASSUME NEW n \in 0 .. N
        PROVE  f[n] = IF n = 0 THEN s0 ELSE B!addChar(f[n - 1], Service[u][n], prf)
    <3>1. CASE n = 0
      BY <1>3, <3>1 DEF Follows
    <3>2. CASE n \in 1 .. N
      <4>1. f[n - 1] \in Table(prf) /\ f[n] = G[<<n, f[n - 1]>>]
        <5> HIDE DEF G, s0
        <5> QED BY <1>3, <3>2, <1>0 DEF Follows
      <4> HIDE DEF G
      <4> QED BY <1>2, <3>2, <4>1, n # 0
    <3> QED BY <3>1, <3>2, <1>0
  <2> HIDE DEF s0, N
  <2> QED BY <2>1, <1>3
<1>5. B!built(u, prf) = CHOOSE g : g = R(g)
  BY DEF B!built
<1> HIDE DEF R
<1>6. B!built(u, prf) = R(B!built(u, prf))
  BY <1>4, <1>5
<1> DEFINE b == B!built(u, prf)
<1> HIDE DEF b
<1>7. b = R(b)
  BY <1>6 DEF b
<1>8. b[0] = s0 /\ \A n \in 1 .. N : b[n] = B!addChar(b[n - 1], Service[u][n], prf)
  <2> HIDE DEF s0, N
  <2>1. \A n \in 0 .. N : R(b)[n] = IF n = 0 THEN s0 ELSE B!addChar(b[n - 1], Service[u][n], prf)
    BY DEF R
  <2>2. \A n \in 0 .. N : b[n] = IF n = 0 THEN s0 ELSE B!addChar(b[n - 1], Service[u][n], prf)
    BY <1>7, <2>1
  <2> QED BY <2>2, <1>0
<1>9. DOMAIN b = 0 .. N /\ b = [n \in 0 .. N |-> b[n]]
  BY <1>7 DEF R
<1> HIDE DEF s0, N, G
<1> DEFINE T == {n \in Nat : n <= N => b[n] \in Table(prf)}
<1>10. \A n \in Nat : n \in T
  <2>1. 0 \in T
    BY <1>8, <1>1
  <2>2. ASSUME NEW n \in Nat, n \in T PROVE n + 1 \in T
    <3> SUFFICES ASSUME n + 1 <= N PROVE b[n + 1] \in Table(prf)
      OBVIOUS
    <3>1. n + 1 \in 1 .. N /\ (n + 1) - 1 = n /\ b[n] \in Table(prf)
      BY <2>2, <1>0
    <3> QED BY <3>1, <1>8, <1>0, AddCharTyped
  <2> HIDE DEF T
  <2> QED BY <2>1, <2>2, Induction
<1>11. b \in [0 .. N -> Table(prf)]
  BY <1>9, <1>10, <1>0
<1> QED
  BY <1>8, <1>11 DEF b, s0, N
\* Binding d gives the value and the descriptor where they are in table x.
Points(x, d) ==
  /\ d.value + 1 \in DOMAIN x.att /\ x.att[d.value + 1] = <<"value", d.char>>
  /\ d.desc # B!NoIdx => d.desc + 1 \in DOMAIN x.att /\ x.att[d.desc + 1] = <<"cccd", d.char>>

\* x has the bindings of the first n characteristics of service u.
Laid(x, u, n) ==
  /\ Len(x.bound) = n
  /\ \A m \in 1 .. n : x.bound[m].char = Service[u][m] /\ Points(x, x.bound[m])

\* A characteristic more moves nothing that is there, and is pointed at itself.
LEMMA AddCharLays ==
  ASSUME NEW u \in DOMAIN Service, NEW prf \in Nat, NEW x \in Table(prf), NEW n \in Nat,
         n + 1 <= Len(Service[u]), Laid(x, u, n)
  PROVE  Laid(B!addChar(x, Service[u][n + 1], prf), u, n + 1)
<1> DEFINE c == Service[u][n + 1]
           y == B!addChar(x, c, prf)
           v == Len(x.att) + 1
           d == [char |-> c, prf |-> prf, value |-> v,
                 desc |-> IF c \in NotifyChar THEN v + 1 ELSE B!NoIdx]
           more == <<<<"declaration", c>>, <<"value", c>>>>
           tail == IF c \in NotifyChar THEN <<<<"cccd", c>>>> ELSE <<>>
<1>0. c \in B!Char
  BY BleConstants
<1>1. x.att \in Seq(Attr) /\ Len(x.att) \in Nat /\ DOMAIN x.att = 1 .. Len(x.att)
  BY DEF Table
<1>2. /\ x.bound \in Seq(Bound(prf))
      /\ d \in Bound(prf)
  BY <1>0, <1>1 DEF Table, Bound, B!NoIdx
<1>3. y.bound = Append(x.bound, d) /\ y.att = x.att \o more \o tail
  BY DEF B!addChar
<1>4. y \in Table(prf)
  BY <1>0, AddCharTyped
<1> HIDE DEF y
<1>5. more \in Seq(Attr) /\ Len(more) = 2 /\ more[2] = <<"value", c>>
  BY <1>0 DEF Attr
<1>6. tail \in Seq(Attr) /\ Len(tail) \in Nat /\ (c \in NotifyChar => Len(tail) = 1 /\ tail[1] = <<"cccd", c>>)
  <2>1. <<"cccd", c>> \in Attr
    BY <1>0 DEF Attr
  <2>2. CASE c \in NotifyChar
    <3>1. tail = <<<<"cccd", c>>>>
      BY <2>2
    <3> QED BY <3>1, <2>1
  <2>3. CASE c \notin NotifyChar
    BY <2>3
  <2> QED BY <2>2, <2>3
<1> HIDE DEF more, tail
<1>7. /\ Len(y.att) = Len(x.att) + 2 + Len(tail)
      /\ DOMAIN y.att = 1 .. Len(y.att)
      /\ \A a \in 1 .. Len(x.att) : y.att[a] = x.att[a]
      /\ y.att[Len(x.att) + 2] = <<"value", c>>
      /\ c \in NotifyChar => y.att[Len(x.att) + 3] = <<"cccd", c>>
  <2> DEFINE p == x.att \o more
  <2>1. p \in Seq(Attr) /\ Joined(p, x.att, more)
    BY <1>1, <1>5, Concatenation
  <2>2. p \o tail = y.att
    BY <1>3
  <2>3. y.att \in Seq(Attr) /\ Joined(y.att, p, tail)
    <3> HIDE DEF p
    <3> QED BY <2>1, <2>2, <1>6, Concatenation
  <2> HIDE DEF p
  <2>4. Len(p) = Len(x.att) + 2 /\ \A a \in 1 .. Len(x.att) : p[a] = x.att[a]
    BY <2>1, <1>5 DEF Joined
  <2>5. p[Len(x.att) + 2] = <<"value", c>>
    BY <2>1, <1>5 DEF Joined
  <2>6. /\ Len(y.att) = Len(p) + Len(tail) /\ DOMAIN y.att = 1 .. Len(y.att)
        /\ \A a \in 1 .. Len(p) : y.att[a] = p[a]
    BY <2>3 DEF Joined
  <2>7. c \in NotifyChar => y.att[Len(p) + 1] = <<"cccd", c>>
    BY <2>3, <1>6 DEF Joined
  <2>8. Len(p) + 1 = Len(x.att) + 3 /\ Len(x.att) + 2 \in 1 .. Len(p)
        /\ \A a \in 1 .. Len(x.att) : a \in 1 .. Len(p)
    BY <1>1, <2>4
  <2> QED BY <2>4, <2>5, <2>6, <2>7, <2>8
<1>8. ASSUME NEW m \in 1 .. n
      PROVE  y.bound[m] = x.bound[m] /\ Points(y, x.bound[m])
  <2>0. Len(x.bound) = n /\ Points(x, x.bound[m])
    BY DEF Laid
  <2>1. y.bound[m] = x.bound[m]
    BY <1>2, <1>3, <2>0
  <2>2. Points(y, x.bound[m])
    <3> DEFINE e == x.bound[m]
    <3> HIDE DEF e
    <3>1. Points(x, e)
      BY <2>0 DEF e
    <3>2. \A a \in DOMAIN x.att : a \in DOMAIN y.att /\ y.att[a] = x.att[a]
      BY <1>1, <1>7, <1>6
    <3>3. Points(y, e)
      BY <3>1, <3>2 DEF Points
    <3> QED BY <3>3 DEF e
  <2> QED BY <2>1, <2>2
<1>9. y.bound[n + 1] = d /\ Len(y.bound) = n + 1
  BY <1>2, <1>3 DEF Laid
<1>10. Points(y, d)
  <2>0. v + 1 = Len(x.att) + 2 /\ v + 2 = Len(x.att) + 3
    BY <1>1
  <2>1. v + 1 \in DOMAIN y.att /\ y.att[v + 1] = <<"value", c>>
    BY <1>1, <1>6, <1>7, <2>0
  <2>2. c \in NotifyChar => v + 2 \in DOMAIN y.att /\ y.att[v + 2] = <<"cccd", c>>
    BY <1>1, <1>6, <1>7, <2>0
  <2>3. d.value = v /\ d.char = c /\ (d.desc # B!NoIdx => c \in NotifyChar /\ d.desc + 1 = v + 2)
    BY <1>1 DEF B!NoIdx
  <2> QED BY <2>1, <2>2, <2>3 DEF Points
<1> HIDE DEF d
<1>11. d.char = c
  BY DEF d
<1>12. ASSUME NEW m \in 1 .. n + 1
       PROVE  y.bound[m].char = Service[u][m] /\ Points(y, y.bound[m])
  <2>1. CASE m \in 1 .. n
    BY <2>1, <1>8 DEF Laid
  <2>2. CASE m = n + 1
    BY <2>2, <1>9, <1>10, <1>11
  <2> QED BY <2>1, <2>2
<1> QED
  BY <1>9, <1>12 DEF Laid, y

\* So every binding of a service that was built points at its attributes.
LEMMA BuiltLays ==
  ASSUME NEW u \in DOMAIN Service, NEW prf \in Nat
  PROVE  LET x == B!built(u, prf)[Len(Service[u])] IN
         Laid(x, u, Len(Service[u])) /\ x \in Table(prf)
<1> DEFINE f == B!built(u, prf)
           N == Len(Service[u])
           T == {n \in Nat : n <= N => Laid(f[n], u, n)}
<1>0. /\ f \in [0 .. N -> Table(prf)] /\ N \in Nat
      /\ f[0] = [att |-> <<<<"service", u>>>>, bound |-> <<>>]
      /\ \A n \in 1 .. N : f[n] = B!addChar(f[n - 1], Service[u][n], prf)
  BY BuiltSteps, BleConstants
<1> HIDE DEF f
<1>1. 0 \in T
  BY <1>0 DEF Laid
<1>2. ASSUME NEW n \in Nat, n \in T PROVE n + 1 \in T
  <2> SUFFICES ASSUME n + 1 <= N PROVE Laid(f[n + 1], u, n + 1)
    OBVIOUS
  <2>1. n + 1 \in 1 .. N /\ (n + 1) - 1 = n /\ n \in 0 .. N /\ Laid(f[n], u, n)
    BY <1>0, <1>2
  <2>2. f[n + 1] = B!addChar(f[n], Service[u][n + 1], prf) /\ f[n] \in Table(prf)
    BY <1>0, <2>1
  <2> QED BY <2>1, <2>2, AddCharLays
<1>3. N \in T
  <2> HIDE DEF T, N
  <2> QED BY <1>0, <1>1, <1>2, Induction
<1> QED
  BY <1>0, <1>3 DEF f

\* What is built for the service in place k if all of it fits.
Made(k) == B!built(services[k], B!PrfTaskBase + k - 1)[Len(Service[services[k]])]

\* The first n services are in the stack as they were built.
Confirmed(n) == \A k \in 1 .. n : database[k] = Made(k).att

\* Every binding is one of the first n services', and the handles say the same.
Owner(d, k) ==
  /\ d.prf = B!PrfTaskBase + k - 1 /\ Points(Made(k), d)
  /\ \E m \in 1 .. Len(Service[services[k]]) : d.char = Service[services[k]][m]

BoundTo(n) ==
  /\ bindings \in Seq(Binding)
  /\ \A b \in DOMAIN bindings :
       /\ \E k \in 1 .. n : Owner(bindings[b], k)
       /\ handle[bindings[b].char] = [prf |-> bindings[b].prf, idx |-> bindings[b].value]

\* Every UUID of the service in place k has 16 bits.
Fits(k) == B!narrow(services[k]) = Len(Service[services[k]])

GattTypes ==
  /\ services \in Seq(DOMAIN Service)
  /\ \A a, b \in 1 .. Len(services) : services[a] = services[b] => a = b
  /\ DOMAIN handle = B!Char /\ DOMAIN database = DOMAIN Service

\* finalizeDatabase() is under way.
Making == {"ethermind", "legacy", "dbWait"}

\* Where finalizeDatabase() is.
GattProgress ==
  /\ ble_pc \in Making => ~finalized
  /\ ble_pc = "ethermind" => ~legacy
  /\ ble_pc # "dbWait" => creating = <<>>
  /\ ble_pc = "dbWait" =>
       /\ svc \in 1 .. Len(services) /\ Confirmed(svc - 1) /\ BoundTo(svc)
       /\ Fits(svc)
       /\ \/ creating = <<svc>> /\ dbDone = "no"
          \/ creating = <<>> /\ (dbDone = "ok" => database[svc] = Made(svc).att)
  /\ ble_pc = "legacy" => svc \in 1 .. Len(services) + 1 /\ Confirmed(svc - 1) /\ BoundTo(svc - 1)
  /\ finalized /\ legacy => Confirmed(Len(services)) /\ BoundTo(Len(services))

\* A confirmation that came late may be of another attempt, and leaves no claim.
GattInv == GattTypes /\ ("lateDb" \notin excuse => GattProgress)

\* At the start nothing is built.
LEMMA GattInit == B!Init => GattInv
BY DEF B!Init, GattInv, GattTypes, GattProgress, Making

\* A step that leaves the registry alone and is not inside finalizeDatabase().
LEMMA GattSame ==
  ASSUME GattInv,
         UNCHANGED <<services, finalized, legacy, bindings, handle, dbDone, creating, database>>,
         "lateDb" \in excuse => "lateDb" \in excuse',
         \/ UNCHANGED <<ble_pc, svc>>
         \/ ble_pc \notin Making /\ ble_pc' \notin Making
  PROVE  GattInv'
<1>1. \A k : Made(k)' = Made(k)
  BY DEF Made
<1>2. \A n : Confirmed(n)' = Confirmed(n)
  BY <1>1 DEF Confirmed
<1>3. \A d, k : Owner(d, k)' = Owner(d, k)
  BY <1>1 DEF Owner
<1>4. \A n : BoundTo(n)' = BoundTo(n)
  BY <1>3 DEF BoundTo
<1>5. GattTypes' /\ \A k : Fits(k)' = Fits(k)
  BY DEF GattInv, GattTypes, Fits
<1>6. CASE "lateDb" \notin excuse'
  <2>1. GattProgress
    BY <1>6 DEF GattInv
  <2>2. CASE UNCHANGED <<ble_pc, svc>>
    BY <1>1, <1>2, <1>4, <1>5, <2>1, <2>2 DEF GattInv, GattProgress
  <2>3. CASE ble_pc \notin Making /\ ble_pc' \notin Making
    BY <1>1, <1>2, <1>4, <1>5, <2>1, <2>3 DEF GattInv, GattProgress, Making
  <2> QED BY <2>2, <2>3
<1> QED
  BY <1>5, <1>6 DEF GattInv

\* There are no more places than services.
LEMMA PlacesFit ==
  ASSUME GattTypes
  PROVE  1 .. Len(services) \subseteq DOMAIN Service
<1>1. services \in [1 .. Len(services) -> DOMAIN Service] /\ Len(services) \in Nat
  BY DEF GattTypes
<1>2. DOMAIN Service = 1 .. Len(Service) /\ Len(Service) \in Nat
  BY BleConstants
<1>3. services \in Injection(1 .. Len(services), 1 .. Len(Service))
  BY <1>1, <1>2, Fun_IsInj DEF GattTypes
<1>4. Cardinality(1 .. Len(services)) <= Cardinality(1 .. Len(Service))
  BY <1>2, <1>3, FS_Interval, FS_Injection
<1>5. Len(services) <= Len(Service)
  <2>1. \A n \in Nat : Cardinality(1 .. n) = n
    <3> SUFFICES ASSUME NEW n \in Nat PROVE Cardinality(1 .. n) = n
      OBVIOUS
    <3>1. Cardinality(1 .. n) = IF 1 > n THEN 0 ELSE n - 1 + 1
      BY FS_Interval
    <3> QED BY <3>1
  <2> QED BY <1>1, <1>2, <1>4, <2>1
<1> QED
  BY <1>1, <1>2, <1>5

\* The database of a service is built and given to the stack.
LEMMA GattCreate ==
  ASSUME GattInv, NEW ok \in BOOLEAN, B!createDb(ok)
  PROVE  GattInv'
<1> DEFINE u == services[svc]
           b == B!build(svc).bound
           prf == B!PrfTaskBase + svc - 1
<1>0. /\ UNCHANGED <<services, finalized, legacy, database, excuse>> /\ ble_pc = "legacy" /\ svc <= Len(services)
      /\ bindings' = bindings \o b
      /\ DOMAIN handle' = B!Char
      /\ ok => /\ B!narrow(u) = Len(Service[u]) /\ ble_pc' = "dbWait" /\ creating' = Append(creating, svc)
               /\ svc' = svc /\ dbDone' = "no"
      /\ ~ok => ble_pc' = "idle" /\ creating' = creating
  BY DEF B!createDb, B!return
<1>1. GattTypes'
  BY <1>0 DEF GattInv, GattTypes
<1> SUFFICES ASSUME "lateDb" \notin excuse'
             PROVE  GattProgress'
  BY <1>1 DEF GattInv
<1>2. GattProgress /\ GattTypes /\ ~finalized /\ creating = <<>> /\ svc \in 1 .. Len(services) + 1
  BY <1>0 DEF GattInv, GattProgress, Making
<1>3. CASE ~ok
  BY <1>0, <1>2, <1>3 DEF GattProgress, Making
<1>4. CASE ok
  <2>1. svc \in 1 .. Len(services) /\ u \in DOMAIN Service /\ prf \in Nat
    BY <1>0, <1>2 DEF GattTypes, B!PrfTaskBase
  <2>2. B!build(svc) = Made(svc)
    BY <1>0, <1>4 DEF B!build, Made
  <2>3. Laid(Made(svc), u, Len(Service[u])) /\ Made(svc) \in Table(prf)
    BY <2>1, BuiltLays DEF Made
  <2>4. /\ b = Made(svc).bound
        /\ b \in Seq(Bound(prf))
        /\ Len(b) = Len(Service[u])
        /\ \A k \in 1 .. Len(b) : b[k].char = Service[u][k] /\ b[k].prf = prf /\ b[k].char \in B!Char /\ Points(Made(svc), b[k])
    <3> DEFINE x == Made(svc)
    <3>1. x.bound \in Seq(Bound(prf))
      BY <2>3 DEF Table
    <3> HIDE DEF x
    <3>2. /\ Len(x.bound) = Len(Service[u]) /\ DOMAIN x.bound = 1 .. Len(x.bound)
          /\ \A k \in 1 .. Len(x.bound) : x.bound[k] \in Bound(prf)
      BY <2>3, <3>1 DEF Laid, x
    <3>3. \A k \in 1 .. Len(x.bound) : x.bound[k].prf = prf /\ x.bound[k].char \in B!Char
      BY <3>2 DEF Bound
    <3> QED BY <2>2, <2>3, <3>1, <3>2, <3>3 DEF Laid, x
  <2> HIDE DEF b
  <2> DEFINE C == {b[k].char : k \in DOMAIN b}
  <2>5. ASSUME NEW k \in 1 .. Len(b)
        PROVE  /\ b[k].char \in B!Char
               /\ handle'[b[k].char] = [prf |-> b[k].prf, idx |-> b[k].value]
    <3>0. DOMAIN b = 1 .. Len(b)
      BY <2>4
    <3>1. b[k].char \in C /\ b[k].char \in B!Char
      BY <2>4, <3>0
    <3>2. ASSUME NEW m \in DOMAIN b, b[m].char = b[k].char PROVE m = k
      <4>1. m \in 1 .. Len(Service[u]) /\ k \in 1 .. Len(Service[u]) /\ Service[u][m] = Service[u][k]
        BY <2>4, <3>0, <3>2
      <4> QED BY <2>1, <4>1, BleConstants
    <3>3. (CHOOSE m \in DOMAIN b : b[m].char = b[k].char) = k
      BY <3>0, <3>1, <3>2
    <3>4. handle'[b[k].char] =
            LET m == CHOOSE m \in DOMAIN b : b[m].char = b[k].char IN [prf |-> b[m].prf, idx |-> b[m].value]
      BY <3>1 DEF B!createDb, b
    <3> QED BY <3>1, <3>3, <3>4
  <2>6. ASSUME NEW c \in B!Char, c \notin C
        PROVE  handle'[c] = handle[c]
    BY <2>6 DEF B!createDb, b
  <2>7. UNCHANGED <<services, database>> /\ \A k : Made(k)' = Made(k)
    BY <1>0 DEF Made
  <2>8. \A d, k : Owner(d, k)' = Owner(d, k)
    BY <2>7 DEF Owner
  <2>9. BoundTo(svc - 1) /\ Confirmed(svc - 1)
    BY <1>0, <1>2 DEF GattProgress
  <2>10. BoundTo(svc)'
    <3>0. bindings \in Seq(Binding) /\ b \in Seq(Binding)
      <4>1. Bound(prf) \subseteq Binding
        BY <2>1 DEF Binding, Bound
      <4>2. b \in Seq(Binding)
        <5> HIDE DEF prf
        <5> QED BY <4>1, <2>4
      <4> QED BY <4>2, <2>9 DEF BoundTo
    <3>01. Joined(bindings', bindings, b) /\ bindings' \in Seq(Binding)
      BY <1>0, <3>0, Concatenation
    <3>1. SUFFICES ASSUME NEW a \in DOMAIN bindings'
                 PROVE  /\ \E k \in 1 .. svc : Owner(bindings'[a], k)
                        /\ handle'[bindings'[a].char] = [prf |-> bindings'[a].prf, idx |-> bindings'[a].value]
      BY <1>0, <1>4, <2>8, <3>01 DEF BoundTo
    <3>2. CASE a \in DOMAIN bindings /\ bindings'[a] = bindings[a]
      <4>1. PICK k \in 1 .. svc - 1 : Owner(bindings[a], k)
        BY <2>9, <3>2 DEF BoundTo
      <4>2. handle[bindings[a].char] = [prf |-> bindings[a].prf, idx |-> bindings[a].value]
        BY <2>9, <3>2 DEF BoundTo
      <4>3. PICK m \in 1 .. Len(Service[services[k]]) : bindings[a].char = Service[services[k]][m]
        BY <4>1 DEF Owner
      <4>4. services[k] \in DOMAIN Service /\ services[k] # u /\ k \in 1 .. svc
        BY <4>1, <2>1, <1>2 DEF GattTypes
      <4>5. bindings[a].char \in B!Char
        BY <4>3, <4>4, BleConstants
      <4>6. ASSUME NEW n \in DOMAIN b PROVE b[n].char # bindings[a].char
        <5>1. DOMAIN b = 1 .. Len(b)
          BY <2>4
        <5>2. b[n].char = Service[u][n] /\ n \in 1 .. Len(Service[u])
          BY <2>4, <5>1
        <5> QED BY <5>2, <4>3, <4>4, <2>1, BleConstants
      <4>7. handle'[bindings[a].char] = handle[bindings[a].char]
        BY <4>5, <4>6, <2>6
      <4> QED BY <3>2, <4>1, <4>2, <4>4, <4>7
    <3>3. CASE \E n \in 1 .. Len(b) : bindings'[a] = b[n]
      <4>1. PICK n \in 1 .. Len(b) : bindings'[a] = b[n]
        BY <3>3
      <4>2. Owner(b[n], svc)
        BY <2>4 DEF Owner
      <4> QED BY <4>1, <4>2, <2>1, <2>5
    <3>6. DOMAIN bindings = 1 .. Len(bindings) /\ Len(bindings) \in Nat /\ Len(b) \in Nat
      BY <3>0
    <3>7. a \in 1 .. Len(bindings) + Len(b)
      BY <3>1, <3>01 DEF Joined
    <3>8. CASE a \in 1 .. Len(bindings)
      BY <3>2, <3>01, <3>6, <3>8 DEF Joined
    <3>9. CASE a \notin 1 .. Len(bindings)
      <4>1. a - Len(bindings) \in 1 .. Len(b) /\ a = Len(bindings) + (a - Len(bindings))
        BY <3>6, <3>7, <3>9
      <4> QED BY <3>3, <3>01, <4>1 DEF Joined
    <3> QED BY <3>8, <3>9
  <2>11. Confirmed(svc - 1)'
    BY <1>0, <1>4, <2>7, <2>9 DEF Confirmed
  <2>12. creating' = <<svc>> /\ Fits(svc)'
    BY <1>0, <1>2, <1>4 DEF Fits
  <2> QED
    BY <1>0, <1>2, <1>4, <2>1, <2>10, <2>11, <2>12 DEF GattProgress, Making
<1> QED
  BY <1>3, <1>4

\* The stack confirms it.
LEMMA GattCreated ==
  ASSUME GattInv, NEW ok \in BOOLEAN, B!DbCreated(ok)
  PROVE  GattInv'
<1>0. /\ UNCHANGED <<services, finalized, legacy, bindings, handle, svc, ble_pc, excuse>>
      /\ creating # <<>> /\ creating' = Tail(creating) /\ dbDone' = IF ok THEN "ok" ELSE "failed"
      /\ database' = IF ok THEN [database EXCEPT ![Head(creating)] = B!build(Head(creating)).att] ELSE database
  BY DEF B!DbCreated
<1>1. GattTypes'
  BY <1>0 DEF GattInv, GattTypes
<1> SUFFICES ASSUME "lateDb" \notin excuse'
             PROVE  GattProgress'
  BY <1>1 DEF GattInv
<1>2. GattProgress /\ GattTypes /\ ble_pc = "dbWait"
  BY <1>0 DEF GattInv, GattProgress
<1>3. /\ creating = <<svc>> /\ svc \in 1 .. Len(services) /\ Confirmed(svc - 1) /\ BoundTo(svc) /\ Fits(svc)
      /\ ~finalized
  BY <1>0, <1>2 DEF GattProgress, Making
<1>4. Head(creating) = svc /\ creating' = <<>>
  BY <1>0, <1>3
<1>5. B!build(svc) = Made(svc) /\ \A k : Made(k)' = Made(k)
  BY <1>0, <1>3 DEF B!build, Made, Fits
<1>6. \A d, k : Owner(d, k)' = Owner(d, k)
  BY <1>0, <1>5 DEF Owner
<1>7. BoundTo(svc)' /\ Fits(svc)'
  BY <1>0, <1>3, <1>6 DEF BoundTo, Fits
<1>8. svc \in DOMAIN database
  BY <1>2, <1>3, PlacesFit DEF GattTypes
<1>9. Confirmed(svc - 1)'
  <2>1. \A k \in 1 .. svc - 1 : database'[k] = database[k]
    <3>1. \A k \in 1 .. svc - 1 : k # svc /\ k \in 1 .. Len(services)
      BY <1>3
    <3>2. \A k \in 1 .. svc - 1 : k \in DOMAIN database
      BY <3>1, <1>2, PlacesFit DEF GattTypes
    <3> QED BY <1>0, <1>4, <3>1, <3>2
  <2> QED BY <1>0, <1>3, <1>5, <2>1 DEF Confirmed
<1>10. dbDone' = "ok" => (database[svc] = Made(svc).att)'
  BY <1>0, <1>4, <1>5, <1>8
<1> QED
  BY <1>0, <1>2, <1>3, <1>4, <1>7, <1>9, <1>10 DEF GattProgress, Making

\* The wait ends.
LEMMA GattWaited ==
  ASSUME GattInv, NEW late \in BOOLEAN, B!dbWaited(late)
  PROVE  GattInv'
<1>0. /\ UNCHANGED <<services, finalized, legacy, bindings, handle, dbDone, creating, database>>
      /\ ble_pc = "dbWait" /\ (dbDone = "no" => "lateDb" \in excuse')
      /\ "lateDb" \in excuse => "lateDb" \in excuse'
      /\ IF dbDone = "ok" THEN ble_pc' = "legacy" /\ svc' = svc + 1 ELSE ble_pc' = "idle"
  BY DEF B!dbWaited, B!return
<1>1. GattTypes'
  BY <1>0 DEF GattInv, GattTypes
<1> SUFFICES ASSUME "lateDb" \notin excuse'
             PROVE  GattProgress'
  BY <1>1 DEF GattInv
<1>2. GattProgress /\ GattTypes
  BY <1>0 DEF GattInv
<1>3. /\ svc \in 1 .. Len(services) /\ Confirmed(svc - 1) /\ BoundTo(svc) /\ ~finalized /\ creating = <<>>
      /\ dbDone = "ok" => database[svc] = Made(svc).att
  BY <1>0, <1>2 DEF GattProgress, Making
<1>4. \A k : Made(k)' = Made(k)
  BY <1>0 DEF Made
<1>5. \A d, k : Owner(d, k)' = Owner(d, k)
  BY <1>0, <1>4 DEF Owner
<1>6. CASE dbDone = "ok"
  <2>1. svc' \in 1 .. Len(services) + 1 /\ svc' - 1 = svc /\ ble_pc' = "legacy"
    BY <1>0, <1>3, <1>6 DEF GattTypes
  <2>2. BoundTo(svc - 1)'
    BY <1>0, <1>3, <1>5, <2>1 DEF BoundTo
  <2>3. \A k \in 1 .. svc : database[k] = Made(k).att
    <3>1. \A k \in 1 .. svc : k \in 1 .. svc - 1 \/ k = svc
      BY <1>3
    <3> QED BY <1>3, <1>6, <3>1 DEF Confirmed
  <2>4. Confirmed(svc - 1)'
    BY <1>0, <1>4, <2>1, <2>3 DEF Confirmed
  <2> QED BY <1>0, <1>3, <2>1, <2>2, <2>4 DEF GattProgress, Making
<1>7. CASE dbDone # "ok"
  BY <1>0, <1>3, <1>7 DEF GattProgress, Making
<1> QED
  BY <1>6, <1>7

\* finalizeDatabase() begins, or ends.
LEMMA GattEnds ==
  ASSUME GattInv,
         \/ \E b \in BOOLEAN : B!advertise(b) \/ B!finalizeEthermind(b)
         \/ B!legacyDone \/ \E u \in DOMAIN Service : B!addService(u)
  PROVE  GattInv'
<1>1. ASSUME NEW b \in BOOLEAN, B!advertise(b) PROVE GattInv'
  <2>0. /\ UNCHANGED <<services, finalized, handle, dbDone, creating, database>> /\ ble_pc = "idle"
        /\ "lateDb" \in excuse => "lateDb" \in excuse'
    BY <1>1 DEF B!advertise
  <2>1. CASE UNCHANGED <<legacy, bindings>> /\ ble_pc' \in {"idle", "activity"}
    BY <2>0, <2>1, GattSame DEF Making
  <2>2. CASE ~finalized /\ ble_pc' = "ethermind" /\ legacy' = FALSE
    BY <2>0, <2>2 DEF GattInv, GattTypes, GattProgress, Making
  <2>3. CASE ~finalized /\ ble_pc' = "legacy" /\ bindings' = <<>> /\ svc' = 1
    <3>1. GattTypes' /\ Len(services) \in Nat
      BY <2>0 DEF GattInv, GattTypes
    <3>2. BoundTo(svc - 1)' /\ Confirmed(svc - 1)'
      BY <2>3 DEF BoundTo, Confirmed
    <3> QED BY <2>0, <2>3, <3>1, <3>2 DEF GattInv, GattProgress, Making
  <2> QED BY <1>1, <2>1, <2>2, <2>3 DEF B!advertise, B!return
<1>2. ASSUME NEW b \in BOOLEAN, B!finalizeEthermind(b) PROVE GattInv'
  <2>0. /\ UNCHANGED <<services, dbDone, creating, database, excuse>> /\ ble_pc = "ethermind"
        /\ DOMAIN handle' = B!Char
    BY <1>2 DEF B!finalizeEthermind
  <2>1. GattTypes' /\ Len(services) \in Nat
    BY <2>0 DEF GattInv, GattTypes
  <2>2. CASE b
    <3>1. ble_pc' = "activity" /\ legacy' = legacy
      BY <1>2, <2>2 DEF B!finalizeEthermind
    <3> QED BY <2>0, <2>1, <3>1 DEF GattInv, GattProgress, Making
  <2>3. CASE ~b
    <3>1. ble_pc' = "legacy" /\ bindings' = <<>> /\ svc' = 1 /\ finalized' = finalized
      BY <1>2, <2>3 DEF B!finalizeEthermind
    <3>2. BoundTo(svc - 1)' /\ Confirmed(svc - 1)'
      BY <3>1 DEF BoundTo, Confirmed
    <3> QED BY <2>0, <2>1, <3>1, <3>2 DEF GattInv, GattProgress, Making
  <2> QED BY <2>2, <2>3
<1>3. CASE B!legacyDone
  <2>0. /\ UNCHANGED <<services, legacy, bindings, handle, dbDone, creating, database, excuse>>
        /\ ble_pc = "legacy" /\ svc > Len(services) /\ ble_pc' \in {"idle", "activity"}
    BY <1>3 DEF B!legacyDone, B!return
  <2>1. GattTypes' /\ Len(services) \in Nat
    BY <2>0 DEF GattInv, GattTypes
  <2>2. \A k : Made(k)' = Made(k)
    BY <2>0 DEF Made
  <2>3. \A d, k : Owner(d, k)' = Owner(d, k)
    BY <2>0, <2>2 DEF Owner
  <2>4. ASSUME "lateDb" \notin excuse' PROVE GattProgress'
    <3>1. GattProgress /\ svc - 1 = Len(services) /\ creating = <<>>
      BY <2>0, <2>1, <2>4 DEF GattInv, GattProgress
    <3>2. Confirmed(Len(services))' /\ BoundTo(Len(services))'
      BY <2>0, <2>2, <2>3, <3>1 DEF GattProgress, Confirmed, BoundTo
    <3> QED BY <2>0, <3>1, <3>2 DEF GattProgress, Making
  <2> QED BY <2>1, <2>4 DEF GattInv
<1>4. ASSUME NEW n \in DOMAIN Service, B!addService(n) PROVE GattInv'
  <2>0. /\ UNCHANGED <<finalized, legacy, bindings, handle, dbDone, creating, database, ble_pc, excuse>>
        /\ ble_pc = "idle" /\ ~finalized /\ services' = Append(services, n)
        /\ \A k \in DOMAIN services : services[k] # n
    BY <1>4 DEF B!addService
  <2>1. GattTypes'
    <3>1. services \in Seq(DOMAIN Service) /\ Len(services) \in Nat /\ DOMAIN services = 1 .. Len(services)
      BY DEF GattInv, GattTypes
    <3>2. /\ services' \in Seq(DOMAIN Service) /\ Len(services') = Len(services) + 1
          /\ services'[Len(services) + 1] = n /\ \A k \in 1 .. Len(services) : services'[k] = services[k]
      BY <2>0, <3>1
    <3>3. \A a, b \in 1 .. Len(services') : services'[a] = services'[b] => a = b
      BY <2>0, <3>1, <3>2 DEF GattInv, GattTypes
    <3> QED BY <2>0, <3>2, <3>3 DEF GattInv, GattTypes
  <2> QED BY <2>0, <2>1 DEF GattInv, GattProgress, Making
<1> QED
  BY <1>1, <1>2, <1>3, <1>4

\* The other steps leave it alone.
LEMMA GattNext ==
  ASSUME GattInv, [B!Next]_B!vars
  PROVE  GattInv'
<1> USE DEF B!device, B!rest, B!values, B!return, B!issue, Making
<1>1. CASE UNCHANGED B!vars
  BY <1>1, GattSame DEF B!vars, B!gatt
<1>2. CASE B!Step
  <2>1. ASSUME NEW b \in BOOLEAN, B!createDb(b) \/ B!dbWaited(b) \/ B!finalizeEthermind(b)
        PROVE  GattInv'
    BY <2>1, GattCreate, GattWaited, GattEnds
  <2>2. ASSUME NEW b \in BOOLEAN, B!ensureActivity(b) \/ B!setAdvertisingPayload(b) \/ B!waitResponse(b)
        PROVE  GattInv'
    BY <2>2, GattSame DEF B!ensureActivity, B!setAdvertisingPayload, B!waitResponse
  <2>3. ASSUME NEW b \in BOOLEAN, NEW named \in BOOLEAN, B!waitData(named, b)
        PROVE  GattInv'
    BY <2>3, GattSame DEF B!waitData
  <2>4. CASE B!waitCreate \/ B!waitStart \/ B!waitStop
    BY <2>4, GattSame DEF B!waitCreate, B!waitStart, B!waitStop, B!settled
  <2>5. CASE B!legacyDone
    BY <2>5, GattEnds
  <2> QED
    BY <1>2, <2>1, <2>2, <2>3, <2>4, <2>5 DEF B!Step
<1>3. CASE B!User
  <2>1. CASE (\E u \in DOMAIN Service : B!addService(u)) \/ \E b \in BOOLEAN : B!advertise(b)
    BY <2>1, GattEnds
  <2>2. CASE B!stopAdvertise
    BY <2>2, GattSame DEF B!stopAdvertise
  <2>3. ASSUME NEW c, NEW n, B!writeValue(c, n) PROVE GattInv'
    BY <2>3, GattSame DEF B!writeValue, B!gatt
  <2> QED
    BY <1>3, <2>1, <2>2, <2>3 DEF B!User
<1>4. CASE B!Stack
  <2>1. ASSUME NEW b \in BOOLEAN, B!DbCreated(b) PROVE GattInv'
    BY <2>1, GattCreated
  <2>2. ASSUME NEW b \in BOOLEAN, B!Answer(b) PROVE GattInv'
    BY <2>2, GattSame DEF B!Answer, B!gatt
  <2>3. CASE B!Connect \/ B!Disconnect
    BY <2>3, GattSame DEF B!Connect, B!Disconnect, B!gatt
  <2>4. ASSUME NEW c, NEW n, B!PeerWrite(c, n) \/ B!PeerSubscribe(c, n) PROVE GattInv'
    BY <2>4, GattSame DEF B!PeerWrite, B!PeerSubscribe, B!gatt
  <2> QED
    BY <1>4, <2>1, <2>2, <2>3, <2>4 DEF B!Stack
<1> QED
  BY <1>1, <1>2, <1>3, <1>4 DEF B!Next

\* What the invariant says once the database is finalized.
LEMMA GattMeans ==
  ASSUME GattInv
  PROVE  B!BindingsAreTheStacks
<1> SUFFICES ASSUME finalized, legacy, "lateDb" \notin excuse, NEW k \in DOMAIN bindings
             PROVE  LET b == bindings[k]
                        att == database[b.prf - B!PrfTaskBase + 1] IN
                    /\ b.value + 1 \in DOMAIN att /\ att[b.value + 1] = <<"value", b.char>>
                    /\ b.desc # B!NoIdx => b.desc + 1 \in DOMAIN att /\ att[b.desc + 1] = <<"cccd", b.char>>
                    /\ handle[b.char] = [prf |-> b.prf, idx |-> b.value]
  BY DEF B!BindingsAreTheStacks
<1>1. Confirmed(Len(services)) /\ BoundTo(Len(services))
  BY DEF GattInv, GattProgress
<1>2. PICK n \in 1 .. Len(services) : Owner(bindings[k], n)
  BY <1>1 DEF BoundTo
<1>3. bindings[k].prf - B!PrfTaskBase + 1 = n
  BY <1>2 DEF Owner, B!PrfTaskBase
<1>4. database[n] = Made(n).att
  BY <1>1, <1>2 DEF Confirmed
<1>5. handle[bindings[k].char] = [prf |-> bindings[k].prf, idx |-> bindings[k].value]
  BY <1>1 DEF BoundTo
<1> QED
  BY <1>2, <1>3, <1>4, <1>5 DEF Owner, Points

\* What the BLE library believes is what the stack does, for all services and
\* whatever fails: the radio, and where a binding of finalizeLegacyDatabase()
\* says that the value and the descriptor of a characteristic are.
THEOREM StackSafe == PartsSpec => []StackAgrees
<1>1. PartsSpec => []B!BindingsAreTheStacks
  BY GattInit, GattNext, GattMeans, PartsMove, PTL DEF PartsSpec
<1>2. B!RadioMatches /\ B!BindingsAreTheStacks => StackAgrees
  BY DEF StackAgrees
<1> QED
  BY <1>1, <1>2, RadioSafe, PTL
===============================================================================
