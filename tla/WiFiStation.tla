----------------------------- MODULE WiFiStation -----------------------------
(***************************************************************************)
(* WiFiGeneric, WiFiSTA and WiFiAP: the operating mode, the station's      *)
(* association and its static address, and the soft AP.                    *)
(*                                                                         *)
(* The sketch's calls run in the loop task; calls that are not one step    *)
(* for the rest of the system are taken apart at the SDK calls they make   *)
(* (user is the position).  The SDK posts the station's events to a queue; *)
(* the event task hands each event first to the SDK's own netif callback,  *)
(* registered at boot, and then to wifiGenericWifiEventCb.                 *)
(***************************************************************************)
EXTENDS Naturals, Sequences

CONSTANTS MaxEvents,        \* bound: station events waiting for the event task
          MaxCalls,         \* bound: calls the sketch makes
          RegisterMayFail,  \* may bk_event_register_cb() fail?
          SoftAP            \* does the sketch use the soft AP?

ASSUME BoundAssumption == MaxEvents \in Nat /\ MaxCalls \in Nat
ASSUME FlagAssumption == {RegisterMayFail, SoftAP} \subseteq BOOLEAN

VARIABLES
  mode,          \* _mode, as the set of interfaces whose bit is set
  useStaticIp,   \* _useStaticIp
  registered,    \* g_wifiEventsRegistered
  wifiCb,        \* wifiGenericWifiEventCb is registered with the SDK
  apConfigured,  \* s_apIpConfigured
  staStarted,    \* SDK: bk_wifi_sta_start() since the last stop
  staReady,      \* SDK: a station configuration has been set
  link,          \* SDK: the station is associated
  staticFlag,    \* SDK: sta_static_ip_flag
  address,       \* SDK: the station's address: "none", "static" or "dhcp"
  apStarted,     \* SDK: the soft AP is running
  apAddress,     \* SDK: its address: "none", "default" or "custom"
  events,        \* SDK: station events not yet taken by the event task
  handling,      \* the event that the netif callback is done with, or "none"
  user, calls    \* the sketch's position inside a call, calls made so far

station == <<staStarted, staReady, link, staticFlag, address>>
softap == <<apConfigured, apStarted, apAddress>>
callbacks == <<registered, wifiCb>>
vars == <<mode, useStaticIp, registered, wifiCb, apConfigured, staStarted, staReady,
          link, staticFlag, address, apStarted, apAddress, events, handling, user, calls>>

Init ==
  /\ mode = {} /\ useStaticIp = FALSE
  /\ registered = FALSE /\ wifiCb = FALSE /\ apConfigured = FALSE
  /\ staStarted = FALSE /\ staReady = FALSE /\ link = FALSE
  /\ staticFlag = FALSE /\ address = "none"
  /\ apStarted = FALSE /\ apAddress = "none"
  /\ events = <<>> /\ handling = "none"
  /\ user = "idle" /\ calls = 0

------------------------------------------------------------------------------
(* The SDK, as the code in WiFiSTA and WiFiGeneric uses it.                *)

Post(e) == events' = Append(events, e)
HasRoom == Len(events) < MaxEvents

\* bk_wifi_sta_stop() and bk_wifi_sta_disconnect() drop an association.
DropLink ==
  /\ link' = FALSE
  /\ IF link THEN HasRoom /\ Post("DISCONNECTED") ELSE UNCHANGED events

bk_wifi_sta_stop == staStarted' = FALSE /\ DropLink

Associate ==
  /\ staStarted /\ ~link /\ HasRoom
  /\ link' = TRUE
  /\ Post("CONNECTED")
  /\ UNCHANGED <<mode, useStaticIp, callbacks, softap, staStarted, staReady,
                 staticFlag, address, handling, user, calls>>

LoseLink ==
  /\ link
  /\ DropLink
  /\ UNCHANGED <<mode, useStaticIp, callbacks, softap, staStarted, staReady,
                 staticFlag, address, handling, user, calls>>

\* The SDK's netif callback comes first.
NetifEvent ==
  /\ handling = "none" /\ events # <<>>
  /\ handling' = Head(events)
  /\ events' = Tail(events)
  /\ IF Head(events) = "CONNECTED"
     THEN /\ address' = IF staticFlag THEN "static" ELSE "dhcp"
          /\ UNCHANGED staticFlag
     ELSE address' = "none" /\ staticFlag' = FALSE
  /\ UNCHANGED <<mode, useStaticIp, callbacks, softap, staStarted, staReady, link,
                 user, calls>>

------------------------------------------------------------------------------
applyStaticIpIfConfigured == staticFlag' = (staticFlag \/ useStaticIp)

\* mutant: the flag is not armed again after a disconnect
wifiGenericWifiEventCbForgets ==
  /\ handling # "none"
  /\ handling' = "none"
  /\ UNCHANGED <<mode, useStaticIp, callbacks, softap, station, events, user, calls>>

wifiGenericWifiEventCb ==
  /\ handling # "none"
  /\ handling' = "none"
  /\ IF wifiCb /\ handling = "DISCONNECTED"
     THEN applyStaticIpIfConfigured
     ELSE UNCHANGED staticFlag
  /\ UNCHANGED <<mode, useStaticIp, callbacks, softap, staStarted, staReady, link,
                 address, events, user, calls>>

\* Registration of the two callbacks: all, or nothing and no retry until asked.
ensureEventHandlersRegistered ==
  \/ registered /\ UNCHANGED callbacks
  \/ ~registered /\ registered' = TRUE /\ wifiCb' = TRUE
  \/ ~registered /\ RegisterMayFail /\ UNCHANGED callbacks

Calls == user = "idle" /\ calls < MaxCalls /\ calls' = calls + 1

------------------------------------------------------------------------------
(* WiFiGeneric: onEvent() and mode().                                      *)

onEvent ==
  /\ Calls
  /\ ensureEventHandlersRegistered
  /\ UNCHANGED <<mode, useStaticIp, softap, station, events, handling, user>>

enableSTA(enable) ==
  IF enable
  THEN mode' = mode \cup {"STA"} /\ UNCHANGED <<staStarted, link, events>>
  ELSE IF "STA" \in mode
       THEN bk_wifi_sta_stop /\ mode' = mode \ {"STA"}
       ELSE UNCHANGED <<mode, staStarted, link, events>>

\* mutant: mode(WIFI_OFF) leaves the station running
modeOffForgets ==
  /\ Calls
  /\ mode' = {}
  /\ apStarted' = (apStarted /\ "AP" \notin mode)
  /\ UNCHANGED <<useStaticIp, callbacks, apConfigured, apAddress, station, events,
                 handling, user>>

modeOff ==
  /\ Calls
  /\ mode' = {}
  /\ IF "STA" \in mode THEN bk_wifi_sta_stop ELSE UNCHANGED <<staStarted, link, events>>
  /\ apStarted' = (apStarted /\ "AP" \notin mode)
  /\ UNCHANGED <<useStaticIp, callbacks, apConfigured, apAddress, staReady, staticFlag,
                 address, handling, user>>

\* mode(m) for m other than WIFI_OFF: enableSTA(), then enableAP().
modeSet(m) ==
  /\ Calls
  /\ mode' = m
  /\ IF "STA" \notin m /\ "STA" \in mode
     THEN bk_wifi_sta_stop
     ELSE UNCHANGED <<staStarted, link, events>>
  /\ apStarted' = (apStarted /\ ("AP" \in m \/ "AP" \notin mode))
  /\ UNCHANGED <<useStaticIp, callbacks, apConfigured, apAddress, staReady, staticFlag,
                 address, handling, user>>

------------------------------------------------------------------------------
(* WiFiSTA: begin(), reconnect(), disconnect() and config().               *)

begin ==
  /\ Calls
  /\ enableSTA(TRUE)
  /\ user' \in {"beginStop", "idle"} \* "idle": the arguments are refused
  /\ UNCHANGED <<useStaticIp, callbacks, softap, staReady, staticFlag, address, handling>>

beginStop ==
  /\ user = "beginStop"
  /\ bk_wifi_sta_stop
  /\ user' = "beginConfig"
  /\ UNCHANGED <<mode, useStaticIp, callbacks, softap, staReady, staticFlag, address,
                 handling, calls>>

\* mutant: a failure of bk_wifi_sta_set_config() is ignored
beginConfigIgnores ==
  /\ user = "beginConfig"
  /\ staReady' \in {staReady, TRUE}
  /\ user' \in {"beginArm", "idle"}
  /\ UNCHANGED <<mode, useStaticIp, callbacks, softap, staStarted, link, staticFlag,
                 address, events, handling, calls>>

\* bk_wifi_sta_set_config() may fail; with connect = false begin() ends here.
beginConfig ==
  /\ user = "beginConfig"
  /\ \/ staReady' = TRUE /\ user' \in {"beginArm", "idle"}
     \/ UNCHANGED staReady /\ user' = "idle"
  /\ UNCHANGED <<mode, useStaticIp, callbacks, softap, staStarted, link, staticFlag,
                 address, events, handling, calls>>

beginArm ==
  /\ user = "beginArm"
  /\ applyStaticIpIfConfigured
  /\ user' = "beginStart"
  /\ UNCHANGED <<mode, useStaticIp, callbacks, softap, staStarted, staReady, link,
                 address, events, handling, calls>>

\* bk_wifi_sta_start() may fail.
beginStart ==
  /\ user = "beginStart"
  /\ staStarted' \in {TRUE, staStarted}
  /\ user' = "idle"
  /\ UNCHANGED <<mode, useStaticIp, callbacks, softap, staReady, link, staticFlag,
                 address, events, handling, calls>>

reconnect ==
  /\ Calls
  /\ applyStaticIpIfConfigured
  /\ IF link THEN DropLink ELSE UNCHANGED <<link, events>>
  /\ UNCHANGED <<mode, useStaticIp, callbacks, softap, staStarted, staReady, address,
                 handling, user>>

disconnect(wifioff) ==
  /\ Calls
  /\ DropLink
  /\ IF wifioff THEN staStarted' = FALSE /\ mode' = {} ELSE UNCHANGED <<staStarted, mode>>
  /\ UNCHANGED <<useStaticIp, callbacks, softap, staReady, staticFlag, address,
                 handling, user>>

config ==
  /\ Calls
  /\ enableSTA(TRUE)
  /\ ensureEventHandlersRegistered
  /\ useStaticIp' = TRUE
  /\ user' = "configArm"
  /\ UNCHANGED <<softap, staReady, staticFlag, address, handling>>

configArm ==
  /\ user = "configArm"
  /\ staticFlag' = TRUE
  /\ user' = "idle"
  /\ UNCHANGED <<mode, useStaticIp, callbacks, softap, staStarted, staReady, link,
                 address, events, handling, calls>>

------------------------------------------------------------------------------
(* WiFiAP.                                                                 *)

enableAP == mode' = mode \cup {"AP"}

softAP ==
  /\ SoftAP /\ Calls
  /\ enableAP
  /\ apAddress' \in IF apConfigured THEN {apAddress} ELSE {"default", apAddress}
  /\ apStarted' \in {TRUE, apStarted}
  /\ UNCHANGED <<useStaticIp, callbacks, apConfigured, station, events, handling, user>>

softAPConfig ==
  /\ SoftAP /\ Calls
  /\ enableAP
  /\ \/ apAddress' = "custom" /\ apConfigured' = TRUE
     \/ UNCHANGED <<apAddress, apConfigured>>
  /\ UNCHANGED <<useStaticIp, callbacks, apStarted, station, events, handling, user>>

softAPdisconnect(wifioff) ==
  /\ SoftAP /\ Calls
  /\ apStarted' = FALSE /\ apConfigured' = FALSE
  /\ mode' = IF wifioff THEN mode \ {"AP"} ELSE mode
  /\ UNCHANGED <<useStaticIp, callbacks, apAddress, station, events, handling, user>>

------------------------------------------------------------------------------
SDK == Associate \/ LoseLink \/ NetifEvent \/ wifiGenericWifiEventCb

Sketch ==
  \/ onEvent \/ modeOff
  \/ \E m \in (SUBSET {"STA", "AP"}) \ {{}} : modeSet(m)
  \/ begin \/ beginStop \/ beginConfig \/ beginArm \/ beginStart
  \/ reconnect
  \/ \E off \in BOOLEAN : disconnect(off)
  \/ config \/ configArm
  \/ softAP \/ softAPConfig
  \/ \E off \in BOOLEAN : softAPdisconnect(off)

Next == SDK \/ Sketch

Spec == Init /\ [][Next]_vars

------------------------------------------------------------------------------
TypeOK ==
  /\ mode \subseteq {"STA", "AP"}
  /\ {useStaticIp, registered, wifiCb, apConfigured, staStarted, staReady, link,
      staticFlag, apStarted} \subseteq BOOLEAN
  /\ address \in {"none", "static", "dhcp"}
  /\ apAddress \in {"none", "default", "custom"}
  /\ events \in Seq({"CONNECTED", "DISCONNECTED"}) /\ Len(events) <= MaxEvents
  /\ handling \in {"none", "CONNECTED", "DISCONNECTED"}
  /\ user \in {"idle", "beginStop", "beginConfig", "beginArm", "beginStart", "configArm"}
  /\ calls \in 0 .. MaxCalls
  /\ wifiCb = registered
  /\ staStarted => staReady

(***************************************************************************)
(* A station that runs can be stopped: its bit is set in _mode, which is   *)
(* what mode() and enableSTA() look at.                                    *)
(***************************************************************************)
RunningStationInMode == staStarted => "STA" \in mode

(***************************************************************************)
(* "re-arm for the next association so static IP survives reconnect": once *)
(* config() has returned, every association the event task handles gets    *)
(* the static address, whatever disconnects, reconnects and calls of       *)
(* begin() are under way.                                                  *)
(***************************************************************************)
StaticIpSurvives ==
  [][address # address' /\ address' # "none" /\ useStaticIp /\ user # "configArm"
       => address' = "static"]_vars

(***************************************************************************)
(* disconnect(wifioff): "Turn off Wi-Fi radio if true".  With WIFI_OFF as  *)
(* the mode, neither interface runs.  This is NOT an invariant: the soft   *)
(* AP goes on, and _mode no longer tells.                                  *)
(***************************************************************************)
OffMeansOff == mode = {} => ~staStarted /\ ~apStarted
==============================================================================
