------------------------------- MODULE WiFiScan ------------------------------
(***************************************************************************)
(* scanNetworks(): the loop task starts a scan in the driver and waits on  *)
(* a binary semaphore that the event task gives when the driver says       *)
(* SCAN_DONE.  Scans are numbered in the order in which they were started. *)
(***************************************************************************)
EXTENDS Naturals, Sequences

CONSTANTS MaxScans,        \* bound: scans started in a behaviour
          RegisterMayFail, \* may bk_event_register_cb() fail?
          EventTaskFirst   \* is a posted event handled before the loop task runs on?

\* What the constants have to be; the module of a run assumes it.
ConstantsOK ==
  /\ MaxScans \in Nat
  /\ {RegisterMayFail, EventTaskFirst} \subseteq BOOLEAN

VARIABLES
  sem,         \* s_scan_done_sem: "null", "taken" or "given"
  registered,  \* s_scan_event_registered
  handler,     \* scanDoneEventHandler is registered with the SDK
  aps, ap_num, \* _aps: the scan it was copied from (0: null); _ap_num > 0
  user,        \* the loop task's position in scanNetworks(), "idle" outside
  answer,      \* what the last call returned: "none", "failed" or "count"
  scan,        \* scans started so far; the last one is the current one
  running,     \* driver: the scan in progress, 0 if none
  found,       \* driver: the scan whose results it holds, 0 if none
  events       \* driver: SCAN_DONE events posted and not yet handled

vars == <<sem, registered, handler, aps, ap_num, user, answer, scan,
          running, found, events>>

Init ==
  /\ sem = "null" /\ registered = FALSE /\ handler = FALSE
  /\ aps = 0 /\ ap_num = FALSE
  /\ user = "idle" /\ answer = "none"
  /\ scan = 0 /\ running = 0 /\ found = 0 /\ events = 0

------------------------------------------------------------------------------
(* The driver, the event task and scanDoneEventHandler().                  *)

Complete ==
  /\ running # 0
  /\ found' = running
  /\ running' = 0
  /\ events' = events + 1
  /\ UNCHANGED <<sem, registered, handler, aps, ap_num, user, answer, scan>>

scanDoneEventHandler ==
  /\ events > 0
  /\ events' = events - 1
  /\ sem' = IF handler /\ sem # "null" THEN "given" ELSE sem
  /\ UNCHANGED <<registered, handler, aps, ap_num, user, answer, scan, running,
                 found>>

LoopRuns == EventTaskFirst => events = 0

------------------------------------------------------------------------------
(* scanNetworks().                                                         *)

\* mutant: the semaphore is not drained
scanNetworksNoDrain ==
  /\ LoopRuns /\ user = "idle" /\ scan < MaxScans
  /\ aps' = 0 /\ ap_num' = FALSE
  /\ user' = "start"
  /\ UNCHANGED <<sem, registered, handler, answer, scan, running, found, events>>

scanNetworks ==
  /\ LoopRuns /\ user = "idle" /\ scan < MaxScans
  /\ aps' = 0 /\ ap_num' = FALSE
  /\ sem' = IF sem = "given" THEN "taken" ELSE sem
  /\ user' = "start"
  /\ UNCHANGED <<registered, handler, answer, scan, running, found, events>>

Return(a) == user' = "idle" /\ answer' = a

\* bk_wifi_scan_start() may fail, and does while a scan is in progress.
StartScan ==
  /\ LoopRuns /\ user = "start"
  /\ \/ /\ running = 0
        /\ scan' = scan + 1
        /\ running' = scan + 1
        /\ user' = "ready"
        /\ UNCHANGED answer
     \/ Return("failed") /\ UNCHANGED <<scan, running>>
  /\ UNCHANGED <<sem, registered, handler, aps, ap_num, found, events>>

\* mutant: the semaphore is not created
ensureScanEventReadyNoSem ==
  /\ LoopRuns /\ user = "ready"
  /\ registered' = TRUE /\ handler' = TRUE
  /\ user' = "wait"
  /\ UNCHANGED <<sem, aps, ap_num, answer, scan, running, found, events>>

ensureScanEventReady ==
  /\ LoopRuns /\ user = "ready"
  /\ sem' = IF sem = "null" THEN "taken" ELSE sem
  /\ registered' = TRUE
  /\ handler' \in IF registered THEN {handler}
                  ELSE IF RegisterMayFail THEN {TRUE, FALSE} ELSE {TRUE}
  /\ user' = "wait"
  /\ UNCHANGED <<aps, ap_num, answer, scan, running, found, events>>

Wake ==
  /\ LoopRuns /\ user = "wait" /\ sem = "given"
  /\ sem' = "taken"
  /\ user' = "result"
  /\ UNCHANGED <<registered, handler, aps, ap_num, answer, scan, running, found,
                 events>>

\* mutant: the wait has no timeout
TimeoutNever == FALSE /\ UNCHANGED vars

\* bk_wifi_scan_stop() ends the scan, with or without a SCAN_DONE for it.
Timeout ==
  /\ LoopRuns /\ user = "wait" /\ sem # "given"
  /\ Return("failed")
  /\ running' = 0
  /\ events' \in IF running # 0 THEN {events, events + 1} ELSE {events}
  /\ UNCHANGED <<sem, registered, handler, aps, ap_num, scan, found>>

\* No result or no memory: "failed".  Otherwise the number of networks, and the
\* entries when there are any.
GetResult ==
  /\ LoopRuns /\ user = "result"
  /\ \/ Return("failed") /\ UNCHANGED <<aps, ap_num>>
     \/ Return("count") /\ aps' \in {0, found} /\ ap_num' = (aps' # 0)
  /\ UNCHANGED <<sem, registered, handler, scan, running, found, events>>

scanDelete ==
  /\ LoopRuns /\ user = "idle"
  /\ aps' = 0 /\ ap_num' = FALSE
  /\ UNCHANGED <<sem, registered, handler, user, answer, scan, running, found,
                 events>>

------------------------------------------------------------------------------
InCall == StartScan \/ ensureScanEventReady \/ Wake \/ Timeout \/ GetResult
EventTask == scanDoneEventHandler

Next == Complete \/ EventTask \/ scanNetworks \/ scanDelete \/ InCall

(***************************************************************************)
(* The event task and the loop task get to run, and 20 seconds pass.       *)
(* Nothing is asked of the driver: a scan may never complete.              *)
(***************************************************************************)
Fairness == WF_vars(EventTask) /\ WF_vars(InCall)

Spec == Init /\ [][Next]_vars /\ Fairness

------------------------------------------------------------------------------
TypeOK ==
  /\ sem \in {"null", "taken", "given"}
  /\ {registered, handler, ap_num} \subseteq BOOLEAN
  /\ {aps, scan, running, found} \subseteq 0 .. MaxScans
  /\ user \in {"idle", "start", "ready", "wait", "result"}
  /\ answer \in {"none", "failed", "count"}
  /\ events \in 0 .. MaxScans
  /\ registered => sem # "null"

(***************************************************************************)
(* Between calls the accessors (SSID(), RSSI(), getNetworkInfo(), ...) see *)
(* entries exactly when _ap_num says so, after every failure of a scan too, *)
(* and these are of the scan that the last call started, not of an earlier *)
(* one that completed after its timeout.                                   *)
(***************************************************************************)
ResultsAreOwn ==
  /\ user = "idle" => (ap_num <=> aps # 0)
  /\ user \in {"idle", "result"} /\ aps # 0 => aps = scan

(***************************************************************************)
(* A call of scanNetworks() returns, even if the driver never answers or   *)
(* if the very first SCAN_DONE comes before anybody listens for it.        *)
(***************************************************************************)
CallReturns == user # "idle" ~> user = "idle"
==============================================================================
