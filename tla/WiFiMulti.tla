------------------------------ MODULE WiFiMulti ------------------------------
(***************************************************************************)
(* WiFiMulti: addAP() and run(), which scans, picks the strongest network  *)
(* that it knows, and waits for the association or for its timeout.        *)
(*                                                                         *)
(* A scanned network is a record of its name, its strength and whether it  *)
(* is open; an entry of the list is a name and whether it has a            *)
(* passphrase.  The scan loop counts in an int8_t: IntMax is 127 there.    *)
(***************************************************************************)
EXTENDS Integers, Sequences, FiniteSetsExt

CONSTANTS Ssid,       \* network names
          Rssi,       \* signal strengths, a set of integers
          MaxNets,    \* bound: networks a scan finds
          MaxAps,     \* kMaxAps, the length of the list (10 in the code)
          IntMax,     \* the largest value of the scan loop's counter
          NoNetwork   \* the null bestNetwork.ssid

\* What the constants have to be; the module of a run assumes it.
ConstantsOK ==
  /\ {MaxNets, MaxAps, IntMax} \subseteq Nat
  /\ Rssi \subseteq Int
  /\ NoNetwork \notin Ssid

Entry == [ssid : Ssid, passphrase : BOOLEAN]
Network == [ssid : Ssid, rssi : Rssi, open : BOOLEAN]

VARIABLES
  aplist,   \* _aplist and _ap_count
  status,   \* WiFi.status(), mapped by wifiBkIdkToWlStatus()
  joined,   \* the name WiFi.SSID() answers
  nets,     \* the result of the last scan
  pc,       \* where run() is, "idle" outside
  i,        \* the scan loop's counter
  best,     \* bestNetwork and bestNetworkDb: the network and its entry
  expired   \* has connectTimeout passed?

vars == <<aplist, status, joined, nets, pc, i, best, expired>>

Status == {"IDLE", "NO_SSID", "CONNECTED", "FAILED", "DISCONNECTED"}
None == [ssid |-> NoNetwork]

Init ==
  /\ aplist = <<>> /\ status = "DISCONNECTED" /\ joined = NoNetwork
  /\ nets = <<>> /\ pc = "idle" /\ i = 0 /\ best = None
  /\ expired = FALSE

------------------------------------------------------------------------------
\* mutant: the list's length is not tested
addAPUnbounded(e) ==
  /\ pc = "idle"
  /\ aplist' = Append(aplist, e)
  /\ UNCHANGED <<status, joined, nets, pc, i, best, expired>>

\* addAP(): refused when the list is full (and when memory runs out, which
\* leaves the list as it was).
addAP(e) ==
  /\ pc = "idle"
  /\ Len(aplist) < MaxAps
  /\ aplist' = Append(aplist, e)
  /\ UNCHANGED <<status, joined, nets, pc, i, best, expired>>

known(ssid) == \E x \in 1 .. Len(aplist) : aplist[x].ssid = ssid

\* run() on a station connected to a listed network changes nothing.
RunConnected ==
  /\ pc = "idle" /\ status = "CONNECTED" /\ known(joined)
  /\ UNCHANGED vars

Run ==
  /\ pc = "idle" /\ ~(status = "CONNECTED" /\ known(joined))
  /\ IF status = "CONNECTED"
     THEN status' \in Status \* WiFi.disconnect(), and the status 10 ms later
     ELSE UNCHANGED status
  /\ pc' = "scan"
  /\ UNCHANGED <<aplist, joined, nets, i, best, expired>>

\* run() returns the status; its locals and the scan's results are gone.
Return == pc' = "idle" /\ nets' = <<>> /\ i' = 0 /\ best' = None /\ expired' = FALSE

\* WiFi.scanNetworks().  On failure run() disconnects and scans again in vain.
Scan ==
  /\ pc = "scan"
  /\ \/ /\ \E n \in 0 .. MaxNets : nets' \in [1 .. n -> Network]
        /\ i' = 0 /\ best' = None /\ pc' = "select"
        /\ UNCHANGED expired
     \/ Return
  /\ UNCHANGED <<aplist, status, joined>>

------------------------------------------------------------------------------
(* The scan loop.                                                          *)

\* mutant: the counter is one bit narrower
incrementNarrow(n) == IF n = IntMax \div 2 THEN -(IntMax \div 2) - 1 ELSE n + 1

\* ++i in an int8_t
increment(n) == IF n = IntMax THEN -IntMax - 1 ELSE n + 1

\* mutant: the first result is passed over
validSkips(n) == n > 0 /\ n < Len(nets)

\* getNetworkInfo() refuses an index beyond the result; a negative one is one.
valid(n) == n >= 0 /\ n < Len(nets)

\* The inner loop looks at the entries from the last to the first and stops at
\* the first one with the scanned name, usable or not.
match(net) == {x \in 1 .. Len(aplist) : aplist[x].ssid = net.ssid}
usable(net) == match(net) # {} /\ (net.open \/ aplist[Max(match(net))].passphrase)

better(net) ==
  usable(net) /\ (best = None \/ net.rssi > best.rssi)

SelectStep ==
  /\ pc = "select" /\ i < Len(nets)
  /\ best' = IF valid(i) /\ better(nets[i + 1]) THEN nets[i + 1] ELSE best
  /\ i' = increment(i)
  /\ UNCHANGED <<aplist, status, joined, nets, pc, expired>>

\* The results are deleted; with a network to join, WiFi.begin().
SelectEnd ==
  /\ pc = "select" /\ i >= Len(nets)
  /\ IF best = None
     THEN Return /\ UNCHANGED <<status, joined>>
     ELSE /\ pc' = "wait" /\ joined' = best.ssid
          /\ status' \in Status
          /\ UNCHANGED <<nets, i, best, expired>>
  /\ UNCHANGED aplist

------------------------------------------------------------------------------
Settled == status \in {"CONNECTED", "NO_SSID", "FAILED"}

WaitPoll ==
  /\ pc = "wait" /\ ~Settled /\ ~expired
  /\ status' \in Status
  /\ UNCHANGED <<aplist, joined, nets, pc, i, best, expired>>

WaitExpire ==
  /\ pc = "wait" /\ ~expired
  /\ expired' = TRUE
  /\ UNCHANGED <<aplist, status, joined, nets, pc, i, best>>

WaitEnd ==
  /\ pc = "wait" /\ (Settled \/ expired)
  /\ Return
  /\ UNCHANGED <<aplist, status, joined>>

\* The association may be lost, or made by the SDK, between two calls.
LinkChanges ==
  /\ pc = "idle"
  /\ status' \in Status \ {status}
  /\ UNCHANGED <<aplist, joined, nets, pc, i, best, expired>>

------------------------------------------------------------------------------
Inside == Scan \/ SelectStep \/ SelectEnd \/ WaitPoll \/ WaitEnd

Next ==
  \/ \E e \in Entry : addAP(e)
  \/ RunConnected \/ Run \/ Inside \/ WaitExpire \/ LinkChanges

(***************************************************************************)
(* run() executes, and time passes while it waits.                         *)
(***************************************************************************)
Spec == Init /\ [][Next]_vars /\ WF_vars(Inside) /\ WF_vars(WaitExpire)

------------------------------------------------------------------------------
TypeOK ==
  /\ aplist \in Seq(Entry) /\ Len(aplist) <= MaxAps
  /\ status \in Status /\ joined \in Ssid \cup {NoNetwork}
  /\ nets \in Seq(Network) /\ Len(nets) <= MaxNets
  /\ pc \in {"idle", "scan", "select", "wait"}
  /\ i \in -IntMax - 1 .. IntMax
  /\ best \in Network \cup {None} /\ expired \in BOOLEAN

(***************************************************************************)
(* When the loop over the scan's results is done, bestNetwork is one that  *)
(* run() can join with the entry added last for its name, and no such      *)
(* network is stronger; without one, no result can be joined.              *)
(***************************************************************************)
JoinsTheStrongest ==
  pc = "wait" \/ (pc = "select" /\ i >= Len(nets)) =>
    LET candidates == {nets[n] : n \in {m \in 1 .. Len(nets) : usable(nets[m])}} IN
    IF candidates = {} THEN best = None
    ELSE best \in candidates /\ \A net \in candidates : net.rssi <= best.rssi

(***************************************************************************)
(* run() returns, as long as a scan finds at most IntMax networks.         *)
(***************************************************************************)
RunReturns == pc # "idle" ~> pc = "idle"
==============================================================================
