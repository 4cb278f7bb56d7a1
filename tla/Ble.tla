---------------------------------- MODULE Ble ----------------------------------
(***************************************************************************)
(* The BLE peripheral: advertise() and stopAdvertise() of BekenBLELocal-   *)
(* Device wait for the answers of the stack; BLEGattRegistry builds the    *)
(* attribute database, on one of two host stacks; the stack's callbacks    *)
(* run in a task of their own.                                             *)
(***************************************************************************)
EXTENDS Integers, Sequences, FiniteSets, SequencesExt

CONSTANTS Service,     \* the sketch's services, each a sequence of characteristics
          NotifyChar,  \* characteristics with BLENotify or BLEIndicate
          WideUuid,    \* characteristics whose UUID has not 16 bits
          ValueSize, WriteLen,  \* valueSize of the characteristics; lengths written
          AdvCapacity, UuidLen, DataLen, \* sizes of adv_data and of its optional fields
          Written,     \* bound: the characteristics that are written and subscribed to
          MaxCalls     \* bound: calls of advertise(), stopAdvertise() and addService()

Char == UNION {Range(Service[i]) : i \in DOMAIN Service}
PrfTaskBase == 11
None == [prf |-> 0, idx |-> 0]

\* What the constants have to be; the module of a run assumes it.
ConstantsOK ==
  /\ NotifyChar \subseteq Char /\ WideUuid \subseteq Char /\ Written \subseteq Char
  /\ Service \in Seq(Seq(Char)) /\ \A i \in DOMAIN Service : IsInjective(Service[i])
  /\ \A i, j \in DOMAIN Service : i # j => Range(Service[i]) \cap Range(Service[j]) = {}
  /\ \A i \in DOMAIN Service : 1 + 3 * Len(Service[i]) < 256  \* att_db_nb is a uint8_t
  /\ ValueSize \in Nat /\ WriteLen \subseteq Nat /\ AdvCapacity \in Nat /\ MaxCalls \in Nat

VARIABLES
  m_initialized, m_advertising,
  m_actv,              \* m_actv_idx is known
  ethermind,           \* what bk_ble_get_host_stack_type() says
  services,            \* m_services: indices of Service
  finalized, legacy,   \* s_gatt_db_finalized, s_use_legacy_stack
  bindings,            \* g_legacy_bindings
  handle,              \* m_gatt_service_handle and m_gatt_char_handle; None: not registered
  dbDone,              \* g_legacy_db_create_done and _status: "no", "ok", "failed"
  len,                 \* m_content_len
  notify,              \* characteristics with m_notify_enabled
  cmd,                 \* g_ble_cmd_done, g_ble_last_cmd, g_ble_cmd_status
  pc, svc,             \* where the call is; the service finalizeLegacyDatabase() is at
  requests, creating,  \* commands and databases that the stack has yet to answer
  database,            \* the stack's databases: prf_id to attributes
  radio, conn,         \* the stack advertises; a peer is connected (s_conn_handle)
  notified,            \* the last notification
  excuse, calls        \* history: what parts m_advertising and the radio; calls

gatt == <<ethermind, services, finalized, legacy, bindings, handle, dbDone, svc, creating, database>>
values == <<len, notify, notified>>
device == <<m_initialized, m_advertising, m_actv>>
vars == <<device, gatt, values, cmd, pc, requests, radio, conn, excuse, calls>>

NoCmd == [name |-> "none", ok |-> FALSE]

Init ==
  /\ m_initialized = FALSE /\ m_advertising = FALSE /\ m_actv = FALSE
  /\ ethermind \in BOOLEAN /\ services = <<>> /\ finalized = FALSE /\ legacy = TRUE
  /\ bindings = <<>> /\ handle = [c \in Char |-> None] /\ dbDone = "no"
  /\ len = [c \in Char |-> 0] /\ notify = {} /\ notified = "none"
  /\ cmd = NoCmd /\ pc = "idle" /\ svc = 0 /\ requests = <<>> /\ creating = <<>>
  /\ database = [i \in DOMAIN Service |-> <<>>]
  /\ radio = FALSE /\ conn = FALSE /\ excuse = {} /\ calls = 0

------------------------------------------------------------------------------
(* Waits for a command.                                                    *)

return == pc' = "idle" /\ svc' = 0

\* The globals are reset and a command is given to the stack, which may refuse.
issue(name, at) ==
  /\ cmd' = NoCmd /\ requests' = Append(requests, name) /\ pc' = at

\* waitForCommand()
done(name) == cmd.name = name

\* The stack answers in order.  A restart has no callback.
Answer(ok) ==
  /\ requests # <<>>
  /\ LET name == Head(requests) IN
       /\ requests' = Tail(requests)
       /\ cmd' = IF name = "restart" THEN cmd ELSE [name |-> name, ok |-> ok]
       /\ radio' = IF ~ok THEN radio
                   ELSE IF name \in {"start", "restart"} THEN ~conn
                   ELSE IF name = "stop" THEN FALSE ELSE radio
       /\ excuse' = IF name = "restart" /\ ~ok THEN excuse \cup {"restart"} ELSE excuse
  /\ UNCHANGED <<device, gatt, values, pc, conn, calls>>

------------------------------------------------------------------------------
(* The attribute database.                                                 *)

NoIdx == 65535

\* mutant: the descriptor is given an index and no attribute
addCharNoDescriptor(acc, c, prf) ==
  LET v == Len(acc.att) + 1 IN
  [att |-> acc.att \o <<<<"declaration", c>>, <<"value", c>>>>,
   bound |-> Append(acc.bound, [char |-> c, prf |-> prf, value |-> v,
                                desc |-> IF c \in NotifyChar THEN v + 1 ELSE NoIdx])]

\* A characteristic of the legacy database: a declaration, a value and, if it
\* notifies, a descriptor; indices count from 0.
addChar(acc, c, prf) ==
  LET v == Len(acc.att) + 1 IN
  [att |-> acc.att \o <<<<"declaration", c>>, <<"value", c>>>>
           \o (IF c \in NotifyChar THEN <<<<"cccd", c>>>> ELSE <<>>),
   bound |-> Append(acc.bound, [char |-> c, prf |-> prf, value |-> v,
                                desc |-> IF c \in NotifyChar THEN v + 1 ELSE NoIdx])]

\* The characteristics before the first whose UUID does not fit.
narrow(i) == SelectInSeq(Append(Service[i], "end"), LAMBDA c : c \in WideUuid \cup {"end"}) - 1

\* g_legacy_att_db and the bindings of service i, after each of its characteristics.
built(i, prf) ==
  LET acc[n \in 0 .. Len(Service[i])] ==
        IF n = 0 THEN [att |-> <<<<"service", i>>>>, bound |-> <<>>]
        ELSE addChar(acc[n - 1], Service[i][n], prf)
  IN  acc

\* The service in place k of m_services has the k-th profile.
build(k) == built(services[k], PrfTaskBase + k - 1)[narrow(services[k])]

\* ensureGattValueBuffer(): the value starts as zeros, whatever was written.
emptied(C) == [c \in Char |-> IF c \in C THEN 0 ELSE len[c]]

\* finalizeDatabase(): on the Ethermind stack the database is built at once;
\* done: the characteristics registered before a call of the stack failed.
finalizeEthermind(ok) ==
  /\ pc = "ethermind"
  /\ LET all == FlattenSeq([k \in DOMAIN services |-> Service[services[k]]])
         fine == \A k \in DOMAIN all : all[k] \notin WideUuid IN
     \E n \in 0 .. Len(all) :
       LET C == {all[k] : k \in 1 .. n} IN
       /\ C \cap WideUuid = {} /\ (ok => fine /\ n = Len(all))
       /\ handle' = [c \in Char |-> IF c \in C /\ handle[c] = None
                                    THEN [prf |-> 1, idx |-> CHOOSE k \in 1 .. n : all[k] = c]
                                    ELSE handle[c]]
       /\ len' = emptied({c \in C : handle[c] = None})
  /\ IF ok THEN finalized' = TRUE /\ pc' = "activity" /\ UNCHANGED <<legacy, bindings, svc>>
     ELSE legacy' = TRUE /\ bindings' = <<>> /\ pc' = "legacy" /\ svc' = 1 /\ UNCHANGED finalized
  /\ UNCHANGED <<device, ethermind, services, dbDone, creating, database, notify, notified, cmd, requests, radio, conn, excuse, calls>>

\* One service of finalizeLegacyDatabase(), up to bk_ble_create_db().
createDb(ok) ==
  LET i == services[svc]
      b == build(svc).bound
      C == {b[k].char : k \in DOMAIN b}
      fits == narrow(i) = Len(Service[i]) IN
  /\ pc = "legacy" /\ svc <= Len(services) /\ (ok => fits)
  /\ bindings' = bindings \o b
  /\ handle' = [c \in Char |-> IF c \in C
                 THEN LET k == CHOOSE k \in DOMAIN b : b[k].char = c IN
                      [prf |-> b[k].prf, idx |-> b[k].value]
                 ELSE handle[c]]
  /\ len' = emptied(C) /\ dbDone' = IF fits THEN "no" ELSE dbDone
  /\ IF ok THEN pc' = "dbWait" /\ creating' = Append(creating, svc) /\ UNCHANGED svc
     ELSE return /\ UNCHANGED creating
  /\ UNCHANGED <<device, ethermind, services, finalized, legacy, database, notify, notified, cmd, requests, radio, conn, excuse, calls>>

\* The stack makes the database, and BLE_5_CREATE_DB reports it.
DbCreated(ok) ==
  /\ creating # <<>> /\ creating' = Tail(creating)
  /\ dbDone' = IF ok THEN "ok" ELSE "failed"
  /\ database' = IF ok THEN [database EXCEPT ![Head(creating)] = build(Head(creating)).att]
                 ELSE database
  /\ UNCHANGED <<device, ethermind, services, finalized, legacy, bindings, handle, svc, values,
                 cmd, pc, requests, radio, conn, excuse, calls>>

\* mutant: the wait has no end of its own
dbWaitedForever(late) ==
  /\ pc = "dbWait" /\ dbDone # "no" /\ ~late
  /\ IF dbDone = "ok" THEN pc' = "legacy" /\ svc' = svc + 1 ELSE return
  /\ UNCHANGED <<device, ethermind, services, finalized, legacy, bindings, handle, dbDone, creating,
                 database, values, cmd, requests, radio, conn, excuse, calls>>

\* waitForLegacyDatabaseCreated(): 500 ms, then the call gives up.
dbWaited(late) ==
  /\ pc = "dbWait" /\ (late <=> dbDone = "no")
  /\ IF dbDone = "ok" THEN pc' = "legacy" /\ svc' = svc + 1 ELSE return
  /\ excuse' = IF late THEN excuse \cup {"lateDb"} ELSE excuse
  /\ UNCHANGED <<device, ethermind, services, finalized, legacy, bindings, handle, dbDone, creating,
                 database, values, cmd, requests, radio, conn, calls>>

legacyDone ==
  /\ pc = "legacy" /\ svc > Len(services)
  /\ IF bindings # <<>> THEN finalized' = TRUE /\ pc' = "activity" /\ svc' = 0
     ELSE return /\ UNCHANGED finalized
  /\ UNCHANGED <<device, ethermind, services, legacy, bindings, handle, dbDone, creating, database,
                 values, cmd, requests, radio, conn, excuse, calls>>

------------------------------------------------------------------------------
(* advertise(), stopAdvertise(), addService().                             *)

rest == <<ethermind, legacy, bindings, handle, dbDone, creating, database, values, radio, conn>>

\* bound: a service is added once, before the first database.
addService(i) ==
  /\ pc = "idle" /\ calls < MaxCalls /\ ~\E k \in DOMAIN services : services[k] = i
  /\ bindings = <<>> /\ ~finalized
  /\ services' = Append(services, i) /\ calls' = calls + 1
  /\ UNCHANGED <<device, ethermind, finalized, legacy, bindings, handle, dbDone, svc, creating,
                 database, values, cmd, pc, requests, radio, conn, excuse>>

\* begin(), then the start of finalizeDatabase().
advertise(ok) ==
  /\ pc = "idle" /\ calls < MaxCalls /\ calls' = calls + 1
  /\ (m_initialized => ok) /\ m_initialized' = ok
  /\ excuse' = IF radio \/ m_advertising THEN excuse \cup {"again"} ELSE excuse
  /\ IF ~ok \/ (~finalized /\ services = <<>>) THEN return /\ UNCHANGED <<legacy, bindings>>
     ELSE IF finalized THEN pc' = "activity" /\ UNCHANGED <<legacy, bindings, svc>>
     ELSE IF ethermind THEN pc' = "ethermind" /\ legacy' = FALSE /\ UNCHANGED <<bindings, svc>>
     ELSE pc' = "legacy" /\ legacy' = TRUE /\ bindings' = <<>> /\ svc' = 1
  /\ UNCHANGED <<m_advertising, m_actv, ethermind, services, finalized, handle, dbDone, creating,
                 database, values, cmd, requests, radio, conn>>

\* ensureActivity(); ok: there is an activity and the stack takes the command.
ensureActivity(ok) ==
  /\ pc = "activity"
  /\ IF m_actv THEN pc' = "payload" /\ UNCHANGED <<cmd, requests, svc>>
     ELSE IF ok THEN issue("create", "waitCreate") /\ UNCHANGED svc
     ELSE return /\ UNCHANGED <<cmd, requests>>
  /\ UNCHANGED <<device, rest, services, finalized, excuse, calls>>

\* The end of a wait: what was awaited, or 2000 ms.
ok(name) == done(name) /\ cmd.ok
timedOut(name) == IF done(name) THEN {} ELSE {"timeout"}

waitCreate ==
  /\ pc = "waitCreate" /\ m_actv' = ok("create")
  /\ IF ok("create") THEN pc' = "payload" /\ UNCHANGED svc ELSE return
  /\ excuse' = excuse \cup timedOut("create")
  /\ UNCHANGED <<m_initialized, m_advertising, rest, services, finalized, cmd, requests, calls>>

\* The advertising data: flags, a field with the UUID, one with the
\* manufacturer's data; a field has two bytes more than its data.
field(n) == IF n = 0 THEN 0 ELSE n + 2
advLength(uuid, data) == 3 + field(uuid) + field(data)

\* accepted: the name and the command are.
setAdvertisingPayload(accepted) ==
  /\ pc = "payload"
  /\ \E u \in UuidLen, d \in DataLen :
       IF accepted /\ advLength(u, d) <= AdvCapacity
       THEN issue("data", "waitData") /\ UNCHANGED svc
       ELSE return /\ UNCHANGED <<cmd, requests>>
  /\ UNCHANGED <<device, rest, services, finalized, excuse, calls>>

\* The scan response follows if there is a local name that fits.
waitData(named, accepted) ==
  /\ pc = "waitData"
  /\ IF ok("data") /\ accepted THEN issue(IF named THEN "response" ELSE "start",
                                          IF named THEN "waitResponse" ELSE "waitStart") /\ UNCHANGED svc
     ELSE return /\ UNCHANGED <<cmd, requests>>
  /\ excuse' = excuse \cup timedOut("data")
  /\ UNCHANGED <<device, rest, services, finalized, calls>>

waitResponse(accepted) ==
  /\ pc = "waitResponse"
  /\ IF ok("response") /\ accepted THEN issue("start", "waitStart") /\ UNCHANGED svc
     ELSE return /\ UNCHANGED <<cmd, requests>>
  /\ excuse' = excuse \cup timedOut("response")
  /\ UNCHANGED <<device, rest, services, finalized, calls>>

\* Once a command has succeeded, m_advertising says what the radio does.
settled(name) ==
  IF ok(name) /\ requests = <<>> /\ "raced" \notin excuse THEN excuse \cap {"lateDb"}
  ELSE excuse \cup timedOut(name)

waitStart ==
  /\ pc = "waitStart" /\ m_advertising' = ok("start") /\ return
  /\ excuse' = settled("start")
  /\ UNCHANGED <<m_initialized, m_actv, rest, services, finalized, cmd, requests, calls>>

\* and end()
stopAdvertise ==
  /\ pc = "idle" /\ m_actv /\ m_advertising /\ calls < MaxCalls
  /\ issue("stop", "waitStop") /\ calls' = calls + 1
  /\ UNCHANGED <<device, rest, svc, services, finalized, excuse>>

\* mutant: a stop that failed counts as one
stoppedAnyway == FALSE

stillAdvertising == ~ok("stop")

waitStop ==
  /\ pc = "waitStop" /\ m_advertising' = stillAdvertising /\ return
  /\ excuse' = settled("stop")
  /\ UNCHANGED <<m_initialized, m_actv, rest, services, finalized, cmd, requests, calls>>

------------------------------------------------------------------------------
(* The peer, in the stack's task.                                          *)

Connect ==
  /\ radio /\ ~conn /\ conn' = TRUE /\ radio' = FALSE
  /\ UNCHANGED <<device, gatt, values, cmd, pc, requests, excuse, calls>>

\* restartAdvertising()
resumes == m_actv /\ m_advertising

\* s_conn_handle, then onDisconnected(), which may come between a stop and
\* the end of its wait.
Disconnect ==
  /\ conn /\ conn' = FALSE
  /\ requests' = IF resumes THEN Append(requests, "restart") ELSE requests
  /\ excuse' = IF pc \in {"waitStop", "waitStart"} THEN excuse \cup {"raced"} ELSE excuse
  /\ UNCHANGED <<device, gatt, values, cmd, pc, radio, calls>>

\* findLegacyBindingByWrite(), findCharacteristic()
served(c) ==
  IF legacy THEN \E k \in DOMAIN bindings : bindings[k].char = c ELSE handle[c] # None

\* storeValueBytes()
stored(c, n) == IF n <= ValueSize THEN n ELSE len[c]

\* writeFromPeer()
PeerWrite(c, n) ==
  /\ conn /\ served(c) /\ len' = [len EXCEPT ![c] = stored(c, n)]
  /\ UNCHANGED <<device, gatt, notify, notified, cmd, pc, requests, radio, conn, excuse, calls>>

PeerSubscribe(c, enable) ==
  /\ conn /\ served(c) /\ c \in NotifyChar
  /\ notify' = IF enable THEN notify \cup {c} ELSE notify \ {c}
  /\ notified' = "none"
  /\ UNCHANGED <<device, gatt, len, cmd, pc, requests, radio, conn, excuse, calls>>

\* writeValue(), with notifyCharacteristic()
writeValue(c, n) ==
  LET sends == served(c) /\ c \in notify /\ c \in NotifyChar /\ conn IN
  /\ pc = "idle" /\ len' = [len EXCEPT ![c] = stored(c, n)]
  /\ notified' = IF sends THEN c ELSE "none"
  /\ UNCHANGED <<device, gatt, notify, cmd, pc, requests, radio, conn, excuse, calls>>

------------------------------------------------------------------------------
Step ==
  \/ \E b \in BOOLEAN :
       finalizeEthermind(b) \/ createDb(b) \/ dbWaited(b) \/ ensureActivity(b)
       \/ setAdvertisingPayload(b) \/ waitResponse(b) \/ \E named \in BOOLEAN : waitData(named, b)
  \/ legacyDone \/ waitCreate \/ waitStart \/ waitStop
User ==
  \/ \E i \in DOMAIN Service : addService(i)
  \/ \E b \in BOOLEAN : advertise(b)
  \/ stopAdvertise \/ \E c \in Written, n \in WriteLen : writeValue(c, n)
Stack ==
  \/ \E b \in BOOLEAN : Answer(b) \/ DbCreated(b)
  \/ Connect \/ Disconnect
  \/ \E c \in Written : \/ \E n \in WriteLen : PeerWrite(c, n)
                        \/ \E b \in BOOLEAN : PeerSubscribe(c, b)

Next == Step \/ User \/ Stack
Spec == Init /\ [][Next]_vars /\ WF_vars(Step)

------------------------------------------------------------------------------
\* Between calls, with no command under way and no peer connected, the radio
\* advertises if and only if m_advertising says so.  Excepted are a wait that
\* timed out, an advertise() while advertising, a restart that failed, and a
\* disconnection during the wait for a stop or a start.
RadioMatches ==
  pc = "idle" /\ requests = <<>> /\ ~conn /\ excuse \subseteq {"lateDb"}
    => (radio <=> m_advertising)

\* A finalized legacy database is one the stack has confirmed, and what a
\* binding calls the value or the descriptor of a characteristic is that
\* attribute in the stack.  Excepted is a confirmation that came late.
BindingsAreTheStacks ==
  finalized /\ legacy /\ "lateDb" \notin excuse =>
    \A k \in DOMAIN bindings :
      LET b == bindings[k]
          att == database[b.prf - PrfTaskBase + 1] IN
      /\ b.value + 1 \in DOMAIN att /\ att[b.value + 1] = <<"value", b.char>>
      /\ b.desc # NoIdx => b.desc + 1 \in DOMAIN att /\ att[b.desc + 1] = <<"cccd", b.char>>
      /\ handle[b.char] = [prf |-> b.prf, idx |-> b.value]

\* A value that the sketch or the peer has written stays until the next one is.
ValueKept == [][\A c \in Char : len[c] > 0 => len'[c] > 0]_vars

\* advertise() and stopAdvertise() return although the stack never answers.
AdvertiseReturns == pc # "idle" ~> pc = "idle"
=============================================================================
