----------------------------- MODULE PubSubClient -----------------------------
(***************************************************************************)
(* The MQTT client: connect() and its wait for CONNACK, loop() with the    *)
(* keepalive and the callback, publish(), subscribe() and disconnect(),    *)
(* against a broker.  Time is counted in ticks; the sketch calls loop() at *)
(* least every MaxGap ticks.  A packet is its kind and its message id.     *)
(***************************************************************************)
EXTENDS Naturals, Sequences

CONSTANTS KeepAlive,     \* keepAlive, in ticks
          SocketTimeout, \* socketTimeout, in ticks
          MaxGap,        \* bound: ticks between two calls of loop()
          MaxBacklog,    \* bound: packets waiting to be read
          IdMod          \* 2^16: message ids are taken modulo it

ASSUME TimeAssumption ==
  /\ KeepAlive \in Nat \ {0} /\ SocketTimeout \in Nat \ {0}
  /\ MaxGap \in Nat \ {0} /\ MaxBacklog \in Nat
ASSUME IdAssumption == IdMod \in Nat /\ IdMod > 2

VARIABLES
  state,            \* _state
  up,               \* _client->connected()
  inAge, outAge,    \* millis() minus lastInActivity, minus lastOutActivity
  pingOutstanding, nextMsgId,
  pc,               \* "idle", "connack" (in connect()) or "callback" (in loop())
  msgId,            \* loop()'s local copy of the id of the packet at hand
  buffer,           \* the id that the shared buffer holds, 0 for none
  ack,              \* history: the ids of the last QoS 1 message read and of the last PUBACK sent
  inbox,            \* packets from the broker, not yet read
  owed,             \* the broker owes a PINGRESP
  alive,            \* the broker answers
  silence, unheard, \* ticks since loop() last read a packet; since a packet was sent
  gap               \* ticks since the last loop()

session == <<state, up, pingOutstanding, nextMsgId>>
broker == <<inbox, owed, alive>>
vars == <<session, inAge, outAge, pc, msgId, buffer, ack, broker, silence, unheard, gap>>

Ids == 1 .. IdMod - 1
NoAck == [sent |-> 0, of |-> 0]
Plain(kind) == [kind |-> kind, id |-> 0]

\* Ages are told apart up to the point where every deadline has passed.
MaxAge == 2 * (KeepAlive + MaxGap) + SocketTimeout
Older(age) == IF age < MaxAge THEN age + 1 ELSE age

Init ==
  /\ state = "disconnected" /\ up = FALSE
  /\ pingOutstanding = FALSE /\ nextMsgId = 1
  /\ inAge = 0 /\ outAge = 0
  /\ pc = "idle" /\ msgId = 0 /\ buffer = 0 /\ ack = NoAck
  /\ inbox = <<>> /\ owed = FALSE /\ alive = TRUE
  /\ silence = 0 /\ unheard = 0 /\ gap = 0

connected == up /\ state = "connected"

------------------------------------------------------------------------------
(* Time, the broker and the network.                                       *)

\* A broker that is alive has answered a PINGREQ by the next tick.
Tick ==
  /\ pc # "callback"
  /\ connected => gap < MaxGap
  /\ (pc = "connack") => (inAge < SocketTimeout)  \* the wait looks at millis() all the time
  /\ alive => ~owed
  /\ inAge' = Older(inAge) /\ outAge' = Older(outAge)
  /\ silence' = Older(silence) /\ unheard' = Older(unheard)
  /\ gap' = IF connected THEN gap + 1 ELSE 0
  /\ UNCHANGED <<session, pc, msgId, buffer, ack, broker>>

BrokerSends(p) ==
  /\ up /\ alive /\ Len(inbox) < MaxBacklog
  /\ p.kind \in {"CONNACK", "REFUSED"} <=> pc = "connack"
  /\ inbox' = Append(inbox, p)
  /\ UNCHANGED <<session, inAge, outAge, pc, msgId, buffer, ack, owed, alive, silence,
                 unheard, gap>>

BrokerPingResp ==
  /\ up /\ alive /\ owed
  /\ inbox' = Append(inbox, Plain("PINGRESP"))
  /\ owed' = FALSE
  /\ UNCHANGED <<session, inAge, outAge, pc, msgId, buffer, ack, alive, silence, unheard,
                 gap>>

\* The broker stops answering without closing the connection.
BrokerDies ==
  /\ alive
  /\ alive' = FALSE
  /\ UNCHANGED <<session, inAge, outAge, pc, msgId, buffer, ack, inbox, owed, silence,
                 unheard, gap>>

\* The TCP connection is gone and the WiFiClient has noticed.
ConnectionLost ==
  /\ up /\ pc = "idle"
  /\ up' = FALSE /\ inbox' = <<>> /\ owed' = FALSE
  /\ UNCHANGED <<state, pingOutstanding, nextMsgId, inAge, outAge, pc, msgId, buffer, ack,
                 alive, silence, unheard, gap>>

\* _client->stop().
StopClient == up' = FALSE /\ inbox' = <<>> /\ owed' = FALSE

------------------------------------------------------------------------------
(* connect().                                                              *)

\* The TCP connection fails.
connectFails ==
  /\ pc = "idle" /\ ~up
  /\ state' = "connect_failed"
  /\ UNCHANGED <<up, pingOutstanding, nextMsgId, inAge, outAge, pc, msgId, buffer, ack,
                 broker, silence, unheard, gap>>

\* TCP is up, CONNECT is written; a fresh broker listens at the other end.
connectSends ==
  /\ pc = "idle" /\ ~up
  /\ up' = TRUE /\ nextMsgId' = 1
  /\ state' = IF state = "connected" THEN "connection_lost" ELSE state
  /\ inAge' = 0 /\ outAge' = 0 /\ unheard' = 0 /\ buffer' = 0
  /\ pc' = "connack"
  /\ inbox' = <<>> /\ owed' = FALSE /\ alive' \in BOOLEAN
  /\ UNCHANGED <<pingOutstanding, msgId, ack, silence, gap>>

\* mutant: connect() waits for CONNACK for ever
connectTimeoutNever ==
  /\ pc = "connack" /\ inbox = <<>> /\ inAge >= SocketTimeout
  /\ UNCHANGED vars

\* No CONNACK within socketTimeout.
connectTimeout ==
  /\ pc = "connack" /\ inbox = <<>> /\ inAge >= SocketTimeout
  /\ state' = "connection_timeout"
  /\ pc' = "idle"
  /\ StopClient
  /\ UNCHANGED <<pingOutstanding, nextMsgId, inAge, outAge, msgId, buffer, ack, alive,
                 silence, unheard, gap>>

\* mutant: the flag of the last connection is kept
connectAcceptedKeepsPing ==
  /\ pc = "connack" /\ inbox # <<>> /\ Head(inbox).kind = "CONNACK"
  /\ inbox' = Tail(inbox)
  /\ inAge' = 0 /\ silence' = 0 /\ gap' = 0
  /\ state' = "connected"
  /\ pc' = "idle"
  /\ UNCHANGED <<up, pingOutstanding, nextMsgId, outAge, msgId, buffer, ack, owed, alive,
                 unheard>>

connectAccepted ==
  /\ pc = "connack" /\ inbox # <<>> /\ Head(inbox).kind = "CONNACK"
  /\ inbox' = Tail(inbox)
  /\ inAge' = 0 /\ silence' = 0 /\ gap' = 0
  /\ pingOutstanding' = FALSE /\ state' = "connected"
  /\ pc' = "idle"
  /\ UNCHANGED <<up, nextMsgId, outAge, msgId, buffer, ack, owed, alive, unheard>>

connectRefused ==
  /\ pc = "connack" /\ inbox # <<>> /\ Head(inbox).kind = "REFUSED"
  /\ state' = "refused"
  /\ pc' = "idle"
  /\ StopClient
  /\ UNCHANGED <<pingOutstanding, nextMsgId, inAge, outAge, msgId, buffer, ack, alive,
                 silence, unheard, gap>>

------------------------------------------------------------------------------
(* loop().                                                                 *)

Overdue == inAge > KeepAlive \/ outAge > KeepAlive

\* connected() finds the connection gone.
loopLost ==
  /\ pc = "idle" /\ ~up /\ state = "connected"
  /\ state' = "connection_lost"
  /\ StopClient
  /\ UNCHANGED <<pingOutstanding, nextMsgId, inAge, outAge, pc, msgId, buffer, ack, alive,
                 silence, unheard, gap>>

loopTimeout ==
  /\ pc = "idle" /\ connected /\ Overdue /\ pingOutstanding
  /\ state' = "connection_timeout"
  /\ StopClient
  /\ UNCHANGED <<pingOutstanding, nextMsgId, inAge, outAge, pc, msgId, buffer, ack, alive,
                 silence, unheard, gap>>

\* mutant: only the outgoing side counts
pingDueOut == outAge > KeepAlive

\* PINGREQ is due.
pingDue == Overdue

\* The keepalive part of a loop() that goes on; read is the kind of the packet the same loop() reads, if any.
keepalive(read) ==
  /\ pingDue => ~pingOutstanding
  /\ pingOutstanding' = ((pingOutstanding \/ pingDue) /\ read # "PINGRESP")
  /\ inAge' = IF pingDue \/ read \notin {"none", "TOOBIG"} THEN 0 ELSE inAge
  /\ outAge' = IF pingDue THEN 0 ELSE outAge
  /\ unheard' = IF pingDue \/ read = "PINGREQ" THEN 0 ELSE unheard

\* loop() with nothing to read.
loopIdle ==
  /\ pc = "idle" /\ connected /\ inbox = <<>>
  /\ keepalive("none")
  /\ owed' = (owed \/ pingDue)
  /\ gap' = 0
  /\ UNCHANGED <<state, up, nextMsgId, pc, msgId, buffer, ack, inbox, alive, silence>>

\* loop() that reads one packet; a PUBLISH goes on in the callback, a packet
\* larger than the buffer is ignored.
loopRead ==
  /\ pc = "idle" /\ connected /\ inbox # <<>>
  /\ LET p == Head(inbox) IN
     /\ p.kind # "MALFORMED"
     /\ keepalive(p.kind)
     /\ pc' = IF p.kind = "PUBLISH" THEN "callback" ELSE "idle"
     /\ msgId' = p.id /\ buffer' = p.id
     /\ ack' = IF p.id # 0 THEN [ack EXCEPT !.of = p.id] ELSE ack
     /\ silence' = IF p.kind = "TOOBIG" THEN silence ELSE 0
  /\ owed' = (owed \/ pingDue)
  /\ inbox' = Tail(inbox)
  /\ gap' = 0
  /\ UNCHANGED <<state, up, nextMsgId, alive>>

\* A remaining length of more than four bytes: readPacket() disconnects.
loopMalformed ==
  /\ pc = "idle" /\ connected /\ inbox # <<>> /\ Head(inbox).kind = "MALFORMED"
  /\ keepalive("none")
  /\ state' = "disconnected"
  /\ StopClient
  /\ buffer' = 0
  /\ UNCHANGED <<nextMsgId, pc, msgId, ack, alive, silence, gap>>

\* mutant: the id is taken from the buffer after the callback
callbackReturnsBuffer ==
  /\ pc = "callback"
  /\ ack' = IF msgId # 0 THEN [ack EXCEPT !.sent = buffer] ELSE ack
  /\ outAge' = IF msgId # 0 THEN 0 ELSE outAge
  /\ unheard' = IF msgId # 0 /\ up THEN 0 ELSE unheard
  /\ buffer' = msgId
  /\ pc' = "idle" /\ msgId' = 0
  /\ UNCHANGED <<session, inAge, broker, silence, gap>>

\* The callback returns: QoS 1 is acknowledged with the id saved before it.
callbackReturns ==
  /\ pc = "callback"
  /\ ack' = IF msgId # 0 THEN [ack EXCEPT !.sent = msgId] ELSE ack
  /\ outAge' = IF msgId # 0 THEN 0 ELSE outAge
  /\ unheard' = IF msgId # 0 /\ up THEN 0 ELSE unheard
  /\ buffer' = msgId
  /\ pc' = "idle" /\ msgId' = 0
  /\ UNCHANGED <<session, inAge, broker, silence, gap>>

------------------------------------------------------------------------------
(* Calls of the sketch, from loop() or from the callback.                  *)

InSketch == pc \in {"idle", "callback"}

publish ==
  /\ InSketch /\ connected
  /\ buffer' = 0 /\ outAge' = 0 /\ unheard' = 0
  /\ UNCHANGED <<session, inAge, pc, msgId, ack, broker, silence, gap>>

\* mutant: 0 is not skipped
incrementIdWraps == (nextMsgId + 1) % IdMod

\* nextMsgId++ in subscribe() and unsubscribe(): 0 is not a message id.
incrementId == IF nextMsgId + 1 = IdMod THEN 1 ELSE nextMsgId + 1

subscribe ==
  /\ InSketch /\ connected
  /\ nextMsgId' = incrementId
  /\ buffer' = nextMsgId' /\ outAge' = 0 /\ unheard' = 0
  /\ UNCHANGED <<state, up, pingOutstanding, inAge, pc, msgId, ack, broker, silence, gap>>

disconnect ==
  /\ InSketch
  /\ state' = "disconnected"
  /\ StopClient
  /\ inAge' = 0 /\ outAge' = 0 /\ buffer' = 0
  /\ UNCHANGED <<pingOutstanding, nextMsgId, pc, msgId, ack, alive, silence, unheard, gap>>

------------------------------------------------------------------------------
Packets == {Plain(k) : k \in {"CONNACK", "REFUSED", "SUBACK", "PINGREQ", "TOOBIG", "MALFORMED"}}
             \cup {[kind |-> "PUBLISH", id |-> i] : i \in {0} \cup Ids}

Next ==
  \/ Tick \/ BrokerPingResp \/ BrokerDies \/ ConnectionLost
  \/ \E p \in Packets : BrokerSends(p)
  \/ connectFails \/ connectSends \/ connectTimeout \/ connectAccepted \/ connectRefused
  \/ loopLost \/ loopTimeout \/ loopIdle \/ loopRead \/ loopMalformed
  \/ callbackReturns \/ publish \/ subscribe \/ disconnect

\* Time passes, and a call that can return does.
Fairness ==
  /\ WF_vars(Tick)
  /\ WF_vars(connectTimeout \/ connectAccepted \/ connectRefused)

Spec == Init /\ [][Next]_vars /\ Fairness

------------------------------------------------------------------------------
(* Properties.                                                             *)

\* A message id is never 0, also after 65535 subscriptions; only a client
\* that saw CONNACK is connected.
TypeOK ==
  /\ state \in {"disconnected", "connected", "connection_timeout", "connection_lost",
                "connect_failed", "refused"}
  /\ {up, pingOutstanding, owed, alive} \subseteq BOOLEAN
  /\ nextMsgId \in Ids /\ msgId \in {0} \cup Ids /\ buffer \in {0} \cup Ids
  /\ {inAge, outAge, silence, unheard} \subseteq 0 .. MaxAge
  /\ pc \in {"idle", "connack", "callback"}
  /\ gap \in 0 .. MaxGap
  /\ (pc = "connack") => (up /\ state # "connected")

\* A broker that answers every PINGREQ within a tick is never given up with
\* MQTT_CONNECTION_TIMEOUT by a sketch that keeps calling loop(), through
\* reconnects, traffic in both directions and a backlog of packets.
HealthyBrokerKept ==
  [][ (state = "connected" /\ state' = "connection_timeout") => ~alive ]_vars

\* Neither side outlives the other unnoticed: a broker that has fallen silent
\* is given up after two keepalive intervals, however much the sketch keeps
\* publishing to it, and the broker hears of a connected client once an
\* interval, so it does not drop it after one and a half.
SilenceNoticed ==
  connected => /\ silence <= 2 * (KeepAlive + MaxGap)
               /\ unheard <= KeepAlive + MaxGap

\* When loop() is back from the callback, the last QoS 1 message has been
\* acknowledged, and with its own id, although the callback may have used the
\* shared buffer for packets of its own, subscribed or disconnected.
AckMatches == pc # "callback" => ack.sent = ack.of

\* connect() returns, whatever the broker does.
ConnectReturns == (pc = "connack") ~> (pc = "idle")
===============================================================================
