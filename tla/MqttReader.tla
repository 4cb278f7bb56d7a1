------------------------------ MODULE MqttReader ------------------------------
(***************************************************************************)
(* How PubSubClient reads: loop() calls readPacket() when a byte is there, *)
(* which waits up to socketTimeout for each of the others and keeps the    *)
(* packet, as far as it fits, in the buffer.  The broker sends whole       *)
(* packets, the network delivers their bytes in pieces.  128 and the size  *)
(* of the buffer are parameters.                                           *)
(***************************************************************************)
EXTENDS Integers, SequencesExt

CONSTANTS Base,        \* 128
          BufferSize,
          Topic,       \* the lengths of the topics of publications
          Payload,     \* the lengths of payloads, and of packets without a topic
          MaxPackets   \* bound: packets that the broker sends

\* The packets of the broker: publications, and packets without a topic.
Packet == [publish : {TRUE}, qos : {0, 1}, topic : Topic, payload : Payload]
          \cup [publish : {FALSE}, qos : {0}, topic : {0}, payload : Payload]

id(p) == IF p.publish /\ p.qos = 1 THEN 2 ELSE 0
Length(p) == IF p.publish THEN 2 + p.topic + id(p) + p.payload ELSE p.payload

\* What the constants have to be; the module of a run assumes it.  The length of
\* an MQTT packet has at most four digits.
ConstantsOK ==
  /\ Base \in Nat \ {0, 1} /\ BufferSize \in Nat \ (0 .. 6) /\ MaxPackets \in Nat
  /\ Topic \subseteq 0 .. Base - 1 /\ Payload \subseteq Nat
  /\ \A p \in Packet : Length(p) < Base * Base * Base * Base

VARIABLES hasStream, \* setStream() was called: payloads go to a Stream
          coming,    \* bytes that the broker has sent and the network still has
          available, \* bytes that have arrived
          sent,      \* packets that the broker has sent
          rd,        \* the variables of readPacket()
          packet,    \* how many packets it has begun to read
          took,      \* bytes that this call of readPacket() has taken
          stream,    \* bytes that it wrote to the Stream
          ret,       \* what it returned
          stalled    \* a call gave up inside a packet

vars == <<hasStream, coming, available, sent, rd, packet, took, stream, ret, stalled>>

------------------------------------------------------------------------------
(* External: the broker and the network.                                   *)

\* A byte: <<is it the first of its packet, is it payload, value>>.  The value of
\* a topic or payload byte is that of a continued length, the worst to misread.
digits(n) ==
  LET part[k \in 0 .. n] == IF k = 0 THEN n ELSE part[k - 1] \div Base
      last == Min({k \in 0 .. n : part[k] < Base})
  IN  [k \in 1 .. last + 1 |-> IF k <= last THEN (part[k - 1] % Base) + Base ELSE part[k - 1]]
Plain(n, pay) == [i \in 1 .. n |-> <<"in", pay, Base>>]
Bytes(p) ==
  <<<<"first", FALSE, IF p.publish THEN p.qos ELSE -1>>>>
  \o [i \in 1 .. Len(digits(Length(p))) |-> <<"in", FALSE, digits(Length(p))[i]>>]
  \o IF p.publish THEN <<<<"in", FALSE, 0>>, <<"in", FALSE, p.topic>>>> \o Plain(p.topic + id(p), FALSE) \o Plain(p.payload, TRUE)
     ELSE Plain(p.payload, FALSE)

Idle == [pc |-> "idle", publish |-> FALSE, qos |-> 0, len |-> 0, length |-> 0, multiplier |-> 1,
         llen |-> 0, skip |-> 0, i |-> 0, idx |-> 0]
Init == /\ hasStream \in BOOLEAN
        /\ coming = <<>> /\ available = <<>> /\ sent = <<>>
        /\ rd = Idle /\ packet = 0 /\ took = <<>> /\ stream = 0 /\ ret = -1 /\ stalled = FALSE

BrokerSends(p) == /\ Len(sent) < MaxPackets
                  /\ sent' = Append(sent, p)
                  /\ coming' = coming \o Bytes(p)
                  /\ UNCHANGED <<hasStream, available, rd, packet, took, stream, ret, stalled>>

Deliver == \E n \in DOMAIN coming :
             /\ available' = available \o SubSeq(coming, 1, n)
             /\ coming' = SubSeq(coming, n + 1, Len(coming))
             /\ UNCHANGED <<hasStream, sent, rd, packet, took, stream, ret, stalled>>

------------------------------------------------------------------------------
(* readPacket().                                                           *)

\* readByte(): the byte, and what it does to the variables.
readByte(next) == /\ available # <<>>
                  /\ rd' = next
                  /\ took' = Append(took, Head(available))
                  /\ available' = Tail(available)
                  /\ UNCHANGED <<hasStream, coming, sent, stalled>>
value == Head(available)[3]

loop == /\ rd.pc = "idle" /\ available # <<>>
        /\ rd' = [Idle EXCEPT !.pc = "header"]
        /\ packet' = packet + 1 /\ took' = <<>> /\ stream' = 0 /\ ret' = -1
        /\ UNCHANGED <<hasStream, coming, available, sent, stalled>>

header == /\ rd.pc = "header"
          /\ readByte([rd EXCEPT !.pc = "length", !.publish = value \in {0, 1}, !.qos = value, !.len = 1])
          /\ UNCHANGED <<packet, stream, ret>>

returns(n) == ret' = n

\* After the length: the topic length of a PUBLISH, then the rest.
rest(r) == IF r.i < r.length THEN [r EXCEPT !.pc = "rest"] ELSE [r EXCEPT !.pc = "end"]
afterLength(r) == IF r.publish THEN [r EXCEPT !.pc = "topic1"] ELSE rest([r EXCEPT !.idx = r.len])

lengthByte ==
  /\ rd.pc = "length" /\ rd.len < 5 /\ available # <<>>
  /\ LET r == [rd EXCEPT !.len = @ + 1, !.length = @ + (value % Base) * rd.multiplier,
                         !.multiplier = @ * Base, !.llen = rd.len] IN
     readByte(IF value >= Base THEN r ELSE afterLength(r))
  /\ UNCHANGED <<packet, stream, ret>>

\* Invalid remaining length encoding: the connection is killed.
malformed == /\ rd.pc = "length" /\ rd.len = 5
             /\ rd' = [Idle EXCEPT !.pc = "dead"]
             /\ returns(0) /\ coming' = <<>> /\ available' = <<>>
             /\ UNCHANGED <<hasStream, sent, packet, took, stream, stalled>>

topicByte ==
  /\ rd.pc \in {"topic1", "topic2"} /\ available # <<>>
  /\ readByte(IF rd.pc = "topic1" THEN [rd EXCEPT !.pc = "topic2", !.len = @ + 1]
              ELSE rest([rd EXCEPT !.len = @ + 1, !.skip = value + IF rd.qos = 1 THEN 2 ELSE 0,
                                   !.i = 2, !.idx = rd.len + 1]))
  /\ UNCHANGED <<packet, stream, ret>>

\* Mutant: the message ID counts as payload.
inPayloadWithId == rd.publish /\ rd.idx - rd.llen - 2 > rd.skip - (IF rd.qos = 1 THEN 2 ELSE 0)
inPayload == rd.publish /\ rd.idx - rd.llen - 2 > rd.skip

\* Mutant: the rest of a packet that does not fit is left to the next call.
stopsWhenFull == rd.i + 1 < rd.length /\ rd.len + 1 < BufferSize
moreToRead == rd.i + 1 < rd.length

restByte ==
  /\ rd.pc = "rest" /\ available # <<>>
  /\ stream' = IF hasStream /\ inPayload THEN stream + 1 ELSE stream
  /\ readByte([rd EXCEPT !.len = IF @ < BufferSize THEN @ + 1 ELSE @, !.idx = @ + 1, !.i = @ + 1,
                         !.pc = IF moreToRead THEN @ ELSE "end"])
  /\ UNCHANGED <<packet, ret>>

\* A packet that does not fit is ignored.
readEnd == /\ rd.pc = "end"
           /\ returns(IF ~hasStream /\ rd.idx > BufferSize THEN 0 ELSE rd.len)
           /\ rd' = [rd EXCEPT !.pc = "idle"]
           /\ UNCHANGED <<hasStream, coming, available, sent, packet, took, stream, stalled>>

\* readByte() gives up after socketTimeout: loop() goes on as if nothing was.
timeout == /\ rd.pc \in {"header", "length", "topic1", "topic2", "rest"} /\ available = <<>>
           /\ ~(rd.pc = "length" /\ rd.len = 5)
           /\ rd' = Idle /\ returns(0)
           /\ stalled' = TRUE
           /\ UNCHANGED <<hasStream, coming, available, sent, packet, took, stream>>

Next == \/ \E p \in Packet : BrokerSends(p)
        \/ Deliver \/ loop \/ header \/ lengthByte \/ malformed \/ topicByte \/ restByte \/ readEnd \/ timeout
Spec == Init /\ [][Next]_vars

------------------------------------------------------------------------------
\* loop() begins a packet where the broker began one: readPacket() has taken
\* each packet to its end, those too long for the buffer too, unless a call
\* gave up inside one.
StaysAligned == ~stalled /\ took # <<>> => took[1][1] = "first" /\ \A i \in 2 .. Len(took) : took[i][1] = "in"

\* What readPacket() has of a packet when it returns: the whole of it, 0 if it
\* is ignored, and its payload, no more and no less, in the Stream.
PacketIsWhole ==
  ~stalled /\ rd.pc = "idle" /\ packet > 0 /\ ret # -1 =>
    LET p == sent[packet] IN
    /\ took = Bytes(p)
    /\ ret = IF Len(took) <= BufferSize THEN Len(took) ELSE IF hasStream THEN BufferSize ELSE 0
    /\ hasStream /\ p.publish => stream = p.payload
===============================================================================
