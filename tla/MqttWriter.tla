------------------------------ MODULE MqttWriter ------------------------------
(***************************************************************************)
(* What PubSubClient writes to the broker once it is connected, byte by    *)
(* byte, and the buffer in which it puts a packet together.  Of a topic or *)
(* payload only the length matters.  The client may take fewer bytes than  *)
(* it is given.  128 and 65536 are parameters, so that packets reach both. *)
(***************************************************************************)
EXTENDS Integers, SequencesExt

CONSTANTS Base,      \* 128: a byte of the length field carries a digit below Base
          Word,      \* 65536: the length of a packet is an uint16_t
          TopicLen,  \* the lengths of topics
          Plength,   \* the lengths of payloads
          Size,      \* the arguments of setBufferSize()
          MaxCalls   \* bound: calls

MAX_HEADER_SIZE == 5

\* What the constants have to be; the module of a run assumes it.
ConstantsOK ==
  /\ Base \in Nat \ {0, 1} /\ Word \in Nat \ {0} /\ Word <= Base * Base * Base * Base
  /\ TopicLen \subseteq Nat /\ Plength \subseteq Nat /\ Size \subseteq 0 .. Word - 1

VARIABLES bufferSize,
          wire,      \* the bytes that the broker has got
          accepted,  \* the lengths of the packets that calls reported as sent
          left,      \* bytes of a beginPublish() that the sketch has still to write
          torn,      \* the client took only a part of a packet
          abused,    \* the sketch did not stream what it announced, or too much
          over,      \* calls that wrote past the end of the buffer
          calls

vars == <<bufferSize, wire, accepted, left, torn, abused, over, calls>>

Init == /\ bufferSize \in Size \ {0}
        /\ wire = <<>> /\ accepted = <<>> /\ left = 0
        /\ torn = FALSE /\ abused = FALSE /\ over = {} /\ calls = 0

------------------------------------------------------------------------------
\* A byte: the first one of a packet, a byte of its length, or any other.
Head1 == <<"head", 0>>
Data(n) == [i \in 1 .. n |-> <<"data", 0>>]

\* The length field: the digits of len, the lowest first, all but the last marked.
digits(len) ==
  LET part[k \in 0 .. len] == IF k = 0 THEN len ELSE part[k - 1] \div Base
      last == Min({k \in 0 .. len : part[k] < Base})
  IN  [k \in 1 .. last + 1 |-> <<"len", IF k <= last THEN (part[k - 1] % Base) + Base ELSE part[k - 1]>>]

\* Mutant: the length field has one byte.
lengthByte(len) == <<<<"len", len % Base>>>>
lengthField(len) == digits(len)

\* buildHeader(): the length is cut to the width of its parameter.
buildHeader(len) == <<Head1>> \o lengthField(len % Word)

\* Bound: what is written after a torn packet is not followed.
called == calls < MaxCalls /\ ~torn /\ calls' = calls + 1

\* The client takes the first rc bytes; the call reports whether it took all.
takes(bytes, rc, len) ==
  /\ wire' = wire \o SubSeq(bytes, 1, rc)
  /\ IF rc = Len(bytes) THEN accepted' = Append(accepted, len) /\ UNCHANGED torn
     ELSE torn' = TRUE /\ UNCHANGED accepted

\* The call used n bytes of the buffer.
uses(op, n) == over' = IF n > bufferSize THEN over \cup {op} ELSE over

\* A packet while another one is being streamed.
interrupts == abused' = (abused \/ left > 0)

write(op, len, n) == /\ \E rc \in 0 .. Len(buildHeader(len)) + len : takes(buildHeader(len) \o Data(len), rc, len)
                     /\ uses(op, n)
                     /\ interrupts
                     /\ UNCHANGED <<bufferSize, left>>

refused == UNCHANGED <<bufferSize, wire, accepted, left, torn, abused, over>>

------------------------------------------------------------------------------
topicLength(tl) == Min({tl, bufferSize})  \* strnlen()

\* Mutant: the room for the header is forgotten.
tooLongWithoutHeader(tl, pl) == bufferSize < 2 + topicLength(tl) + pl
tooLong(tl, pl) == bufferSize < MAX_HEADER_SIZE + 2 + topicLength(tl) + pl

publish(tl, pl) == /\ called
                   /\ IF tooLong(tl, pl) THEN refused
                      ELSE write("publish", 2 + tl + pl, MAX_HEADER_SIZE + 2 + tl + pl)

\* Header and topic in one write, then the payload byte by byte.
publish_P(tl, pl) ==
  /\ called
  /\ LET len == pl + 2 + topicLength(tl)
         first == <<Head1>> \o lengthField(len) \o Data(2 + tl)
         expectedLength == 1 + Len(lengthField(len)) + len IN
     /\ \E rc \in 0 .. Len(first), k \in 0 .. pl :
          /\ wire' = wire \o SubSeq(first, 1, rc) \o Data(k)
          /\ IF rc + k = expectedLength THEN accepted' = Append(accepted, len) /\ UNCHANGED torn
             ELSE torn' = TRUE /\ UNCHANGED accepted
     /\ uses("publish_P", Len(first))
  /\ interrupts
  /\ UNCHANGED <<bufferSize, left>>

\* Header and topic; the sketch writes the payload.
beginPublish(tl, pl) ==
  /\ called
  /\ LET first == buildHeader(2 + tl + pl) \o Data(2 + tl) IN
     /\ \E rc \in 0 .. Len(first) : takes(first, rc, 2 + tl + pl)
     /\ uses("beginPublish", MAX_HEADER_SIZE + 2 + tl)
  /\ interrupts
  /\ left' = pl
  /\ UNCHANGED bufferSize

writePayload(n) == /\ called
                   /\ \E rc \in 0 .. n : wire' = wire \o Data(rc) /\ torn' = (torn \/ rc < n)
                   /\ left' = IF n <= left THEN left - n ELSE 0
                   /\ abused' = (abused \/ n > left)
                   /\ UNCHANGED <<bufferSize, accepted, over>>

\* subscribe() with its qos byte, unsubscribe() without: both check the same.
subscribe(tl) == /\ called
                 /\ IF bufferSize < 9 + topicLength(tl) THEN refused
                    ELSE write("subscribe", 2 + 2 + tl + 1, MAX_HEADER_SIZE + 2 + 2 + tl + 1)
unsubscribe(tl) == /\ called
                   /\ IF bufferSize < 9 + topicLength(tl) THEN refused
                      ELSE write("unsubscribe", 2 + 2 + tl, MAX_HEADER_SIZE + 2 + 2 + tl)

\* realloc() may fail, and the size stays.
setBufferSize(n) == /\ called
                    /\ bufferSize' \in IF n = 0 THEN {bufferSize} ELSE {n, bufferSize}
                    /\ UNCHANGED <<wire, accepted, left, torn, abused, over>>

Next == \/ \E tl \in TopicLen : \/ \E pl \in Plength : publish(tl, pl) \/ publish_P(tl, pl) \/ beginPublish(tl, pl)
                                \/ subscribe(tl) \/ unsubscribe(tl)
        \/ \E n \in Plength : writePayload(n)
        \/ \E n \in Size : setBufferSize(n)
Spec == Init /\ [][Next]_vars

------------------------------------------------------------------------------
\* The broker reads packets off the wire: how many bytes, at most four, the
\* length field of the packet at i has, what it says, and where the packet ends.
fieldLen(w, i) == Min({k \in 1 .. 4 : k = 4 \/ i + k > Len(w) \/ w[i + k][2] < Base})
Weigh(w, i) ==
  LET d(k) == IF k <= fieldLen(w, i) THEN w[i + k][2] % Base ELSE 0
  IN  d(1) + Base * (d(2) + Base * (d(3) + Base * d(4)))
EndOf(w, i) == i + fieldLen(w, i) + Weigh(w, i)

\* A packet that is longer than its length field can say.
TooLong == \E i \in DOMAIN accepted : accepted[i] >= Word

\* The broker finds exactly the packets that the calls reported as sent, each
\* with the length it has, and waits only for the bytes that the sketch has
\* still to stream - as long as the client took all it was given, the sketch
\* streams what it announces, and no length needs more than an uint16_t.
WholePackets ==
  ~torn /\ ~abused /\ ~TooLong =>
    LET start[k \in 0 .. Len(accepted)] == IF k = 0 THEN 1 ELSE EndOf(wire, start[k - 1]) + 1
    IN  /\ \A k \in DOMAIN accepted : start[k - 1] <= Len(wire) /\ Weigh(wire, start[k - 1]) = accepted[k]
        /\ start[Len(accepted)] - 1 = Len(wire) + left

\* publish() and unsubscribe() put no packet together that does not fit into
\* the buffer, whatever setBufferSize() made of it in between.
BufferHolds == over \cap {"publish", "unsubscribe"} = {}

\* The check of subscribe(), commented "Too long": a topic that it lets pass
\* fits into the buffer.
SubscribeFits == "subscribe" \notin over
===============================================================================
