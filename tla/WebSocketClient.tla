--------------------------- MODULE WebSocketClient ---------------------------
(***************************************************************************)
(* WebSocketClient: the messages that the sketch sends and the frames that *)
(* parseMessage() takes from the stream, on a connection that the request  *)
(* of begin() (WsHttpClient) has upgraded.                                 *)
(*                                                                         *)
(* A frame arrives as tokens: the byte with opcode and FIN, the byte with  *)
(* the length, an extended length, a mask, the bytes of the payload with   *)
(* their position modulo the four bytes of the mask.                       *)
(***************************************************************************)
EXTENDS Integers, Sequences, FiniteSets

CONSTANTS Frame,        \* the frames the server sends
          TxBufferSize, \* sizeof(iTxBuffer), 128 in the code
          TxSizeWidth,  \* sizeof(iTxSize), 8 in the code
          WriteSize,    \* sizes of the sketch's writes and reads
          MaxFrames, MaxMessages  \* bounds: frames received, messages begun

\* What the constants have to be; the module of a run assumes it.
ConstantsOK ==
  /\ \A f \in Frame :
       /\ f.type \in {"text", "continuation", "ping", "pong", "close"}
       /\ f.final \in BOOLEAN /\ f.long \in BOOLEAN /\ f.masked \in BOOLEAN /\ f.size \in Nat
  /\ TxSizeWidth \in Nat /\ TxBufferSize \in Nat /\ TxSizeWidth < TxBufferSize
  /\ WriteSize \subseteq Nat /\ MaxFrames \in Nat /\ MaxMessages \in Nat

VARIABLES
  up,           \* iState >= eReadingBody: begin() has brought the client to the body
  conn,         \* the connection is open
  rx, wire,     \* tokens received and not read; sent and not received
  iTxStarted, iTxType,
  txBuf,        \* iTxBuffer up to iTxSize: who wrote each byte
  iRxOp, iRxFinal, iRxSize, iRxMasked, iRxMaskIndex,
  fragment,     \* history: the type of the message of which fragments are to come, or "none"
  pc,           \* where parseMessage() is, "idle" outside
  payload,      \* history: bytes of the ping being answered
  accepted,     \* history: bytes that write() has taken of the open message
  sent,         \* the last message sent: its type, and whether it is what it should be
  decoded,      \* whether what read() handed out last was unmasked with its own byte
  overrun,      \* a write() went past iTxBuffer: nothing is said of what follows
  frames, messages, excuse \* history: frames, messages; what spoils the stream

tx == <<iTxStarted, iTxType, txBuf, accepted, sent, overrun, messages>>
rxState == <<iRxOp, iRxFinal, iRxSize, iRxMasked, iRxMaskIndex, fragment>>
vars == <<up, conn, rx, wire, tx, rxState, pc, payload, decoded, frames, excuse>>

\* A size beyond all frames: what reads of an empty socket (-1) make of it, and
\* what is left when more is taken from an unsigned iRxSize than it holds.
Garbled == 1000
Nothing == [type |-> "none", intact |-> TRUE]

Init ==
  /\ up = FALSE /\ conn = FALSE /\ rx = <<>> /\ wire = <<>>
  /\ iTxStarted = FALSE /\ iTxType = "text" /\ txBuf = <<>>
  /\ iRxOp = "text" /\ iRxFinal = TRUE /\ iRxSize = 0 /\ iRxMasked = FALSE /\ iRxMaskIndex = 0 /\ fragment = "none"
  /\ pc = "idle" /\ payload = 0 /\ accepted = 0 /\ sent = Nothing /\ decoded = TRUE
  /\ overrun = FALSE /\ frames = 0 /\ messages = 0 /\ excuse = {}

TypeOK ==
  /\ up \in BOOLEAN /\ conn \in BOOLEAN /\ iTxStarted \in BOOLEAN /\ overrun \in BOOLEAN
  /\ (~overrun => Len(txBuf) <= TxBufferSize) /\ iRxSize \in Nat /\ iRxMaskIndex \in 0 .. 3
  /\ pc \in {"idle", "flush", "head", "close", "pong", "skip"}
  /\ excuse \subseteq {"astray", "between", "starved", "mixed", "short"}

------------------------------------------------------------------------------
(* The server.                                                             *)

Token(kind, val) == [k |-> kind, v |-> val]
Tokens(f) ==
  <<Token("op", [type |-> f.type, final |-> f.final]),
    Token("size", [long |-> f.long, masked |-> f.masked, size |-> f.size])>>
  \o (IF f.long THEN <<Token("long", f.size)>> ELSE <<>>)
  \o (IF f.masked THEN <<Token("mask", 0)>> ELSE <<>>)
  \o [i \in 1 .. f.size |-> Token("data", (i - 1) % 4)]

ServerSend ==
  /\ conn /\ up /\ wire = <<>> /\ frames < MaxFrames
  /\ \E f \in Frame : wire' = Tokens(f)
  /\ frames' = frames + 1
  /\ UNCHANGED <<up, conn, rx, tx, rxState, pc, payload, decoded, excuse>>

Deliver ==
  /\ wire # <<>> /\ rx' = Append(rx, Head(wire)) /\ wire' = Tail(wire)
  /\ UNCHANGED <<up, conn, tx, rxState, pc, payload, decoded, frames, excuse>>

Lost ==
  /\ conn /\ conn' = FALSE /\ wire' = <<>>
  /\ UNCHANGED <<up, rx, tx, rxState, pc, payload, decoded, frames, excuse>>

------------------------------------------------------------------------------
(* begin() and stop().                                                     *)

Idle == pc = "idle" /\ ~overrun

\* mutant: the rest of the old connection's frame is still expected
sizeKept == iRxSize

sizeAtBegin == 0

\* ok: the response's headers were read to their end.  A client that takes its
\* connection for open, as WiFiClient does until it notices that it was lost,
\* sends the request there: if frames have been exchanged on it the server
\* has no answer to that, and some of what comes is read for a status line.
begin(ok) ==
  /\ Idle /\ iRxSize' = sizeAtBegin /\ fragment' = "none" /\ decoded' = TRUE /\ sent' = Nothing
  /\ \/ /\ conn => ~up /\ "astray" \notin excuse
        /\ up' = ok /\ conn' = TRUE /\ rx' = <<>> /\ wire' = <<>>
        /\ excuse' = excuse \cap {"mixed"}
     \/ /\ ~ok /\ up' = FALSE /\ UNCHANGED <<conn, wire>>
        /\ \E c \in 0 .. Len(rx) : rx' = SubSeq(rx, c + 1, Len(rx))
        /\ excuse' = (excuse \cap {"mixed"}) \cup {"astray"}
  /\ UNCHANGED <<iTxStarted, iTxType, txBuf, accepted, overrun, messages, iRxOp, iRxFinal,
                 iRxMasked, iRxMaskIndex, pc, payload, frames>>

disconnect == up' = FALSE /\ conn' = FALSE /\ rx' = <<>> /\ wire' = <<>>

stop ==
  /\ Idle /\ (up \/ conn) /\ disconnect
  /\ UNCHANGED <<tx, rxState, pc, payload, decoded, frames, excuse>>

------------------------------------------------------------------------------
(* Messages to the server.                                                 *)

start(type) ==
  IF iTxStarted THEN UNCHANGED <<iTxStarted, iTxType, txBuf, accepted>>
  ELSE iTxStarted' = TRUE /\ iTxType' = type /\ txBuf' = <<>> /\ accepted' = 0

beginMessage ==
  /\ Idle /\ up /\ ~iTxStarted /\ messages < MaxMessages
  /\ start("text") /\ messages' = messages + 1 /\ sent' = Nothing
  /\ excuse' = excuse \ {"mixed"}
  /\ UNCHANGED <<up, conn, rx, wire, rxState, pc, payload, decoded, overrun, frames>>

\* The bytes that write() takes of k: the truncation is reckoned from the size
\* of iTxSize, and below zero it wraps.
taken(k) == IF Len(txBuf) + k > TxBufferSize THEN TxSizeWidth - Len(txBuf) ELSE k

copy(k, who) ==
  IF ~iTxStarted THEN UNCHANGED <<txBuf, overrun>>
  ELSE IF taken(k) < 0 THEN overrun' = TRUE /\ UNCHANGED txBuf
  ELSE txBuf' = txBuf \o [i \in 1 .. taken(k) |-> who] /\ UNCHANGED overrun

write(k) ==
  /\ Idle /\ up /\ copy(k, "user")
  /\ accepted' = IF iTxStarted /\ taken(k) >= 0 THEN accepted + taken(k) ELSE accepted
  /\ UNCHANGED <<up, conn, rx, wire, iTxStarted, iTxType, sent, messages, rxState, pc, payload,
                 decoded, frames, excuse>>

Only(who, k) == Len(txBuf) = k /\ \A i \in DOMAIN txBuf : txBuf[i] = who

\* The frame is sent and the message is over.
emit(good) ==
  /\ sent' = [type |-> iTxType, intact |-> good]
  /\ iTxStarted' = FALSE /\ txBuf' = <<>> /\ accepted' = 0 /\ UNCHANGED iTxType

endMessage ==
  /\ Idle /\ iTxStarted /\ emit(Only("user", accepted))
  /\ UNCHANGED <<up, conn, rx, wire, overrun, messages, rxState, pc, payload, decoded, frames, excuse>>

\* ping() adds its bytes to a message that is open, and sends it.
ping(k) ==
  /\ Idle /\ up /\ messages < MaxMessages /\ messages' = messages + 1
  /\ LET size == (IF iTxStarted THEN Len(txBuf) ELSE 0) + k IN
       /\ size <= TxBufferSize  \* bound: a ping() that does not fit is write()'s case
       /\ sent' = [type |-> IF iTxStarted THEN iTxType ELSE "ping", intact |-> ~iTxStarted]
  /\ excuse' = IF iTxStarted THEN excuse \cup {"mixed"} ELSE excuse \ {"mixed"}
  /\ iTxStarted' = FALSE /\ txBuf' = <<>> /\ accepted' = 0
  /\ UNCHANGED <<up, conn, rx, wire, iTxType, overrun, rxState, pc, payload, decoded, frames>>

------------------------------------------------------------------------------
(* Frames from the server.                                                 *)

\* read(buf, k) takes what is there, of this frame or behind it, and turns the
\* mask by k; what it takes is counted off iRxSize, below zero too.
read(k) ==
  LET c == IF k < Len(rx) THEN k ELSE Len(rx) IN
  /\ Idle /\ up /\ c > 0
  /\ rx' = SubSeq(rx, c + 1, Len(rx)) /\ iRxSize' = IF c <= iRxSize THEN iRxSize - c ELSE Garbled
  /\ iRxMaskIndex' = IF iRxMasked THEN (iRxMaskIndex + k) % 4 ELSE iRxMaskIndex
  /\ decoded' = (iRxMasked => \A i \in 1 .. c : rx[i].k = "data" /\ rx[i].v = (iRxMaskIndex + i - 1) % 4)
  /\ excuse' = excuse \cup (IF iRxMasked /\ c < k THEN {"short"} ELSE {})
                       \cup (IF c > iRxSize THEN {"astray"} ELSE {})
  /\ UNCHANGED <<up, conn, wire, tx, iRxOp, iRxFinal, fragment, iRxMasked, pc, payload, frames>>

parseMessage ==
  /\ Idle /\ up /\ pc' = "flush" /\ decoded' = TRUE
  /\ UNCHANGED <<up, conn, rx, wire, tx, rxState, payload, frames, excuse>>

\* flushRx() reads until the frame is over, and spins while nothing is there.
flushByte(at, next) ==
  /\ pc = at /\ ~overrun
  /\ IF iRxSize = 0 THEN pc' = next /\ UNCHANGED <<rx, iRxSize>>
     ELSE rx # <<>> /\ rx' = Tail(rx) /\ iRxSize' = iRxSize - 1 /\ UNCHANGED pc
  /\ UNCHANGED <<up, conn, wire, tx, iRxOp, iRxFinal, fragment, iRxMasked, iRxMaskIndex, payload, decoded,
                 frames, excuse>>

flushOld == flushByte("flush", "head")
flushPong == flushByte("skip", "idle")

headThere == Len(rx) >= 2

noMessage ==
  /\ pc = "head" /\ ~headThere /\ pc' = "idle"
  /\ UNCHANGED <<up, conn, rx, wire, tx, rxState, payload, decoded, frames, excuse>>

\* The opcode of a continuation leaves the type and adds its FIN.
opcode(o) ==
  IF o.type = "continuation" THEN iRxFinal' = (iRxFinal \/ o.final) /\ UNCHANGED iRxOp
  ELSE iRxOp' = o.type /\ iRxFinal' = o.final

\* History: which message the fragments to come belong to, and whether a control
\* frame came between them.
fragmentAfter(o) ==
  CASE o.type = "continuation" -> IF o.final THEN "none" ELSE fragment
    [] o.type = "text" -> IF o.final THEN "none" ELSE o.type
    [] OTHER -> fragment
between(o) ==
  CASE o.type = "text" -> {} [] o.type = "continuation" -> excuse \cap {"between"}
    [] OTHER -> IF fragment # "none" THEN {"between"} ELSE excuse \cap {"between"}

handler(type) ==
  CASE type = "close" -> "close" [] type = "ping" -> "pong" [] type = "pong" -> "skip"
    [] OTHER -> "idle"

\* mutant: the place in the mask is the last frame's
maskKept == iRxMaskIndex

maskAtHead == 0

\* A header is read without a look at what is there after its first two bytes.
\* bound: a stream that has lost its frames is not followed.
readHead ==
  /\ pc = "head" /\ headThere /\ excuse \cap {"astray"} = {}
  /\ LET aligned == rx[1].k = "op" /\ rx[2].k = "size"
         h == rx[2].v
         need == IF aligned THEN 2 + (IF h.long THEN 1 ELSE 0) + (IF h.masked THEN 1 ELSE 0) ELSE 2
         whole == Len(rx) >= need IN
     /\ aligned
     /\ opcode(rx[1].v)
     /\ iRxMasked' = h.masked /\ iRxMaskIndex' = maskAtHead
     /\ iRxSize' = IF h.long /\ Len(rx) < 3 THEN Garbled ELSE h.size
     /\ rx' = IF whole THEN SubSeq(rx, need + 1, Len(rx)) ELSE <<>>
     /\ excuse' = (excuse \ {"short", "between"}) \cup between(rx[1].v) \cup (IF whole THEN {} ELSE {"astray"})
     /\ fragment' = fragmentAfter(rx[1].v)
     /\ pc' = handler(IF rx[1].v.type = "continuation" THEN iRxOp ELSE rx[1].v.type)
     /\ IF pc' = "pong" THEN start("pong") ELSE UNCHANGED <<iTxStarted, iTxType, txBuf, accepted>>
     /\ payload' = IF pc' = "pong" THEN h.size ELSE 0
     /\ sent' = Nothing
  /\ UNCHANGED <<up, conn, wire, overrun, messages, decoded, frames>>

\* A pong that finds a message open is added to that message.
closeFrame ==
  /\ pc = "close"
  /\ IF iRxSize = 0
     THEN disconnect /\ pc' = "idle" /\ UNCHANGED iRxSize
     ELSE /\ rx # <<>> /\ rx' = Tail(rx) /\ iRxSize' = iRxSize - 1
          /\ UNCHANGED <<up, conn, wire, pc>>
  /\ UNCHANGED <<tx, iRxOp, iRxFinal, fragment, iRxMasked, iRxMaskIndex, payload, decoded, frames, excuse>>

\* mutant: the last byte of the payload is not sent back
echoesShort(left) == left > 1

echoes(left) == left > 0

\* while (available()) write(read()): an empty socket gives the byte 0xff.
pongByte ==
  /\ pc = "pong" /\ echoes(iRxSize) /\ ~overrun
  /\ IF rx = <<>>
     THEN /\ copy(1, "junk") /\ excuse' = excuse \cup {"starved"} /\ UNCHANGED <<rx, iRxSize>>
     ELSE /\ copy(1, "ping") /\ rx' = Tail(rx) /\ iRxSize' = iRxSize - 1 /\ UNCHANGED excuse
  /\ UNCHANGED <<up, conn, wire, iTxStarted, iTxType, accepted, sent, messages, iRxOp, iRxFinal, fragment,
                 iRxMasked, iRxMaskIndex, pc, payload, decoded, frames>>

pongSend ==
  /\ pc = "pong" /\ ~echoes(iRxSize) /\ ~overrun
  /\ emit(iTxType = "pong" /\ Only("ping", payload))
  /\ iRxSize' = 0 /\ pc' = "idle" /\ payload' = 0
  /\ excuse' = IF iTxType # "pong" THEN excuse \cup {"mixed"} ELSE excuse
  /\ UNCHANGED <<up, conn, rx, wire, overrun, messages, iRxOp, iRxFinal, fragment, iRxMasked, iRxMaskIndex,
                 decoded, frames>>

------------------------------------------------------------------------------
User ==
  \/ \E ok \in BOOLEAN : begin(ok)
  \/ stop \/ beginMessage \/ endMessage \/ parseMessage
  \/ \E k \in WriteSize : write(k) \/ ping(k) \/ read(k)

Step == flushOld \/ noMessage \/ readHead \/ closeFrame \/ pongByte \/ pongSend \/ flushPong

Next == User \/ Step \/ ServerSend \/ Deliver \/ Lost

Spec == Init /\ [][Next]_vars /\ WF_vars(Step) /\ WF_vars(Deliver)

------------------------------------------------------------------------------
\* Whenever parseMessage() starts on a header, a header is what comes next,
\* after any mix of reads, skipped messages, pings and reconnections.  Excepted
\* are a header that arrived in pieces, a read() past the end of the frame and
\* a begin() on the connection of the frames: "astray" until the next one.
FramesAligned ==
  pc = "head" /\ excuse \cap {"astray"} = {} /\ rx # <<>> => Head(rx).k = "op"

\* A message holds what write() took for it, and a pong the payload of its
\* ping.  Excepted are a pong or ping() while a message is open, and a payload
\* that was not there in full.
MessageIntact == excuse \cap {"mixed", "starved", "astray"} = {} => sent.intact

\* A byte of a masked frame is unmasked with its own byte of the key, unless a
\* read(buf, size) came up short in this frame.
UnmaskedInStep == excuse \cap {"short", "astray"} = {} => decoded

\* Between the fragments of a message messageType() is the message's, so that
\* the next of them goes to the sketch.  Excepted is a control frame between
\* two fragments, after which the second is taken for one, too.
FragmentsKept == fragment # "none" /\ excuse \cap {"between", "astray"} = {} => iRxOp = fragment

\* WebSocketClient starts each parseMessage() on the header of a frame,
\* unmasks each byte with its own byte of the key, sends messages and pongs as
\* they were written and keeps the type of a message over its fragments.
FramesIntact == FramesAligned /\ MessageIntact /\ UnmaskedInStep /\ FragmentsKept

\* write() never goes past iTxBuffer.
TxFits == ~overrun
=============================================================================
