------------------------------ MODULE WiFiStream ------------------------------
(***************************************************************************)
(* The data path of one connected WiFiClient: write() with its retry loop, *)
(* the blocking read(), available(), and Stream::timedRead() on top of     *)
(* read(), against lwIP's buffers and a peer that sends, stops taking      *)
(* data, closes or resets.                                                 *)
(***************************************************************************)
EXTENDS Naturals

CONSTANTS Retries,   \* the 10 attempts of write()
          MaxSize,   \* bound: bytes of one write()
          MaxSent,   \* bound: bytes the peer sends
          MaxCalls,  \* bound: calls of write()
          Fionread,  \* does lwIP implement FIONREAD?
          Accepted,  \* did the socket come from WiFiServer, not connect()?
          PeerResets \* may the peer reset the connection?

\* What the constants have to be; the module of a run assumes it.
ConstantsOK ==
  /\ {Retries, MaxSize, MaxSent, MaxCalls} \subseteq Nat
  /\ {Fionread, Accepted, PeerResets} \subseteq BOOLEAN

VARIABLES
  connected,   \* _connected and _fd >= 0
  pc,          \* the call in progress: "idle", "write", "read" or "timedRead"
  size, sent_total, retries,  \* of write()
  result,      \* what the last write() returned
  expired,     \* millis() - _startMillis >= _timeout in timedRead()
  calls,       \* calls of write() so far
  rcv,         \* lwIP: bytes received and not yet read
  taken,       \* lwIP: bytes taken from the current write()
  got, peerSent,  \* bytes read so far; bytes the peer has sent
  peer         \* "open", "closed" or "reset"

writeVars == <<size, sent_total, retries, result, calls, taken>>
vars == <<connected, pc, writeVars, expired, rcv, got, peerSent, peer>>

Init ==
  /\ connected = TRUE /\ pc = "idle"
  /\ size = 0 /\ sent_total = 0 /\ retries = 0 /\ result = 0 /\ calls = 0 /\ taken = 0
  /\ expired = FALSE
  /\ rcv = 0 /\ got = 0 /\ peerSent = 0 /\ peer = "open"

\* connect() sets SO_RCVTIMEO and SO_SNDTIMEO; an accepted socket has neither
\* and blocks.
HasTimeout == ~Accepted

------------------------------------------------------------------------------
(* The peer.                                                               *)

PeerSends ==
  /\ peer = "open" /\ connected /\ peerSent < MaxSent
  /\ peerSent' = peerSent + 1
  /\ rcv' = rcv + 1
  /\ UNCHANGED <<connected, pc, writeVars, expired, got, peer>>

PeerCloses ==
  /\ peer = "open"
  /\ peer' = "closed"
  /\ UNCHANGED <<connected, pc, writeVars, expired, rcv, got, peerSent>>

PeerBreaks ==
  /\ PeerResets /\ peer = "open"
  /\ peer' = "reset"
  /\ rcv' = 0
  /\ UNCHANGED <<connected, pc, writeVars, expired, got, peerSent>>

------------------------------------------------------------------------------
(* write().                                                                *)

writeBegin(n) ==
  /\ pc = "idle" /\ connected /\ calls < MaxCalls
  /\ pc' = "write" /\ calls' = calls + 1
  /\ size' = n /\ sent_total' = 0 /\ taken' = 0 /\ retries' = Retries
  /\ UNCHANGED <<connected, result, expired, rcv, got, peerSent, peer>>

Sending == pc = "write" /\ sent_total < size /\ retries > 0

\* mutant: every attempt offers the whole size again
sendSomeWhole(n) ==
  /\ Sending /\ peer # "reset" /\ n <= size
  /\ taken' = taken + n
  /\ sent_total' = sent_total + n
  /\ retries' = Retries
  /\ UNCHANGED <<connected, pc, size, result, calls, expired, rcv, got, peerSent, peer>>

\* lwip_send() takes n bytes.
sendSome(n) ==
  /\ Sending /\ peer # "reset" /\ n <= size - sent_total
  /\ taken' = taken + n
  /\ sent_total' = sent_total + n
  /\ retries' = Retries
  /\ UNCHANGED <<connected, pc, size, result, calls, expired, rcv, got, peerSent, peer>>

\* SO_SNDTIMEO ran out: EAGAIN.
sendAgain ==
  /\ Sending /\ HasTimeout /\ peer # "reset"
  /\ retries' = retries - 1
  /\ UNCHANGED <<connected, pc, size, sent_total, result, calls, taken, expired, rcv, got,
                 peerSent, peer>>

\* Any other error: stop() and return.
sendError ==
  /\ Sending /\ peer = "reset"
  /\ pc' = "idle" /\ connected' = FALSE /\ rcv' = 0
  /\ result' = sent_total
  /\ UNCHANGED <<size, sent_total, retries, calls, taken, expired, got, peerSent, peer>>

\* mutant: the loop ends with the whole size reported
writeEndWhole ==
  /\ pc = "write" /\ ~Sending
  /\ pc' = "idle"
  /\ result' = size
  /\ connected' = (sent_total # 0)
  /\ rcv' = IF sent_total = 0 THEN 0 ELSE rcv
  /\ UNCHANGED <<size, sent_total, retries, calls, taken, expired, got, peerSent, peer>>

\* The loop ends; stop() when nothing was sent at all.
writeEnd ==
  /\ pc = "write" /\ ~Sending
  /\ pc' = "idle"
  /\ result' = sent_total
  /\ connected' = (sent_total # 0)
  /\ rcv' = IF sent_total = 0 THEN 0 ELSE rcv
  /\ UNCHANGED <<size, sent_total, retries, calls, taken, expired, got, peerSent, peer>>

------------------------------------------------------------------------------
(* read(), timedRead() and available().                                    *)

readBegin(call) ==
  /\ pc = "idle" /\ connected
  /\ pc' = call /\ expired' = FALSE
  /\ UNCHANGED <<connected, writeVars, rcv, got, peerSent, peer>>

Reading == pc \in {"read", "timedRead"} /\ connected

\* mutant: timedRead() waits for a byte whatever the time
AfterNothingForever == IF pc = "timedRead" THEN "timedRead" ELSE "idle"

\* read() returned no byte: timedRead() calls it again until its time is up.
AfterNothing == IF pc = "timedRead" /\ ~expired THEN "timedRead" ELSE "idle"

readByte ==
  /\ Reading /\ rcv > 0
  /\ rcv' = rcv - 1 /\ got' = got + 1
  /\ pc' = "idle"
  /\ UNCHANGED <<connected, writeVars, expired, peerSent, peer>>

\* SO_RCVTIMEO ran out: EAGAIN, the connection stays.
readTimeout ==
  /\ Reading /\ HasTimeout /\ rcv = 0 /\ peer = "open"
  /\ pc' = AfterNothing
  /\ UNCHANGED <<connected, writeVars, expired, rcv, got, peerSent, peer>>

\* End of stream, or an error: stop().
readClosed ==
  /\ Reading /\ rcv = 0 /\ peer # "open"
  /\ connected' = FALSE
  /\ pc' = AfterNothing
  /\ UNCHANGED <<writeVars, expired, rcv, got, peerSent, peer>>

\* read() on the stopped object returns at once.
readStopped ==
  /\ pc = "timedRead" /\ ~connected
  /\ expired
  /\ pc' = "idle"
  /\ UNCHANGED <<connected, writeVars, expired, rcv, got, peerSent, peer>>

\* millis() passes timedRead()'s deadline.
TimePasses ==
  /\ pc = "timedRead" /\ ~expired
  /\ expired' = TRUE
  /\ UNCHANGED <<connected, pc, writeVars, rcv, got, peerSent, peer>>

\* mutant: the byte looked at is consumed
availableConsumes ==
  /\ pc = "idle" /\ connected /\ rcv > 0
  /\ rcv' = rcv - 1
  /\ UNCHANGED <<connected, pc, writeVars, expired, got, peerSent, peer>>

\* available() with bytes there, or none yet: FIONREAD or MSG_PEEK.
availableLooks ==
  /\ pc = "idle" /\ connected
  /\ rcv > 0 \/ Fionread \/ peer # "closed"
  /\ UNCHANGED vars

\* mutant: the end of the stream is taken for "nothing yet"
availableClosedIgnored ==
  /\ pc = "idle" /\ connected /\ rcv = 0
  /\ ~Fionread /\ peer = "closed"
  /\ UNCHANGED vars

\* available() without FIONREAD at the end of the stream: stop().
availableClosed ==
  /\ pc = "idle" /\ connected /\ rcv = 0
  /\ ~Fionread /\ peer = "closed"
  /\ connected' = FALSE
  /\ UNCHANGED <<pc, writeVars, expired, rcv, got, peerSent, peer>>

\* stop(): what was not read is gone.
stop ==
  /\ pc = "idle" /\ connected
  /\ connected' = FALSE /\ rcv' = 0
  /\ UNCHANGED <<pc, writeVars, expired, got, peerSent, peer>>

------------------------------------------------------------------------------
CallStep ==
  \/ \E n \in 1 .. MaxSize : sendSome(n)
  \/ sendAgain \/ sendError \/ writeEnd
  \/ readByte \/ readTimeout \/ readClosed \/ readStopped \/ TimePasses

PollStep ==
  \/ availableClosed
  \/ rcv > 0 /\ readBegin("read")

Next ==
  \/ PeerSends \/ PeerCloses \/ PeerBreaks
  \/ \E n \in 1 .. MaxSize : writeBegin(n)
  \/ \E call \in {"read", "timedRead"} : readBegin(call)
  \/ CallStep \/ availableLooks \/ availableClosed \/ stop

\* A call in progress goes on (lwIP makes progress or times out, if the socket
\* has a timeout), and the sketch's loop() polls available() and reads what is
\* there.
Fairness ==
  /\ WF_vars(CallStep /\ (HasTimeout \/ ~Sending))
  /\ WF_vars(TimePasses)
  /\ SF_vars(PollStep)

Spec == Init /\ [][Next]_vars /\ Fairness

------------------------------------------------------------------------------
(* Properties.                                                             *)

TypeOK ==
  /\ {connected, expired} \subseteq BOOLEAN
  /\ pc \in {"idle", "write", "read", "timedRead"}
  /\ size \in 0 .. MaxSize /\ sent_total \in 0 .. size /\ retries \in 0 .. Retries
  /\ result \in 0 .. MaxSize /\ calls \in 0 .. MaxCalls /\ taken \in 0 .. MaxSize
  /\ rcv \in 0 .. MaxSent /\ got \in 0 .. MaxSent /\ peerSent \in 0 .. MaxSent
  /\ peer \in {"open", "closed", "reset"}

\* write() returns the number of bytes that lwIP took, whether it ended with
\* everything sent, out of retries or with an error.
WriteReportsTaken == (pc # "write" /\ calls > 0) => (result = taken)

\* While the connection is up no received byte is lost: available() only
\* looks, and what the peer sent was read or can still be read.
NothingSwallowed == (connected /\ peer # "reset") => (got + rcv = peerSent)

\* The two together, for either direction of the connection.
BytesAccounted == WriteReportsTaken /\ NothingSwallowed

\* Every call returns, with a deadline or an attempt counter to see to it.
CallReturns == (pc # "idle") ~> (pc = "idle")

\* A sketch that polls available() and reads what is there finds out that the
\* peer has closed the connection.
CloseNoticed == (peer = "closed") ~> ~connected
===============================================================================
