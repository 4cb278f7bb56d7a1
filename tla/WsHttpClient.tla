---------------------------- MODULE WsHttpClient ----------------------------
(***************************************************************************)
(* HttpClient of the Websocket library: a request, its status, the headers *)
(* and the body, with a connection that may be kept between requests.      *)
(*                                                                         *)
(* A response is read as tokens: a line (status line, header, empty line,  *)
(* size of a chunk) or a byte of the body.  Lines arrive whole, so the     *)
(* states inside of a line (eReadingStatusCode, eReadingContentLength,     *)
(* eLineStartingCRFound) are passed within a step.  Bytes of a body are    *)
(* neither hex digits nor line ends.                                       *)
(***************************************************************************)
EXTENDS Integers, Sequences, FiniteSets

CONSTANTS Response,    \* the responses a server gives
          MaxRequests  \* bound: requests sent

NoContentLength == -1
Tokens(kind, n) == [i \in 1 .. n |-> [k |-> kind, v |-> 0, own |-> TRUE]]

\* info: a "100 Continue" comes first; len: Content-Length, -1 without.
ASSUME ResponseAssumption ==
  \A r \in Response :
    /\ r.info \in BOOLEAN /\ r.chunked \in BOOLEAN /\ r.body \in Nat
    /\ r.len \in {NoContentLength, r.body}
ASSUME MaxRequestsAssumption == MaxRequests \in Nat

VARIABLES
  iState,          \* eIdle, eRequestStarted, ...
  iContentLength, iBodyLengthConsumed, iIsChunked, iChunkLength,
  iConnectionClose,
  conn,            \* the connection: "none", "open" or "fin" (closed by the server)
  rx, wire,        \* tokens received and not read; sent and not received
  asked,           \* requests the server has yet to answer
  line,            \* a request line was sent and its headers are not finished
  pc, then,        \* the call in progress, and what follows the headers
  n,               \* responseBody(): bytes in its String
  got, pure,       \* history: bytes handed out of this body; all were the server's body
  ret, retOwn,     \* the last result; whether its status line was of the last request
  due,             \* history: the Content-Length of the response to the last request
  requests, excuse \* history: requests sent; what spoils the response being read

fields == <<iContentLength, iBodyLengthConsumed, iIsChunked, iChunkLength>>
net == <<conn, rx, wire, asked, line>>
call == <<pc, then, n, got, pure, ret, retOwn>>
vars == <<iState, fields, iConnectionClose, net, call, due, requests, excuse>>

BodyState == {"body", "chunkLength", "bodyChunk"}
endOfHeadersReached == iState \in BodyState
BeforeSent(s) == s \in {"idle", "started"}
Line == {"status", "length", "chunked", "other", "empty", "size", "rest"}

resetState ==
  /\ iContentLength' = NoContentLength /\ iBodyLengthConsumed' = 0
  /\ iIsChunked' = FALSE /\ iChunkLength' = 0

Init ==
  /\ iState = "idle" /\ iContentLength = NoContentLength /\ iBodyLengthConsumed = 0
  /\ iIsChunked = FALSE /\ iChunkLength = 0 /\ iConnectionClose = TRUE
  /\ conn = "none" /\ rx = <<>> /\ wire = <<>> /\ asked = 0 /\ line = FALSE
  /\ pc = "idle" /\ then = "return" /\ n = 0 /\ got = 0 /\ pure = TRUE
  /\ ret = "none" /\ retOwn = TRUE
  /\ due = NoContentLength /\ requests = 0 /\ excuse = {}

TypeOK ==
  /\ iState \in BodyState \cup {"idle", "started", "sent", "statusRead", "skip"}
  /\ iContentLength \in Int /\ iBodyLengthConsumed \in Nat /\ iChunkLength \in Nat
  /\ iIsChunked \in BOOLEAN /\ iConnectionClose \in BOOLEAN
  /\ conn \in {"none", "open", "fin"} /\ asked \in Nat /\ line \in BOOLEAN
  /\ pc \in {"idle", "status", "headers", "body", "header"} /\ then \in {"return", "body"}
  /\ ret \in {"none", "error", "invalid", "timeout", "status", "text", "null"}
  /\ excuse \subseteq {"carried", "late", "gap", "noHeaders", "raw"}

------------------------------------------------------------------------------
(* The server and the network.                                             *)

Body(r) ==
  IF ~r.chunked THEN Tokens("data", r.body)
  ELSE (IF r.body = 0 THEN <<>>
        ELSE <<[k |-> "size", v |-> r.body, own |-> TRUE]>>
             \o Tokens("data", r.body) \o Tokens("empty", 1))
       \o Tokens("size", 1) \o Tokens("empty", 1)

Pieces(r) ==
  (IF r.info THEN <<[k |-> "status", v |-> 100, own |-> TRUE]>> \o Tokens("empty", 1) ELSE <<>>)
  \o <<[k |-> "status", v |-> 200, own |-> TRUE]>>
  \o (IF r.len = NoContentLength THEN Tokens("other", 1)
      ELSE <<[k |-> "length", v |-> r.len, own |-> TRUE]>>)
  \o (IF r.chunked THEN Tokens("chunked", 1) ELSE <<>>)
  \o Tokens("empty", 1) \o Body(r)

Older(s) == [i \in DOMAIN s |-> [s[i] EXCEPT !.own = FALSE]]

\* bound: what a connection brings is not followed once a response is late
followed == "late" \notin excuse

Answer ==
  /\ asked > 0 /\ followed
  /\ \E r \in Response :
       /\ wire' = wire \o (IF asked = 1 THEN Pieces(r) ELSE Older(Pieces(r)))
       /\ due' = IF asked = 1 THEN r.len ELSE due
  /\ asked' = asked - 1
  /\ UNCHANGED <<iState, fields, iConnectionClose, conn, rx, line, call, requests, excuse>>

Deliver ==
  /\ wire # <<>> /\ followed /\ rx' = Append(rx, Head(wire)) /\ wire' = Tail(wire)
  /\ UNCHANGED <<iState, fields, iConnectionClose, conn, asked, line, call, due, requests, excuse>>

ServerClose ==
  /\ conn = "open" /\ followed /\ conn' = "fin" /\ wire' = <<>> /\ asked' = 0
  /\ UNCHANGED <<iState, fields, iConnectionClose, rx, line, call, due, requests, excuse>>

isConnected(q) == conn = "open" \/ q # <<>>
------------------------------------------------------------------------------
(* Requests.                                                               *)

Idle == pc = "idle"

connectionKeepAlive ==
  /\ Idle /\ iConnectionClose /\ iConnectionClose' = FALSE
  /\ UNCHANGED <<iState, fields, net, call, due, requests, excuse>>

\* The fields of the response before, if there was one, are not reset.
beginRequest ==
  /\ Idle /\ iState' = "started"
  /\ excuse' = IF BeforeSent(iState) THEN excuse ELSE excuse \cup {"carried"}
  /\ UNCHANGED <<fields, iConnectionClose, net, call, due, requests>>

\* The server has a request once the empty line after its headers is there.
\* q: what is left to read on the connection, w: what is on its way.
complete(q, w, open, pending, why) ==
  /\ iState' = "sent" /\ line' = FALSE
  /\ rx' = Older(q) /\ wire' = Older(w)
  /\ asked' = IF open THEN pending + 1 ELSE pending
  /\ excuse' = why \cap {"carried", "late"}
  /\ due' = NoContentLength /\ n' = 0 /\ got' = 0 /\ pure' = TRUE

returns(r) == ret' = r /\ retOwn' = TRUE /\ pc' = "idle" /\ then' = "return"

\* mutant: a connection is kept although the server was told to close it
keepsAlways(q) == isConnected(q)

keepsConnection(q) == ~iConnectionClose /\ isConnected(q)

flushClientRx(reading) == IF reading THEN <<>> ELSE rx

\* get(), post(), put(), patch(), del(), with a body or without.
startRequest(hasBody) ==
  LET reading == endOfHeadersReached
      initial == IF reading THEN "idle" ELSE iState
      q == flushClientRx(reading)
      kept == keepsConnection(q)
      unread == IF kept THEN q ELSE <<>>
      coming == IF kept THEN wire ELSE <<>>
      pending == IF kept THEN asked ELSE 0
      why == (IF reading THEN excuse \ {"carried"} ELSE excuse)
             \ (IF kept THEN {} ELSE {"late"})
      older == ~iConnectionClose /\ (Len(coming) + pending > 0 \/ "carried" \in why)
      excuses == IF older THEN why \cup {"late"} ELSE why IN
  /\ Idle /\ BeforeSent(initial) /\ requests < MaxRequests
  /\ IF reading THEN resetState ELSE UNCHANGED fields
  /\ conn' = (IF kept THEN conn ELSE "open") /\ requests' = requests + 1
  /\ IF initial = "idle" \/ hasBody
     THEN complete(unread, coming, kept => conn = "open", pending, excuses)
     ELSE /\ iState' = "started" /\ line' = TRUE /\ excuse' = excuses
          /\ rx' = unread /\ wire' = coming /\ asked' = pending
          /\ UNCHANGED <<due, n, got, pure>>
  /\ returns("none") /\ UNCHANGED iConnectionClose

\* HTTP_ERROR_CONNECTION_FAILED; HTTP_ERROR_API changes nothing.
startRequestFails ==
  LET reading == endOfHeadersReached IN
  /\ Idle /\ (reading \/ BeforeSent(iState))
  /\ ~keepsConnection(flushClientRx(reading))
  /\ rx' = flushClientRx(reading)
  /\ IF reading THEN iState' = "idle" /\ resetState /\ excuse' = excuse \ {"carried"}
     ELSE UNCHANGED <<iState, fields, excuse>>
  /\ returns("error")
  /\ UNCHANGED <<iConnectionClose, conn, wire, asked, line, n, got, pure, due, requests>>

\* endRequest(), beginBody(), or the first write() or print() of a body.
endRequest ==
  /\ Idle /\ BeforeSent(iState)
  /\ IF line
     THEN complete(rx, wire, conn = "open", asked, excuse)
     ELSE iState' = "sent" /\ UNCHANGED <<line, rx, wire, asked, excuse, due, n, got, pure>>
  /\ UNCHANGED <<fields, iConnectionClose, conn, pc, then, ret, retOwn, requests>>

stop ==
  /\ Idle /\ iState # "idle"
  /\ conn' = "none" /\ rx' = <<>> /\ wire' = <<>> /\ asked' = 0 /\ line' = FALSE
  /\ iState' = "idle" /\ resetState /\ excuse' = {} /\ due' = NoContentLength
  /\ n' = 0 /\ got' = 0 /\ pure' = TRUE /\ returns("none")
  /\ UNCHANGED <<iConnectionClose, requests>>

------------------------------------------------------------------------------
(* responseStatusCode()                                                    *)

responseStatusCode ==
  /\ Idle /\ ~BeforeSent(iState)
  /\ pc' = "status" /\ iState' = "sent" /\ ret' = "none" /\ retOwn' = TRUE
  /\ UNCHANGED <<fields, iConnectionClose, net, then, n, got, pure, due, requests, excuse>>

\* Of a line that does not start with "HTTP/" the first character is gone.
Bitten(s) ==
  IF Head(s).k = "data" THEN Tail(s) ELSE <<[Head(s) EXCEPT !.k = "rest"]>> \o Tail(s)

informational == Head(rx).v < 200

readStatus ==
  /\ pc = "status" /\ rx # <<>>
  /\ IF Head(rx).k # "status"
     THEN rx' = Bitten(rx) /\ iState' = "sent" /\ returns("invalid")
     ELSE /\ rx' = Tail(rx)
          /\ IF informational THEN iState' = "sent" /\ UNCHANGED <<pc, then, ret, retOwn>>
             ELSE /\ iState' = "statusRead" /\ pc' = "idle" /\ UNCHANGED then
                  /\ ret' = "status" /\ retOwn' = Head(rx).own
  /\ UNCHANGED <<fields, iConnectionClose, conn, wire, asked, line, n, got, pure, due, requests, excuse>>

\* mutant: the wait ends only with the connection
timeoutOnClose ==
  /\ pc = "status" /\ rx = <<>> /\ conn # "open" /\ returns("timeout")
  /\ UNCHANGED <<iState, fields, iConnectionClose, net, n, got, pure, due, requests, excuse>>

statusTimeout ==
  /\ pc = "status" /\ rx = <<>> /\ returns("timeout")
  /\ UNCHANGED <<iState, fields, iConnectionClose, net, n, got, pure, due, requests, excuse>>

------------------------------------------------------------------------------
(* Headers.                                                                *)

\* "MUST be called after responseStatusCode()": once it has returned a status.
statusKnown == ~BeforeSent(iState) /\ iState # "sent"

\* skipResponseHeaders() and contentLength(), or responseBody().
skipResponseHeaders(next) ==
  /\ Idle /\ statusKnown /\ pc' = "headers" /\ then' = next
  /\ ret' = "none" /\ retOwn' = TRUE /\ n' = 0
  /\ UNCHANGED <<iState, fields, iConnectionClose, net, got, pure, due, requests, excuse>>

headerAvailable ==
  /\ Idle /\ statusKnown /\ pc' = "header" /\ ret' = "none" /\ retOwn' = TRUE
  /\ UNCHANGED <<iState, fields, iConnectionClose, net, then, n, got, pure, due, requests, excuse>>

\* readHeader() up to the end of a line; t: what comes next.
readHeader(t) ==
  IF iState # "statusRead"
  THEN iState' = (IF t.k \in Line THEN "statusRead" ELSE iState) /\ UNCHANGED fields
  ELSE CASE t.k = "length" ->
              /\ iContentLength' = t.v /\ iBodyLengthConsumed' = 0
              /\ UNCHANGED <<iState, iIsChunked, iChunkLength>>
         [] t.k = "chunked" ->
              /\ iIsChunked' = TRUE
              /\ UNCHANGED <<iState, iContentLength, iBodyLengthConsumed, iChunkLength>>
         [] t.k = "empty" ->
              /\ iState' = IF iIsChunked THEN "chunkLength" ELSE "body"
              /\ iChunkLength' = IF iIsChunked THEN 0 ELSE iChunkLength
              /\ UNCHANGED <<iContentLength, iBodyLengthConsumed, iIsChunked>>
         [] t.k = "data" -> iState' = "skip" /\ UNCHANGED fields
         [] OTHER -> UNCHANGED <<iState, fields>>

skipHeader ==
  /\ pc = "headers" /\ ~endOfHeadersReached /\ rx # <<>>
  /\ readHeader(Head(rx)) /\ rx' = Tail(rx)
  /\ UNCHANGED <<iConnectionClose, conn, wire, asked, line, call, due, requests, excuse>>

\* contentLength() does not look at the result of skipResponseHeaders().
headersEnd ==
  /\ pc = "headers" /\ (endOfHeadersReached \/ rx = <<>>)
  /\ excuse' = IF endOfHeadersReached THEN excuse ELSE excuse \cup {"noHeaders"}
  /\ IF then = "body" THEN pc' = "body" /\ UNCHANGED <<then, ret, retOwn>>
     ELSE returns(IF endOfHeadersReached THEN "none" ELSE "timeout")
  /\ UNCHANGED <<iState, fields, iConnectionClose, net, n, got, pure, due, requests>>

\* headerAvailable() takes what readHeader() makes of an empty socket, -1, for
\* a character: at the start of a line it makes the line be skipped.
pollHeader ==
  /\ pc = "header" /\ ~endOfHeadersReached
  /\ IF rx = <<>>
     THEN /\ iState' = "skip" /\ UNCHANGED <<fields, rx, pc>>
          /\ excuse' = IF iState = "statusRead" THEN excuse \cup {"gap"} ELSE excuse
     ELSE /\ readHeader(Head(rx)) /\ rx' = Tail(rx) /\ UNCHANGED excuse
          /\ pc' = IF Head(rx).k \in Line \ {"empty"} THEN "idle" ELSE pc
  /\ UNCHANGED <<iConnectionClose, conn, wire, asked, line, then, n, got, pure, ret, retOwn, due, requests>>

headerDone ==
  /\ pc = "header" /\ endOfHeadersReached /\ pc' = "idle"
  /\ UNCHANGED <<iState, fields, iConnectionClose, net, then, n, got, pure, ret, retOwn, due, requests, excuse>>

------------------------------------------------------------------------------
(* The body.                                                               *)

\* available(): reads the size of the next chunk, up to the end of a line.
available ==
  LET ends == {i \in DOMAIN rx : rx[i].k \in Line}
      end == CHOOSE i \in ends : \A j \in ends : i <= j
      size == IF iState = "chunkLength" /\ ends # {} /\ rx[end].k = "size"
              THEN iChunkLength * 16 + rx[end].v ELSE iChunkLength
      reached == iState = "bodyChunk" \/ (iState = "chunkLength" /\ ends # {})
      left == IF iState # "chunkLength" THEN rx
              ELSE IF ends = {} THEN <<>> ELSE SubSeq(rx, end + 1, Len(rx)) IN
  IF iState \notin {"chunkLength", "bodyChunk"}
  THEN [state |-> iState, size |-> iChunkLength, left |-> rx, any |-> rx # <<>>]
  ELSE IF reached /\ size > 0
       THEN [state |-> "bodyChunk", size |-> size, left |-> left, any |-> left # <<>>]
       ELSE [state |-> "chunkLength", size |-> size, left |-> left, any |-> FALSE]

\* The state after one byte was read.
afterRead(a) ==
  IF a.state # "bodyChunk" THEN <<a.state, a.size>>
  ELSE <<IF a.size = 1 THEN "chunkLength" ELSE "bodyChunk", a.size - 1>>

countRead(k) == IF endOfHeadersReached /\ iContentLength > 0 THEN k ELSE 0

\* The history of what the sketch has of a body, kept while nothing spoils it.
handOut(s) ==
  IF excuse = {}
  THEN /\ got' = got + Len(s)
       /\ pure' = (pure /\ \A i \in DOMAIN s : s[i].k = "data" /\ s[i].own)
  ELSE UNCHANGED <<got, pure>>

\* read(): Head(left) goes to the caller.
read ==
  LET a == IF iIsChunked THEN available
           ELSE [state |-> iState, size |-> iChunkLength, left |-> rx, any |-> rx # <<>>] IN
  /\ a.any /\ rx' = Tail(a.left) /\ handOut(<<Head(a.left)>>)
  /\ iState' = afterRead(a)[1] /\ iChunkLength' = afterRead(a)[2]
  /\ iBodyLengthConsumed' = iBodyLengthConsumed + countRead(1)
  /\ UNCHANGED <<iContentLength, iIsChunked>>

\* read() when a chunk is not there yet: available() may have read its size.
readSize ==
  /\ iIsChunked /\ ~available.any /\ rx # <<>>
  /\ rx' = available.left /\ iState' = available.state /\ iChunkLength' = available.size
  /\ UNCHANGED <<iContentLength, iBodyLengthConsumed, iIsChunked, got, pure>>

readByte ==
  /\ Idle /\ endOfHeadersReached /\ (read \/ readSize)
  /\ ret' = "none" /\ retOwn' = TRUE
  /\ UNCHANGED <<iConnectionClose, conn, wire, asked, line, pc, then, n, due, requests, excuse>>

\* read(buf, size) hands out what is there, the sizes of chunks too.
readBuf ==
  /\ Idle /\ endOfHeadersReached /\ rx # <<>>
  /\ handOut(rx) /\ rx' = <<>>
  /\ iBodyLengthConsumed' = iBodyLengthConsumed + countRead(Len(rx))
  /\ excuse' = IF iIsChunked THEN excuse \cup {"raw"} ELSE excuse
  /\ ret' = "none" /\ retOwn' = TRUE
  /\ UNCHANGED <<iState, iContentLength, iIsChunked, iChunkLength, iConnectionClose, conn,
                 wire, asked, line, pc, then, n, due, requests>>

bodyRead ==
  /\ pc = "body" /\ iBodyLengthConsumed # iContentLength
  /\ \/ read /\ n' = n + 1
     \/ readSize /\ UNCHANGED n
  /\ UNCHANGED <<iConnectionClose, conn, wire, asked, line, pc, then, ret, retOwn, due, requests, excuse>>

\* mutant: a body cut short is returned as a String
shortIsText == FALSE

short == iContentLength > 0 /\ iContentLength # n

\* The body is complete, or timedRead() gave up.
bodyEnd ==
  /\ pc = "body" /\ (iBodyLengthConsumed = iContentLength \/ rx = <<>>)
  /\ returns(IF short THEN "null" ELSE "text")
  /\ UNCHANGED <<iState, fields, iConnectionClose, net, n, got, pure, due, requests, excuse>>

------------------------------------------------------------------------------
User ==
  \/ connectionKeepAlive \/ beginRequest \/ endRequest \/ stop
  \/ \E hasBody \in BOOLEAN : startRequest(hasBody)
  \/ startRequestFails
  \/ responseStatusCode \/ headerAvailable
  \/ \E next \in {"return", "body"} : skipResponseHeaders(next)
  \/ readByte \/ readBuf

\* The steps of a call that ends by itself or by its timeout.
Step == readStatus \/ statusTimeout \/ skipHeader \/ headersEnd \/ bodyRead \/ bodyEnd
Poll == pollHeader \/ headerDone
Network == Answer \/ Deliver \/ ServerClose

Next == User \/ Step \/ Poll \/ Network

Spec == Init /\ [][Next]_vars /\ WF_vars(Step)

------------------------------------------------------------------------------
\* responseStatusCode() returns the status of the last request, unless the
\* connection was kept and an older response was still on its way, or was not
\* flushed because beginRequest() came first.
StatusIsOwn == ret = "status" /\ "late" \notin excuse => retOwn

\* What responseBody() returns is what the server sent as the body of its last
\* response, all of it if its length was announced; nothing of the framing.
\* Excepted are responses read after beginRequest() without a reset, on a
\* connection with older responses, after headerAvailable() met an empty
\* socket, after the headers timed out and after read(buf, size) of chunks.
BodyIsServers ==
  ret = "text" /\ excuse = {} =>
    pure /\ (due > 0 => got = due)

\* Every call but headerAvailable() returns, whatever the server does.
CallReturns == pc \in {"status", "headers", "body"} ~> pc = "idle"
=============================================================================
