------------------------------ MODULE HTTPClient ------------------------------
(***************************************************************************)
(* HTTPClient: begin(), sendRequest() with its redirects, the body, end(),  *)
(* and a connection that outlives a request (_reuse is on by default).      *)
(*                                                                          *)
(* A response travels as pieces: the lines of its head (status, headers and *)
(* the empty line), then data; a chunked body as a size line, data and CRLF *)
(* per chunk, a last size line and a CRLF.  One piece stands for all header *)
(* lines, which are finitely many.  A piece is `own' as long as it is of    *)
(* the response to the last request sent.  readStringUntil() gives up on a  *)
(* line that stalls and returns what it has: such a line is torn, and one   *)
(* piece stands for what follows.  Only one of the user's client and the    *)
(* client that HTTPClient made itself is ever connected.                    *)
(***************************************************************************)
EXTENDS Integers, Sequences

CONSTANTS Site,          \* <<host, port>> pairs that the sketch or a server names
          Response,      \* the responses a server gives
          FollowRedirects, \* _followRedirects
          RedirectLimit, \* _redirectLimit (10 in the code)
          NoSite, NoLocation, Path

Code == {"ok", "moved", "found"}      \* 2xx..5xx; 301, 307; 302, 303
Host == {s[1] : s \in Site}
Https == 443
Port == {s[2] : s \in Site} \cup {Https}
Location == Site \cup {Path, NoLocation}
Type == {"GET", "POST", "stream"}

\* len: Content-Length, -1 without; body: pieces of data; keep: HTTP/1.1 and
\* no "Connection: close".
ASSUME ResponseAssumption ==
  \A r \in Response :
    /\ r.code \in Code /\ r.location \in Location /\ r.keep \in BOOLEAN
    /\ r.te \in {"identity", "chunked", "other"}
    /\ r.body \in Nat /\ r.len \in {-1, r.body}
ASSUME RedirectAssumption ==
  RedirectLimit \in Nat /\ FollowRedirects \in {"disable", "strict", "force"}
ASSUME DistinctAssumption == {NoSite, NoLocation, Path} \cap Site = {} /\ NoLocation # Path

VARIABLES
  client,     \* _client: "null", "user" (the sketch's) or "own" (_tcpDeprecated)
  tcp,        \* _tcpDeprecated # nullptr
  traits,     \* _transportTraits # nullptr
  site,       \* <<_host, _port>>
  reuse, canReuse,
  size, te,   \* _size, _transferEncoding
  location,   \* _location
  conn, peer, \* the socket: "none", "open" or "fin" (closed by the server); its site
  inbox, wire,\* pieces received and not read; pieces sent and not received
  asked,      \* requests that the server has yet to answer
  pc,         \* where the call is, "idle" outside
  type, redirects, \* of sendRequest(): the method and redirectCount
  code,       \* what sendRequest() is about to return ("error" below 0), and "body" after a
              \* writeToStream() that succeeded
  len,        \* of writeToStreamDataBlock(): what is left to read
  got,        \* pieces written to the stream
  own,        \* history: code, or all that was written to the stream, is of the last request
  due,        \* history: the body the response announced, -1 if it did not
  late,       \* history: an older body was still on its way when the connection was reused
  torn,       \* history: a line was torn since sendRequest() began
  strayed     \* history: begin() or a redirect named another site and kept the connection

pointers == <<client, tcp, traits>>
socket == <<conn, peer, inbox, wire, asked, late, torn, strayed>>
headers == <<size, te, location, due>>
locals == <<type, redirects>>
bodyVars == <<len, got>>
vars == <<pointers, site, reuse, canReuse, headers, socket, pc, locals, code, bodyVars, own>>

\* The locals of a call that returns.
dropLocals ==
  /\ type' = "GET" /\ redirects' = 0
  /\ code' = "none" /\ len' = 0 /\ got' = 0 /\ own' = TRUE

Init ==
  /\ client = "null" /\ tcp = FALSE /\ traits = FALSE
  /\ site = NoSite /\ reuse = TRUE /\ canReuse = FALSE
  /\ size = -1 /\ te = "identity" /\ location = NoLocation /\ due = -1
  /\ conn = "none" /\ peer = NoSite /\ inbox = <<>> /\ wire = <<>> /\ asked = 0
  /\ late = FALSE /\ torn = FALSE /\ strayed = FALSE
  /\ pc = "idle" /\ type = "GET" /\ redirects = 0
  /\ code = "none" /\ len = 0 /\ got = 0 /\ own = TRUE

------------------------------------------------------------------------------
(* The connection and its peer.                                            *)

connected == client # "null" /\ (inbox # <<>> \/ conn = "open")

\* _client->stop(): what was not read is gone.
stopped ==
  /\ conn' = "none" /\ peer' = NoSite /\ inbox' = <<>> /\ wire' = <<>> /\ asked' = 0
  /\ strayed' = FALSE

stop == stopped /\ late' = FALSE /\ torn' = FALSE

\* A chunked body of b chunks: its n-th piece.
chunkPart(b, n) ==
  IF n = 3 * b + 1 THEN "last" ELSE IF n = 3 * b + 2 THEN "crlf"
  ELSE CASE n % 3 = 1 -> "size" [] n % 3 = 2 -> "data" [] n % 3 = 0 -> "crlf"

\* The pieces of response r; mine: it answers the last request.
Pieces(r, mine) ==
  <<[part |-> "status", own |-> mine, resp |-> r], [part |-> "field", own |-> mine, resp |-> r],
    [part |-> "blank", own |-> mine]>>
    \o (IF r.te = "chunked"
        THEN [n \in 1 .. 3 * r.body + 2 |-> [part |-> chunkPart(r.body, n), own |-> mine]]
        ELSE [n \in 1 .. r.body |-> [part |-> "data", own |-> mine]])

\* bounds: what else a connection brings is not followed once it is late; the
\* server's answer is on its way when the client waits for it.
Answer ==
  /\ asked > 0 /\ ~late /\ pc \notin {"upload", "response"}
  /\ \E r \in Response : wire' = wire \o Pieces(r, asked = 1)
  /\ asked' = asked - 1
  /\ UNCHANGED <<pointers, site, reuse, canReuse, headers, conn, peer, inbox, late,
                 torn, strayed, pc, locals, code, bodyVars, own>>

Deliver ==
  /\ wire # <<>>
  /\ inbox' = Append(inbox, Head(wire)) /\ wire' = Tail(wire)
  /\ UNCHANGED <<pointers, site, reuse, canReuse, headers, conn, peer, asked, late,
                 torn, strayed, pc, locals, code, bodyVars, own>>

\* The client waits for a line, and the timeout of its Stream ends the wait in
\* the middle of it.  One piece stands for the rest of it and all that follows.
Stall ==
  /\ pc \in {"headers", "chunk"} /\ inbox = <<>> /\ wire # <<>>
  /\ Head(wire).part \in {"status", "field", "blank", "size", "last"}
  /\ inbox' = <<[part |-> "torn", own |-> Head(wire).own]>>
  /\ wire' = <<[part |-> "rest", own |-> Head(wire).own]>>
  /\ torn' = TRUE
  /\ UNCHANGED <<pointers, site, reuse, canReuse, headers, conn, peer, asked, late,
                 strayed, pc, locals, code, bodyVars, own>>

\* The server closes, with all of its answer sent or not.
ServerClose ==
  /\ conn = "open"
  /\ conn' = "fin" /\ wire' = <<>> /\ asked' = 0
  /\ UNCHANGED <<pointers, site, reuse, canReuse, headers, peer, inbox, late,
                 torn, strayed, pc, locals, code, bodyVars, own>>

------------------------------------------------------------------------------
(* The options.                                                          *)

setReuse == \* and useHTTP10()
  /\ pc = "idle" /\ reuse' = ~reuse
  /\ UNCHANGED <<pointers, site, canReuse, headers, socket, pc, locals, code,
                 bodyVars, own>>

------------------------------------------------------------------------------
(* disconnect(), end() and begin().                                        *)

\* mutant: the pointer to the freed client is kept
forgetKeepsPointer ==
  /\ tcp' = FALSE /\ traits' = (traits /\ ~tcp) /\ UNCHANGED client

\* disconnect(false) drops _client, and with it the client made here.
forget == client' = "null" /\ tcp' = FALSE /\ traits' = (traits /\ ~tcp)

clear == size' = -1 /\ due' = -1

\* end() is disconnect(false): WiFiClient::flush() leaves received data where it is.
end ==
  /\ pc = "idle"
  /\ IF connected /\ ~(reuse /\ canReuse) THEN stop /\ forget ELSE UNCHANGED <<socket, pointers>>
  /\ clear /\ code' = "none"
  /\ UNCHANGED <<site, reuse, canReuse, te, location, pc, locals, bodyVars, own>>

\* The mix-up of the two APIs, which begin() answers with end().
mixUp(api) == IF api = "user" THEN tcp ELSE client # "null" /\ ~tcp

\* What the two APIs do to the pointers; ok: transport traits were made.
beginPointers(api, ok) ==
  LET dropped == mixUp(api) /\ connected IN
  /\ client' = IF api = "user" THEN "user" ELSE IF dropped THEN "null" ELSE client
  /\ tcp' = (tcp /\ ~dropped)
  /\ traits' = IF api = "user" THEN traits /\ ~(tcp /\ dropped) ELSE ok \/ traits

\* mutant: the connection is kept when the host changes
switchingHostIgnored(s) == FALSE

\* The test in beginInternal().
switchingHost(s) == site = NoSite \/ s[1] # site[1]

portOnly(s) == site # NoSite /\ s[1] = site[1] /\ s # site

\* A connection is left as it is; elsewhere: though another site was named.
keep(elsewhere) ==
  /\ strayed' = (strayed \/ (connected /\ elsewhere))
  /\ UNCHANGED <<conn, peer, inbox, wire, asked, late, torn>>

\* begin(client, url) and begin(url [, CAcert]) of a URL that parses.
beginUrl(api, s) ==
  /\ pc = "idle"
  /\ beginPointers(api, TRUE)
  /\ IF connected /\ (mixUp(api) \/ switchingHost(s)) THEN stop ELSE keep(portOnly(s))
  /\ canReuse' = (canReuse /\ ~mixUp(api) /\ ~(connected /\ switchingHost(s)))
  /\ site' = s
  /\ IF api = "user" /\ ~mixUp(api) THEN UNCHANGED <<size, due>> ELSE clear
  /\ code' = "none"
  /\ UNCHANGED <<reuse, te, location, pc, locals, bodyVars, own>>

\* A URL that does not parse: false, and the port of begin(url) is now 443.
beginBadUrl(api) ==
  /\ pc = "idle"
  /\ beginPointers(api, FALSE)
  /\ site' = IF api = "user" \/ site = NoSite THEN site ELSE <<site[1], Https>>
  /\ IF connected /\ mixUp(api) THEN stop ELSE keep(site' # site)
  /\ canReuse' = (canReuse /\ ~mixUp(api))
  /\ IF api = "user" /\ ~mixUp(api) THEN UNCHANGED <<size, due>> ELSE clear
  /\ code' = "none"
  /\ UNCHANGED <<reuse, te, location, pc, locals, bodyVars, own>>

\* begin([client,] host, port, uri ...); ok: the certificate is not empty.
beginParts(api, s, ok) ==
  /\ pc = "idle"
  /\ beginPointers(api, ok)
  /\ IF connected /\ mixUp(api) THEN stop ELSE keep(s # site)
  /\ canReuse' = (canReuse /\ ~mixUp(api))
  /\ site' = s
  /\ clear /\ code' = "none"
  /\ UNCHANGED <<reuse, te, location, pc, locals, bodyVars, own>>

------------------------------------------------------------------------------
(* sendRequest().                                                          *)

\* returnError() of an error stops the connection and ends the call.
returnError ==
  /\ pc' = "idle" /\ dropLocals
  /\ IF connected THEN stop ELSE UNCHANGED socket

\* bound: no request after one whose response an older body ran into or had a
\* torn line, as long as the connection stays
Unmixed == late \/ torn => ~connected

sendRequest(t) ==
  /\ pc = "idle" /\ Unmixed
  /\ type' = t /\ pc' = "connect" /\ code' = "none"
  /\ len' = 0 /\ got' = 0 /\ own' = TRUE /\ late' = FALSE /\ torn' = FALSE
  /\ UNCHANGED <<pointers, site, reuse, canReuse, headers, conn, peer, inbox, wire, asked,
                 strayed, redirects>>

\* HTTPC_ERROR_NO_STREAM, of sendRequest() and of writeToStream()
noStream ==
  /\ pc = "idle" /\ returnError
  /\ UNCHANGED <<pointers, site, reuse, canReuse, headers>>

\* What is left of older responses: one piece stands for it.
Older(pieces) == IF pieces = <<>> THEN <<>> ELSE <<[part |-> "old", own |-> FALSE]>>

\* mutant: what the last response left is not drained
reuseNoDrain ==
  /\ wire' = Older(wire) /\ late' = (late \/ wire # <<>>)
  /\ UNCHANGED <<conn, peer, inbox, asked, torn, strayed>>

\* connect() on a connection: what has arrived is drained.
reuseConnection ==
  /\ inbox' = <<>> /\ wire' = Older(wire) /\ late' = (late \/ wire # <<>>)
  /\ UNCHANGED <<conn, peer, asked, torn, strayed>>

connect ==
  /\ pc = "connect"
  /\ \/ /\ connected
        /\ reuseConnection /\ pc' = "send"
        /\ UNCHANGED <<pointers, locals, code, bodyVars, own>>
     \/ /\ ~connected
        /\ IF client = "null" /\ traits
           THEN client' = "own" /\ tcp' = TRUE /\ UNCHANGED traits
           ELSE UNCHANGED pointers
        /\ \/ /\ client' # "null" /\ site # NoSite
              /\ conn' = "open" /\ peer' = site /\ late' = FALSE /\ strayed' = FALSE
              /\ pc' = "send"
              /\ UNCHANGED <<inbox, wire, asked, torn, locals, code, bodyVars, own>>
           \/ /\ pc' = "idle" /\ dropLocals
              /\ UNCHANGED socket
  /\ UNCHANGED <<site, reuse, canReuse, headers>>

\* sendHeader(): the server may answer from here on.
sendHeader(next) ==
  /\ connected
  /\ inbox' = Older(inbox) /\ asked' = IF conn = "open" THEN asked + 1 ELSE asked
  /\ pc' = next
  /\ UNCHANGED <<conn, peer, wire, late, torn, strayed, locals, code, bodyVars, own>>

\* The payload comes from a buffer; a write that takes nothing is tried twice.
send ==
  /\ pc = "send" /\ type # "stream"
  /\ sendHeader("response") \/ returnError
  /\ UNCHANGED <<pointers, site, reuse, canReuse, headers>>

sendStream ==
  /\ pc = "send" /\ type = "stream"
  /\ sendHeader("upload") \/ returnError
  /\ UNCHANGED <<pointers, site, reuse, canReuse, headers>>

\* The loop over the payload of a stream ends: all is written, the stream is at
\* its end, or a write came up short twice.  Its other rounds change nothing.
uploaded ==
  /\ \/ pc' = "response" /\ UNCHANGED <<socket, locals, code, bodyVars, own>>
     \/ returnError
  /\ UNCHANGED <<pointers, site, reuse, canReuse, headers>>

\* As long as the connection is up the loop waits for the stream, without a
\* timeout.
uploadStream == pc = "upload" /\ connected /\ uploaded

uploadLost == pc = "upload" /\ ~connected /\ uploaded

------------------------------------------------------------------------------
(* handleHeaderResponse().                                                 *)

handleHeaderResponse ==
  /\ pc = "response"
  /\ IF connected
     THEN /\ size' = -1 /\ te' = "identity" /\ due' = -1 /\ canReuse' = reuse
          /\ pc' = "headers"
          /\ UNCHANGED <<location, socket, locals, code, bodyVars, own>>
     ELSE returnError /\ UNCHANGED <<headers, canReuse>>
  /\ UNCHANGED <<pointers, site, reuse>>

\* The header lines of response r.
readHeaders(r) ==
  /\ canReuse' = (canReuse /\ r.keep)
  /\ size' = r.len
  /\ te' = r.te
  /\ location' = IF r.location = NoLocation THEN location ELSE r.location
  /\ due' = IF r.te = "chunked" THEN r.body ELSE r.len

\* The next line, of the given kind; the time without data starts anew.
readLine(kind) ==
  /\ pc = "headers" /\ inbox # <<>> /\ Head(inbox).own /\ Head(inbox).part = kind
  /\ inbox' = Tail(inbox)
  /\ UNCHANGED <<pointers, site, reuse, conn, peer, wire, asked, late, torn, strayed, locals,
                 bodyVars>>

readStatus ==
  /\ readLine("status") /\ code' = Head(inbox).resp.code
  /\ UNCHANGED <<canReuse, headers, pc, own>>

readFields ==
  /\ readLine("field") /\ readHeaders(Head(inbox).resp)
  /\ UNCHANGED <<pc, code, own>>

\* The empty line: what the headers said of the encoding counts from here on.
headDone ==
  /\ te' = IF te = "other" THEN "identity" ELSE te
  /\ code' = IF te = "other" THEN "error" ELSE code
  /\ pc' = "code" /\ own' = TRUE /\ UNCHANGED <<canReuse, size, location, due>>

readBlank == readLine("blank") /\ headDone

\* A line that was torn: a shorter number, another value or none, while the first
\* half of the empty line, or the second of any other, counts for the whole.  What
\* the head says from here on is that of any response, with a code or without.
readTorn ==
  /\ readLine("torn")
  /\ \E r \in Response :
       /\ code' \in {r.code, "ok", "error"}
       /\ te' = IF r.te = "other" THEN "identity" ELSE r.te
       /\ location' = IF r.location = NoLocation THEN location ELSE r.location
       /\ size' = r.len /\ canReuse' = (canReuse /\ r.keep)
  /\ pc' = "code" /\ own' = FALSE /\ UNCHANGED due

\* The lines of an older response may look like any code, or like none.
readOlder ==
  /\ pc = "headers" /\ inbox # <<>> /\ ~Head(inbox).own
  /\ inbox' = <<>> /\ wire' = <<>> /\ asked' = 0
  /\ pc' = "code" /\ code' \in Code \cup {"error"} /\ own' = FALSE
  /\ UNCHANGED <<pointers, site, reuse, canReuse, headers, conn, peer, late, torn, strayed,
                 locals, bodyVars>>

\* mutant: the wait for the head has no timeout
headersFailLost ==
  /\ pc = "headers" /\ inbox = <<>> /\ ~connected
  /\ pc' = "code" /\ code' = "error" /\ te' = "identity" /\ due' = -1
  /\ UNCHANGED <<pointers, site, reuse, canReuse, size, location, socket, locals, bodyVars, own>>

\* READ_TIMEOUT before any of the lines, or CONNECTION_LOST
headersFail ==
  /\ pc = "headers" /\ inbox = <<>>
  /\ pc' = "code" /\ code' = "error" /\ te' = "identity" /\ due' = -1
  /\ UNCHANGED <<pointers, site, reuse, canReuse, size, location, socket, locals, bodyVars, own>>

------------------------------------------------------------------------------
(* The redirects of sendRequest().                                         *)

mayRedirect ==
  /\ FollowRedirects # "disable" /\ redirects < RedirectLimit /\ location # NoLocation
  /\ type # "stream"
  /\ \/ code = "moved" /\ (FollowRedirects = "force" \/ type = "GET")
     \/ code = "found"

\* setURL() of a path leaves the connection alone; that of a URL keeps it for
\* the same host, whatever the server said of it.
setURL ==
  IF location = Path
  THEN clear /\ UNCHANGED <<site, socket, canReuse>>
  ELSE /\ IF connected /\ (~reuse \/ switchingHost(location)) THEN stop
          ELSE keep(portOnly(location))
       /\ canReuse' = ~(connected /\ reuse /\ switchingHost(location))
       /\ site' = location
       /\ UNCHANGED <<size, due>>

redirect ==
  /\ pc = "code" /\ mayRedirect
  /\ setURL
  /\ redirects' = redirects + 1
  /\ type' = IF code = "found" THEN "GET" ELSE type
  /\ pc' = "connect" /\ code' = "none"
  /\ UNCHANGED <<pointers, reuse, te, location, bodyVars, own>>

\* setURL() refuses a URL of another protocol: the call returns the 3xx.
returnCode ==
  /\ pc = "code"
  /\ mayRedirect => location # Path
  /\ IF code = "error" THEN returnError
     ELSE pc' = "idle" /\ dropLocals /\ UNCHANGED socket
  /\ UNCHANGED <<pointers, site, reuse, canReuse, headers>>

------------------------------------------------------------------------------
(* writeToStream() and getString().                                        *)

writeToStream ==
  /\ pc = "idle"
  /\ IF connected
     THEN /\ IF te = "identity" THEN pc' = "block" /\ len' = size
             ELSE pc' = "chunk" /\ UNCHANGED len
          /\ got' = 0 /\ own' = TRUE /\ code' = "none"
          /\ UNCHANGED <<socket, locals>>
     ELSE returnError
  /\ UNCHANGED <<pointers, site, reuse, canReuse, headers>>

\* writeToStreamDataBlock() takes what has arrived, whatever it is.
readBlock ==
  /\ pc = "block" /\ len # 0 /\ inbox # <<>>
  /\ inbox' = Tail(inbox) /\ got' = got + 1
  /\ own' = (own /\ Head(inbox).own /\ Head(inbox).part = "data")
  /\ len' = IF len > 0 THEN len - 1 ELSE len
  /\ UNCHANGED <<pointers, site, reuse, canReuse, headers, conn, peer, wire, asked,
                 late, torn, strayed, pc, locals, code>>

\* disconnect(true) after the body
bodyDone ==
  /\ IF connected /\ ~(reuse /\ canReuse) THEN stopped /\ UNCHANGED <<late, torn>>
     ELSE UNCHANGED socket
  /\ code' = "body" /\ pc' = "idle" /\ len' = 0
  /\ UNCHANGED <<pointers, locals, got, own>>

\* mutant: a short block is not noticed
blockEndShort ==
  /\ pc = "block" /\ (len = 0 \/ ~connected)
  /\ IF te = "identity" THEN bodyDone
     ELSE pc' = "crlf" /\ UNCHANGED <<pointers, socket, locals, code, bodyVars, own>>
  /\ UNCHANGED <<site, reuse, canReuse, headers>>

blockEnd ==
  /\ pc = "block" /\ (len = 0 \/ ~connected)
  /\ IF len > 0 THEN returnError /\ UNCHANGED pointers
     ELSE IF te = "identity" THEN bodyDone
     ELSE pc' = "crlf" /\ UNCHANGED <<pointers, socket, locals, code, bodyVars, own>>
  /\ UNCHANGED <<site, reuse, canReuse, headers>>

\* The sketch's stream takes too little, or memory is short.
blockFails ==
  /\ pc = "block" /\ returnError
  /\ UNCHANGED <<pointers, site, reuse, canReuse, headers>>

\* A size line.  What is not one counts as 0, or as some other number, and so
\* does the first half of one.
readChunkSize ==
  /\ pc = "chunk" /\ inbox # <<>>
  /\ LET part == Head(inbox).part
         rest == Tail(inbox) IN
     \/ /\ part \notin {"last", "crlf"}
        /\ inbox' = rest /\ pc' = "block" /\ len' = 1
        /\ UNCHANGED <<pointers, canReuse, headers, conn, peer, wire, asked, late,
                       torn, strayed, locals, code, got, own>>
     \/ /\ part # "size"
        /\ size' = IF size <= 0 THEN got ELSE size
        /\ IF got # size' THEN returnError /\ UNCHANGED pointers
           ELSE /\ code' = "body" /\ pc' = "idle" /\ len' = 0
                /\ IF reuse /\ canReuse
                   THEN inbox' = rest /\ UNCHANGED <<conn, peer, wire, asked, late, torn, strayed>>
                   ELSE stopped /\ UNCHANGED <<late, torn>>
                /\ UNCHANGED <<pointers, locals, got, own>>
        /\ UNCHANGED <<canReuse, te, location, due>>
  /\ UNCHANGED <<site, reuse>>

readTrailer ==
  /\ pc = "crlf" /\ inbox # <<>>
  /\ IF Head(inbox).part = "crlf"
     THEN /\ inbox' = Tail(inbox) /\ pc' = "chunk"
          /\ UNCHANGED <<conn, peer, wire, asked, late, torn, strayed, locals, code, bodyVars, own>>
     ELSE returnError
  /\ UNCHANGED <<pointers, site, reuse, canReuse, headers>>

\* Nothing came in time, or the connection is lost.
chunkFails ==
  /\ pc \in {"chunk", "crlf"} /\ inbox = <<>>
  /\ returnError
  /\ UNCHANGED <<pointers, site, reuse, canReuse, headers>>

------------------------------------------------------------------------------
Server == Answer \/ Deliver \/ Stall \/ ServerClose

Sketch ==
  \/ setReuse \/ end \/ noStream \/ writeToStream \/ uploadStream
  \/ \E t \in Type : sendRequest(t)
  \/ \E api \in {"user", "own"} :
       \/ beginBadUrl(api)
       \/ \E s \in Site : beginUrl(api, s) \/ \E ok \in BOOLEAN : beginParts(api, s, ok)

Request == connect \/ send \/ sendStream \/ uploadLost \/ handleHeaderResponse
           \/ readStatus \/ readFields \/ readBlank \/ readTorn \/ readOlder
           \/ headersFail \/ redirect \/ returnCode
Body == readBlock \/ blockEnd \/ blockFails \/ readChunkSize \/ readTrailer \/ chunkFails

Next == Server \/ Sketch \/ Request \/ Body

(***************************************************************************)
(* The loop task runs, and the timeouts of connect(), write() and          *)
(* handleHeaderResponse() expire.  Nothing is asked of the server, nor of  *)
(* the stream of an upload.                                                *)
(***************************************************************************)
Spec == Init /\ [][Next]_vars /\ WF_vars(Request)

------------------------------------------------------------------------------
\* The pointers too: _client points to a live client, and a client made here
\* has the transport traits that connect() asks to verify it.
TypeOK ==
  /\ client \in {"null", "user", "own"} /\ {tcp, traits} \subseteq BOOLEAN
  /\ client = "own" => tcp
  /\ tcp => traits
  /\ site \in {NoSite} \cup (Host \X Port) /\ peer \in {NoSite} \cup (Host \X Port)
  /\ {reuse, canReuse, own, late, torn, strayed} \subseteq BOOLEAN
  /\ size \in Nat \cup {-1} /\ due \in Nat \cup {-1} /\ te \in {"identity", "chunked", "other"}
  /\ location \in Location
  /\ asked \in Nat /\ conn \in {"none", "open", "fin"} /\ (conn = "none" <=> peer = NoSite)
  /\ pc \in {"idle", "connect", "send", "upload", "response", "headers", "code", "block", "chunk", "crlf"}
  /\ type \in Type /\ redirects \in 0 .. RedirectLimit
  /\ code \in Code \cup {"none", "error", "body"}
  /\ len \in Nat \cup {-1} /\ got \in Nat

(***************************************************************************)
(* The code that a request returns is that of the response to it, although *)
(* the connection may have carried others before whose body nobody read,   *)
(* or a request that timed out.  Excepted: a part of an older body that    *)
(* arrives after connect() has drained the connection, and a line that     *)
(* stalls half way.                                                        *)
(***************************************************************************)
ResponseIsOwn == pc = "code" /\ code \in Code /\ ~late /\ ~torn => own

(***************************************************************************)
(* A request goes out on a connection to the host and port it is for,      *)
(* through reuse, redirects and changes of API.  Excepted: a begin() by    *)
(* parts and a change of the port alone, which keep the connection.        *)
(***************************************************************************)
RequestToItsSite == pc \in {"send", "upload", "response", "headers"} /\ connected /\ ~strayed => peer = site

(***************************************************************************)
(* When writeToStream() reports success for a response with a length or in *)
(* chunks, the stream has got all of that body and nothing else.  Excepted *)
(* as above: an older body that comes late, and a header or size line that *)
(* stalls half way, whose first half counts for the whole.                 *)
(***************************************************************************)
BodyIsWhole == code = "body" /\ due # -1 /\ ~late /\ ~torn => own /\ got = due

(***************************************************************************)
(* sendRequest() returns, redirects included, whether the server answers,  *)
(* stalls or closes at any line.  Excepted are the upload of a stream,     *)
(* which waits for the stream as long as the connection is up, and a       *)
(* server that never ends its head: each line starts the timeout anew.     *)
(***************************************************************************)
RequestReturns ==
  \/ pc \in {"response", "headers", "code"}
  \/ pc \in {"connect", "send"} /\ type # "stream"
  \/ pc = "upload" /\ ~connected
  ~> pc = "idle"
===============================================================================
