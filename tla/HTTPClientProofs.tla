--------------------------- MODULE HTTPClientProofs ---------------------------
(***************************************************************************)
(* What holds of HTTPClient for every set of sites and responses and every *)
(* redirect limit: a request goes out on a connection to the site that it is*)
(* for, the answer that is read is the one to that request, and the body   *)
(* that is handed over is all of it. And of the cookie jar, for all hosts, *)
(* names and ages: a request carries the cookies that hold.                *)
(***************************************************************************)
EXTENDS Http, TLAPS

\* The sum moves as its parts do: a step of it is a step of each, or leaves it as
\* it is.
LEMMA PartsMove ==
  /\ PartsInit => J!Init
  /\ [PartsNext]_allVars => [J!Next]_J!vars
BY DEF PartsInit, PartsNext, allVars, cookiesVars,
       J!vars, J!session, J!locals

------------------------------------------------------------------------------
\* connected() for any _client but NULL.
Live == inbox # <<>> \/ conn = "open"

\* A live connection belongs to a client, and leads to the site at hand unless
\* a begin() or a redirect is known to have strayed; on a connection that is
\* not open nothing is on its way, so it cannot come to life again.
SiteInv ==
  /\ Live => client # "null"
  /\ Live /\ ~strayed => peer = site
  /\ conn # "open" => wire = <<>> /\ asked = 0

\* What stop() leaves is not live.
LEMMA StopHolds ==
  ASSUME stopped
  PROVE  SiteInv'
BY DEF stopped, SiteInv, Live

\* Steps that touch neither the connection nor what it is for.
LEMMA SameHolds ==
  ASSUME SiteInv, UNCHANGED <<client, site, conn, peer, inbox, wire, asked, strayed>>
  PROVE  SiteInv'
BY DEF SiteInv, Live

\* Reading takes from the inbox and leaves the rest alone.
LEMMA ReadHolds ==
  ASSUME SiteInv, inbox # <<>>, UNCHANGED <<client, site, conn, peer, wire, asked, strayed>>
  PROVE  SiteInv'
BY DEF SiteInv, Live

LEMMA ReturnErrorHolds ==
  ASSUME SiteInv, returnError, UNCHANGED <<client, site>>
  PROVE  SiteInv'
<1>1. CASE connected
  BY <1>1, StopHolds DEF returnError, stop
<1>2. CASE ~connected
  BY <1>2, SameHolds DEF returnError, socket
<1> QED
  BY <1>1, <1>2

LEMMA ServerHolds ==
  ASSUME SiteInv, Server
  PROVE  SiteInv'
<1>1. CASE Answer
  <2>1. /\ UNCHANGED <<client, site, conn, peer, inbox, strayed>> /\ asked > 0
    BY <1>1 DEF Answer, pointers
  <2>2. conn = "open"
    BY <2>1 DEF SiteInv
  <2> QED
    BY <2>1, <2>2 DEF SiteInv, Live
<1>2. CASE Deliver
  <2>1. UNCHANGED <<client, site, conn, peer, asked, strayed>> /\ wire # <<>>
    BY <1>2 DEF Deliver, pointers
  <2>2. conn = "open"
    BY <2>1 DEF SiteInv
  <2> QED
    BY <2>1, <2>2 DEF SiteInv, Live
<1>3. CASE ServerClose
  BY <1>3 DEF ServerClose, pointers, SiteInv, Live
<1>4. CASE Stall
  <2>1. UNCHANGED <<client, site, conn, peer, asked, strayed>> /\ wire # <<>>
    BY <1>4 DEF Stall, pointers
  <2>2. conn = "open"
    BY <2>1 DEF SiteInv
  <2> QED
    BY <2>1, <2>2 DEF SiteInv, Live
<1> QED
  BY <1>1, <1>2, <1>3, <1>4 DEF Server

\* begin(): a connection that is kept although another site is named has
\* strayed, or leads to the same host and port.
LEMMA BeginHolds ==
  ASSUME SiteInv, NEW api \in {"user", "own"}, NEW ok \in BOOLEAN, beginPointers(api, ok),
         NEW away,
         \/ stop
         \/ keep(away) /\ ~(connected /\ mixUp(api)) /\ (connected /\ ~away => site' = site)
  PROVE  SiteInv'
<1>1. CASE stop
  BY <1>1, StopHolds DEF stop
<1>2. CASE /\ keep(away) /\ ~(connected /\ mixUp(api))
           /\ connected /\ ~away => site' = site
  <2>1. /\ UNCHANGED <<conn, peer, inbox, wire, asked>>
        /\ strayed' = (strayed \/ (connected /\ away))
    BY <1>2 DEF keep
  <2>2. client' = "user" \/ client' = client
    BY <1>2 DEF beginPointers
  <2>3. Live => connected
    BY DEF SiteInv, Live, connected
  <2>4. Live' <=> Live
    BY <2>1 DEF Live
  <2> QED
    BY <1>2, <2>1, <2>2, <2>3, <2>4 DEF SiteInv
<1> QED
  BY <1>1, <1>2

LEMMA UploadHolds ==
  ASSUME SiteInv, uploaded
  PROVE  SiteInv'
<1>1. UNCHANGED <<client, site>> /\ (returnError \/ UNCHANGED socket)
  BY DEF uploaded, pointers
<1> QED
  BY <1>1, ReturnErrorHolds, SameHolds DEF socket

LEMMA SketchHolds ==
  ASSUME SiteInv, Sketch
  PROVE  SiteInv'
<1>1. CASE setReuse
  BY <1>1, SameHolds DEF setReuse, pointers, socket
<1>2. CASE end
  <2>1. CASE connected /\ ~(reuse /\ canReuse)
    BY <1>2, <2>1, StopHolds DEF end, stop
  <2>2. CASE ~(connected /\ ~(reuse /\ canReuse))
    BY <1>2, <2>2, SameHolds DEF end, socket, pointers
  <2> QED
    BY <2>1, <2>2
<1>3. CASE noStream
  BY <1>3, ReturnErrorHolds DEF noStream, pointers
<1>4. CASE writeToStream
  <2>1. CASE connected
    BY <1>4, <2>1, SameHolds DEF writeToStream, pointers, socket
  <2>2. CASE ~connected
    BY <1>4, <2>2, ReturnErrorHolds DEF writeToStream, pointers
  <2> QED
    BY <2>1, <2>2
<1>5. ASSUME NEW t \in Type, sendRequest(t)
      PROVE  SiteInv'
  BY <1>5, SameHolds DEF sendRequest, pointers
<1>6. ASSUME NEW api \in {"user", "own"}, beginBadUrl(api)
      PROVE  SiteInv'
  <2> DEFINE away == site' # site
  <2>1. beginPointers(api, FALSE) /\ (stop \/ (keep(away) /\ ~(connected /\ mixUp(api))))
    BY <1>6 DEF beginBadUrl
  <2> QED
    BY <2>1, BeginHolds
<1>7. ASSUME NEW api \in {"user", "own"}, NEW s \in Site, beginUrl(api, s)
      PROVE  SiteInv'
  <2>1. /\ beginPointers(api, TRUE) /\ site' = s
        /\ \/ stop
           \/ keep(portOnly(s)) /\ ~(connected /\ (mixUp(api) \/ switchingHost(s)))
    BY <1>7 DEF beginUrl
  <2>2. ~switchingHost(s) /\ ~portOnly(s) => s = site
    BY DEF switchingHost, portOnly
  <2> QED
    BY <2>1, <2>2, BeginHolds
<1>8. ASSUME NEW api \in {"user", "own"}, NEW s \in Site, NEW ok \in BOOLEAN, beginParts(api, s, ok)
      PROVE  SiteInv'
  <2>1. /\ beginPointers(api, ok) /\ site' = s
        /\ stop \/ (keep(s # site) /\ ~(connected /\ mixUp(api)))
    BY <1>8 DEF beginParts
  <2> QED
    BY <2>1, BeginHolds
<1> QED
  BY <1>1, <1>2, <1>3, <1>4, <1>5, <1>6, <1>7, <1>8, UploadHolds DEF Sketch, uploadStream

LEMMA ConnectHolds ==
  ASSUME SiteInv, connect
  PROVE  SiteInv'
<1>1. CASE connected /\ reuseConnection /\ UNCHANGED <<pointers, site>>
  <2>1. /\ UNCHANGED <<client, site, conn, peer, asked, strayed>> /\ inbox' = <<>>
        /\ wire = <<>> => wire' = <<>>
    BY <1>1 DEF reuseConnection, pointers, Older
  <2> QED
    BY <2>1 DEF SiteInv, Live
<1>2. CASE /\ ~connected /\ client' # "null" /\ conn' = "open" /\ peer' = site /\ site' = site
  BY <1>2 DEF SiteInv, Live
<1>3. CASE /\ ~connected /\ UNCHANGED socket /\ site' = site
  <2>1. ~Live
    BY <1>3 DEF SiteInv, Live, connected
  <2> QED
    BY <1>3, <2>1 DEF SiteInv, Live, socket
<1> QED
  BY <1>1, <1>2, <1>3 DEF connect

LEMMA RedirectHolds ==
  ASSUME SiteInv, redirect
  PROVE  SiteInv'
<1>1. client' = client /\ setURL
  BY DEF redirect, pointers
<1>2. CASE location = Path
  BY <1>1, <1>2, SameHolds DEF setURL, socket
<1>3. CASE location # Path
  <2>1. CASE connected /\ (~reuse \/ switchingHost(location))
    BY <1>1, <1>3, <2>1, StopHolds DEF setURL, stop
  <2>2. CASE ~(connected /\ (~reuse \/ switchingHost(location)))
    <3>1. /\ UNCHANGED <<conn, peer, inbox, wire, asked>> /\ site' = location
          /\ strayed' = (strayed \/ (connected /\ portOnly(location)))
      BY <1>1, <1>3, <2>2 DEF setURL, keep
    <3>2. Live => connected
      BY DEF SiteInv, Live, connected
    <3>3. connected /\ ~portOnly(location) => location = site
      BY <2>2 DEF switchingHost, portOnly
    <3>4. Live' <=> Live
      BY <3>1 DEF Live
    <3> QED
      BY <1>1, <3>1, <3>2, <3>3, <3>4 DEF SiteInv
  <2> QED
    BY <2>1, <2>2
<1> QED
  BY <1>2, <1>3

LEMMA RequestHolds ==
  ASSUME SiteInv, Request
  PROVE  SiteInv'
<1>1. CASE connect
  BY <1>1, ConnectHolds
<1>2. CASE send \/ sendStream
  <2>1. UNCHANGED <<client, site>> /\ ((\E next : sendHeader(next)) \/ returnError)
    BY <1>2 DEF send, sendStream, pointers
  <2>2. ASSUME NEW next, sendHeader(next) PROVE SiteInv'
    <3>1. /\ connected /\ UNCHANGED <<conn, peer, wire, strayed>>
          /\ conn # "open" => asked' = asked
      BY <2>2 DEF sendHeader
    <3>2. Live
      BY <3>1 DEF connected, Live
    <3> QED
      BY <2>1, <3>1, <3>2 DEF SiteInv, Live
  <2> QED
    BY <2>1, <2>2, ReturnErrorHolds
<1>3. CASE handleHeaderResponse
  <2>1. CASE connected
    BY <1>3, <2>1, SameHolds DEF handleHeaderResponse, pointers, socket
  <2>2. CASE ~connected
    BY <1>3, <2>2, ReturnErrorHolds DEF handleHeaderResponse, pointers
  <2> QED
    BY <2>1, <2>2
<1>4. CASE readStatus \/ readFields \/ readBlank \/ readTorn
  <2>1. \E kind : readLine(kind)
    BY <1>4 DEF readStatus, readFields, readBlank, readTorn
  <2> QED
    BY <2>1, ReadHolds DEF readLine, pointers
<1>5. CASE readOlder
  BY <1>5 DEF readOlder, pointers, SiteInv, Live
<1>6. CASE headersFail
  BY <1>6, SameHolds DEF headersFail, pointers, socket
<1>7. CASE redirect
  BY <1>7, RedirectHolds
<1>8. CASE returnCode
  <2>1. CASE code = "error"
    BY <1>8, <2>1, ReturnErrorHolds DEF returnCode, pointers
  <2>2. CASE code # "error"
    BY <1>8, <2>2, SameHolds DEF returnCode, pointers, socket
  <2> QED
    BY <2>1, <2>2
<1> QED
  BY <1>1, <1>2, <1>3, <1>4, <1>5, <1>6, <1>7, <1>8, UploadHolds DEF Request, uploadLost

LEMMA BodyHolds ==
  ASSUME SiteInv, Body
  PROVE  SiteInv'
<1>1. CASE readBlock
  BY <1>1, ReadHolds DEF readBlock, pointers
<1>2. CASE blockEnd
  <2>1. CASE len > 0
    BY <1>2, <2>1, ReturnErrorHolds DEF blockEnd, pointers
  <2>2. CASE ~(len > 0) /\ te = "identity"
    <3>1. UNCHANGED <<client, site>> /\ (stopped \/ UNCHANGED socket)
      BY <1>2, <2>2 DEF blockEnd, bodyDone, pointers
    <3> QED
      BY <3>1, StopHolds, SameHolds DEF socket
  <2>3. CASE ~(len > 0) /\ te # "identity"
    BY <1>2, <2>3, SameHolds DEF blockEnd, pointers, socket
  <2> QED
    BY <2>1, <2>2, <2>3
<1>3. CASE blockFails
  BY <1>3, ReturnErrorHolds DEF blockFails, pointers
<1>4. CASE readChunkSize
  <2>1. site' = site /\ inbox # <<>>
    BY <1>4 DEF readChunkSize
  <2>2. \/ stopped
        \/ returnError /\ client' = client
        \/ UNCHANGED <<client, conn, peer, wire, asked, strayed>>
    BY <1>4 DEF readChunkSize, pointers
  <2> QED
    BY <2>1, <2>2, StopHolds, ReturnErrorHolds, ReadHolds
<1>5. CASE readTrailer
  <2>1. UNCHANGED <<client, site>> /\ inbox # <<>>
    BY <1>5 DEF readTrailer, pointers
  <2>2. returnError \/ UNCHANGED <<conn, peer, wire, asked, strayed>>
    BY <1>5 DEF readTrailer
  <2> QED
    BY <2>1, <2>2, ReturnErrorHolds, ReadHolds
<1>6. CASE chunkFails
  BY <1>6, ReturnErrorHolds DEF chunkFails, pointers
<1> QED
  BY <1>1, <1>2, <1>3, <1>4, <1>5, <1>6 DEF Body

------------------------------------------------------------------------------
\* Whatever the sketch calls, the server answers and redirects, and whichever
\* API made the client, a request goes to its own site, but for the kept
\* connections that strayed names.
THEOREM RequestSafe == Spec => []RequestToItsSite
<1>1. Init => SiteInv
  BY DEF Init, SiteInv, Live
<1>2. SiteInv /\ [Next]_vars => SiteInv'
  <2> SUFFICES ASSUME SiteInv, Next \/ UNCHANGED vars
               PROVE  SiteInv'
    OBVIOUS
  <2>1. CASE UNCHANGED vars
    BY <2>1, SameHolds DEF vars, pointers, socket
  <2> QED
    BY <2>1, ServerHolds, SketchHolds, RequestHolds, BodyHolds DEF Next
<1>3. SiteInv => RequestToItsSite
  BY DEF SiteInv, Live, RequestToItsSite, connected
<1> QED
  BY <1>1, <1>2, <1>3, PTL DEF Spec

------------------------------------------------------------------------------
(***************************************************************************)
(* What a connection still brings, in the order in which it will be read.  *)
(***************************************************************************)
Piece ==
  [part : {"blank", "size", "data", "crlf", "last", "old", "torn", "rest"}, own : BOOLEAN]
    \cup [part : {"status", "field"}, own : BOOLEAN, resp : Response]
PiecesOK == inbox \in Seq(Piece) /\ wire \in Seq(Piece)
Coming == inbox \o wire

\* s is what comes of a chunked body of b chunks after its first p pieces; it
\* may end early.
Chunks(s, b, p) ==
  \A i \in 1 .. Len(s) : p + i <= 3 * b + 2 /\ s[i].own /\ s[i].part = chunkPart(b, p + i)

Data(s) == \A i \in 1 .. Len(s) : s[i].own /\ s[i].part = "data"

\* The n-th piece of response r, and what comes of r after its first p pieces.
PartOf(r, n) ==
  IF n = 1 THEN "status" ELSE IF n = 2 THEN "field" ELSE IF n = 3 THEN "blank"
  ELSE IF r.te = "chunked" THEN chunkPart(r.body, n - 3) ELSE "data"
From(s, r, p) ==
  \A i \in 1 .. Len(s) :
    /\ s[i].own /\ s[i].part = PartOf(r, p + i)
    /\ p + i <= 2 => s[i].resp = r
    /\ r.te = "chunked" => p + i <= 3 * r.body + 5

\* What was read of the head of r when p of its lines were.
Said(r, p) ==
  /\ p >= 1 => code = r.code
  /\ IF p = 2 THEN size = r.len /\ te = r.te /\ due = (IF r.te = "chunked" THEN r.body ELSE r.len)
     ELSE due = -1

\* What the properties except.
Off == late \/ torn

\* Nothing of the body that the response announced was read, or all of it but
\* the CRLF after the last chunk.
Ahead ==
  due # -1 =>
    /\ due \in Nat
    /\ IF te = "identity" THEN size = due /\ Data(Coming)
       ELSE /\ size \in Int
            /\ \/ Chunks(Coming, due, 0)
               \/ (due = 0 \/ size > 0) /\ Chunks(Coming, due, 3 * due + 1)

\* Between calls, and with the head read.
AtRest == (pc = "idle" /\ Live) \/ pc = "code" => Ahead

\* Inside writeToStream() the count got tells where in the body the call is.
AtBlock ==
  pc = "block" /\ due # -1 =>
    /\ due \in Nat /\ got \in Nat /\ own
    /\ IF te = "identity" THEN size = due /\ len \in Nat /\ got + len = due /\ Data(Coming)
       ELSE /\ size \in Int
            /\ \/ len = 1 /\ got < due /\ Chunks(Coming, due, 3 * got + 1)
               \/ len = 0 /\ got \in 1 .. due /\ Chunks(Coming, due, 3 * got - 1)
AtChunk ==
  pc \in {"chunk", "crlf"} /\ due # -1 =>
    /\ te # "identity" /\ size \in Int /\ due \in Nat /\ got \in 0 .. due /\ own
    /\ pc = "crlf" => got >= 1 /\ Chunks(Coming, due, 3 * got - 1)
    /\ pc = "chunk" => \/ Chunks(Coming, due, 3 * got)
                       \/ got = 0 /\ (due = 0 \/ size > 0) /\ Chunks(Coming, due, 3 * due + 1)

\* At most the last request is unanswered, and if so nothing comes yet; after
\* a timeout the connection is about to be closed.
AskedOnce ==
  \/ asked = 0
  \/ /\ asked = 1
     /\ \/ pc = "code" /\ code = "error" /\ due = -1
        \/ pc \in {"upload", "response"} /\ Coming = <<>>
        \/ pc = "headers" /\ Coming = <<>> /\ due = -1

\* Before a request nothing comes, after it only its response.
Fresh ==
  /\ pc = "send" => inbox = <<>> /\ wire = <<>>
  /\ pc \in {"upload", "response"} => Coming = <<>> \/ \E r \in Response : From(Coming, r, 0)
  /\ pc = "headers" => \/ Coming = <<>> /\ due = -1
                       \/ \E r \in Response, p \in 0 .. 2 : From(Coming, r, p) /\ Said(r, p)
  /\ pc = "code" /\ code \in Code => own

BodyInv ==
  /\ code = "body" => pc = "idle" /\ (due # -1 /\ ~Off => own /\ got = due)
  /\ ~Off => AskedOnce /\ Fresh /\ AtRest /\ AtBlock /\ AtChunk

------------------------------------------------------------------------------
(* Sequences of pieces.                                                    *)

LEMMA OlderTyped ==
  ASSUME NEW s
  PROVE  Older(s) \in Seq(Piece)
<1>1. [part |-> "old", own |-> FALSE] \in Piece
  BY DEF Piece
<1> QED
  BY <1>1 DEF Older

LEMMA Joined ==
  ASSUME NEW S, NEW u \in Seq(S), NEW v \in Seq(S)
  PROVE  /\ u \o v \in Seq(S) /\ Len(u \o v) = Len(u) + Len(v)
         /\ \A i \in 1 .. Len(u) : (u \o v)[i] = u[i]
         /\ \A i \in 1 .. Len(v) : (u \o v)[Len(u) + i] = v[i]
OBVIOUS

LEMMA PiecesTyped ==
  ASSUME NEW r \in Response, NEW mine \in BOOLEAN
  PROVE  /\ Pieces(r, mine) \in Seq(Piece)
         /\ mine => From(Pieces(r, mine), r, 0)
<1> DEFINE head == <<[part |-> "status", own |-> mine, resp |-> r],
                     [part |-> "field", own |-> mine, resp |-> r], [part |-> "blank", own |-> mine]>>
           n == IF r.te = "chunked" THEN 3 * r.body + 2 ELSE r.body
           name(i) == IF r.te = "chunked" THEN chunkPart(r.body, i) ELSE "data"
           tail == [i \in 1 .. n |-> [part |-> name(i), own |-> mine]]
<1>1. r.body \in Nat /\ n \in Nat
  BY ResponseAssumption
<1>2. head \in Seq(Piece) /\ Len(head) = 3
  BY DEF Piece
<1>3. ASSUME NEW i \in 1 .. n
      PROVE  [part |-> name(i), own |-> mine] \in Piece
  <2>1. i % 3 \in 0 .. 2
    BY <1>1
  <2>2. name(i) \in {"size", "data", "crlf", "last"}
    BY <2>1 DEF chunkPart
  <2> QED
    BY <2>2 DEF Piece
<1>4. tail \in Seq(Piece) /\ Len(tail) = n
  BY <1>1, <1>3
<1> DEFINE s == Pieces(r, mine)
<1>5. s = head \o tail
  BY DEF Pieces
<1>6. /\ s \in Seq(Piece) /\ Len(s) = n + 3
      /\ \A i \in 1 .. 3 : s[i] = head[i]
      /\ \A i \in 4 .. n + 3 : s[i] = tail[i - 3]
  <2> HIDE DEF head, tail, n, s
  <2>1. /\ s \in Seq(Piece) /\ Len(s) = Len(head) + Len(tail)
        /\ \A i \in 1 .. Len(head) : s[i] = head[i]
        /\ \A i \in 1 .. Len(tail) : s[Len(head) + i] = tail[i]
    <3>1. /\ head \o tail \in Seq(Piece) /\ Len(head \o tail) = Len(head) + Len(tail)
          /\ \A i \in 1 .. Len(head) : (head \o tail)[i] = head[i]
          /\ \A i \in 1 .. Len(tail) : (head \o tail)[Len(head) + i] = tail[i]
      <4>1. head \in Seq(Piece) /\ tail \in Seq(Piece)
        BY <1>2, <1>4, Zenon
      <4> HIDE DEF Piece
      <4> QED
        BY <4>1, Joined
    <3> QED
      BY <1>5, <3>1, Zenon
  <2>2. ASSUME NEW i \in 4 .. n + 3 PROVE s[i] = tail[i - 3]
    <3>1. i - 3 \in 1 .. n /\ 3 + (i - 3) = i
      BY <1>1
    <3> QED
      BY <1>2, <1>4, <2>1, <3>1
  <2>3. Len(s) = n + 3
    <3>1. 3 + n = n + 3
      BY <1>1
    <3> QED
      BY <1>2, <1>4, <2>1, <3>1
  <2>4. \A i \in 1 .. 3 : s[i] = head[i]
    BY <1>2, <2>1
  <2> QED
    BY <2>1, <2>2, <2>3, <2>4
<1>7. ASSUME mine
      PROVE  From(s, r, 0)
  <2> SUFFICES ASSUME NEW i \in 1 .. Len(s)
               PROVE  /\ s[i].own /\ s[i].part = PartOf(r, 0 + i)
                      /\ 0 + i <= 2 => s[i].resp = r
                      /\ r.te = "chunked" => 0 + i <= 3 * r.body + 5
    BY DEF From
  <2>1. i \in Int /\ 1 <= i /\ i <= n + 3 /\ 0 + i = i
    BY <1>1, <1>6
  <2>2. r.te = "chunked" => 0 + i <= 3 * r.body + 5
    BY <1>1, <2>1
  <2>3. CASE i <= 3
    <3>1. i \in {1, 2, 3} /\ s[i] = head[i]
      BY <1>6, <2>1, <2>3
    <3>2. s[i].own = mine /\ s[i].part = PartOf(r, i) /\ (i <= 2 => s[i].resp = r)
      BY <3>1 DEF PartOf
    <3> QED
      BY <1>7, <2>1, <2>2, <3>2
  <2>4. CASE i > 3
    <3>1. i - 3 \in 1 .. n /\ i # 1 /\ i # 2 /\ i # 3 /\ s[i] = tail[i - 3]
      <4> HIDE DEF tail, n, s
      <4>1. i \in 4 .. n + 3 /\ i - 3 \in 1 .. n /\ i # 1 /\ i # 2 /\ i # 3
        BY <1>1, <2>1, <2>4
      <4> QED
        BY <1>6, <4>1
    <3>2. s[i] = [part |-> name(i - 3), own |-> mine]
      BY <3>1
    <3>3. s[i].own = mine /\ s[i].part = name(i - 3)
      BY <3>2
    <3>4. PartOf(r, 0 + i) = name(i - 3) /\ ~(0 + i <= 2)
      BY <2>1, <2>4, <3>1 DEF PartOf
    <3>5. s[i].own
      BY <1>7, <3>3, Zenon
    <3>6. s[i].part = PartOf(r, 0 + i)
      BY <3>3, <3>4, Zenon
    <3> QED
      BY <2>2, <3>4, <3>5, <3>6, Zenon
  <2> QED
    BY <2>1, <2>3, <2>4
<1> QED
  BY <1>6, <1>7

\* Steps that append to the wire, move a piece or lose pieces keep the type.
LEMMA PiecesHold ==
  ASSUME PiecesOK, Next \/ UNCHANGED vars
  PROVE  PiecesOK'
<1>1. CASE Answer
  <2>1. PICK r \in Response : wire' = wire \o Pieces(r, asked = 1) /\ inbox' = inbox
    BY <1>1 DEF Answer
  <2>2. Pieces(r, asked = 1) \in Seq(Piece)
    BY PiecesTyped
  <2> QED
    BY <2>1, <2>2 DEF PiecesOK
<1>2. CASE Deliver
  BY <1>2 DEF Deliver, PiecesOK
<1>3. CASE inbox' = <<>> /\ wire' = <<>>
  BY <1>3 DEF PiecesOK
<1>4. CASE UNCHANGED <<inbox, wire>>
  BY <1>4 DEF PiecesOK
<1>5. CASE inbox # <<>> /\ inbox' = Tail(inbox) /\ wire' = wire
  BY <1>5 DEF PiecesOK
<1>6. stop \/ stopped => inbox' = <<>> /\ wire' = <<>>
  BY DEF stop, stopped
<1>7. returnError => PiecesOK'
  BY <1>3, <1>4, <1>6 DEF returnError, socket
<1>8. uploaded => PiecesOK'
  BY <1>4, <1>7 DEF uploaded, socket
<1>9. ASSUME NEW away, keep(away) PROVE PiecesOK'
  BY <1>4, <1>9 DEF keep
<1>10. CASE Server
  <2>1. CASE ServerClose
    BY <2>1 DEF ServerClose, PiecesOK
  <2>2. CASE Stall
    <3>1. /\ Head(wire).own \in BOOLEAN
          /\ inbox' = <<[part |-> "torn", own |-> Head(wire).own]>>
          /\ wire' = <<[part |-> "rest", own |-> Head(wire).own]>>
      BY <2>2 DEF Stall, PiecesOK, Piece
    <3>2. \A b \in BOOLEAN : /\ [part |-> "torn", own |-> b] \in Piece
                            /\ [part |-> "rest", own |-> b] \in Piece
      BY DEF Piece
    <3> QED
      BY <3>1, <3>2 DEF PiecesOK
  <2> QED
    BY <1>1, <1>2, <1>10, <2>1, <2>2 DEF Server
<1>11. CASE Sketch
  <2>1. CASE end
    BY <1>3, <1>4, <1>6, <2>1 DEF end, socket
  <2>2. CASE setReuse \/ \E t \in Type : sendRequest(t)
    BY <1>4, <2>2 DEF setReuse, sendRequest, socket
  <2>3. CASE noStream
    BY <1>7, <2>3 DEF noStream
  <2>4. CASE writeToStream
    BY <1>4, <1>7, <2>4 DEF writeToStream, socket
  <2>5. ASSUME NEW api \in {"user", "own"}, beginBadUrl(api) PROVE PiecesOK'
    BY <1>3, <1>6, <1>9, <2>5 DEF beginBadUrl
  <2>6. ASSUME NEW api \in {"user", "own"}, NEW s \in Site, beginUrl(api, s) PROVE PiecesOK'
    BY <1>3, <1>6, <1>9, <2>6 DEF beginUrl
  <2>7. ASSUME NEW api \in {"user", "own"}, NEW s \in Site, NEW ok \in BOOLEAN,
               beginParts(api, s, ok)
        PROVE  PiecesOK'
    BY <1>3, <1>6, <1>9, <2>7 DEF beginParts
  <2> QED
    BY <1>8, <1>11, <2>1, <2>2, <2>3, <2>4, <2>5, <2>6, <2>7 DEF Sketch, uploadStream
<1>12. CASE Request
  <2>1. CASE connect
    <3>1. CASE reuseConnection
      BY <3>1, OlderTyped DEF reuseConnection, PiecesOK
    <3> QED
      BY <1>4, <2>1, <3>1 DEF connect, socket
  <2>2. CASE send \/ sendStream
    <3>1. ASSUME NEW next, sendHeader(next) PROVE PiecesOK'
      BY <3>1, OlderTyped DEF sendHeader, PiecesOK
    <3> QED
      BY <1>7, <2>2, <3>1 DEF send, sendStream
  <2>3. CASE handleHeaderResponse
    BY <1>4, <1>7, <2>3 DEF handleHeaderResponse, socket
  <2>4. CASE readStatus \/ readFields \/ readBlank \/ readTorn
    BY <1>5, <2>4 DEF readStatus, readFields, readBlank, readTorn, readLine
  <2>5. CASE readOlder
    BY <1>3, <2>5 DEF readOlder
  <2>6. CASE headersFail
    BY <1>4, <2>6 DEF headersFail, socket
  <2>7. CASE redirect
    <3>1. setURL
      BY <2>7 DEF redirect
    <3> QED
      BY <1>3, <1>4, <1>6, <1>9, <3>1 DEF setURL, socket
  <2>8. CASE returnCode
    BY <1>4, <1>7, <2>8 DEF returnCode, socket
  <2> QED
    BY <1>8, <1>12, <2>1, <2>2, <2>3, <2>4, <2>5, <2>6, <2>7, <2>8 DEF Request, uploadLost
<1>13. CASE Body
  <2>1. CASE readBlock
    BY <1>5, <2>1 DEF readBlock
  <2>2. CASE blockEnd
    BY <1>3, <1>4, <1>6, <1>7, <2>2 DEF blockEnd, bodyDone, socket
  <2>3. CASE blockFails \/ chunkFails
    BY <1>7, <2>3 DEF blockFails, chunkFails
  <2>4. CASE readChunkSize
    BY <1>3, <1>5, <1>6, <1>7, <2>4 DEF readChunkSize
  <2>5. CASE readTrailer
    BY <1>5, <1>7, <2>5 DEF readTrailer
  <2> QED
    BY <1>13, <2>1, <2>2, <2>3, <2>4, <2>5 DEF Body
<1>14. CASE UNCHANGED vars
  BY <1>4, <1>14 DEF vars, socket
<1> QED
  BY <1>10, <1>11, <1>12, <1>13, <1>14 DEF Next

\* A piece is read.
LEMMA Shift ==
  ASSUME PiecesOK, inbox # <<>>, inbox' = Tail(inbox), wire' = wire
  PROVE  /\ Len(Coming) \in Nat /\ Len(Coming') \in Nat /\ Len(Coming) = Len(Coming') + 1
         /\ Coming[1] = Head(inbox)
         /\ \A i \in 1 .. Len(Coming') : Coming'[i] = Coming[i + 1]
<1>1. /\ inbox \in Seq(Piece) /\ wire \in Seq(Piece) /\ Tail(inbox) \in Seq(Piece)
      /\ Len(inbox) \in Nat /\ Len(inbox) >= 1 /\ Len(Tail(inbox)) = Len(inbox) - 1
      /\ \A i \in 1 .. Len(inbox) - 1 : Tail(inbox)[i] = inbox[i + 1]
      /\ Len(wire) \in Nat
  BY DEF PiecesOK
<1>2. Len(Coming) = Len(inbox) + Len(wire) /\ Len(Coming') = Len(inbox) - 1 + Len(wire)
  BY <1>1 DEF Coming
<1>3. Coming[1] = Head(inbox)
  BY <1>1 DEF Coming
<1>4. ASSUME NEW i \in 1 .. Len(Coming')
      PROVE  Coming'[i] = Coming[i + 1]
  <2>1. i \in Int /\ 1 <= i /\ i <= Len(inbox) - 1 + Len(wire)
    BY <1>1, <1>2
  <2>2. Coming'[i] = IF i <= Len(inbox) - 1 THEN Tail(inbox)[i] ELSE wire[i - (Len(inbox) - 1)]
    BY <1>1, <2>1 DEF Coming
  <2>3. Coming[i + 1] = IF i + 1 <= Len(inbox) THEN inbox[i + 1] ELSE wire[i + 1 - Len(inbox)]
    BY <1>1, <2>1 DEF Coming
  <2>4. i <= Len(inbox) - 1 => Tail(inbox)[i] = inbox[i + 1]
    BY <1>1, <2>1
  <2>5. i - (Len(inbox) - 1) = i + 1 - Len(inbox) /\ (i <= Len(inbox) - 1 <=> i + 1 <= Len(inbox))
    BY <1>1, <2>1
  <2> QED
    BY <2>2, <2>3, <2>4, <2>5
<1> QED
  BY <1>1, <1>2, <1>3, <1>4

LEMMA ShiftChunks ==
  ASSUME PiecesOK, inbox # <<>>, inbox' = Tail(inbox), wire' = wire,
         NEW b \in Nat, NEW p \in Int, Chunks(Coming, b, p)
  PROVE  /\ Chunks(Coming', b, p + 1)
         /\ p + 1 <= 3 * b + 2 /\ Head(inbox).own /\ Head(inbox).part = chunkPart(b, p + 1)
<1> USE Shift
<1>1. ASSUME NEW i \in 1 .. Len(Coming')
      PROVE  (p + 1) + i <= 3 * b + 2 /\ Coming'[i].own /\ Coming'[i].part = chunkPart(b, (p + 1) + i)
  <2>1. i + 1 \in 1 .. Len(Coming) /\ p + (i + 1) = (p + 1) + i
    OBVIOUS
  <2> QED
    BY <2>1 DEF Chunks
<1>2. 1 \in 1 .. Len(Coming)
  OBVIOUS
<1> QED
  BY <1>1, <1>2 DEF Chunks

LEMMA ShiftFrom ==
  ASSUME PiecesOK, inbox # <<>>, inbox' = Tail(inbox), wire' = wire,
         NEW r, NEW p \in Int, From(Coming, r, p)
  PROVE  /\ From(Coming', r, p + 1)
         /\ Head(inbox).own /\ Head(inbox).part = PartOf(r, p + 1)
         /\ p + 1 <= 2 => Head(inbox).resp = r
<1> USE Shift
<1>1. ASSUME NEW i \in 1 .. Len(Coming')
      PROVE  /\ Coming'[i].own /\ Coming'[i].part = PartOf(r, (p + 1) + i)
             /\ (p + 1) + i <= 2 => Coming'[i].resp = r
             /\ r.te = "chunked" => (p + 1) + i <= 3 * r.body + 5
  <2>1. i + 1 \in 1 .. Len(Coming) /\ p + (i + 1) = (p + 1) + i
    OBVIOUS
  <2> QED
    BY <2>1 DEF From
<1>2. 1 \in 1 .. Len(Coming)
  OBVIOUS
<1> QED
  BY <1>1, <1>2 DEF From

LEMMA ShiftData ==
  ASSUME PiecesOK, inbox # <<>>, inbox' = Tail(inbox), wire' = wire, Data(Coming)
  PROVE  Data(Coming') /\ Head(inbox).own /\ Head(inbox).part = "data"
<1> USE Shift
<1>1. ASSUME NEW i \in 1 .. Len(Coming')
      PROVE  Coming'[i].own /\ Coming'[i].part = "data"
  <2>1. i + 1 \in 1 .. Len(Coming)
    OBVIOUS
  <2> QED
    BY <2>1 DEF Data
<1>2. 1 \in 1 .. Len(Coming)
  OBVIOUS
<1> QED
  BY <1>1, <1>2 DEF Data

------------------------------------------------------------------------------
(* The invariant.                                                          *)

\* A connection that is gone asks for nothing.
LEMMA BodyGone ==
  ASSUME SiteInv', ~Live', pc' = "idle", code' # "body"
  PROVE  BodyInv'
<1>1. asked' = 0
  BY DEF SiteInv, Live
<1> QED
  BY <1>1 DEF BodyInv, AskedOnce, Fresh, AtRest, AtBlock, AtChunk

LEMMA ErrorGone ==
  ASSUME SiteInv, returnError
  PROVE  ~Live' /\ pc' = "idle" /\ code' # "body"
<1>1. pc' = "idle" /\ code' = "none"
  BY DEF returnError, dropLocals
<1>2. CASE connected
  BY <1>1, <1>2 DEF returnError, stop, stopped, Live
<1>3. CASE ~connected
  BY <1>1, <1>3 DEF returnError, socket, SiteInv, Live, connected
<1> QED
  BY <1>2, <1>3

\* What comes gets shorter at its end, or stays.
LEMMA BodySame ==
  ASSUME PiecesOK, BodyInv, UNCHANGED <<pc, code, size, te, due, len, got, own, Off>>,
         Coming \in Seq(Piece), Coming' \in Seq(Piece), Len(Coming') <= Len(Coming),
         \A i \in 1 .. Len(Coming') : Coming'[i] = Coming[i],
         asked' \in {0, asked}, Live' => Live,
         inbox = <<>> /\ wire = <<>> => inbox' = <<>> /\ wire' = <<>>
  PROVE  BodyInv'
<1>1. Len(Coming) \in Nat /\ Len(Coming') \in Nat
  OBVIOUS
<1>2. ASSUME NEW b, NEW p, Chunks(Coming, b, p)
      PROVE  Chunks(Coming', b, p)
  BY <1>1, <1>2 DEF Chunks
<1>3. Data(Coming) => Data(Coming')
  BY <1>1 DEF Data
<1>4. ASSUME NEW r, NEW p, From(Coming, r, p)
      PROVE  From(Coming', r, p)
  BY <1>1, <1>4 DEF From
<1>5. Coming = <<>> => Coming' = <<>>
  BY <1>1
<1>6. code = "body" => pc = "idle" /\ (due # -1 /\ ~Off => own /\ got = due)
  BY DEF BodyInv
<1>7. ASSUME ~Off
      PROVE  AskedOnce' /\ Fresh' /\ AtRest' /\ AtBlock' /\ AtChunk'
  <2>1. AskedOnce /\ Fresh /\ AtRest /\ AtBlock /\ AtChunk
    BY <1>7 DEF BodyInv
  <2>2. AskedOnce'
    BY <1>5, <2>1 DEF AskedOnce
  <2>3. Fresh'
    BY <1>4, <1>5, <2>1 DEF Fresh, Said
  <2>4. AtRest'
    <3>1. Ahead => Ahead'
      BY <1>2, <1>3 DEF Ahead
    <3> QED
      BY <2>1, <3>1 DEF AtRest
  <2>5. AtBlock'
    BY <1>2, <1>3, <2>1 DEF AtBlock
  <2>6. AtChunk'
    BY <1>2, <2>1 DEF AtChunk
  <2> QED
    BY <2>2, <2>3, <2>4, <2>5, <2>6
<1> QED
  BY <1>6, <1>7 DEF BodyInv

LEMMA BodyServer ==
  ASSUME SiteInv, PiecesOK, PiecesOK', BodyInv, Server
  PROVE  BodyInv'
<1>0. Coming \in Seq(Piece) /\ Coming' \in Seq(Piece)
  BY DEF PiecesOK, Coming
<1>1. CASE Answer
  <2>1. /\ asked > 0 /\ asked' = asked - 1 /\ inbox' = inbox
        /\ UNCHANGED <<pc, code, size, te, due, len, got, own, Off>>
    BY <1>1 DEF Answer, headers, bodyVars, Off
  <2> SUFFICES ASSUME ~Off PROVE BodyInv'
    BY <2>1 DEF BodyInv
  <2>2. PICK r \in Response : wire' = wire \o Pieces(r, asked = 1)
    BY <1>1 DEF Answer
  <2>3. /\ asked = 1
        /\ \/ pc = "code" /\ code = "error" /\ due = -1
           \/ pc \in {"upload", "response"} /\ Coming = <<>>
           \/ pc = "headers" /\ Coming = <<>> /\ due = -1
    BY <2>1 DEF BodyInv, AskedOnce
  <2>4. asked' = 0
    BY <2>1, <2>3
  <2>5. CASE pc = "code" /\ code = "error" /\ due = -1
    <3>1. AskedOnce' /\ Fresh' /\ AtRest' /\ AtBlock' /\ AtChunk'
      BY <2>1, <2>4, <2>5 DEF AskedOnce, Fresh, AtRest, AtBlock, AtChunk, Ahead, Code
    <3> QED
      BY <2>1, <2>5, <3>1 DEF BodyInv
  <2>6. CASE pc \in {"upload", "response", "headers"} /\ Coming = <<>> /\ (pc = "headers" => due = -1)
    <3>1. inbox = <<>> /\ wire = <<>>
      BY <2>6 DEF PiecesOK, Coming
    <3>2. Pieces(r, TRUE) \in Seq(Piece) /\ From(Pieces(r, TRUE), r, 0) /\ (asked = 1) = TRUE
      BY <2>3, PiecesTyped
    <3>3. wire' = wire \o Pieces(r, TRUE)
      BY <2>2, <3>2
    <3>4. Coming' = Pieces(r, TRUE)
      BY <2>1, <3>1, <3>2, <3>3 DEF Coming
    <3>5. AskedOnce' /\ AtRest' /\ AtBlock' /\ AtChunk'
      BY <2>1, <2>4, <2>6 DEF AskedOnce, AtRest, AtBlock, AtChunk
    <3>6. Fresh'
      <4>1. From(Coming', r, 0) /\ (pc = "headers" => Said(r, 0)')
        <5>1. From(Coming', r, 0)
          BY <3>2, <3>4, Zenon
        <5>2. pc = "headers" => due' = -1
          BY <2>1, <2>6
        <5> QED
          BY <5>1, <5>2 DEF Said
      <4>2. pc' = "headers" => \E q \in Response, p \in 0 .. 2 : From(Coming', q, p) /\ Said(q, p)'
        BY <2>1, <4>1
      <4> QED
        BY <2>1, <2>6, <4>1, <4>2 DEF Fresh
    <3> QED
      BY <2>1, <2>6, <3>5, <3>6 DEF BodyInv
  <2> QED
    BY <2>3, <2>5, <2>6
<1>2. CASE Deliver
  <2>1. /\ wire # <<>> /\ inbox' = Append(inbox, Head(wire)) /\ wire' = Tail(wire)
        /\ UNCHANGED <<conn, asked, pc, code, size, te, due, len, got, own, Off>>
    BY <1>2 DEF Deliver, headers, bodyVars, Off
  <2>2. Live
    BY <2>1 DEF SiteInv, Live
  <2>3. inbox \in Seq(Piece) /\ wire \in Seq(Piece)
    BY DEF PiecesOK
  <2>4. Coming' = Coming
    BY <2>1, <2>3 DEF Coming
  <2> QED
    BY <1>0, <2>1, <2>2, <2>4, BodySame
<1>3. CASE ServerClose
  <2>1. /\ conn = "open" /\ wire' = <<>> /\ inbox' = inbox /\ asked' = 0
        /\ UNCHANGED <<pc, code, size, te, due, len, got, own, Off>>
    BY <1>3 DEF ServerClose, headers, bodyVars, Off
  <2>2. inbox \in Seq(Piece) /\ wire \in Seq(Piece)
    BY DEF PiecesOK
  <2>3. Coming' = inbox
    BY <2>1, <2>2 DEF Coming
  <2>4. Len(Coming') <= Len(Coming) /\ \A i \in 1 .. Len(Coming') : Coming'[i] = Coming[i]
    BY <2>2, <2>3 DEF Coming
  <2>5. Live
    BY <2>1 DEF Live
  <2> QED
    BY <1>0, <2>1, <2>4, <2>5, BodySame
<1>4. CASE Stall
  <2>1. Off' /\ pc # "idle" /\ UNCHANGED <<pc, code>>
    BY <1>4 DEF Stall, Off
  <2> QED
    BY <2>1 DEF BodyInv
<1> QED
  BY <1>1, <1>2, <1>3, <1>4 DEF Server

\* end() and begin(): a connection is closed or kept, and what the response
\* announced is forgotten or kept.
LEMMA BodyIdle ==
  ASSUME BodyInv, SiteInv', pc = "idle", pc' = "idle", code' = "none", te' = te,
         due' = -1 \/ UNCHANGED <<size, due>>, ~Live' \/ UNCHANGED <<inbox, wire, conn, asked, Off>>
  PROVE  BodyInv'
<1>1. CASE ~Live'
  BY <1>1, BodyGone
<1>2. CASE UNCHANGED <<inbox, wire, conn, asked, Off>>
  <2>1. Coming' = Coming /\ (Live' <=> Live)
    BY <1>2 DEF Coming, Live
  <2>2. ASSUME ~Off
        PROVE  AskedOnce' /\ Fresh' /\ AtRest' /\ AtBlock' /\ AtChunk'
    <3>1. asked' = 0
      BY <1>2, <2>2 DEF BodyInv, AskedOnce
    <3>2. AtRest'
      <4>1. CASE due' = -1
        BY <4>1 DEF AtRest, Ahead
      <4>2. CASE UNCHANGED <<size, due>>
        BY <2>1, <2>2, <4>2 DEF BodyInv, AtRest, Ahead
      <4> QED
        BY <4>1, <4>2
    <3> QED
      BY <3>1, <3>2 DEF AskedOnce, Fresh, AtBlock, AtChunk
  <2> QED
    BY <1>2, <2>2 DEF BodyInv
<1> QED
  BY <1>1, <1>2

LEMMA BodyUpload ==
  ASSUME SiteInv, SiteInv', BodyInv, pc = "upload", uploaded
  PROVE  BodyInv'
<1>1. CASE returnError
  BY <1>1, ErrorGone, BodyGone
<1>2. CASE pc' = "response" /\ UNCHANGED <<socket, code>>
  <2>1. UNCHANGED <<inbox, wire, asked, Off>> /\ due' = due
    BY <1>2 DEF socket, Off, uploaded, headers
  <2>2. Coming' = Coming /\ code # "body"
    BY <2>1 DEF Coming, BodyInv
  <2> QED
    BY <1>2, <2>1, <2>2 DEF BodyInv, AskedOnce, Fresh, AtRest, AtBlock, AtChunk
<1> QED
  BY <1>1, <1>2 DEF uploaded

LEMMA BodySketch ==
  ASSUME SiteInv, SiteInv', PiecesOK, BodyInv, Sketch
  PROVE  BodyInv'
<1>1. CASE setReuse
  <2>1. UNCHANGED <<pc, code, size, te, due, len, got, own, Off, inbox, wire, conn, asked>>
    BY <1>1 DEF setReuse, headers, bodyVars, socket, Off
  <2>2. Coming' = Coming /\ Coming \in Seq(Piece) /\ Live' = Live
    BY <2>1 DEF Coming, Live, PiecesOK
  <2> QED
    BY <2>1, <2>2, BodySame
<1>2. CASE end
  <2>1. /\ pc = "idle" /\ pc' = "idle" /\ code' = "none" /\ te' = te /\ due' = -1
        /\ stop \/ UNCHANGED socket
    BY <1>2 DEF end, clear
  <2>2. ~Live' \/ UNCHANGED <<inbox, wire, conn, asked, Off>>
    BY <2>1 DEF stop, stopped, socket, Live, Off
  <2> QED
    BY <2>1, <2>2, BodyIdle
<1>3. CASE noStream
  BY <1>3, ErrorGone, BodyGone DEF noStream
<1>4. CASE writeToStream
  <2>1. CASE ~connected
    BY <1>4, <2>1, ErrorGone, BodyGone DEF writeToStream
  <2>2. CASE connected
    <3>1. /\ pc = "idle" /\ got' = 0 /\ own' = TRUE /\ code' = "none"
          /\ UNCHANGED <<size, te, due, inbox, wire, asked, Off>>
          /\ IF te = "identity" THEN pc' = "block" /\ len' = size ELSE pc' = "chunk"
      BY <1>4, <2>2 DEF writeToStream, headers, socket, Off
    <3>2. Coming' = Coming /\ Live
      BY <2>2, <3>1 DEF Coming, Live, connected
    <3>3. ASSUME ~Off
          PROVE  AskedOnce' /\ Fresh' /\ AtRest' /\ AtBlock' /\ AtChunk'
      <4>1. asked' = 0 /\ Ahead
        BY <3>1, <3>2, <3>3 DEF BodyInv, AskedOnce, AtRest
      <4>2. AskedOnce' /\ Fresh' /\ AtRest'
        BY <3>1, <4>1 DEF AskedOnce, Fresh, AtRest
      <4>3. CASE te = "identity"
        <5>1. AtBlock'
          BY <3>1, <3>2, <4>1, <4>3 DEF Ahead, AtBlock
        <5> QED
          BY <3>1, <4>2, <4>3, <5>1 DEF AtChunk
      <4>4. CASE te # "identity"
        <5>1. 3 * 0 = 0
          OBVIOUS
        <5>2. AtChunk'
          BY <3>1, <3>2, <4>1, <4>4, <5>1 DEF Ahead, AtChunk
        <5> QED
          BY <3>1, <4>2, <4>4, <5>2 DEF AtBlock
      <4> QED
        BY <4>3, <4>4
    <3> QED
      BY <3>1, <3>3 DEF BodyInv
  <2> QED
    BY <2>1, <2>2
<1>5. ASSUME NEW t \in Type, sendRequest(t)
      PROVE  BodyInv'
  <2>1. /\ pc = "idle" /\ pc' = "connect" /\ code' = "none" /\ asked' = asked /\ (Off => ~connected)
    BY <1>5 DEF sendRequest, Unmixed, Off
  <2>2. asked = 0
    <3>1. CASE Off
      BY <2>1, <3>1 DEF SiteInv, Live, connected
    <3>2. CASE ~Off
      BY <2>1, <3>2 DEF BodyInv, AskedOnce
    <3> QED
      BY <3>1, <3>2
  <2> QED
    BY <2>1, <2>2 DEF BodyInv, AskedOnce, Fresh, AtRest, AtBlock, AtChunk
<1>6. ASSUME NEW away, stop \/ keep(away)
      PROVE  ~Live' \/ UNCHANGED <<inbox, wire, conn, asked, Off>>
  BY <1>6 DEF stop, stopped, keep, Live, Off
<1>7. ASSUME NEW api \in {"user", "own"}, beginBadUrl(api)
      PROVE  BodyInv'
  <2>1. /\ pc = "idle" /\ pc' = "idle" /\ code' = "none" /\ te' = te
        /\ due' = -1 \/ UNCHANGED <<size, due>>
        /\ stop \/ keep(site' # site)
    BY <1>7 DEF beginBadUrl, clear
  <2> QED
    BY <1>6, <2>1, BodyIdle
<1>8. ASSUME NEW api \in {"user", "own"}, NEW s \in Site, beginUrl(api, s)
      PROVE  BodyInv'
  <2>1. /\ pc = "idle" /\ pc' = "idle" /\ code' = "none" /\ te' = te
        /\ due' = -1 \/ UNCHANGED <<size, due>>
        /\ stop \/ keep(portOnly(s))
    BY <1>8 DEF beginUrl, clear
  <2> QED
    BY <1>6, <2>1, BodyIdle
<1>9. ASSUME NEW api \in {"user", "own"}, NEW s \in Site, NEW ok \in BOOLEAN, beginParts(api, s, ok)
      PROVE  BodyInv'
  <2>1. /\ pc = "idle" /\ pc' = "idle" /\ code' = "none" /\ te' = te /\ due' = -1
        /\ stop \/ keep(s # site)
    BY <1>9 DEF beginParts, clear
  <2> QED
    BY <1>6, <2>1, BodyIdle
<1> QED
  BY <1>1, <1>2, <1>3, <1>4, <1>5, <1>7, <1>8, <1>9, BodyUpload DEF Sketch, uploadStream

\* The head, line by line: each is the next one of the same response.
LEMMA BodyLines ==
  ASSUME PiecesOK, BodyInv, readStatus \/ readFields \/ readBlank \/ readTorn
  PROVE  BodyInv'
<1> DEFINE first == Head(inbox)
<1>1. /\ pc = "headers" /\ inbox # <<>> /\ inbox' = Tail(inbox) /\ wire' = wire
      /\ UNCHANGED <<asked, Off>>
  BY DEF readStatus, readFields, readBlank, readTorn, readLine, Off
<1>2. first \in Piece /\ code # "body"
  BY <1>1 DEF PiecesOK, BodyInv
<1>3. code' # "body"
  <2>1. \A r \in Response : r.code \in Code
    BY ResponseAssumption
  <2>2. CASE readStatus
    <3>1. first.part = "status" /\ code' = first.resp.code
      BY <2>2 DEF readStatus, readLine
    <3>2. first.resp \in Response
      BY <1>2, <3>1 DEF Piece
    <3> QED
      BY <2>1, <3>1, <3>2 DEF Code
  <2>3. CASE readFields \/ readBlank
    BY <1>2, <2>3 DEF readFields, readBlank, headDone
  <2>4. CASE readTorn
    BY <2>1, <2>4 DEF readTorn, Code
  <2> QED
    BY <2>2, <2>3, <2>4
<1> SUFFICES ASSUME ~Off
             PROVE  AskedOnce' /\ Fresh' /\ AtRest' /\ AtBlock' /\ AtChunk'
  BY <1>1, <1>3 DEF BodyInv
<1>4. Coming # <<>> /\ Coming[1] = first /\ Len(Coming') \in Nat
  <2>1. Len(Coming) \in Nat /\ Len(Coming') \in Nat /\ Len(Coming) = Len(Coming') + 1
    BY <1>1, Shift
  <2> QED
    BY <1>1, <2>1, Shift
<1>5. asked' = 0
  BY <1>1, <1>4 DEF BodyInv, AskedOnce
<1>6. PICK r \in Response, p \in 0 .. 2 : From(Coming, r, p) /\ Said(r, p)
  BY <1>1, <1>4 DEF BodyInv, Fresh
<1>7. /\ From(Coming', r, p + 1) /\ first.part = PartOf(r, p + 1)
      /\ p + 1 <= 2 => first.resp = r
  BY <1>1, <1>6, ShiftFrom
<1>8. /\ PartOf(r, 1) = "status" /\ PartOf(r, 2) = "field" /\ PartOf(r, 3) = "blank"
      /\ p = 0 \/ p = 1 \/ p = 2
  BY DEF PartOf
<1>9. r.body \in Nat /\ r.len \in {-1, r.body}
  BY ResponseAssumption
<1>10. CASE readStatus
  <2>1. /\ first.part = "status" /\ code' = first.resp.code /\ pc' = "headers"
        /\ UNCHANGED <<size, te, due>>
    BY <1>1, <1>10 DEF readStatus, readLine, headers
  <2>2. p = 0 /\ p + 1 = 1
    BY <1>7, <1>8, <2>1
  <2>3. Said(r, 1)'
    BY <1>6, <1>7, <2>1, <2>2 DEF Said
  <2>4. Fresh'
    BY <1>7, <2>1, <2>2, <2>3 DEF Fresh
  <2> QED
    BY <1>5, <2>1, <2>4 DEF AskedOnce, AtRest, AtBlock, AtChunk
<1>11. CASE readFields
  <2>1. /\ first.part = "field" /\ readHeaders(first.resp) /\ pc' = "headers" /\ code' = code
    BY <1>1, <1>11 DEF readFields, readLine
  <2>2. p = 1 /\ p + 1 = 2
    BY <1>7, <1>8, <2>1
  <2>3. Said(r, 2)'
    BY <1>6, <1>7, <2>1, <2>2 DEF Said, readHeaders
  <2>4. Fresh'
    BY <1>7, <2>1, <2>2, <2>3 DEF Fresh
  <2> QED
    BY <1>5, <2>1, <2>4 DEF AskedOnce, AtRest, AtBlock, AtChunk
<1>12. CASE readBlank
  <2>1. /\ first.part = "blank" /\ pc' = "code" /\ own' = TRUE /\ UNCHANGED <<size, due>>
        /\ te' = IF te = "other" THEN "identity" ELSE te
    BY <1>12 DEF readBlank, readLine, headDone
  <2>2. p = 2 /\ p + 1 = 3
    BY <1>7, <1>8, <2>1
  <2>3. size = r.len /\ te = r.te /\ due = (IF r.te = "chunked" THEN r.body ELSE r.len)
    BY <1>6, <2>2 DEF Said
  <2>4. \A i \in 1 .. Len(Coming') :
          /\ Coming'[i].own /\ Coming'[i].part = PartOf(r, 3 + i)
          /\ r.te = "chunked" => 3 + i <= 3 * r.body + 5
    BY <1>7, <2>2 DEF From
  <2>5. \A i \in 1 .. Len(Coming') :
          /\ 0 + i = i /\ (3 + i) - 3 = i /\ 3 + i # 1 /\ 3 + i # 2 /\ 3 + i # 3
          /\ 3 + i <= 3 * r.body + 5 => i <= 3 * r.body + 2
    BY <1>4, <1>9
  <2>6. CASE r.te = "chunked"
    <3>1. Chunks(Coming', r.body, 0)
      BY <2>4, <2>5, <2>6 DEF Chunks, PartOf
    <3>2. Ahead'
      BY <1>9, <2>1, <2>3, <2>6, <3>1 DEF Ahead
    <3> QED
      BY <1>5, <2>1, <3>2 DEF AskedOnce, Fresh, AtRest, AtBlock, AtChunk
  <2>7. CASE r.te # "chunked"
    <3>1. Data(Coming')
      BY <2>4, <2>5, <2>7 DEF Data, PartOf
    <3>2. te' = "identity"
      BY <2>1, <2>3, <2>7, ResponseAssumption
    <3>3. Ahead'
      BY <1>9, <2>1, <2>3, <2>7, <3>1, <3>2 DEF Ahead
    <3> QED
      BY <1>5, <2>1, <3>3 DEF AskedOnce, Fresh, AtRest, AtBlock, AtChunk
  <2> QED
    BY <2>6, <2>7
<1>13. CASE readTorn
  BY <1>7, <1>8, <1>13 DEF readTorn, readLine
<1> QED
  BY <1>10, <1>11, <1>12, <1>13

LEMMA BodyRequest ==
  ASSUME SiteInv, SiteInv', PiecesOK, BodyInv, Request
  PROVE  BodyInv'
<1>1. CASE connect
  <2>1. CASE connected /\ reuseConnection /\ pc' = "send" /\ code' = code
    <3>1. /\ pc = "connect" /\ asked' = asked /\ inbox' = <<>> /\ wire' = Older(wire)
          /\ Off' = (Off \/ wire # <<>>)
      BY <1>1, <2>1 DEF connect, reuseConnection, Off
    <3>2. code # "body"
      BY <3>1 DEF BodyInv
    <3>3. ASSUME ~Off'
          PROVE  asked' = 0 /\ wire' = <<>>
      BY <3>1, <3>3 DEF BodyInv, AskedOnce, Older
    <3> QED
      BY <2>1, <3>1, <3>2, <3>3 DEF BodyInv, AskedOnce, Fresh, AtRest, AtBlock, AtChunk
  <2>2. CASE ~connected /\ pc' = "send" /\ UNCHANGED <<inbox, wire, asked, code>>
    <3>1. pc = "connect"
      BY <1>1 DEF connect
    <3>2. inbox = <<>> /\ wire = <<>> /\ asked = 0
      BY <2>2 DEF SiteInv, Live, connected
    <3>3. code # "body"
      BY <3>1 DEF BodyInv
    <3> QED
      BY <2>2, <3>2, <3>3 DEF BodyInv, AskedOnce, Fresh, AtRest, AtBlock, AtChunk
  <2>3. CASE ~connected /\ pc' = "idle" /\ dropLocals /\ UNCHANGED socket
    <3>1. ~Live'
      BY <2>3 DEF SiteInv, Live, connected, socket
    <3> QED
      BY <2>3, <3>1, BodyGone DEF dropLocals
  <2> QED
    BY <1>1, <2>1, <2>2, <2>3 DEF connect
<1>2. CASE send \/ sendStream
  <2>1. pc = "send" /\ ((\E next \in {"upload", "response"} : sendHeader(next)) \/ returnError)
    BY <1>2 DEF send, sendStream
  <2>2. ASSUME NEW next \in {"upload", "response"}, sendHeader(next) PROVE BodyInv'
    <3>1. /\ inbox' = Older(inbox) /\ pc' = next /\ UNCHANGED <<wire, Off, code>>
          /\ asked' \in {asked + 1, asked}
      BY <2>2 DEF sendHeader, Off
    <3>2. code # "body"
      BY <2>1 DEF BodyInv
    <3>3. ASSUME ~Off
          PROVE  AskedOnce' /\ Fresh'
      <4>1. inbox = <<>> /\ wire = <<>> /\ asked = 0
        BY <2>1, <3>3 DEF BodyInv, Fresh, AskedOnce
      <4>2. inbox' = <<>> /\ wire' = <<>>
        BY <3>1, <4>1 DEF Older
      <4>3. Coming' = <<>>
        BY <4>2 DEF Coming
      <4> QED
        BY <3>1, <4>1, <4>3 DEF AskedOnce, Fresh
    <3> QED
      BY <3>1, <3>2, <3>3 DEF BodyInv, AtRest, AtBlock, AtChunk
  <2> QED
    BY <2>1, <2>2, ErrorGone, BodyGone
<1>3. CASE handleHeaderResponse
  <2>1. CASE ~connected
    BY <1>3, <2>1, ErrorGone, BodyGone DEF handleHeaderResponse
  <2>2. CASE connected
    <3>1. /\ pc = "response" /\ pc' = "headers" /\ due' = -1
          /\ UNCHANGED <<inbox, wire, asked, Off, code>>
      BY <1>3, <2>2 DEF handleHeaderResponse, socket, Off
    <3>2. Coming' = Coming /\ code # "body"
      BY <3>1 DEF Coming, BodyInv
    <3>3. \A r : Said(r, 0)'
      BY <3>1 DEF Said
    <3>4. ASSUME ~Off PROVE Fresh'
      <4>1. Coming = <<>> \/ \E r \in Response : From(Coming, r, 0)
        BY <3>1, <3>4 DEF BodyInv, Fresh
      <4>2. Coming' = <<>> \/ \E r \in Response, p \in 0 .. 2 : From(Coming', r, p) /\ Said(r, p)'
        BY <3>2, <3>3, <4>1
      <4> QED
        BY <3>1, <4>2 DEF Fresh
    <3> QED
      BY <3>1, <3>2, <3>4 DEF BodyInv, AskedOnce, AtRest, AtBlock, AtChunk
  <2> QED
    BY <2>1, <2>2
<1>5. CASE readOlder
  <2>1. /\ pc = "headers" /\ inbox # <<>> /\ ~Head(inbox).own /\ Off' = Off
        /\ code' \in Code \cup {"error"}
    BY <1>5 DEF readOlder, Off
  <2>2. Off
    <3> SUFFICES ASSUME ~Off PROVE FALSE
      OBVIOUS
    <3>1. Coming # <<>> /\ Coming[1] = Head(inbox) /\ 1 \in 1 .. Len(Coming)
      BY <2>1 DEF Coming, PiecesOK
    <3>2. PICK r \in Response, p \in 0 .. 2 : From(Coming, r, p)
      BY <2>1, <3>1 DEF BodyInv, Fresh
    <3> QED
      BY <2>1, <3>1, <3>2 DEF From
  <2> QED
    BY <2>1, <2>2 DEF BodyInv, Code
<1>6. CASE headersFail
  <2>1. /\ pc = "headers" /\ pc' = "code" /\ code' = "error" /\ due' = -1 /\ UNCHANGED <<asked, Off>>
    BY <1>6 DEF headersFail, socket, Off
  <2> QED
    BY <2>1 DEF BodyInv, AskedOnce, Fresh, AtRest, Ahead, AtBlock, AtChunk, Code
<1>7. CASE redirect
  <2>1. pc = "code" /\ code # "error" /\ pc' = "connect" /\ code' = "none" /\ setURL
    BY <1>7 DEF redirect, mayRedirect
  <2>2. asked' = 0 \/ (asked' = asked /\ Off' = Off)
    BY <2>1 DEF setURL, socket, stop, stopped, keep, Off
  <2>3. ~Off' => asked' = 0
    BY <2>1, <2>2 DEF BodyInv, AskedOnce
  <2> QED
    BY <2>1, <2>2, <2>3 DEF BodyInv, AskedOnce, Fresh, AtRest, AtBlock, AtChunk
<1>8. CASE returnCode
  <2>1. CASE code = "error"
    BY <1>8, <2>1, ErrorGone, BodyGone DEF returnCode
  <2>2. CASE code # "error"
    <3>1. /\ pc = "code" /\ pc' = "idle" /\ code' = "none"
          /\ UNCHANGED <<inbox, wire, asked, Off, size, te, due>>
      BY <1>8, <2>2 DEF returnCode, dropLocals, socket, headers, Off
    <3>2. Coming' = Coming
      BY <3>1 DEF Coming
    <3>3. ~Off => asked' = 0 /\ Ahead'
      BY <2>2, <3>1, <3>2 DEF BodyInv, AskedOnce, AtRest, Ahead
    <3> QED
      BY <3>1, <3>3 DEF BodyInv, AskedOnce, Fresh, AtRest, AtBlock, AtChunk
  <2> QED
    BY <2>1, <2>2
<1> QED
  BY <1>1, <1>2, <1>3, <1>5, <1>6, <1>7, <1>8, BodyLines, BodyUpload DEF Request, uploadLost

LEMMA BodyBlock ==
  ASSUME SiteInv, SiteInv', PiecesOK, BodyInv, readBlock \/ blockEnd \/ blockFails
  PROVE  BodyInv'
<1>1. pc = "block" /\ code # "body"
  BY DEF readBlock, blockEnd, blockFails, BodyInv
<1>2. CASE readBlock
  <2>1. /\ len # 0 /\ inbox # <<>> /\ inbox' = Tail(inbox) /\ got' = got + 1
        /\ own' = (own /\ Head(inbox).own /\ Head(inbox).part = "data")
        /\ len' = IF len > 0 THEN len - 1 ELSE len
        /\ UNCHANGED <<pc, code, size, te, due, wire, asked, Off>>
    BY <1>2 DEF readBlock, headers, Off
  <2>2. ASSUME ~Off
        PROVE  AskedOnce' /\ AtBlock'
    <3>1. asked' = 0
      BY <1>1, <2>1, <2>2 DEF BodyInv, AskedOnce
    <3>2. ASSUME due # -1
          PROVE  AtBlock'
      <4>1. AtBlock
        BY <2>2 DEF BodyInv
      <4>2. due \in Nat /\ got \in Nat /\ got' \in Nat /\ own
        BY <1>1, <2>1, <3>2, <4>1 DEF AtBlock
      <4>3. CASE te = "identity"
        <5>1. size = due /\ len \in Nat /\ got + len = due /\ Data(Coming)
          BY <1>1, <3>2, <4>1, <4>3 DEF AtBlock
        <5>2. Data(Coming') /\ Head(inbox).own /\ Head(inbox).part = "data"
          BY <2>1, <5>1, ShiftData
        <5>3. len' \in Nat /\ got' + len' = due
          BY <2>1, <4>2, <5>1
        <5>4. own'
          BY <2>1, <4>2, <5>2
        <5> QED
          BY <2>1, <4>2, <4>3, <5>1, <5>2, <5>3, <5>4 DEF AtBlock
      <4>4. CASE te # "identity"
        <5>1. size \in Int /\ len = 1 /\ got < due /\ Chunks(Coming, due, 3 * got + 1)
          BY <1>1, <2>1, <3>2, <4>1, <4>4 DEF AtBlock
        <5>2. 3 * got + 1 \in Int
          BY <4>2
        <5>3. /\ Chunks(Coming', due, (3 * got + 1) + 1) /\ Head(inbox).own
              /\ Head(inbox).part = chunkPart(due, (3 * got + 1) + 1)
          BY <2>1, <4>2, <5>1, <5>2, ShiftChunks
        <5>4. /\ (3 * got + 1) + 1 = 3 * got' - 1 /\ len' = 0 /\ got' \in 1 .. due
              /\ (3 * got + 2) % 3 = 2 /\ (3 * got + 1) + 1 = 3 * got + 2
              /\ 3 * got + 2 # 3 * due + 1 /\ 3 * got + 2 # 3 * due + 2
          BY <2>1, <4>2, <5>1
        <5>5. chunkPart(due, 3 * got + 2) = "data"
          BY <5>4 DEF chunkPart
        <5>6. own'
          BY <2>1, <4>2, <5>3, <5>4, <5>5
        <5> QED
          BY <2>1, <4>2, <4>4, <5>1, <5>3, <5>4, <5>6 DEF AtBlock
      <4> QED
        BY <4>3, <4>4
    <3> QED
      BY <2>1, <3>1, <3>2 DEF AskedOnce, AtBlock
  <2> QED
    BY <1>1, <2>1, <2>2 DEF BodyInv, Fresh, AtRest, AtChunk
<1>3. CASE blockEnd
  <2>1. UNCHANGED <<size, te, due>> /\ (len = 0 \/ ~connected)
    BY <1>3 DEF blockEnd, headers
  <2>2. CASE len > 0
    BY <1>3, <2>2, ErrorGone, BodyGone DEF blockEnd
  <2>3. CASE ~(len > 0) /\ te = "identity"
    <3>1. /\ code' = "body" /\ pc' = "idle" /\ UNCHANGED <<got, own>>
          /\ (stopped /\ UNCHANGED <<late, torn>>) \/ UNCHANGED socket
      BY <1>3, <2>3 DEF blockEnd, bodyDone
    <3>2. (~Live' /\ Off' = Off) \/ UNCHANGED <<inbox, wire, asked, Off>>
      BY <3>1 DEF stopped, socket, Live, Off
    <3>3. ASSUME ~Off
          PROVE  (due # -1 => own /\ got = due) /\ AskedOnce' /\ AtRest'
      <4>1. due # -1 => size = due /\ len \in Nat /\ got + len = due /\ got \in Nat /\ own
                        /\ Data(Coming) /\ due \in Nat
        BY <1>1, <2>3, <3>3 DEF BodyInv, AtBlock
      <4>2. due # -1 => own /\ got = due
        BY <2>3, <4>1
      <4>3. asked' = 0
        BY <1>1, <3>2, <3>3 DEF BodyInv, AskedOnce, SiteInv, Live
      <4>4. AtRest'
        <5>1. CASE ~Live'
          BY <3>1, <5>1 DEF AtRest
        <5>2. CASE UNCHANGED <<inbox, wire, asked, Off>>
          <6>1. Coming' = Coming
            BY <5>2 DEF Coming
          <6> QED
            BY <2>1, <2>3, <4>1, <6>1 DEF AtRest, Ahead
        <5> QED
          BY <3>2, <5>1, <5>2
      <4> QED
        BY <4>2, <4>3, <4>4 DEF AskedOnce
    <3>4. Off' = Off
      BY <3>2
    <3> QED
      BY <2>1, <3>1, <3>3, <3>4 DEF BodyInv, Fresh, AtBlock, AtChunk
  <2>4. CASE ~(len > 0) /\ te # "identity"
    <3>1. pc' = "crlf" /\ UNCHANGED <<inbox, wire, asked, Off, code, len, got, own>>
      BY <1>3, <2>4 DEF blockEnd, socket, bodyVars, Off
    <3>2. Coming' = Coming
      BY <3>1 DEF Coming
    <3>3. ASSUME ~Off
          PROVE  AskedOnce' /\ AtChunk'
      <4>1. asked' = 0
        BY <1>1, <3>1, <3>3 DEF BodyInv, AskedOnce
      <4>2. due # -1 => /\ due \in Nat /\ own /\ size \in Int /\ got \in 1 .. due
                        /\ Chunks(Coming, due, 3 * got - 1)
        BY <1>1, <2>4, <3>3 DEF BodyInv, AtBlock
      <4>3. due # -1 => got \in 0 .. due /\ got >= 1
        BY <4>2
      <4> QED
        BY <2>1, <2>4, <3>1, <3>2, <4>1, <4>2, <4>3 DEF AskedOnce, AtChunk
    <3> QED
      BY <1>1, <3>1, <3>3 DEF BodyInv, Fresh, AtRest, AtBlock
  <2> QED
    BY <2>2, <2>3, <2>4
<1>4. CASE blockFails
  BY <1>4, ErrorGone, BodyGone DEF blockFails
<1> QED
  BY <1>2, <1>3, <1>4

\* A size line is one of the chunks that are left, the last one, or what a
\* first writeToStream() has left after the last one.
LEMMA BodyChunkSize ==
  ASSUME SiteInv, SiteInv', PiecesOK, BodyInv, readChunkSize
  PROVE  BodyInv'
<1>1. pc = "chunk" /\ inbox # <<>> /\ code # "body" /\ UNCHANGED <<te, due>>
  BY DEF readChunkSize, BodyInv, headers
<1>2. CASE returnError
  BY <1>2, ErrorGone, BodyGone
<1>3. CASE /\ Head(inbox).part \notin {"last", "crlf"} /\ inbox' = Tail(inbox)
           /\ pc' = "block" /\ len' = 1
           /\ UNCHANGED <<size, te, due, wire, asked, Off, code, got, own>>
  <2>1. ASSUME ~Off
        PROVE  AskedOnce' /\ AtBlock'
    <3>1. asked' = 0
      BY <1>1, <1>3, <2>1 DEF BodyInv, AskedOnce
    <3>2. ASSUME due # -1
          PROVE  AtBlock'
      <4>1. /\ te # "identity" /\ size \in Int /\ due \in Nat /\ got \in 0 .. due /\ own
            /\ \/ Chunks(Coming, due, 3 * got)
               \/ got = 0 /\ (due = 0 \/ size > 0) /\ Chunks(Coming, due, 3 * due + 1)
        BY <1>1, <2>1, <3>2 DEF BodyInv, AtChunk
      <4>2. got \in Nat /\ 3 * got \in Int /\ 3 * due + 1 \in Int /\ (3 * due + 1) + 1 = 3 * due + 2
            /\ 3 * due + 2 # 3 * due + 1
        BY <4>1
      <4>3. ~Chunks(Coming, due, 3 * due + 1)
        <5> SUFFICES ASSUME Chunks(Coming, due, 3 * due + 1) PROVE FALSE
          OBVIOUS
        <5>1. Head(inbox).part = chunkPart(due, (3 * due + 1) + 1)
          BY <1>1, <1>3, <4>1, <4>2, ShiftChunks
        <5>2. chunkPart(due, 3 * due + 2) = "crlf"
          BY <4>2 DEF chunkPart
        <5> QED
          BY <1>3, <4>2, <5>1, <5>2
      <4>4. Chunks(Coming', due, 3 * got + 1) /\ Head(inbox).part = chunkPart(due, 3 * got + 1)
        BY <1>1, <1>3, <4>1, <4>2, <4>3, ShiftChunks
      <4>5. got < due
        <5>1. got # due
          BY <1>3, <4>4 DEF chunkPart
        <5> QED
          BY <4>1, <5>1
      <4> QED
        BY <1>3, <4>1, <4>2, <4>4, <4>5 DEF AtBlock
    <3> QED
      BY <1>3, <3>1, <3>2 DEF AskedOnce, AtBlock
  <2> QED
    BY <1>1, <1>3, <2>1 DEF BodyInv, Fresh, AtRest, AtChunk
<1>4. CASE /\ Head(inbox).part # "size" /\ size' = (IF size <= 0 THEN got ELSE size) /\ got = size'
           /\ code' = "body" /\ pc' = "idle" /\ UNCHANGED <<got, own>>
           /\ \/ stopped
              \/ inbox' = Tail(inbox) /\ UNCHANGED <<conn, wire, asked>>
           /\ Off' = Off
  <2>1. Off' = Off
    BY <1>4
  <2>2. ASSUME ~Off
        PROVE  (due # -1 => own /\ got = due) /\ AskedOnce' /\ AtRest'
    <3>1. asked' = 0
      BY <1>1, <1>4, <2>2 DEF BodyInv, AskedOnce, stopped
    <3>2. ASSUME due # -1
          PROVE  own /\ got = due /\ AtRest'
      <4>1. /\ te # "identity" /\ size \in Int /\ due \in Nat /\ got \in 0 .. due /\ own
            /\ \/ Chunks(Coming, due, 3 * got)
               \/ got = 0 /\ (due = 0 \/ size > 0) /\ Chunks(Coming, due, 3 * due + 1)
        BY <1>1, <2>2, <3>2 DEF BodyInv, AtChunk
      <4>2. got \in Nat /\ 3 * got \in Int /\ 3 * due + 1 \in Int /\ (3 * got + 1) % 3 = 1
        BY <4>1
      <4>3. CASE inbox' = Tail(inbox) /\ wire' = wire
        <5>1. CASE Chunks(Coming, due, 3 * got)
          <6>1. Chunks(Coming', due, 3 * got + 1) /\ Head(inbox).part = chunkPart(due, 3 * got + 1)
            BY <1>1, <4>1, <4>2, <4>3, <5>1, ShiftChunks
          <6>2. got = due
            <7> SUFFICES ASSUME got # due PROVE FALSE
              OBVIOUS
            <7>1. 3 * got + 1 # 3 * due + 1 /\ 3 * got + 1 # 3 * due + 2
              BY <4>1
            <7> QED
              BY <1>4, <4>2, <6>1, <7>1 DEF chunkPart
          <6>3. size' \in Int /\ (due = 0 \/ size' > 0)
            BY <1>4, <4>1, <6>2
          <6> QED
            BY <1>1, <4>1, <6>1, <6>2, <6>3 DEF AtRest, Ahead
        <5>2. CASE got = 0 /\ (due = 0 \/ size > 0) /\ Chunks(Coming, due, 3 * due + 1)
          <6>1. due = 0 /\ size' = 0
            <7>1. size' = (IF size <= 0 THEN got ELSE size) /\ got = size'
              BY <1>4
            <7>2. size \in Int
              BY <4>1
            <7>3. size' = 0 /\ ~(size > 0)
              BY <5>2, <7>1, <7>2
            <7> QED
              BY <5>2, <7>3
          <6>2. Chunks(Coming', due, (3 * due + 1) + 1) /\ (3 * due + 1) + 1 <= 3 * due + 2
            BY <1>1, <4>1, <4>2, <4>3, <5>2, ShiftChunks
          <6>3. Len(Coming') \in Nat
            BY <1>1, <4>3, Shift
          <6>4. \A i \in 1 .. Len(Coming') : FALSE
            BY <4>1, <6>2, <6>3 DEF Chunks
          <6>5. Chunks(Coming', due, 0)
            BY <6>4 DEF Chunks
          <6> QED
            BY <1>1, <4>1, <5>2, <6>1, <6>5 DEF AtRest, Ahead
        <5> QED
          BY <4>1, <5>1, <5>2
      <4>4. CASE stopped
        <5>1. Head(inbox).part = chunkPart(due, 3 * got + 1) \/ (got = 0 /\ (due = 0 \/ size > 0))
          <6>1. CASE Chunks(Coming, due, 3 * got)
            <7>1. 1 \in 1 .. Len(Coming) /\ Coming[1] = Head(inbox)
              BY <1>1 DEF Coming, PiecesOK
            <7> QED
              BY <6>1, <7>1 DEF Chunks
          <6> QED
            BY <4>1, <6>1
        <5>2. got = due
          <6>1. CASE Head(inbox).part = chunkPart(due, 3 * got + 1)
            <7> SUFFICES ASSUME got # due PROVE FALSE
              OBVIOUS
            <7>1. 3 * got + 1 # 3 * due + 1 /\ 3 * got + 1 # 3 * due + 2
              BY <4>1
            <7> QED
              BY <1>4, <4>2, <6>1, <7>1 DEF chunkPart
          <6>2. CASE got = 0 /\ (due = 0 \/ size > 0)
            <7>1. size' = (IF size <= 0 THEN got ELSE size) /\ got = size'
              BY <1>4
            <7>2. size \in Int
              BY <4>1
            <7>3. ~(size > 0)
              BY <6>2, <7>1, <7>2
            <7> QED
              BY <6>2, <7>3
          <6> QED
            BY <5>1, <6>1, <6>2
        <5>3. ~Live' /\ pc' = "idle"
          BY <1>4, <4>4 DEF stopped, Live
        <5> QED
          BY <4>1, <5>2, <5>3 DEF AtRest
      <4> QED
        BY <1>4, <4>3, <4>4
    <3>3. due = -1 => AtRest'
      BY <1>1 DEF AtRest, Ahead
    <3> QED
      BY <3>1, <3>2, <3>3 DEF AskedOnce
  <2> QED
    BY <1>1, <1>4, <2>1, <2>2 DEF BodyInv, Fresh, AtBlock, AtChunk
<1> QED
  BY <1>2, <1>3, <1>4 DEF readChunkSize, headers, Off

LEMMA BodyTrailer ==
  ASSUME SiteInv, SiteInv', PiecesOK, BodyInv, readTrailer \/ chunkFails
  PROVE  BodyInv'
<1>1. CASE returnError
  BY <1>1, ErrorGone, BodyGone
<1>2. CASE readTrailer /\ ~returnError
  <2>1. /\ pc = "crlf" /\ inbox # <<>> /\ inbox' = Tail(inbox) /\ pc' = "chunk"
        /\ UNCHANGED <<wire, asked, Off, code, len, got, own, size, te, due>>
    BY <1>2 DEF readTrailer, bodyVars, headers, Off
  <2>2. code # "body"
    BY <2>1 DEF BodyInv
  <2>3. ASSUME ~Off
        PROVE  AskedOnce' /\ AtChunk'
    <3>1. asked' = 0
      BY <2>1, <2>3 DEF BodyInv, AskedOnce
    <3>2. ASSUME due # -1
          PROVE  AtChunk'
      <4>1. /\ te # "identity" /\ size \in Int /\ due \in Nat /\ got \in 0 .. due /\ own
            /\ got >= 1 /\ Chunks(Coming, due, 3 * got - 1)
        BY <2>1, <2>3, <3>2 DEF BodyInv, AtChunk
      <4>2. 3 * got - 1 \in Int /\ (3 * got - 1) + 1 = 3 * got
        BY <4>1
      <4>3. Chunks(Coming', due, (3 * got - 1) + 1)
        BY <2>1, <4>1, <4>2, ShiftChunks
      <4> QED
        BY <2>1, <4>1, <4>2, <4>3 DEF AtChunk
    <3> QED
      BY <2>1, <3>1, <3>2 DEF AskedOnce, AtChunk
  <2> QED
    BY <2>1, <2>2, <2>3 DEF BodyInv, Fresh, AtRest, AtBlock
<1> QED
  BY <1>1, <1>2 DEF chunkFails

------------------------------------------------------------------------------
HttpInv == SiteInv /\ PiecesOK /\ BodyInv

LEMMA HttpInit == Init => HttpInv
<1> SUFFICES ASSUME Init PROVE HttpInv
  OBVIOUS
<1>1. SiteInv
  BY DEF Init, SiteInv, Live
<1>2. PiecesOK
  BY DEF Init, PiecesOK
<1>3. BodyInv
  BY DEF Init, BodyInv, AskedOnce, Fresh, AtRest, AtBlock, AtChunk, Live
<1> QED
  BY <1>1, <1>2, <1>3 DEF HttpInv

LEMMA HttpNext == HttpInv /\ [Next]_vars => HttpInv'
<1> SUFFICES ASSUME HttpInv, Next \/ UNCHANGED vars
             PROVE  HttpInv'
  OBVIOUS
<1>1. SiteInv /\ PiecesOK /\ BodyInv
  BY DEF HttpInv
<1>2. PiecesOK'
  BY <1>1, PiecesHold
<1>3. CASE UNCHANGED vars
  <2>1. /\ UNCHANGED <<client, site, conn, peer, inbox, wire, asked, strayed>>
        /\ UNCHANGED <<pc, code, size, te, due, len, got, own, Off>>
    BY <1>3 DEF vars, pointers, socket, headers, bodyVars, Off
  <2>2. Coming' = Coming /\ Live' = Live
    BY <2>1 DEF Coming, Live
  <2>3. Coming \in Seq(Piece)
    BY <1>1 DEF PiecesOK, Coming
  <2>4. BodyInv'
    BY <1>1, <2>1, <2>2, <2>3, BodySame
  <2> QED
    BY <1>1, <1>2, <2>1, <2>4, SameHolds DEF HttpInv
<1>4. CASE Server
  BY <1>1, <1>2, <1>4, ServerHolds, BodyServer DEF HttpInv
<1>5. CASE Sketch
  BY <1>1, <1>2, <1>5, SketchHolds, BodySketch DEF HttpInv
<1>6. CASE Request
  BY <1>1, <1>2, <1>6, RequestHolds, BodyRequest DEF HttpInv
<1>7. CASE Body
  <2>1. SiteInv'
    BY <1>1, <1>7, BodyHolds
  <2>2. BodyInv'
    BY <1>1, <1>7, <2>1, BodyBlock, BodyChunkSize, BodyTrailer DEF Body
  <2> QED
    BY <1>2, <2>1, <2>2 DEF HttpInv
<1> QED
  BY <1>3, <1>4, <1>5, <1>6, <1>7 DEF Next

\* Through reuse, redirects, timeouts and bodies that nobody read, the code of
\* a request is that of the response to it, if no older body was still on its
\* way when the connection was reused and no line stalled half way.
THEOREM ResponseSafe == Spec => []ResponseIsOwn
<1>1. HttpInv => ResponseIsOwn
  BY DEF HttpInv, BodyInv, Fresh, ResponseIsOwn, Off
<1> QED
  BY <1>1, HttpInit, HttpNext, PTL DEF Spec

\* For bodies of every length, identity or chunked, a writeToStream() that
\* reports success has written that body, and nothing else; but for the older
\* body that comes late and the line that stalls half way.
THEOREM BodySafe == Spec => []BodyIsWhole
<1>1. HttpInv => BodyIsWhole
  BY DEF HttpInv, BodyInv, BodyIsWhole, Off
<1> QED
  BY <1>1, HttpInit, HttpNext, PTL DEF Spec

------------------------------------------------------------------------------
(***************************************************************************)
(* CookieJar.                                                              *)
(***************************************************************************)

DomainSet == {J!defaultDomain(h) : h \in cookies_Host} \cup J!Domains
Kept == [name : Name, domain : DomainSet, value : Nat, age : {J!NoAge} \cup {<<a>> : a \in Age},
         date : Date, secure : BOOLEAN]

\* A cookie of the jar is the one that was set last under its name.
Stored(c) ==
  <<c.domain, c.name>> \in DOMAIN last /\ c.value = last[<<c.domain, c.name>>]

JarTypes ==
  /\ jar \in Seq(Kept) /\ host \in cookies_Host /\ made \in Nat /\ now \in Nat /\ lent \in BOOLEAN
  /\ secure \in BOOLEAN /\ tls \in BOOLEAN /\ oldSecure \in BOOLEAN
  /\ secure => tls \/ oldSecure

\* The loop of setCookie(): behind the iterator the new cookie has replaced the
\* one of its name, or there is none of its name.
SetLoop ==
  /\ cookie \in Kept /\ it \in 1 .. Len(jar) + 1 /\ found \in BOOLEAN
  /\ \A i \in 1 .. Len(jar) : ~J!same(jar[i], cookie) => Stored(jar[i])
  /\ \A i \in 1 .. it - 1 : J!same(jar[i], cookie) => found /\ jar[i] = cookie

\* The loop of generateCookieString(): behind the iterator are no cookies that
\* ran out, and text has those that are for the host.
GenerateLoop ==
  /\ it \in 1 .. Len(jar) + 1 /\ nowGmt \in Nat /\ lent
  /\ \A i \in 1 .. it - 1 : ~J!expired(jar[i], nowGmt) /\ (J!forHost(jar[i]) => jar[i] \in text)
  /\ \A c \in text : \E i \in 1 .. it - 1 : c = jar[i] /\ J!forHost(jar[i])

JarInv ==
  /\ JarTypes
  /\ \A i, j \in 1 .. Len(jar) : J!same(jar[i], jar[j]) => i = j
  /\ doing # "set" => \A i \in 1 .. Len(jar) : Stored(jar[i])
  /\ doing = "set" => SetLoop
  /\ doing = "generate" => GenerateLoop
  /\ sent.fresh =>
       /\ \A c \in sent.cookies : \E i \in 1 .. Len(jar) : c = jar[i] /\ Stored(c)
            /\ J!forHost(c) /\ ~J!expired(c, sent.at)
       /\ \A i \in 1 .. Len(jar) : J!forHost(jar[i]) /\ ~J!expired(jar[i], sent.at) => jar[i] \in sent.cookies

\* The set of cookies is a constant.
LEMMA KeptSame == Kept' = Kept
BY DEF Kept, DomainSet, J!defaultDomain, J!Domains, J!NoAge

LEMMA JarInit == J!Init => JarInv
<1> SUFFICES ASSUME J!Init PROVE JarInv
  OBVIOUS
<1>1. Len(jar) = 0 /\ jar \in Seq(Kept) /\ doing = "idle" /\ ~sent.fresh
  BY DEF J!Init, J!NoRequest
<1>2. JarTypes
  BY <1>1 DEF J!Init, JarTypes
<1> QED
  BY <1>1, <1>2 DEF JarInv

LEMMA JarSafe == JarInv => J!CookiesAreCurrent
<1> SUFFICES ASSUME JarInv PROVE J!CookiesAreCurrent
  OBVIOUS
<1>1. DOMAIN jar = 1 .. Len(jar)
  BY DEF JarInv, JarTypes
<1>2. J!OnePerName
  BY <1>1 DEF JarInv, J!OnePerName
<1>3. ASSUME sent.fresh
      PROVE  sent.cookies = {jar[i] : i \in {j \in DOMAIN jar : J!forHost(jar[j]) /\ ~J!expired(jar[j], sent.at)}}
  BY <1>1, <1>3 DEF JarInv
<1>4. ASSUME sent.fresh, NEW c \in sent.cookies
      PROVE  c.value = last[<<c.domain, c.name>>] /\ (c.secure => tls \/ oldSecure)
  BY <1>4 DEF JarInv, JarTypes, Stored, J!forHost
<1> QED
  BY <1>2, <1>3, <1>4 DEF J!CookiesAreCurrent, J!SentIsCurrent

\* What erase() leaves.
LEMMA Erased ==
  ASSUME NEW S, NEW s \in Seq(S), NEW i \in 1 .. Len(s)
  PROVE  /\ J!erase(s, i) \in Seq(S) /\ Len(J!erase(s, i)) = Len(s) - 1
         /\ \A k \in 1 .. Len(s) - 1 : J!erase(s, i)[k] = IF k < i THEN s[k] ELSE s[k + 1]
<1>1. Len(s) \in Nat /\ Len(s) - 1 \in Nat /\ \A k \in 1 .. Len(s) : s[k] \in S
  OBVIOUS
<1> QED
  BY <1>1 DEF J!erase

\* The steps that leave the jar and the loops alone, or empty the jar.
LEMMA SketchSafe ==
  ASSUME JarInv, \/ J!Tick \/ J!clear \/ J!setCookieJar \/ J!clearAllCookies
                 \/ \E h \in cookies_Host :
                      J!setURL(h) \/ \E api \in {"url", "parts", "own"}, t \in BOOLEAN : J!begin(api, h, t)
  PROVE  JarInv'
<1>1. sent' = J!NoRequest /\ UNCHANGED <<made, last, J!locals>> /\ (jar' = jar \/ (doing = "idle" /\ jar' = <<>>))
  BY DEF J!Tick, J!clear, J!setCookieJar, J!clearAllCookies, J!setURL, J!begin, J!quiet
<1>2. JarTypes'
  <2>1. jar' \in Seq(Kept) /\ made' \in Nat
    <3>1. made \in Nat /\ jar \in Seq(Kept) /\ UNCHANGED made
      BY <1>1 DEF JarInv, JarTypes
    <3>2. jar' = jar \/ jar' = <<>>
      BY <1>1
    <3>3. CASE jar' = jar
      BY <3>1, <3>3
    <3>4. CASE jar' = <<>>
      BY <3>1, <3>4
    <3> QED
      BY <3>2, <3>3, <3>4
  <2>2. now' \in Nat /\ lent' \in BOOLEAN /\ host' \in cookies_Host
    <3>1. now \in Nat /\ lent \in BOOLEAN /\ host \in cookies_Host
      BY DEF JarInv, JarTypes
    <3>2. now' \in Nat
      BY <3>1 DEF J!Tick, J!clear, J!setCookieJar, J!clearAllCookies, J!setURL, J!begin
    <3>3. lent' = lent \/ lent' = ~lent
      BY DEF J!Tick, J!clear, J!setCookieJar, J!clearAllCookies, J!setURL, J!begin
    <3>4. host' \in cookies_Host
      BY <3>1 DEF J!Tick, J!clear, J!setCookieJar, J!clearAllCookies, J!setURL, J!begin, J!session
    <3> QED
      BY <3>1, <3>2, <3>3, <3>4
  <2>3. /\ secure' \in BOOLEAN /\ tls' \in BOOLEAN /\ oldSecure' \in BOOLEAN
        /\ secure' => tls' \/ oldSecure'
    <3>1. CASE UNCHANGED <<secure, tls, oldSecure>>
      BY <3>1 DEF JarInv, JarTypes
    <3>2. CASE \E h \in cookies_Host, api \in {"url", "parts", "own"}, t \in BOOLEAN : J!begin(api, h, t)
      <4>1. PICK api \in {"url", "parts", "own"}, t \in BOOLEAN :
              tls' = t /\ secure' = (IF api = "own" THEN secure \/ t ELSE t) /\ oldSecure' = (secure' /\ ~t)
        BY <3>2 DEF J!begin
      <4>2. secure' \in BOOLEAN
        BY <4>1 DEF JarInv, JarTypes
      <4>3. oldSecure' \in BOOLEAN /\ (secure' => tls' \/ oldSecure')
        BY <4>1, <4>2
      <4> QED
        BY <4>1, <4>2, <4>3
    <3> QED
      BY <3>1, <3>2 DEF J!Tick, J!clear, J!setCookieJar, J!clearAllCookies, J!setURL, J!session
  <2> QED
    BY <2>1, <2>2, <2>3, KeptSame DEF JarTypes
<1>3. doing # "idle" => UNCHANGED <<jar, lent, J!session>>
  BY DEF J!Tick, J!clear, J!setCookieJar, J!clearAllCookies, J!setURL, J!begin
<1>4. ASSUME doing' = "generate" PROVE GenerateLoop'
  <2>1. GenerateLoop /\ UNCHANGED <<jar, lent, host, secure, it, nowGmt, text>>
    BY <1>1, <1>3, <1>4 DEF JarInv, J!locals, J!session
  <2>2. \A c : (J!forHost(c)' <=> J!forHost(c)) /\ (J!expired(c, nowGmt)' <=> J!expired(c, nowGmt))
    BY <2>1 DEF J!forHost, J!expired, J!duration
  <2> QED
    BY <2>1, <2>2 DEF GenerateLoop
<1>5. doing' = "set" => SetLoop'
  BY KeptSame, <1>1, <1>3 DEF JarInv, SetLoop, Stored, J!locals, J!same
<1>6. /\ \A i, j \in 1 .. Len(jar') : J!same(jar'[i], jar'[j]) => i = j
      /\ doing' # "set" => \A i \in 1 .. Len(jar') : Stored(jar[i])'
  BY <1>1 DEF JarInv, Stored, J!locals, J!same
<1> QED
  BY <1>1, <1>2, <1>4, <1>5, <1>6 DEF JarInv, J!NoRequest, J!same

\* The loops start.
LEMMA LoopsStart ==
  ASSUME J!ConstantsOK, JarInv,
         \/ J!sendRequest
         \/ \E hd \in J!Header, c \in J!Cookie : J!setCookie(hd, c)
  PROVE  JarInv'
<1>1. UNCHANGED <<jar, lent, now, last, J!session>> /\ doing = "idle" /\ made' \in Nat
  <2>1. UNCHANGED <<jar, lent, now, last, J!session>> /\ doing = "idle"
    BY DEF J!sendRequest, J!setCookie
  <2>2. made' = made \/ made' = made + 1
    BY DEF J!sendRequest, J!setCookie
  <2> QED
    BY <2>1, <2>2 DEF JarInv, JarTypes
<1>2. JarTypes'
  BY KeptSame, <1>1 DEF JarInv, JarTypes, J!session
<1>3. /\ \A i, j \in 1 .. Len(jar') : J!same(jar'[i], jar'[j]) => i = j
      /\ \A i \in 1 .. Len(jar') : Stored(jar[i])'
  BY <1>1 DEF JarInv, Stored, J!same
<1>4. Len(jar) \in Nat /\ now \in Nat
  BY DEF JarInv, JarTypes
<1>5. CASE J!sendRequest /\ lent
  <2>1. doing' = "generate" /\ it' = 1 /\ nowGmt' = now /\ text' = {} /\ lent' /\ sent' = J!NoRequest
    BY <1>1, <1>5 DEF J!sendRequest, J!quiet
  <2>2. GenerateLoop'
    BY <1>1, <1>4, <2>1 DEF GenerateLoop
  <2> QED
    BY <1>2, <1>3, <2>1, <2>2 DEF JarInv, J!NoRequest, J!same
<1>6. CASE J!sendRequest /\ ~lent
  <2>1. doing' = "idle" /\ ~sent'.fresh
    <3>1. J!addHeader({}, now)
      BY <1>6 DEF J!sendRequest
    <3>2. doing' = "idle" /\ sent' = [cookies |-> line', at |-> now, fresh |-> lent /\ ({} # {} \/ line = {})]
      BY <3>1 DEF J!addHeader, J!noLocals
    <3> QED
      BY <3>2, <1>6
  <2> QED
    BY <1>2, <1>3, <2>1 DEF JarInv, J!same
<1>7. ASSUME NEW hd \in J!Header, NEW c \in J!Cookie, J!setCookie(hd, c) PROVE JarInv'
  <2>1. sent' = J!NoRequest
    BY <1>7 DEF J!setCookie, J!quiet
  <2>2. CASE doing' = "idle"
    BY <1>2, <1>3, <2>1, <2>2 DEF JarInv, J!NoRequest, J!same
  <2>3. CASE doing' # "idle"
    <3> DEFINE d == IF hd.domain = <<>> THEN J!defaultDomain(host) ELSE hd.domain
    <3>1. /\ doing' = "set" /\ it' = 1 /\ found' = FALSE
          /\ cookie' = [c EXCEPT !.value = made + 1, !.domain = d]
      BY <1>1, <1>7, <2>3 DEF J!setCookie, J!locals
    <3>2. d \in DomainSet
      BY DEF J!Header, DomainSet, JarInv, JarTypes
    <3> HIDE DEF d
    <3>3. cookie' \in Kept
      <4>1. made + 1 \in Nat
        BY DEF JarInv, JarTypes
      <4> QED
        BY <3>1, <3>2, <4>1 DEF J!Cookie, Kept
    <3>4. SetLoop'
      <4>1. it' \in 1 .. Len(jar') + 1 /\ found' \in BOOLEAN /\ it' - 1 = 0
        <5>1. it' = 1 /\ found' = FALSE /\ jar' = jar
          BY <1>1, <3>1
        <5>2. it' \in 1 .. Len(jar') + 1 /\ it' - 1 = 0
          BY <5>1, <1>4
        <5> QED
          BY <5>1, <5>2
      <4> QED
        BY <1>3, <3>3, <4>1, KeptSame DEF SetLoop
    <3> QED
      BY <1>2, <1>3, <2>1, <3>1, <3>4 DEF JarInv, J!NoRequest, J!same
  <2> QED
    BY <2>2, <2>3
<1> QED
  BY <1>5, <1>6, <1>7

\* One turn of the loop of setCookie().
LEMMA SetNextSafe == JarInv /\ J!setNext => JarInv'
<1> SUFFICES ASSUME JarInv, J!setNext PROVE JarInv'
  OBVIOUS
<1>1. /\ doing = "set" /\ doing' = "set" /\ SetLoop /\ it \in 1 .. Len(jar) /\ sent' = J!NoRequest
      /\ UNCHANGED <<lent, now, made, last, host, secure, tls, oldSecure, cookie>>
  BY DEF JarInv, J!setNext, J!quiet, J!session
<1>2. jar \in Seq(Kept) /\ Len(jar) \in Nat /\ cookie \in Kept
  BY <1>1 DEF JarInv, JarTypes, SetLoop
<1>3. CASE ~J!same(jar[it], cookie)
  <2>1. it' = it + 1 /\ UNCHANGED <<jar, found>>
    BY <1>3 DEF J!setNext
  <2>2. SetLoop'
    BY KeptSame, <1>1, <1>2, <1>3, <2>1 DEF SetLoop, Stored, J!same
  <2> QED
    BY KeptSame, <1>1, <2>1, <2>2 DEF JarInv, JarTypes, J!NoRequest, J!same
<1>4. CASE J!same(jar[it], cookie) /\ J!deletes(cookie, nowGmt)
  <2>1. jar' = J!erase(jar, it) /\ it' = it /\ found' = TRUE
    BY <1>1, <1>2, <1>4 DEF J!setNext, J!afterErase
  <2>2. /\ jar' \in Seq(Kept) /\ Len(jar') = Len(jar) - 1
        /\ \A k \in 1 .. Len(jar) - 1 : jar'[k] = IF k < it THEN jar[k] ELSE jar[k + 1]
    BY <1>1, <1>2, <2>1, Erased
  <2>3. \A i, j \in 1 .. Len(jar') : J!same(jar'[i], jar'[j]) => i = j
    <3>1. \A i, j \in 1 .. Len(jar) : J!same(jar[i], jar[j]) => i = j
      BY DEF JarInv
    <3> QED
      BY <3>1, <1>1, <1>2, <2>2
  <2>4. \A k \in 1 .. Len(jar') : k \in 1 .. Len(jar) /\ k + 1 \in 1 .. Len(jar) /\ (jar'[k] = jar[k] \/ jar'[k] = jar[k + 1])
    BY <1>1, <1>2, <2>2
  <2>5. \A k \in 1 .. Len(jar') : ~J!same(jar'[k], cookie) => Stored(jar'[k])
    BY <1>1, <2>4 DEF SetLoop
  <2>6. \A k \in 1 .. it - 1 : J!same(jar'[k], cookie) => jar'[k] = cookie
    BY <1>1, <1>2, <2>2 DEF SetLoop
  <2>7. it' \in 1 .. Len(jar') + 1
    BY <1>1, <1>2, <2>1, <2>2
  <2>8. \A k \in 1 .. Len(jar') : Stored(jar'[k]) => Stored(jar[k])'
    BY <1>1 DEF Stored
  <2>9. SetLoop'
    BY KeptSame, <1>1, <1>2, <2>1, <2>5, <2>6, <2>7, <2>8 DEF SetLoop, J!same
  <2> QED
    BY KeptSame, <1>1, <2>2, <2>3, <2>9 DEF JarInv, JarTypes, J!NoRequest, J!same
<1>5. CASE J!same(jar[it], cookie) /\ ~J!deletes(cookie, nowGmt)
  <2>1. jar' = [jar EXCEPT ![it] = cookie] /\ it' = it + 1 /\ found' = TRUE
    BY <1>5 DEF J!setNext
  <2>2. /\ jar' \in Seq(Kept) /\ Len(jar') = Len(jar)
        /\ \A k \in 1 .. Len(jar) : jar'[k] = IF k = it THEN cookie ELSE jar[k]
    BY <1>1, <1>2, <2>1
  <2>3. \A k \in 1 .. Len(jar) : jar'[k].domain = jar[k].domain /\ jar'[k].name = jar[k].name
    BY <1>1, <1>5, <2>2 DEF J!same
  <2>4. \A i, j \in 1 .. Len(jar') : J!same(jar'[i], jar'[j]) => i = j
    BY <2>2, <2>3 DEF JarInv, J!same
  <2>5. \A k \in 1 .. Len(jar') : ~J!same(jar'[k], cookie) => Stored(jar'[k])
    BY <1>1, <1>5, <2>2 DEF SetLoop, J!same
  <2>6. SetLoop'
    BY KeptSame, <1>1, <1>2, <2>1, <2>2, <2>5 DEF SetLoop, Stored, J!same
  <2> QED
    BY KeptSame, <1>1, <2>2, <2>4, <2>6 DEF JarInv, JarTypes, J!NoRequest, J!same
<1> QED
  BY <1>3, <1>4, <1>5

LEMMA SetEndSafe == JarInv /\ J!setEnd => JarInv'
<1> SUFFICES ASSUME JarInv, J!setEnd PROVE JarInv'
  OBVIOUS
<1> DEFINE key == <<cookie.domain, cookie.name>>
<1>1. /\ SetLoop /\ it = Len(jar) + 1 /\ doing' = "idle" /\ sent' = J!NoRequest
      /\ jar' = jar \/ (~found /\ jar' = Append(jar, cookie))
      /\ last' = [k \in DOMAIN last \cup {key} |-> IF k = key THEN cookie.value ELSE last[k]]
      /\ UNCHANGED <<lent, now, made, host, secure, tls, oldSecure>>
  BY DEF JarInv, J!setEnd, J!noLocals, J!session
<1>2. jar \in Seq(Kept) /\ Len(jar) \in Nat /\ cookie \in Kept
  BY <1>1 DEF JarInv, JarTypes, SetLoop
<1>3. /\ jar' \in Seq(Kept) /\ Len(jar') \in Nat
      /\ \A k \in 1 .. Len(jar') : (k \in 1 .. Len(jar) /\ jar'[k] = jar[k])
                                   \/ (~found /\ k = Len(jar) + 1 /\ jar'[k] = cookie)
  <2>1. CASE jar' = jar
    BY <1>2, <2>1
  <2>2. CASE ~found /\ jar' = Append(jar, cookie)
    BY <1>2, <2>2
  <2> QED
    BY <1>1, <2>1, <2>2
<1>4. \A i \in 1 .. Len(jar) : J!same(jar[i], cookie) => found /\ jar[i] = cookie
  BY <1>1, <1>2 DEF SetLoop
<1>5. \A i, j \in 1 .. Len(jar') : J!same(jar'[i], jar'[j]) => i = j
  BY <1>3, <1>4 DEF JarInv, J!same
<1>6. \A c : Stored(c) /\ ~J!same(c, cookie) => Stored(c)'
  BY <1>1 DEF Stored, J!same
<1>7. \A c : c = cookie => Stored(c)'
  BY <1>1 DEF Stored
<1>8. \A i \in 1 .. Len(jar') : Stored(jar[i])'
  <2> SUFFICES ASSUME NEW i \in 1 .. Len(jar') PROVE Stored(jar[i])'
    OBVIOUS
  <2>1. jar'[i] = cookie \/ (Stored(jar'[i]) /\ ~J!same(jar'[i], cookie))
    BY <1>1, <1>3, <1>4 DEF SetLoop
  <2>2. ASSUME NEW c, c = jar'[i], Stored(c)' PROVE Stored(jar[i])'
    BY <2>2 DEF Stored
  <2> QED
    BY <2>1, <2>2, <1>6, <1>7
<1> QED
  BY <1>1, <1>3, <1>5, <1>8, KeptSame DEF JarInv, JarTypes, J!NoRequest, J!same

\* One turn of the loop of generateCookieString().
LEMMA GenerateNextSafe == JarInv /\ J!generateNext => JarInv'
<1> SUFFICES ASSUME JarInv, J!generateNext PROVE JarInv'
  OBVIOUS
<1>1. /\ doing = "generate" /\ doing' = "generate" /\ GenerateLoop /\ it \in 1 .. Len(jar)
      /\ sent' = J!NoRequest
      /\ UNCHANGED <<lent, now, made, last, host, secure, tls, oldSecure, nowGmt>>
  BY DEF JarInv, J!generateNext, J!quiet, J!session
<1>2. jar \in Seq(Kept) /\ Len(jar) \in Nat
  BY DEF JarInv, JarTypes
<1>3. \A c : /\ J!forHost(c)' <=> J!forHost(c)
             /\ J!expired(c, nowGmt)' <=> J!expired(c, nowGmt)
             /\ Stored(c)' <=> Stored(c)
  BY <1>1 DEF J!forHost, J!expired, J!duration, Stored
<1>4. CASE J!expired(jar[it], nowGmt)
  <2>1. jar' = J!erase(jar, it) /\ it' = it /\ text' = text
    BY <1>1, <1>2, <1>4 DEF J!generateNext, J!afterErase
  <2>2. /\ jar' \in Seq(Kept) /\ Len(jar') = Len(jar) - 1
        /\ \A k \in 1 .. Len(jar) - 1 : jar'[k] = IF k < it THEN jar[k] ELSE jar[k + 1]
    BY <1>1, <1>2, <2>1, Erased
  <2>3. \A i, j \in 1 .. Len(jar') : J!same(jar'[i], jar'[j]) => i = j
    <3>1. \A i, j \in 1 .. Len(jar) : J!same(jar[i], jar[j]) => i = j
      BY DEF JarInv
    <3> QED
      BY <3>1, <1>1, <1>2, <2>2
  <2>4. \A k \in 1 .. Len(jar') : Stored(jar'[k])
    <3>1. \A k \in 1 .. Len(jar) : Stored(jar[k])
      BY <1>1 DEF JarInv
    <3>2. \A k \in 1 .. Len(jar') : k \in 1 .. Len(jar) /\ k + 1 \in 1 .. Len(jar) /\ (jar'[k] = jar[k] \/ jar'[k] = jar[k + 1])
      BY <1>1, <1>2, <2>2
    <3> QED
      BY <3>1, <3>2
  <2>5. \A k \in 1 .. Len(jar') : Stored(jar[k])'
    BY <2>4, <1>1 DEF Stored
  <2>6. it' \in 1 .. Len(jar') + 1 /\ \A k \in 1 .. it - 1 : jar'[k] = jar[k]
    BY <1>1, <1>2, <2>1, <2>2
  <2>7. /\ \A k \in 1 .. it - 1 : ~J!expired(jar'[k], nowGmt) /\ (J!forHost(jar'[k]) => jar'[k] \in text)
        /\ \A c \in text : \E k \in 1 .. it - 1 : c = jar'[k] /\ J!forHost(jar'[k])
    BY <1>1, <2>6 DEF GenerateLoop
  <2>8. GenerateLoop'
    BY <1>1, <2>1, <2>6, <2>7 DEF GenerateLoop, J!forHost, J!expired, J!duration
  <2> QED
    BY KeptSame, <1>1, <2>2, <2>3, <2>5, <2>8 DEF JarInv, JarTypes, J!NoRequest, J!same
<1>5. CASE ~J!expired(jar[it], nowGmt)
  <2>1. /\ jar' = jar /\ it' = it + 1
        /\ text' = IF J!forHost(jar[it]) THEN text \cup {jar[it]} ELSE text
    BY <1>5 DEF J!generateNext
  <2>2. it' \in 1 .. Len(jar') + 1 /\ \A k \in 1 .. it' - 1 : k \in 1 .. it - 1 \/ k = it
    BY <1>1, <1>2, <2>1
  <2>3. \A k \in 1 .. it' - 1 : ~J!expired(jar[k], nowGmt) /\ (J!forHost(jar[k]) => jar[k] \in text')
    BY <1>1, <1>5, <2>1, <2>2 DEF GenerateLoop
  <2>4. \A c \in text' : \E k \in 1 .. it' - 1 : c = jar[k] /\ J!forHost(jar[k])
    <3> SUFFICES ASSUME NEW c \in text' PROVE \E k \in 1 .. it' - 1 : c = jar[k] /\ J!forHost(jar[k])
      OBVIOUS
    <3>1. 1 .. it - 1 \subseteq 1 .. it' - 1 /\ it \in 1 .. it' - 1
      BY <1>1, <1>2, <2>1
    <3>2. c \in text \/ (c = jar[it] /\ J!forHost(jar[it]))
      BY <2>1
    <3> QED
      BY <3>1, <3>2, <1>1 DEF GenerateLoop
  <2>5. GenerateLoop'
    BY <1>1, <2>1, <2>2, <2>3, <2>4 DEF GenerateLoop, J!forHost, J!expired, J!duration
  <2>6. \A k \in 1 .. Len(jar') : Stored(jar[k])'
    BY <1>1, <2>1 DEF JarInv, Stored
  <2> QED
    BY KeptSame, <1>1, <2>1, <2>5, <2>6 DEF JarInv, JarTypes, J!NoRequest, J!same
<1> QED
  BY <1>4, <1>5

LEMMA GenerateEndSafe == JarInv /\ J!generateEnd => JarInv'
<1> SUFFICES ASSUME JarInv, J!generateEnd PROVE JarInv'
  OBVIOUS
<1>1. /\ GenerateLoop /\ it = Len(jar) + 1 /\ doing = "generate" /\ doing' = "idle"
      /\ UNCHANGED <<jar, lent, now, made, last, host, secure, tls, oldSecure>>
      /\ line' = IF text = {} THEN line ELSE text
      /\ sent' = [cookies |-> line', at |-> nowGmt, fresh |-> lent /\ (text # {} \/ line = {})]
  BY DEF JarInv, J!generateEnd, J!addHeader, J!noLocals, J!session
<1>2. jar \in Seq(Kept) /\ Len(jar) \in Nat /\ it - 1 = Len(jar)
  BY <1>1 DEF JarInv, JarTypes
<1>3. \A k \in 1 .. Len(jar) : Stored(jar[k])
  BY <1>1 DEF JarInv
<1>4. ASSUME sent'.fresh
      PROVE  /\ \A c \in sent'.cookies : \E i \in 1 .. Len(jar) : c = jar[i] /\ Stored(c)
                  /\ J!forHost(c) /\ ~J!expired(c, sent'.at)
             /\ \A i \in 1 .. Len(jar) : J!forHost(jar[i]) /\ ~J!expired(jar[i], sent'.at) => jar[i] \in sent'.cookies
  <2>1. sent'.cookies = text /\ sent'.at = nowGmt
    BY <1>1, <1>4
  <2> QED
    BY <2>1, <1>1, <1>2, <1>3 DEF GenerateLoop
<1>5. /\ \A c : Stored(c)' <=> Stored(c)
      /\ \A c : J!forHost(c)' <=> J!forHost(c)
      /\ \A c : J!expired(c, sent.at)' <=> J!expired(c, sent'.at)
  BY <1>1 DEF J!forHost, J!expired, J!duration, Stored
<1>6. ASSUME sent'.fresh
      PROVE  /\ \A c \in sent'.cookies : \E i \in 1 .. Len(jar') : c = jar'[i] /\ Stored(c)'
                  /\ J!forHost(c)' /\ ~J!expired(c, sent.at)'
             /\ \A i \in 1 .. Len(jar') : J!forHost(jar[i])' /\ ~J!expired(jar[i], sent.at)' => jar'[i] \in sent'.cookies
  <2>1. \A i \in 1 .. Len(jar') : /\ J!forHost(jar[i])' <=> J!forHost(jar[i])
                                  /\ J!expired(jar[i], sent.at)' <=> J!expired(jar[i], sent'.at)
    BY <1>1 DEF J!forHost, J!expired, J!duration
  <2> QED
    BY <1>1, <1>4, <1>5, <1>6, <2>1
<1>7. \A i \in 1 .. Len(jar') : Stored(jar[i])'
  BY <1>1, <1>3 DEF Stored
<1>8. JarTypes' /\ \A i, j \in 1 .. Len(jar') : J!same(jar'[i], jar'[j]) => i = j
  BY <1>1, KeptSame DEF JarInv, JarTypes, J!same
<1> QED
  BY <1>1, <1>6, <1>7, <1>8 DEF JarInv, J!same

LEMMA JarStep == J!ConstantsOK /\ JarInv /\ [J!Next]_J!vars => JarInv'
<1> SUFFICES ASSUME J!ConstantsOK, JarInv, [J!Next]_J!vars PROVE JarInv'
  OBVIOUS
<1>1. CASE UNCHANGED J!vars
  <2>1. UNCHANGED <<jar, lent, now, made, last, host, secure, tls, oldSecure, doing, it, nowGmt, cookie, found, text, sent>>
    BY <1>1 DEF J!vars, J!session, J!locals
  <2>2. JarTypes'
    BY <2>1, KeptSame DEF JarInv, JarTypes
  <2>3. doing' = "set" => SetLoop'
    BY <2>1, KeptSame DEF JarInv, SetLoop, Stored, J!same
  <2>4. doing' = "generate" => GenerateLoop'
    BY <2>1 DEF JarInv, GenerateLoop, J!forHost, J!expired, J!duration
  <2> QED
    BY <2>1, <2>2, <2>3, <2>4 DEF JarInv, Stored, J!same, J!forHost, J!expired, J!duration
<1> QED
  BY <1>1, SketchSafe, LoopsStart, SetNextSafe, SetEndSafe, GenerateNextSafe, GenerateEndSafe DEF J!Next

\* For all hosts, names, ages and dates, whatever order cookies are set, deleted
\* and run out in, while the jar is changed under the iterator: it holds one
\* cookie for a domain and name, and the Cookie line of a request has those for
\* its host that have not run out, as setCookie() was given them last, the secure
\* ones over TLS.  Excepted: a line that is an earlier request's, since there are
\* no cookies for this one, and a _secure that is an earlier begin()'s.
THEOREM CookiesSafe ==
  PartsSpec => []CookiesAreCurrent
<1>1. JarInv /\ [J!Next]_J!vars => JarInv'
  BY JarStep, CookieAssumption
<1>2. JarInv => CookiesAreCurrent
  BY JarSafe DEF CookiesAreCurrent
<1> QED
  BY <1>1, <1>2, JarInit, PartsMove, PTL DEF PartsSpec
===============================================================================
