--------------------------- MODULE WiFiClientSecure ---------------------------
(***************************************************************************)
(* WiFiClientSecure with ssl_client: connect() opens a socket, sets up     *)
(* mbedTLS and shakes hands; read(), peek(), available() and write() use   *)
(* the session; stop() closes it.  lwIP and mbedTLS are external.          *)
(***************************************************************************)
EXTENDS Integers, FiniteSets

CONSTANTS Client,    \* the WiFiClientSecure objects, used by one task
          FD,        \* the sockets of lwIP, 0 among them
          Talking,   \* bound: clients whose peer sends
          MaxCalls, MaxBytes, MaxOthers \* bounds: connect(), bytes of a connection, other sockets

\* What the constants have to be; the module of a run assumes it.
ConstantsOK ==
  /\ FD \subseteq Nat /\ 0 \in FD /\ Talking \subseteq Client
  /\ Client \cap {"none", "other"} = {}
  /\ MaxCalls \in Nat /\ MaxBytes \in Nat /\ MaxOthers \in Nat

VARIABLES
  socket,      \* sslclient->socket
  connected,   \* _connected
  peeked,      \* _peek: a byte, or NoByte
  ctx,         \* ssl_ctx: connection it is set up for and bytes decoded; None
  held,        \* certificates and key of the context in the heap: "ca", "crt", "key"
  conf,        \* "ca": ssl_conf.ca_chain # NULL; "own": ssl_conf.key_cert # NULL
  leaked,      \* history: certificates and keys in the heap that no context knows of
  auth, own,   \* the policy the call found set; _cert and _private_key are
  crts,        \* s_crt_bundle.crts # NULL, one bundle for all clients
  pc, who,     \* where the call is and whose it is
  fds,         \* who opened each open socket: client and connection, or Other
  wire,        \* the session's bytes sent by the peer and taken from the socket; its end
  last,        \* history: the connection of the last connect() and the bytes handed out
  inOrder, closedOther, \* history: the verdicts on bytes handed out and sockets closed
  fresh,       \* history: the socket field is one that connect() assigned
  excuse, calls, others

certs == <<held, conf, leaked>>
cl == <<socket, connected, peeked, ctx, certs, fresh>>
policy == <<auth, own, crts>>
world == <<wire, others>>
history == <<last, inOrder>>
vars == <<cl, policy, pc, who, fds, world, history, closedOther, excuse, calls>>

NoByte == <<0, 0>>
Phantom == <<0, -1>>  \* the 255 that read() makes of the end of the stream
None == [conn |-> 0, decoded |-> 0]
Nothing == [conn |-> 0, count |-> 0]
Silent == [sent |-> 0, taken |-> 0, ended |-> FALSE]
Free == [by |-> "none", conn |-> 0]
Other == [by |-> "other", conn |-> 0]

Init ==
  /\ socket = [c \in Client |-> -1] /\ connected = [c \in Client |-> FALSE]
  /\ peeked = [c \in Client |-> NoByte] /\ ctx = [c \in Client |-> None]
  /\ held = [c \in Client |-> {}] /\ conf = held /\ leaked = {} /\ fresh = [c \in Client |-> TRUE]
  /\ auth = "none" /\ own = FALSE /\ crts = FALSE
  /\ pc = "idle" /\ who = (CHOOSE c \in Client : TRUE) /\ fds = [f \in FD |-> Free]
  /\ wire = [c \in Client |-> Silent] /\ last = [c \in Client |-> Nothing]
  /\ inOrder = TRUE /\ closedOther = "no" /\ excuse = {} /\ calls = 0 /\ others = 0

------------------------------------------------------------------------------
(* lwIP and the peer.                                                      *)

Lowest == CHOOSE f \in FD : fds[f] = Free /\ \A g \in FD : fds[g] = Free => f <= g

\* Another task's socket.
OtherOpens ==
  /\ others < MaxOthers /\ \E f \in FD : fds[f] = Free
  /\ fds' = [fds EXCEPT ![Lowest] = Other] /\ others' = others + 1
  /\ UNCHANGED <<cl, policy, pc, who, wire, history, closedOther, excuse, calls>>

PeerSends(c) ==
  /\ connected[c] /\ ctx[c] # None /\ ~wire[c].ended /\ wire[c].sent < MaxBytes
  /\ wire' = [wire EXCEPT ![c].sent = @ + 1]
  /\ UNCHANGED <<cl, policy, pc, who, fds, others, history, closedOther, excuse, calls>>

PeerCloses(c) ==
  /\ connected[c] /\ ctx[c] # None /\ wire' = [wire EXCEPT ![c].ended = TRUE]
  /\ UNCHANGED <<cl, policy, pc, who, fds, others, history, closedOther, excuse, calls>>

\* mbedTLS reaches its peer through the field, which must still be that socket.
alive(c) ==
  /\ ctx[c].conn # 0 /\ socket[c] \in FD
  /\ fds[socket[c]].conn = ctx[c].conn
pending(c) == wire[c].sent - wire[c].taken

\* bound: once nothing is claimed any more, the sketch makes no further call.
Idle == pc = "idle" /\ excuse \cap {"again", "shared"} = {} /\ closedOther # "zero"

------------------------------------------------------------------------------
(* stop().                                                                 *)

\* lwip_close() of the client's field.
close(c) ==
  LET f == socket[c] IN
  IF f \notin FD THEN UNCHANGED <<fds, closedOther>>
  ELSE /\ fds' = [fds EXCEPT ![f] = Free]
       /\ closedOther' = IF ~fresh[c] /\ fds[f] # Free THEN "zero"
                         ELSE IF fds[f] = Other /\ closedOther = "no" THEN "stray"
                         ELSE closedOther

\* The guards of stop_ssl_socket(): what the configuration does not know of is
\* not freed, and lost when the context is filled with zeros.
known(c) ==
  (IF "ca" \in conf[c] THEN {"ca"} ELSE {}) \cup (IF "own" \in conf[c] THEN {"crt", "key"} ELSE {})

freeCerts(c) ==
  /\ leaked' = leaked \cup (held[c] \ known(c))
  /\ held' = [held EXCEPT ![c] = {}] /\ conf' = [conf EXCEPT ![c] = {}]

\* stop_ssl_socket() fills the context, its socket too, with zeros; a client
\* without a socket keeps _connected and _peek.
stopped(c) ==
  /\ socket' = [socket EXCEPT ![c] = 0] /\ fresh' = [fresh EXCEPT ![c] = FALSE]
  /\ ctx' = [ctx EXCEPT ![c] = None] /\ freeCerts(c)

\* mutant: the byte that peek() keeps survives the connection
peekKept(c) == peeked[c]

peekAfterStop(c) == IF socket[c] >= 0 THEN NoByte ELSE peeked[c]

stopping(c) ==
  /\ close(c) /\ stopped(c) /\ connected' = [connected EXCEPT ![c] = @ /\ socket[c] < 0]
  /\ peeked' = [peeked EXCEPT ![c] = peekAfterStop(c)]
  /\ wire' = [wire EXCEPT ![c] = Silent]

\* and the destructor
stop(c) ==
  /\ Idle /\ calls < MaxCalls /\ calls' = calls + 1
  /\ stopping(c)
  /\ UNCHANGED <<policy, pc, who, others, history, excuse>>

\* operator=: the socket is shared, the session is not.
assign(c, d) ==
  /\ Idle /\ calls < MaxCalls /\ calls' = calls + 1 /\ c # d
  /\ close(c)
  /\ socket' = [socket EXCEPT ![c] = socket[d]] /\ connected' = [connected EXCEPT ![c] = connected[d]]
  /\ fresh' = [fresh EXCEPT ![c] = FALSE]
  /\ peeked' = [peeked EXCEPT ![c] = peekAfterStop(c)]
  /\ ctx' = [ctx EXCEPT ![c] = None] /\ freeCerts(c)
  /\ wire' = [wire EXCEPT ![c] = Silent] /\ excuse' = excuse \cup {"shared"}
  /\ UNCHANGED <<policy, pc, who, others, history>>

------------------------------------------------------------------------------
(* connect().                                                              *)

\* setInsecure(), setCACert(), setPreSharedKey(): what the setters have left for
\* connect(), in the order that start_ssl_client() asks.
Policy == {"none", "insecure", "ca", "bundle", "psk"}

\* setCACertBundle(): the bundle is one for all clients, and detached for all.
setCACertBundle ==
  /\ Idle /\ calls <= 1  \* bound
  /\ \E allocated \in BOOLEAN : crts' = allocated
  /\ UNCHANGED <<cl, auth, own, pc, who, fds, world, history, closedOther, excuse, calls>>

rest == <<policy, others, history>>

\* hostByName() fails: the client stays as it was.  Without a policy
\* start_ssl_client() returns before it touches the socket.
connect(c) ==
  /\ Idle /\ calls < MaxCalls /\ calls' = calls + 1 /\ who' = c
  /\ excuse' = IF connected[c] THEN excuse \cup {"again"} ELSE excuse
  /\ auth' \in Policy /\ own' \in BOOLEAN
  /\ pc' = IF auth' = "none" THEN "failed" ELSE "open"
  /\ UNCHANGED <<cl, crts, world, history, fds, closedOther>>

\* mutant: the socket is closed and its number is kept
numberKept(f) == f

closedNumber(f) == -1

\* socket(), connect() and select(); a socket of an earlier connection is
\* forgotten.
openSocket(result) ==
  LET c == who IN
  /\ pc = "open" /\ (result # "none" => \E f \in FD : fds[f] = Free)
  /\ LET f == Lowest IN
       /\ socket' = [socket EXCEPT ![c] = CASE result = "none" -> -1
                                            [] result = "refused" -> closedNumber(f)
                                            [] OTHER -> f]
       /\ fds' = IF result = "ok" THEN [fds EXCEPT ![f] = [by |-> c, conn |-> calls]] ELSE fds
  /\ fresh' = [fresh EXCEPT ![c] = TRUE]
  /\ pc' = IF result = "ok" THEN "configure" ELSE "failed"
  /\ UNCHANGED <<connected, peeked, ctx, certs, rest, wire, who, closedOther, excuse, calls>>

\* Socket options, random numbers, the configuration, the policy, the client's
\* own certificate and key, the host name, the session: any of them may fail
\* after what it follows.  ca_chain is set even if the CA certificate cannot be
\* parsed, and freed; mbedtls_ssl_conf_own_cert() may find no memory, which
\* goes unnoticed: certificate and key are loaded, and key_cert is not set.
configure(ok) ==
  LET c == who
      ca == IF auth = "ca" THEN {"ca"} ELSE {}
      mine == IF auth # "insecure" /\ own THEN {"crt", "key"} ELSE {}
      link == IF mine # {} THEN {"own"} ELSE {} IN
  /\ pc = "configure"
  /\ \E heap \in {{}, ca, ca \cup mine}, set \in {{}, ca, ca \cup link} :
       /\ ca \cap heap \subseteq set /\ ("own" \in set => mine \subseteq heap)
       /\ ok => heap = ca \cup mine
       /\ held' = [held EXCEPT ![c] = heap] /\ conf' = [conf EXCEPT ![c] = set]
       /\ excuse' = IF "key" \in heap /\ "own" \notin set THEN excuse \cup {"unlinked"} ELSE excuse
  /\ IF ok
     THEN /\ auth = "bundle" => crts
          /\ ctx' = [ctx EXCEPT ![c] = [conn |-> fds[socket[c]].conn, decoded |-> 0]]
          /\ wire' = [wire EXCEPT ![c] = Silent] /\ pc' = "handshake"
     ELSE pc' = "failed" /\ UNCHANGED <<ctx, wire>>
  /\ UNCHANGED <<socket, connected, peeked, leaked, fresh, rest, who, fds, closedOther, calls>>

\* mutant: the handshake has no deadline
patientHandshake == pc = "handshake" /\ FALSE

handshakeTimeout == pc = "handshake"

\* The handshake wants more, is over, or fails; then the certificate counts.
handshake(result) ==
  LET c == who IN
  /\ pc = "handshake"
  /\ \/ /\ result = "done"
        /\ held' = [held EXCEPT ![c] = {}] /\ connected' = [connected EXCEPT ![c] = TRUE]
        /\ last' = [last EXCEPT ![c] = [conn |-> ctx[c].conn, count |-> 0]]
        /\ pc' = "idle" /\ UNCHANGED <<socket, ctx, conf, leaked, fresh, fds, closedOther>>
     \/ /\ result = "error" /\ pc' = "failed"
        /\ UNCHANGED <<cl, last, fds, closedOther>>
     \/ /\ result = "timeout" /\ handshakeTimeout /\ pc' = "failed"
        /\ UNCHANGED <<cl, last, fds, closedOther>>
     \/ /\ result = "unverified" /\ auth # "insecure"  \* stop_ssl_socket()
        /\ close(c) /\ stopped(c) /\ pc' = "failed" /\ UNCHANGED <<connected, last>>
  /\ IF pc' = "idle" THEN auth' = "none" /\ own' = FALSE ELSE UNCHANGED <<auth, own>>
  /\ UNCHANGED <<peeked, crts, world, inOrder, who, excuse, calls>>

\* mutant: a failed connect() returns and no more
notStopped(c) == UNCHANGED <<cl, fds, wire, closedOther>>

stopAfter(c) == stopping(c)

connectFailed ==
  /\ pc = "failed" /\ stopAfter(who) /\ pc' = "idle" /\ auth' = "none" /\ own' = FALSE
  /\ UNCHANGED <<crts, others, history, who, excuse, calls>>

------------------------------------------------------------------------------
(* The session.                                                            *)

\* The byte after the ones that mbedTLS has handed out already.
nextByte(c) == <<ctx[c].conn, wire[c].taken - ctx[c].decoded + 1>>

\* The byte that comes next, or, when all have been handed out and the peer
\* has closed, the 255 of the end.
right(c, b) ==
  \/ b = <<last[c].conn, last[c].count + 1>>
  \/ b = Phantom /\ wire[c].ended /\ last[c].count = wire[c].sent

handed(c, b) ==
  /\ inOrder' = (inOrder /\ right(c, b))
  /\ last' = [last EXCEPT ![c].count = IF b = Phantom THEN @ ELSE @ + 1]

\* n bytes of records are taken from the socket and decoded, and k handed out.
decode(c, n, k) ==
  /\ wire' = [wire EXCEPT ![c].taken = @ + n] /\ ctx' = [ctx EXCEPT ![c].decoded = @ + n - k]

AtEnd(c) == alive(c) /\ ctx[c].decoded + pending(c) = 0 /\ wire[c].ended

\* mbedTLS gives a byte.
takes(c) ==
  /\ alive(c) /\ ctx[c].decoded + pending(c) > 0
  /\ \E n \in 0 .. pending(c) :
       /\ (ctx[c].decoded = 0) <=> (n > 0)
       /\ decode(c, n, 1)

\* get_ssl_receive() fails: nothing in time, or an error.
fails(c) == (~alive(c) \/ ctx[c].decoded = 0) /\ stopping(c)

\* read() and read(&b, 1): the byte of peek(), a byte of mbedTLS, or the end,
\* where mbedtls_ssl_read() gives 0, which read() takes for a byte.
read(c) ==
  /\ Idle /\ connected[c]
  /\ \/ /\ peeked[c] # NoByte /\ peeked' = [peeked EXCEPT ![c] = NoByte] /\ handed(c, peeked[c])
        /\ UNCHANGED <<socket, connected, ctx, certs, fresh, fds, wire, closedOther>>
     \/ /\ peeked[c] = NoByte /\ takes(c) /\ handed(c, nextByte(c))
        /\ UNCHANGED <<socket, connected, peeked, certs, fresh, fds, closedOther>>
     \/ /\ peeked[c] = NoByte /\ AtEnd(c) /\ (handed(c, Phantom) \/ UNCHANGED history)
        /\ UNCHANGED <<cl, fds, wire, closedOther>>
     \/ peeked[c] = NoByte /\ fails(c) /\ UNCHANGED history
  /\ UNCHANGED <<policy, pc, who, others, excuse, calls>>

\* timedRead() calls read() until it gives a byte, and at the end of the stream
\* it gives 255 for one.
peek(c) ==
  /\ Idle /\ connected[c] /\ peeked[c] = NoByte
  /\ \/ /\ takes(c) /\ peeked' = [peeked EXCEPT ![c] = nextByte(c)]
        /\ UNCHANGED <<socket, connected, certs, fresh, fds, closedOther>>
     \/ /\ AtEnd(c) /\ peeked' = [peeked EXCEPT ![c] = Phantom]
        /\ UNCHANGED <<socket, connected, ctx, certs, fresh, fds, wire, closedOther>>
     \/ fails(c)
  /\ UNCHANGED <<policy, pc, who, others, history, excuse, calls>>

\* available(): a record that has arrived is decoded, an error stops.
available(c) ==
  /\ Idle /\ connected[c] /\ ctx[c].decoded = 0
  /\ \/ /\ alive(c) /\ pending(c) > 0
        /\ \E n \in 1 .. pending(c) : decode(c, n, 0)
        /\ UNCHANGED <<socket, connected, peeked, certs, fresh, fds, closedOther>>
     \/ /\ ~alive(c) \/ wire[c].ended
        /\ stopping(c)
  /\ UNCHANGED <<policy, pc, who, others, history, excuse, calls>>

write(c) ==
  /\ Idle /\ connected[c] /\ calls < MaxCalls /\ calls' = calls + 1
  /\ pc' = "write" /\ who' = c
  /\ UNCHANGED <<cl, rest, wire, fds, closedOther, excuse>>

\* send_ssl_data() tries until the bytes are taken, an error, or the timeout.
writeDone(ok) ==
  /\ pc = "write" /\ (ok => alive(who)) /\ pc' = "idle"
  /\ IF ok THEN UNCHANGED <<cl, wire, fds, closedOther>> ELSE stopping(who)
  /\ UNCHANGED <<rest, who, excuse, calls>>

------------------------------------------------------------------------------
Call ==
  \/ \E r \in {"none", "refused", "ok"} : openSocket(r)
  \/ \E ok \in BOOLEAN : configure(ok) \/ writeDone(ok)
  \/ \E r \in {"done", "error", "unverified"} : handshake(r)
  \/ connectFailed
Timeout == handshake("timeout")

Sketch ==
  \E c \in Client :
    \/ stop(c) \/ connect(c) \/ read(c) \/ peek(c) \/ available(c) \/ write(c)
    \/ \E d \in Client : assign(c, d)

Peer == \E c \in Talking : PeerSends(c) \/ PeerCloses(c)

Next == Call \/ Timeout \/ Sketch \/ setCACertBundle \/ OtherOpens \/ Peer

\* Every call has a timeout of its own: the handshake's answers are the peer's.
Spec ==
  /\ Init /\ [][Next]_vars
  /\ WF_vars(Timeout) /\ WF_vars(pc # "handshake" /\ Call)

------------------------------------------------------------------------------
\* A client closes no socket that another part of the program has opened,
\* whatever fails and whoever opens a socket meanwhile.  Excepted is socket 0,
\* which a client that has been stopped holds, and a socket shared with
\* operator=.
OthersKept == closedOther # "stray"

\* Between calls, a client that is not connected has no socket open and no
\* certificate in the heap, at whatever point connect() failed; excepted are a
\* connect() of a connected client and a shared socket.  None is lost either,
\* but for the client's own certificate and key when mbedTLS had no memory to
\* enter them in the configuration.
FailedHoldsNothing ==
  pc = "idle" /\ excuse \cap {"again", "shared"} = {} =>
    /\ leaked \subseteq IF "unlinked" \in excuse THEN {"crt", "key"} ELSE {}
    /\ \A c \in Client :
         /\ held[c] = {}
         /\ ~connected[c] => \A f \in FD : fds[f].by # c

\* The two together: what is open has the owner that opened it.
SocketsKept == OthersKept /\ FailedHoldsNothing

\* What read() gives after a connect() are the bytes of that connection in
\* order, each once, whatever mix of peek(), available() and reconnections;
\* the 255 that read() makes of the end, and that peek() keeps, comes after the
\* last of them and never into the next connection.  Excepted is a connect() of
\* a connected client, and operator=.
BytesInOrder == excuse \cap {"again", "shared"} = {} => inOrder

\* connect() and write() return although the peer never answers.
CallReturns == pc # "idle" ~> pc = "idle"
=============================================================================
