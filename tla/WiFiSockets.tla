------------------------------ MODULE WiFiSockets -----------------------------
(***************************************************************************)
(* Who holds which lwIP socket: the sketch's WiFiClient objects, the       *)
(* listening WiFiServer and the connection hasClient() has accepted in     *)
(* advance.  WiFiClient closes its socket in its destructor; the sketch    *)
(* never copies one ("WiFiClient has no safe copy/assign").                *)
(***************************************************************************)
EXTENDS Integers

CONSTANTS Clients,   \* the sketch's WiFiClient objects
          NumSockets,\* lwIP's socket table
          MaxBacklog \* _max_clients

ASSUME SocketsAssumption == NumSockets \in Nat /\ MaxBacklog \in Nat

VARIABLES
  fd, connected,     \* of every client: _fd (-1: none) and _connected
  alive,             \* the clients that exist
  sockfd, accepted_sockfd, listening,  \* of the server
  open,              \* lwIP: the sockets in use
  backlog,           \* lwIP: connections waiting to be accepted
  lost               \* open sockets whose last holder forgot them

client == <<fd, connected, alive>>
server == <<sockfd, accepted_sockfd, listening>>
vars == <<client, server, open, backlog, lost>>

Fds == 0 .. NumSockets - 1

Init ==
  /\ fd = [c \in Clients |-> -1]
  /\ connected = [c \in Clients |-> FALSE]
  /\ alive = {}
  /\ sockfd = -1 /\ accepted_sockfd = -1 /\ listening = FALSE
  /\ open = {} /\ backlog = 0 /\ lost = {}

------------------------------------------------------------------------------
(* lwIP.                                                                   *)

\* lwip_socket() and lwip_accept() take a free entry, one that was closed
\* before if need be.
lwip_socket(used) == IF Fds \subseteq used THEN -1 ELSE CHOOSE f \in Fds \ used : TRUE

\* A remote host connects; only a listening socket has a backlog.
RemoteConnects ==
  /\ listening /\ backlog < MaxBacklog
  /\ backlog' = backlog + 1
  /\ UNCHANGED <<client, server, open, lost>>

------------------------------------------------------------------------------
(* WiFiClient.                                                             *)

\* WiFiClient().
construct(c) ==
  /\ c \notin alive
  /\ alive' = alive \cup {c}
  /\ fd' = [fd EXCEPT ![c] = -1]
  /\ connected' = [connected EXCEPT ![c] = FALSE]
  /\ UNCHANGED <<server, open, backlog, lost>>

\* mutant: the descriptor is kept after it was closed
stopKeepsFd(c) ==
  /\ c \in alive
  /\ open' = open \ {fd[c]}
  /\ connected' = [connected EXCEPT ![c] = FALSE]
  /\ UNCHANGED <<fd, alive, server, backlog, lost>>

\* stop(), called by the sketch or by write(), read() or available() when the
\* connection is broken or closed by the peer.
stop(c) ==
  /\ c \in alive
  /\ open' = open \ {fd[c]}
  /\ fd' = [fd EXCEPT ![c] = -1]
  /\ connected' = [connected EXCEPT ![c] = FALSE]
  /\ UNCHANGED <<alive, server, backlog, lost>>

\* ~WiFiClient().
destroy(c) ==
  /\ c \in alive
  /\ alive' = alive \ {c}
  /\ open' = open \ {fd[c]}
  /\ fd' = [fd EXCEPT ![c] = -1]
  /\ connected' = [connected EXCEPT ![c] = FALSE]
  /\ UNCHANGED <<server, backlog, lost>>

\* mutant: connect() does not stop() what the object had
connectNoStop(c, ok) ==
  /\ c \in alive
  /\ LET f == lwip_socket(open)
         up == ok /\ f # -1
     IN  /\ open' = IF up THEN open \cup {f} ELSE open
         /\ fd' = [fd EXCEPT ![c] = IF up THEN f ELSE -1]
         /\ connected' = [connected EXCEPT ![c] = up]
  /\ UNCHANGED <<alive, server, backlog, lost>>

\* connect(): the old socket goes first; ok: the peer accepts.
connect(c, ok) ==
  /\ c \in alive
  /\ LET rest == open \ {fd[c]}
         f    == lwip_socket(rest)
         up   == ok /\ f # -1
     IN  /\ open' = IF up THEN rest \cup {f} ELSE rest
         /\ fd' = [fd EXCEPT ![c] = IF up THEN f ELSE -1]
         /\ connected' = [connected EXCEPT ![c] = up]
  /\ UNCHANGED <<alive, server, backlog, lost>>

------------------------------------------------------------------------------
(* WiFiServer.                                                             *)

\* begin(): ok is the outcome of lwip_bind() and lwip_listen().
begin(ok) ==
  /\ ~listening
  /\ LET f  == lwip_socket(open)
         up == ok /\ f # -1
     IN  /\ sockfd' = IF up THEN f ELSE -1
         /\ open' = IF up THEN open \cup {f} ELSE open
         /\ listening' = up
  /\ accepted_sockfd' = -1
  /\ UNCHANGED <<client, backlog, lost>>

\* lwip_accept() of the next waiting connection succeeds.
CanAccept == listening /\ backlog > 0 /\ ~ (Fds \subseteq open)

\* hasClient(): accepts in advance, at most one connection.
hasClient ==
  /\ accepted_sockfd = -1
  /\ CanAccept
  /\ accepted_sockfd' = lwip_socket(open)
  /\ open' = open \cup {accepted_sockfd'}
  /\ backlog' = backlog - 1
  /\ UNCHANGED <<client, sockfd, listening, lost>>

\* WiFiClient c = available() with no connection, or no server, to take.
availableNone(c) ==
  /\ ~listening \/ (accepted_sockfd = -1 /\ ~CanAccept)
  /\ construct(c)

\* mutant: the connection accepted in advance is handed out again and again
availableOneTwice(c, ok) ==
  /\ c \notin alive /\ listening
  /\ accepted_sockfd # -1 \/ CanAccept
  /\ LET f == IF accepted_sockfd # -1 THEN accepted_sockfd ELSE lwip_socket(open)
     IN  /\ open' = IF ok THEN open \cup {f} ELSE open \ {f}
         /\ fd' = [fd EXCEPT ![c] = IF ok THEN f ELSE -1]
         /\ connected' = [connected EXCEPT ![c] = ok]
  /\ alive' = alive \cup {c}
  /\ backlog' = IF accepted_sockfd # -1 THEN backlog ELSE backlog - 1
  /\ UNCHANGED <<server, lost>>

\* The same with a connection; ok: both lwip_setsockopt() calls succeed.
availableOne(c, ok) ==
  /\ c \notin alive /\ listening
  /\ accepted_sockfd # -1 \/ CanAccept
  /\ LET f == IF accepted_sockfd # -1 THEN accepted_sockfd ELSE lwip_socket(open)
     IN  /\ open' = IF ok THEN open \cup {f} ELSE open \ {f}
         /\ fd' = [fd EXCEPT ![c] = IF ok THEN f ELSE -1]
         /\ connected' = [connected EXCEPT ![c] = ok]
  /\ alive' = alive \cup {c}
  /\ backlog' = IF accepted_sockfd # -1 THEN backlog ELSE backlog - 1
  /\ accepted_sockfd' = -1
  /\ UNCHANGED <<sockfd, listening, lost>>

\* end(), close(), stop() and the destructor: accepted_sockfd is not closed.
end ==
  /\ open' = open \ {sockfd}
  /\ sockfd' = -1 /\ accepted_sockfd' = -1 /\ listening' = FALSE
  /\ backlog' = 0
  /\ lost' = IF accepted_sockfd # -1 THEN lost \cup {accepted_sockfd} ELSE lost
  /\ UNCHANGED client

------------------------------------------------------------------------------
Next ==
  \/ \E c \in Clients : construct(c) \/ stop(c) \/ destroy(c) \/ availableNone(c)
  \/ \E c \in Clients, ok \in BOOLEAN : connect(c, ok) \/ availableOne(c, ok)
  \/ \E ok \in BOOLEAN : begin(ok)
  \/ hasClient \/ end \/ RemoteConnects

Spec == Init /\ [][Next]_vars

------------------------------------------------------------------------------
(* Properties.                                                             *)

ServerFds == {sockfd, accepted_sockfd} \ {-1}
ClientFds == {fd[c] : c \in Clients} \ {-1}

\* Between two calls a client is connected exactly when it holds a socket, only
\* an existing client holds one, a server listens exactly when it has a socket
\* and only a listening server has accepted in advance.
TypeOK ==
  /\ fd \in [Clients -> Fds \cup {-1}]
  /\ connected \in [Clients -> BOOLEAN]
  /\ alive \subseteq Clients
  /\ sockfd \in Fds \cup {-1} /\ accepted_sockfd \in Fds \cup {-1}
  /\ listening \in BOOLEAN
  /\ open \subseteq Fds /\ lost \subseteq Fds
  /\ backlog \in 0 .. MaxBacklog
  /\ \A c \in Clients : (connected[c] <=> fd[c] # -1) /\ (connected[c] => c \in alive)
  /\ (listening <=> sockfd # -1) /\ (accepted_sockfd # -1 => listening)

\* A descriptor that an object holds is open, and no other object holds it:
\* no object reads from, writes to or closes a socket that lwIP has closed or
\* has given to somebody else since.
HolderIsUnique ==
  /\ ServerFds \cup ClientFds \subseteq open
  /\ ServerFds \cap ClientFds = {}
  /\ (sockfd # -1) => (sockfd # accepted_sockfd)
  /\ \A c, d \in Clients : (c # d /\ fd[c] # -1) => (fd[c] # fd[d])
  /\ lost \cap (ServerFds \cup ClientFds) = {}

\* Every open socket has a holder, on the error paths too, except the
\* connections that were accepted by hasClient() and not taken before end().
OnlyEndLeaks == open = ServerFds \cup ClientFds \cup lost
===============================================================================
