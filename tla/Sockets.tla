------------------------------ MODULE Sockets ------------------------------
(* The users of lwIP, each by itself: WiFiServer with its WiFiClients, the *)
(* stream of one WiFiClient, WiFiUDP, and WiFiClientSecure.                *)
EXTENDS WiFiSockets

CONSTANTS
  BufSize, Lengths, Peers, Group, MaxDatagrams, MaxBytes, CallsMayFail,
  udp_None,
  Retries, MaxSize, MaxSent, MaxCalls, Fionread, Accepted, PeerResets,
  Client, FD, Talking, tls_MaxCalls, tls_MaxBytes, MaxOthers

VARIABLES
  part,  \* the component that runs: it is chosen at the start
  udp_server, server_port, multicast_ip, remote, tx_buffer, tx_buffer_len,
  rx_buffer, rx_len, rx_pos, parsed, ended, udp_open, dest, written, sent,
  sentTo, udp_lost, crossed, bytewise, heap, sockets, joined, queue, arrived,
  stream_connected, pc, size, sent_total, retries, result, expired, calls,
  rcv, taken, got, peerSent, peer,
  socket, tls_connected, peeked, ctx, held, conf, leaked, auth, own, crts, tls_pc, who, fds,
  wire, last, inOrder, closedOther, fresh, excuse, tls_calls, others

U == INSTANCE WiFiUdp WITH
  None <- udp_None, open <- udp_open, lost <- udp_lost
C == INSTANCE WiFiStream WITH
  connected <- stream_connected
L == INSTANCE WiFiClientSecure WITH
  MaxCalls <- tls_MaxCalls, MaxBytes <- tls_MaxBytes,
  connected <- tls_connected, pc <- tls_pc, calls <- tls_calls

ASSUME SocketsUsersAssumption == U!ConstantsOK /\ C!ConstantsOK /\ L!ConstantsOK

udpVars == <<
  udp_server, server_port, multicast_ip, remote, tx_buffer, tx_buffer_len,
  rx_buffer, rx_len, rx_pos, parsed, ended, udp_open, dest, written, sent,
  sentTo, udp_lost, crossed, bytewise, heap, sockets, joined, queue, arrived>>
streamVars == <<
  stream_connected, pc, size, sent_total, retries, result, expired, calls,
  rcv, taken, got, peerSent, peer>>
tlsVars == <<
  socket, tls_connected, peeked, ctx, held, conf, leaked, auth, own, crts, tls_pc, who, fds,
  wire, last, inOrder, closedOther, fresh, excuse, tls_calls, others>>

Part == {"sockets", "udp", "stream", "tls"}
allVars == <<part, vars, udpVars, streamVars, tlsVars>>

PartsInit ==
  /\ part \in Part
  /\ Init /\ U!Init /\ C!Init /\ L!Init

\* One component moves, with its own steps; the others rest.
PartsNext ==
  \/ part = "sockets" /\ Next /\ UNCHANGED <<part, udpVars, streamVars, tlsVars>>
  \/ part = "udp" /\ U!Next /\ UNCHANGED <<part, vars, streamVars, tlsVars>>
  \/ part = "stream" /\ C!Next /\ UNCHANGED <<part, vars, udpVars, tlsVars>>
  \/ part = "tls" /\ L!Next /\ UNCHANGED <<part, vars, udpVars, streamVars>>

PartsSpec ==
  /\ PartsInit /\ [][PartsNext]_allVars
  /\ WF_udpVars(part = "udp" /\ U!parsePacketReceive)
  /\ WF_udpVars(part = "udp" /\ \E n \in 1 .. BufSize : U!read(n))
  /\ WF_streamVars(part = "stream" /\ C!CallStep /\ (C!HasTimeout \/ ~C!Sending))
  /\ WF_streamVars(part = "stream" /\ C!TimePasses)
  /\ SF_streamVars(part = "stream" /\ C!PollStep)
  /\ WF_tlsVars(part = "tls" /\ L!Timeout)
  /\ WF_tlsVars(part = "tls" /\ tls_pc # "handshake" /\ L!Call)

\* A WiFiUDP knows of every heap block, socket and group membership that it
\* has, whatever failed, and endPacket() answers 1 only when the packet went
\* out whole and to its host.  Excepted are a packet of which write() has
\* failed to send a part, and one that a parsePacket() between beginPacket() and
\* endPacket() has redirected.
PacketsKept == U!PacketsKept

\* write() of a WiFiClient returns what lwIP took, and no byte that the peer
\* sent is lost while the connection is up.
BytesAccounted == C!BytesAccounted

\* A WiFiClientSecure closes no socket that another part of the program has
\* opened, but for socket 0, which a stopped client takes for its own; and a
\* connect() that failed at any point holds nothing, but for the client's own
\* certificate and key if mbedTLS could not enter them.  Excepted are connect()
\* of a connected client and operator=.
SocketsKept == part = "tls" => L!SocketsKept

\* What read() of a WiFiClientSecure gives after a connect() are the bytes of
\* that connection in order, each once, whatever mix of peek(), available()
\* and reconnections, and then, perhaps, the 255 that stands for the end;
\* excepted are a connect() of a connected client and operator=.
BytesInOrder == L!BytesInOrder

\* Every call of a WiFiClient returns, and connect() and write() of a
\* WiFiClientSecure although the peer never answers; a sketch that polls finds
\* out that the peer has closed, and one that parses and reads gets every
\* datagram.
CallsReturn == C!CallReturns /\ C!CloseNoticed /\ U!QueueDrains /\ L!CallReturns
============================================================================
