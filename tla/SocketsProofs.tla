---------------------------- MODULE SocketsProofs -----------------------------
(***************************************************************************)
(* What holds of the users of lwIP for every value of their constants, each*)
(* by itself: WiFiServer and its clients, WiFiUDP, the stream of a         *)
(* WiFiClient, and WiFiClientSecure.                                       *)
(***************************************************************************)
EXTENDS Sockets, Integers, Sequences, FiniteSets, WellFoundedInduction, TLAPS

\* The sum moves as its parts do: a step of it is a step of each, or leaves it as
\* it is.
LEMMA PartsMove ==
  /\ PartsInit => U!Init /\ C!Init /\ L!Init
  /\ [PartsNext]_allVars => [U!Next]_U!vars /\ [C!Next]_C!vars /\ [L!Next]_L!vars
BY DEF PartsInit, PartsNext, allVars, udpVars, streamVars, tlsVars,
       U!vars, C!vars, L!vars, U!object, U!tx, U!rx, U!packet, U!history, U!stack, C!writeVars, L!cl, L!certs, L!policy,
       L!world, L!history

------------------------------------------------------------------------------
IInv == TypeOK /\ HolderIsUnique /\ OnlyEndLeaks

\* A new descriptor is in the table and was free; lwip_socket() fails with -1.
LEMMA FreshSocket ==
  ASSUME NEW used \in SUBSET Fds
  PROVE  /\ lwip_socket(used) \in Fds \cup {-1}
         /\ lwip_socket(used) # -1 => lwip_socket(used) \notin used
         /\ ~(Fds \subseteq used) => lwip_socket(used) # -1
  BY SocketsAssumption DEF lwip_socket, Fds

\* -1 is not a descriptor.
LEMMA MinusOne == -1 \notin Fds
  BY SocketsAssumption DEF Fds

\* Nobody holds a socket at first.
LEMMA InitHolds == Init => IInv
<1> SUFFICES ASSUME Init PROVE IInv
  OBVIOUS
<1>1. /\ fd \in [Clients -> Fds \cup {-1}] /\ connected \in [Clients -> BOOLEAN]
      /\ \A c \in Clients : (connected[c] <=> fd[c] # -1) /\ (connected[c] => c \in alive)
  BY DEF Init
<1>s. listening \in BOOLEAN /\ ~listening
  BY Zenon DEF Init
<1>t. TypeOK
  BY <1>1, <1>s, SocketsAssumption DEF Init, TypeOK
<1>2. ServerFds = {} /\ ClientFds = {}
  BY DEF Init, ServerFds, ClientFds
<1>3. \A c \in Clients : fd[c] = -1
  BY DEF Init
<1>4. HolderIsUnique /\ OnlyEndLeaks
  BY <1>2, <1>3 DEF Init, HolderIsUnique, OnlyEndLeaks
<1> QED BY <1>t, <1>4 DEF IInv

\* Closing the socket of one client, whether or not the object goes on.
LEMMA StopHolds ==
  ASSUME IInv, NEW c \in Clients, c \in alive,
         open' = open \ {fd[c]},
         fd' = [fd EXCEPT ![c] = -1],
         connected' = [connected EXCEPT ![c] = FALSE],
         alive' \in {alive, alive \ {c}},
         UNCHANGED <<server, backlog, lost>>
  PROVE  IInv'
<1>1. TypeOK'
  BY MinusOne DEF IInv, TypeOK, server
<1>2. HolderIsUnique'
  BY MinusOne DEF IInv, TypeOK, HolderIsUnique, ServerFds, ClientFds, server
<1>3. OnlyEndLeaks'
  BY MinusOne DEF IInv, TypeOK, HolderIsUnique, OnlyEndLeaks, ServerFds, ClientFds, server
<1> QED BY <1>1, <1>2, <1>3 DEF IInv

\* A client gets a descriptor that was free, or none, and holds none before.
LEMMA TakeHolds ==
  ASSUME IInv, NEW c \in Clients, fd[c] = -1,
         NEW f \in Fds \cup {-1}, f # -1 => f \notin open,
         open' = (IF f # -1 THEN open \cup {f} ELSE open),
         fd' = [fd EXCEPT ![c] = f],
         connected' = [connected EXCEPT ![c] = (f # -1)],
         alive' = alive \cup {c},
         UNCHANGED <<server, lost>>, backlog' \in 0 .. MaxBacklog
  PROVE  IInv'
<1>1. TypeOK'
  BY MinusOne DEF IInv, TypeOK, server
<1>2. HolderIsUnique'
  BY MinusOne DEF IInv, TypeOK, HolderIsUnique, OnlyEndLeaks, ServerFds, ClientFds, server
<1>3. OnlyEndLeaks'
  BY MinusOne DEF IInv, TypeOK, HolderIsUnique, OnlyEndLeaks, ServerFds, ClientFds, server
<1> QED BY <1>1, <1>2, <1>3 DEF IInv

\* connect(): the old socket is closed before the new one is opened.
LEMMA ConnectHolds ==
  ASSUME IInv, NEW c \in Clients, NEW ok \in BOOLEAN, connect(c, ok)
  PROVE  IInv'
<1> DEFINE rest == open \ {fd[c]}
           f == lwip_socket(rest)
           g == IF ok /\ f # -1 THEN f ELSE -1
<1>1. /\ f \in Fds \cup {-1} /\ (f # -1 => f \notin rest)
  BY FreshSocket DEF IInv, TypeOK
<1>2. /\ open' = IF g # -1 THEN rest \cup {g} ELSE rest
      /\ fd' = [fd EXCEPT ![c] = g]
      /\ connected' = [connected EXCEPT ![c] = (g # -1)]
      /\ c \in alive
      /\ UNCHANGED <<alive, server, backlog, lost>>
  BY DEF connect
<1>3. g \in Fds \cup {-1} /\ (g # -1 => g \notin rest)
  BY <1>1
<1> HIDE DEF g, f
<1>4. TypeOK'
  BY <1>2, <1>3, MinusOne DEF IInv, TypeOK, server
<1>5. HolderIsUnique'
  BY <1>2, <1>3, MinusOne
     DEF IInv, TypeOK, HolderIsUnique, OnlyEndLeaks, ServerFds, ClientFds, server
<1>6. OnlyEndLeaks'
  BY <1>2, <1>3, MinusOne
     DEF IInv, TypeOK, HolderIsUnique, OnlyEndLeaks, ServerFds, ClientFds, server
<1> QED BY <1>4, <1>5, <1>6 DEF IInv

\* begin(), hasClient() and end() change the server's descriptors only.
LEMMA BeginHolds ==
  ASSUME IInv, NEW ok \in BOOLEAN, begin(ok)
  PROVE  IInv'
<1> DEFINE f == lwip_socket(open)
           g == IF ok /\ f # -1 THEN f ELSE -1
<1>1. f \in Fds \cup {-1} /\ (f # -1 => f \notin open)
  BY FreshSocket DEF IInv, TypeOK
<1>2. /\ sockfd' = g /\ accepted_sockfd' = -1 /\ listening' = (g # -1) /\ ~listening
      /\ open' = IF g # -1 THEN open \cup {g} ELSE open
      /\ UNCHANGED <<client, backlog, lost>>
  BY DEF begin
<1>3. g \in Fds \cup {-1} /\ (g # -1 => g \notin open)
  BY <1>1
<1> HIDE DEF g, f
<1>4. TypeOK'
  BY <1>2, <1>3, MinusOne DEF IInv, TypeOK, client
<1>5. ClientFds' = ClientFds /\ ServerFds = {} /\ ServerFds' = {g} \ {-1}
  BY <1>2 DEF IInv, TypeOK, ServerFds, ClientFds, client
<1>6. HolderIsUnique'
  BY <1>2, <1>3, <1>5 DEF IInv, HolderIsUnique, OnlyEndLeaks, client
<1>7. OnlyEndLeaks'
  BY <1>2, <1>3, <1>5 DEF IInv, HolderIsUnique, OnlyEndLeaks
<1> QED BY <1>4, <1>6, <1>7 DEF IInv

LEMMA HasClientHolds ==
  ASSUME IInv, hasClient
  PROVE  IInv'
<1> DEFINE f == lwip_socket(open)
<1>1. f \in Fds /\ f # -1 /\ f \notin open
  BY FreshSocket DEF IInv, TypeOK, hasClient, CanAccept
<1>2. /\ accepted_sockfd = -1 /\ accepted_sockfd' = f /\ open' = open \cup {f}
      /\ listening /\ backlog > 0 /\ backlog' = backlog - 1
      /\ UNCHANGED <<client, sockfd, listening, lost>>
  BY DEF hasClient, CanAccept
<1> HIDE DEF f
<1>3. TypeOK'
  BY <1>1, <1>2, SocketsAssumption DEF IInv, TypeOK, client
<1>4. ClientFds' = ClientFds /\ ServerFds' = ServerFds \cup {f}
  BY <1>1, <1>2 DEF ServerFds, ClientFds, client
<1>5. HolderIsUnique'
  BY <1>1, <1>2, <1>4 DEF IInv, TypeOK, HolderIsUnique, OnlyEndLeaks, ServerFds, client
<1>6. OnlyEndLeaks'
  BY <1>1, <1>2, <1>4 DEF IInv, OnlyEndLeaks
<1> QED BY <1>3, <1>5, <1>6 DEF IInv

LEMMA EndHolds ==
  ASSUME IInv, end
  PROVE  IInv'
<1>c. UNCHANGED <<fd, connected, alive>>
  BY DEF end, client
<1>a. (IF accepted_sockfd # -1 THEN lost \cup {accepted_sockfd} ELSE lost) \subseteq Fds
  BY DEF IInv, TypeOK
<1>s. listening' \in BOOLEAN /\ ~listening'
  BY Zenon DEF end
<1>1. TypeOK'
  BY <1>c, <1>a, <1>s, SocketsAssumption DEF IInv, TypeOK, end
<1>2. ClientFds' = ClientFds /\ ServerFds' = {}
  BY DEF end, ServerFds, ClientFds, client
<1>3. HolderIsUnique'
  <2>0. -1 \notin ClientFds
    BY DEF ClientFds
  <2>1. ClientFds \subseteq open'
    BY <2>0 DEF IInv, HolderIsUnique, ServerFds, end
  <2>2. lost' \cap ClientFds = {}
    BY DEF IInv, HolderIsUnique, ServerFds, end
  <2> QED BY <1>2, <1>c, <2>1, <2>2 DEF IInv, HolderIsUnique, end
<1>4. OnlyEndLeaks'
  BY <1>2, MinusOne DEF IInv, TypeOK, HolderIsUnique, OnlyEndLeaks, ServerFds, end
<1> QED BY <1>1, <1>3, <1>4 DEF IInv

\* available() hands the accepted socket, or a new one, over to the client.
LEMMA AvailableHolds ==
  ASSUME IInv, NEW c \in Clients, NEW ok \in BOOLEAN, availableOne(c, ok)
  PROVE  IInv'
<1>0. /\ fd[c] = -1 /\ listening /\ sockfd # -1 /\ sockfd \in Fds
      /\ accepted_sockfd' = -1 /\ alive' = alive \cup {c}
      /\ UNCHANGED <<sockfd, listening, lost>>
  BY DEF IInv, TypeOK, availableOne
<1>b. backlog' \in 0 .. MaxBacklog
  BY SocketsAssumption DEF IInv, TypeOK, availableOne, CanAccept
<1>1. CASE accepted_sockfd # -1
  <2>1. /\ open' = IF ok THEN open \cup {accepted_sockfd} ELSE open \ {accepted_sockfd}
        /\ fd' = [fd EXCEPT ![c] = IF ok THEN accepted_sockfd ELSE -1]
        /\ connected' = [connected EXCEPT ![c] = ok]
    BY <1>1 DEF availableOne
  <2>2. TypeOK'
    BY <1>0, <1>b, <1>1, <2>1, MinusOne DEF IInv, TypeOK
  <2>3. HolderIsUnique'
    BY <1>0, <1>1, <2>1, MinusOne
       DEF IInv, TypeOK, HolderIsUnique, ServerFds, ClientFds
  <2>4. OnlyEndLeaks'
    BY <1>0, <1>1, <2>1, MinusOne
       DEF IInv, TypeOK, HolderIsUnique, OnlyEndLeaks, ServerFds, ClientFds
  <2> QED BY <2>2, <2>3, <2>4 DEF IInv
<1>2. CASE accepted_sockfd = -1
  <2> DEFINE f == lwip_socket(open)
             g == IF ok THEN f ELSE -1
  <2>1. f \in Fds /\ f # -1 /\ f \notin open
    BY <1>2, FreshSocket DEF IInv, TypeOK, availableOne, CanAccept
  <2>2. /\ open' = IF ok THEN open \cup {f} ELSE open \ {f}
        /\ fd' = [fd EXCEPT ![c] = g]
        /\ connected' = [connected EXCEPT ![c] = ok]
    BY <1>2 DEF availableOne
  <2>3. /\ g \in Fds \cup {-1} /\ (g # -1 => g \notin open) /\ (ok <=> g # -1)
        /\ open' = IF g # -1 THEN open \cup {g} ELSE open
    BY <2>1, <2>2
  <2>4. connected' = [connected EXCEPT ![c] = (g # -1)]
    BY <2>2, <2>3
  <2>5. UNCHANGED <<server, lost>>
    BY <1>0, <1>2 DEF server
  <2> HIDE DEF f, g
  <2> QED BY <1>0, <1>b, <2>2, <2>3, <2>4, <2>5, TakeHolds
<1> QED BY <1>1, <1>2

\* Every step keeps the invariant.
LEMMA NextHolds == IInv /\ [Next]_vars => IInv'
<1> SUFFICES ASSUME IInv, [Next]_vars PROVE IInv'
  OBVIOUS
<1>1. ASSUME NEW c \in Clients, construct(c) PROVE IInv'
  <2>1. fd[c] = -1
    BY <1>1 DEF construct, IInv, TypeOK
  <2>2. connected' = [connected EXCEPT ![c] = (-1 # -1)]
    BY <1>1 DEF construct
  <2> QED BY <1>1, <2>1, <2>2, TakeHolds DEF construct, IInv, TypeOK
<1>2. ASSUME NEW c \in Clients, stop(c) PROVE IInv'
  BY <1>2, StopHolds DEF stop
<1>3. ASSUME NEW c \in Clients, destroy(c) PROVE IInv'
  BY <1>3, StopHolds DEF destroy
<1>4. ASSUME NEW c \in Clients, availableNone(c) PROVE IInv'
  BY <1>4, <1>1 DEF availableNone
<1>5. ASSUME NEW c \in Clients, NEW ok \in BOOLEAN, connect(c, ok) PROVE IInv'
  BY <1>5, ConnectHolds
<1>6. ASSUME NEW c \in Clients, NEW ok \in BOOLEAN, availableOne(c, ok) PROVE IInv'
  BY <1>6, AvailableHolds
<1>7. ASSUME NEW ok \in BOOLEAN, begin(ok) PROVE IInv'
  BY <1>7, BeginHolds
<1>8. CASE hasClient
  BY <1>8, HasClientHolds
<1>9. CASE end
  BY <1>9, EndHolds
<1>10. CASE RemoteConnects
  BY <1>10, SocketsAssumption
     DEF RemoteConnects, IInv, TypeOK, HolderIsUnique, OnlyEndLeaks, ServerFds, ClientFds,
         client, server
<1>11. CASE UNCHANGED vars
  BY <1>11 DEF vars, IInv, TypeOK, HolderIsUnique, OnlyEndLeaks, ServerFds, ClientFds,
         client, server
<1> QED
  BY <1>1, <1>2, <1>3, <1>4, <1>5, <1>6, <1>7, <1>8, <1>9, <1>10, <1>11 DEF Next

\* The invariant holds in every reachable state.
LEMMA Invariance == Spec => []IInv
<1>1. Init => IInv
  BY InitHolds
<1>2. IInv /\ [Next]_vars => IInv'
  BY NextHolds
<1> QED BY <1>1, <1>2, PTL DEF Spec

\* Between two calls clients and server are connected exactly when they hold a
\* socket (WiFiClient::stop(), connect(), WiFiServer::begin(), end()).
THEOREM TypeCorrect == Spec => []TypeOK
  BY Invariance, PTL DEF IInv

\* No descriptor is used after its socket was closed, or by two objects, for
\* every number of clients and sockets.
THEOREM UniqueHolder == Spec => []HolderIsUnique
  BY Invariance, PTL DEF IInv

\* Only WiFiServer::end() can lose an open socket.
THEOREM NoOtherLeak == Spec => []OnlyEndLeaks
  BY Invariance, PTL DEF IInv

------------------------------------------------------------------------------
(***************************************************************************)
(* WiFiUDP.                                                                *)
(***************************************************************************)

\* What the object has, and a group only with a socket.
Holdings ==
  /\ udp_server \in BOOLEAN /\ multicast_ip \in BOOLEAN
  /\ tx_buffer \in BOOLEAN /\ rx_buffer \in BOOLEAN
  /\ U!NothingLeaked
  /\ multicast_ip => udp_server

\* The packet that the sketch has begun is handed to lwIP or in the buffer, and
\* its host is the one that beginPacket() was given.
PacketStands ==
  /\ written \in Nat /\ sent \in Nat /\ tx_buffer_len \in Nat
  /\ udp_open => /\ udp_lost \/ sent + tx_buffer_len = written
                 /\ crossed \/ remote = dest

UdpInv == Holdings /\ PacketStands /\ U!WholePacketSent

LEMMA UdpInit == U!Init => UdpInv
<1> SUFFICES ASSUME U!Init PROVE UdpInv
  OBVIOUS
<1>1. Holdings
  <2>1. /\ udp_server = FALSE /\ multicast_ip = FALSE /\ tx_buffer = FALSE /\ rx_buffer = FALSE
        /\ heap = 0 /\ sockets = 0 /\ joined = 0
    BY DEF U!Init
  <2>2. U!NothingLeaked
    BY <2>1 DEF U!NothingLeaked, U!Blocks
  <2> QED
    BY <2>1, <2>2 DEF Holdings
<1>2. PacketStands /\ U!WholePacketSent
  BY DEF U!Init, PacketStands, U!WholePacketSent
<1> QED
  BY <1>1, <1>2 DEF UdpInv

\* Numbers and Booleans apart.
LEMMA HoldingsFrom ==
  ASSUME U!NothingLeaked', udp_server' \in BOOLEAN, multicast_ip' \in BOOLEAN,
         tx_buffer' \in BOOLEAN, rx_buffer' \in BOOLEAN, multicast_ip' => udp_server'
  PROVE  Holdings'
BY DEF Holdings

\* Steps that neither get nor give back anything.
LEMMA HoldingsSame ==
  ASSUME Holdings,
         UNCHANGED <<udp_server, multicast_ip, tx_buffer, rx_buffer, heap, sockets, joined>>
  PROVE  Holdings'
BY DEF Holdings, U!NothingLeaked, U!Blocks

\* Steps that leave the packet alone or give it up.
LEMMA PacketSame ==
  ASSUME PacketStands, UNCHANGED <<written, sent, dest>>,
         \/ UNCHANGED <<udp_open, udp_lost, crossed, remote, tx_buffer_len>>
         \/ (crossed' /\ UNCHANGED <<udp_open, udp_lost, tx_buffer_len>>)
         \/ (udp_open' = FALSE /\ tx_buffer_len' \in {0, tx_buffer_len})
  PROVE  PacketStands'
BY DEF PacketStands

LEMMA NotEnded ==
  ASSUME ended' # "sent"
  PROVE  U!WholePacketSent'
BY DEF U!WholePacketSent

LEMMA UdpStop ==
  ASSUME UdpInv, U!stop
  PROVE  UdpInv'
<1>1. Holdings'
  <2>1. tx_buffer' = FALSE /\ rx_buffer' = FALSE /\ udp_server' = FALSE
    BY DEF U!stop, U!stopBuffers
  <2>2. multicast_ip' = FALSE
    BY DEF U!stop, UdpInv, Holdings
  <2>3. heap' = 0 /\ sockets' = 0 /\ joined' = 0
    BY DEF U!stop, U!stopLeave, UdpInv, Holdings, U!NothingLeaked, U!Blocks
  <2>4. U!NothingLeaked'
    BY <2>1, <2>2, <2>3 DEF U!NothingLeaked, U!Blocks
  <2> QED
    BY <2>1, <2>2, <2>4, HoldingsFrom
<1>2. PacketStands'
  BY PacketSame DEF U!stop, U!stopBuffers, UdpInv
<1> QED
  BY <1>1, <1>2, NotEnded DEF UdpInv, U!stop, U!OtherCall

LEMMA UdpBegin ==
  ASSUME UdpInv, NEW group \in BOOLEAN, NEW fail \in U!Failures, U!begin(group, fail)
  PROVE  UdpInv'
<1>1. Holdings'
  <2>1. rx_buffer' = FALSE
    BY DEF U!begin, U!stopBuffers
  <2>2. /\ tx_buffer' = (fail = "none") /\ udp_server' = (fail = "none")
        /\ multicast_ip' = (fail = "none" /\ group)
    BY DEF U!begin
  <2>3. /\ heap' = U!Blocks(fail = "none") /\ sockets' = U!Blocks(fail = "none")
        /\ joined' = U!Blocks(fail = "none" /\ group)
    BY DEF U!begin, U!stopLeave, UdpInv, Holdings, U!NothingLeaked, U!Blocks
  <2>4. CASE fail = "none" /\ group
    <3>1. tx_buffer' = TRUE /\ udp_server' = TRUE /\ multicast_ip' = TRUE
      BY <2>2, <2>4
    <3>2. U!NothingLeaked'
      BY <2>1, <2>3, <2>4, <3>1 DEF U!NothingLeaked, U!Blocks
    <3> QED
      BY <2>1, <3>1, <3>2, HoldingsFrom
  <2>5. CASE fail = "none" /\ ~group
    <3>1. tx_buffer' = TRUE /\ udp_server' = TRUE /\ multicast_ip' = FALSE
      BY <2>2, <2>5
    <3>2. U!NothingLeaked'
      BY <2>1, <2>3, <2>5, <3>1 DEF U!NothingLeaked, U!Blocks
    <3> QED
      BY <2>1, <3>1, <3>2, HoldingsFrom
  <2>6. CASE fail # "none"
    <3>1. tx_buffer' = FALSE /\ udp_server' = FALSE /\ multicast_ip' = FALSE
      BY <2>2, <2>6
    <3>2. U!NothingLeaked'
      BY <2>1, <2>3, <2>6, <3>1 DEF U!NothingLeaked, U!Blocks
    <3> QED
      BY <2>1, <3>1, <3>2, HoldingsFrom
  <2> QED
    BY <2>4, <2>5, <2>6
<1>2. PacketStands'
  BY PacketSame DEF U!begin, U!stopBuffers, UdpInv
<1> QED
  BY <1>1, <1>2, NotEnded DEF UdpInv, U!begin, U!OtherCall

LEMMA UdpBeginPacket ==
  ASSUME UdpInv, NEW r, NEW fail, U!beginPacketTo(r, fail)
  PROVE  UdpInv'
<1>1. Holdings'
  <2>1. /\ UNCHANGED <<multicast_ip, rx_buffer, joined>>
        /\ fail = "none" \/ (fail = "malloc" /\ ~tx_buffer) \/ (fail = "socket" /\ ~udp_server)
    BY DEF U!beginPacketTo, U!rx
  <2>2. /\ tx_buffer' = (fail # "malloc")
        /\ udp_server' = (udp_server \/ fail = "none")
    BY DEF U!beginPacketTo
  <2>3. /\ heap' = heap + U!Blocks(~tx_buffer /\ fail # "malloc")
        /\ sockets' = sockets + U!Blocks(~udp_server /\ fail = "none")
    BY DEF U!beginPacketTo
  <2>4. CASE fail = "none"
    <3>1. tx_buffer' = TRUE /\ udp_server' = TRUE
      BY <2>2, <2>4
    <3> QED
      BY <2>1, <2>3, <2>4, <3>1 DEF UdpInv, Holdings, U!NothingLeaked, U!Blocks
  <2>5. CASE fail = "malloc" /\ ~tx_buffer
    <3>1. tx_buffer' = tx_buffer /\ udp_server' = udp_server
      BY <2>2, <2>5 DEF UdpInv, Holdings
    <3> QED
      BY <2>1, <2>3, <2>5, <3>1 DEF UdpInv, Holdings, U!NothingLeaked, U!Blocks
  <2>6. CASE fail = "socket" /\ ~udp_server
    <3>1. tx_buffer' = TRUE /\ udp_server' = udp_server
      BY <2>2, <2>6 DEF UdpInv, Holdings
    <3> QED
      BY <2>1, <2>3, <2>6, <3>1 DEF UdpInv, Holdings, U!NothingLeaked, U!Blocks
  <2> QED
    BY <2>1, <2>4, <2>5, <2>6
<1>2. PacketStands'
  <2>1. /\ remote' = r /\ dest' = r /\ written' = 0 /\ sent' = 0
        /\ tx_buffer_len' = IF fail = "malloc" THEN tx_buffer_len ELSE 0
    BY DEF U!beginPacketTo
  <2>2. ASSUME udp_open'
        PROVE  fail = "none"
    BY <2>2, Zenon DEF U!beginPacketTo
  <2> QED
    BY <2>1, <2>2 DEF UdpInv, PacketStands
<1> QED
  BY <1>1, <1>2, NotEnded DEF UdpInv, U!beginPacketTo, U!OtherCall

LEMMA UdpSend ==
  ASSUME U!ConstantsOK, UdpInv, NEW outcome \in U!Outcomes,
         U!write(outcome) \/ U!endPacket(outcome)
  PROVE  UdpInv'
<1>1. Holdings'
  BY HoldingsSame DEF U!write, U!endPacket, U!object, U!tx, U!rx, U!stack, UdpInv
<1>2. CASE U!write(outcome)
  <2>1. /\ udp_open /\ UNCHANGED <<remote, dest, udp_open, crossed>> /\ U!history' = U!history
        /\ written' = written + 1
    BY <1>2 DEF U!write, U!history
  <2>2. PacketStands'
    <3>1. CASE tx_buffer_len = BufSize /\ outcome = "taken"
      <4>1. sent' = sent + tx_buffer_len /\ tx_buffer_len' = 1 /\ (udp_lost => udp_lost')
        BY <1>2, <3>1 DEF U!write, U!Sendto
      <4> QED
        BY <2>1, <4>1 DEF UdpInv, PacketStands
    <3>2. CASE tx_buffer_len = BufSize /\ outcome # "taken"
      <4>1. sent' = sent /\ tx_buffer_len' = 1 /\ udp_lost'
        BY <1>2, <3>2 DEF U!write, U!Sendto, U!Outcomes
      <4> QED
        BY <2>1, <4>1 DEF UdpInv, PacketStands
    <3>3. CASE tx_buffer_len # BufSize
      <4>1. sent' = sent /\ tx_buffer_len' = tx_buffer_len + 1 /\ udp_lost' = udp_lost
        BY <1>2, <3>3 DEF U!write
      <4> QED
        BY <2>1, <4>1 DEF UdpInv, PacketStands
    <3> QED
      BY <3>1, <3>2, <3>3
  <2> QED
    BY <1>1, <1>2, <2>2, NotEnded DEF UdpInv, U!write, U!OtherCall
<1>3. CASE U!endPacket(outcome)
  <2>1. /\ udp_open /\ udp_open' = FALSE
        /\ UNCHANGED <<remote, dest, written, udp_lost, tx_buffer_len, crossed>>
    BY <1>3 DEF U!endPacket, U!tx, U!history
  <2>2. CASE outcome = "taken"
    <3>1. sentTo' = remote /\ sent' = sent + tx_buffer_len
      BY <1>3, <2>2 DEF U!endPacket, U!Sendto
    <3> QED
      BY <1>1, <2>1, <3>1 DEF UdpInv, PacketStands, U!WholePacketSent
  <2>3. CASE outcome # "taken"
    <3>1. sent' = sent /\ ended' # "sent"
      BY <1>3, <2>3 DEF U!endPacket, U!Sendto
    <3> QED
      BY <1>1, <2>1, <3>1, PacketSame, NotEnded DEF UdpInv
  <2> QED
    BY <2>2, <2>3
<1> QED
  BY <1>2, <1>3

LEMMA UdpReceive ==
  ASSUME UdpInv,
         \/ U!parsePacket \/ U!readByte \/ U!flush
         \/ \E n \in 1 .. BufSize : U!read(n)
         \/ \E p \in Peers, l \in Lengths : U!Arrive(p, l)
  PROVE  UdpInv'
<1>1. CASE U!parsePacketRefused \/ U!parsePacketEmpty \/ U!readByte
  BY <1>1, HoldingsSame, PacketSame, NotEnded
  DEF U!parsePacketRefused, U!parsePacketEmpty, U!readByte, U!OtherCall, U!object, U!tx, U!rx,
      U!packet, U!history, U!stack, UdpInv
<1>2. CASE U!parsePacketReceive
  <2>1. /\ UNCHANGED <<udp_server, multicast_ip, tx_buffer, sockets, joined>>
        /\ ~rx_buffer /\ rx_buffer' = TRUE /\ heap' = heap + 1
    BY <1>2 DEF U!parsePacketReceive, U!object, U!tx
  <2>2. Holdings'
    BY <2>1 DEF UdpInv, Holdings, U!NothingLeaked, U!Blocks
  <2> QED
    BY <1>2, <2>2, PacketSame, NotEnded DEF U!parsePacketReceive, U!packet, U!tx, UdpInv
<1>3. ASSUME U!flush \/ \E n \in 1 .. BufSize : U!read(n)
      PROVE  UdpInv'
  <2>1. /\ UNCHANGED <<udp_server, multicast_ip, tx_buffer, sockets, joined>>
        /\ \/ rx_buffer' = FALSE /\ heap' = heap - U!Blocks(rx_buffer)
           \/ UNCHANGED <<rx_buffer, heap>>
    BY <1>3 DEF U!flush, U!read, U!object, U!tx, U!stack, U!Blocks
  <2>2. Holdings'
    <3>1. U!NothingLeaked'
      BY <2>1 DEF UdpInv, Holdings, U!NothingLeaked, U!Blocks
    <3> QED
      BY <2>1, <3>1, HoldingsFrom DEF UdpInv, Holdings
  <2> QED
    BY <1>3, <2>2, PacketSame, NotEnded
    DEF U!flush, U!read, U!packet, U!tx, U!history, U!OtherCall, UdpInv
<1>4. ASSUME NEW p \in Peers, NEW l \in Lengths, U!Arrive(p, l)
      PROVE  UdpInv'
  BY <1>4, HoldingsSame, PacketSame, NotEnded
  DEF U!Arrive, U!OtherCall, U!object, U!tx, U!rx, U!packet, U!history, UdpInv
<1> QED
  BY <1>1, <1>2, <1>3, <1>4 DEF U!parsePacket

\* For every size of the buffer and every call that fails, the object knows of
\* all that it has, and a packet that endPacket() reports sent went out whole
\* and to its host.
THEOREM PacketsSafe ==
  PartsSpec => []PacketsKept
<1>1. UdpInv /\ [U!Next]_U!vars => UdpInv'
  <2> SUFFICES ASSUME UdpInv, [U!Next]_U!vars PROVE UdpInv'
    OBVIOUS
  <2>1. CASE UNCHANGED U!vars
    BY <2>1, HoldingsSame, PacketSame
    DEF U!vars, U!object, U!tx, U!rx, U!packet, U!history, U!stack, UdpInv, U!WholePacketSent
  <2>2. CASE U!Next
    BY <2>2, UdpStop, UdpBegin, UdpBeginPacket, UdpSend, UdpReceive, SocketsUsersAssumption
    DEF U!Next, U!beginPacketIp, U!beginPacket, U!beginMulticastPacket
  <2> QED
    BY <2>1, <2>2
<1>2. UdpInv => PacketsKept
  BY DEF PacketsKept, UdpInv, Holdings, U!PacketsKept
<1> QED
  BY <1>1, <1>2, UdpInit, PartsMove, PTL DEF PartsSpec

------------------------------------------------------------------------------
(***************************************************************************)
(* WiFiClient.                                                             *)
(***************************************************************************)

\* write() counts what lwIP takes, and returns that; no byte is lost while the
\* connection is up.
StreamInv ==
  /\ sent_total \in Nat /\ taken \in Nat /\ size \in Nat /\ calls \in Nat
  /\ rcv \in Nat /\ got \in Nat /\ peerSent \in Nat
  /\ sent_total = taken
  /\ pc # "write" => result = taken
  /\ pc = "write" => stream_connected
  /\ stream_connected /\ peer # "reset" => got + rcv = peerSent

LEMMA StreamInit == C!Init => StreamInv
BY DEF C!Init, StreamInv

LEMMA StreamPeer ==
  ASSUME StreamInv, C!PeerSends \/ C!PeerCloses \/ C!PeerBreaks
  PROVE  StreamInv'
<1>1. CASE C!PeerSends
  BY <1>1 DEF StreamInv, C!PeerSends, C!writeVars
<1>2. CASE C!PeerCloses
  BY <1>2 DEF StreamInv, C!PeerCloses, C!writeVars
<1>3. CASE C!PeerBreaks
  BY <1>3 DEF StreamInv, C!PeerBreaks, C!writeVars
<1> QED
  BY <1>1, <1>2, <1>3

LEMMA StreamWrite ==
  ASSUME C!ConstantsOK, StreamInv,
         \/ \E n \in 1 .. MaxSize : C!writeBegin(n) \/ C!sendSome(n)
         \/ C!sendAgain \/ C!sendError \/ C!writeEnd
  PROVE  StreamInv'
<1>1. ASSUME NEW n \in 1 .. MaxSize, C!writeBegin(n) \/ C!sendSome(n)
      PROVE  StreamInv'
  BY <1>1 DEF StreamInv, C!writeBegin, C!sendSome, C!Sending, C!ConstantsOK
<1>2. CASE C!sendAgain \/ C!sendError
  BY <1>2 DEF StreamInv, C!sendAgain, C!sendError, C!Sending
<1>3. CASE C!writeEnd
  BY <1>3 DEF StreamInv, C!writeEnd
<1> QED
  BY <1>1, <1>2, <1>3

LEMMA StreamRead ==
  ASSUME StreamInv,
         \/ \E call \in {"read", "timedRead"} : C!readBegin(call)
         \/ C!readByte \/ C!readTimeout \/ C!readClosed \/ C!readStopped \/ C!TimePasses
         \/ C!availableLooks \/ C!availableClosed \/ C!stop
  PROVE  StreamInv'
<1>1. ASSUME NEW call \in {"read", "timedRead"}, C!readBegin(call)
      PROVE  StreamInv'
  BY <1>1 DEF StreamInv, C!readBegin, C!writeVars
<1>2. CASE C!readByte
  BY <1>2 DEF StreamInv, C!readByte, C!Reading, C!writeVars
<1>3. CASE C!readTimeout \/ C!readClosed \/ C!readStopped \/ C!TimePasses
  BY <1>3 DEF StreamInv, C!readTimeout, C!readClosed, C!readStopped, C!TimePasses, C!Reading,
              C!AfterNothing, C!writeVars
<1>4. CASE C!availableLooks \/ C!availableClosed \/ C!stop
  BY <1>4 DEF StreamInv, C!availableLooks, C!availableClosed, C!stop, C!writeVars, C!vars
<1> QED
  BY <1>1, <1>2, <1>3, <1>4

\* For every number of bytes, calls and retries, whatever lwIP takes at a time
\* and however the peer behaves, write() returns what lwIP took and no byte
\* that the peer sent is lost while the connection is up.
THEOREM BytesSafe ==
  PartsSpec => []BytesAccounted
<1>1. StreamInv /\ [C!Next]_C!vars => StreamInv'
  <2> SUFFICES ASSUME StreamInv, [C!Next]_C!vars PROVE StreamInv'
    OBVIOUS
  <2>1. CASE UNCHANGED C!vars
    BY <2>1 DEF C!vars, C!writeVars, StreamInv
  <2>2. CASE C!Next
    BY <2>2, StreamPeer, StreamWrite, StreamRead, SocketsUsersAssumption DEF C!Next, C!CallStep
  <2> QED
    BY <2>1, <2>2
<1>2. StreamInv => BytesAccounted
  BY DEF BytesAccounted, StreamInv, C!BytesAccounted, C!WriteReportsTaken, C!NothingSwallowed
<1> QED
  BY <1>1, <1>2, StreamInit, PartsMove, PTL DEF PartsSpec

------------------------------------------------------------------------------
(***************************************************************************)
(* WiFiClientSecure.                                                       *)
(***************************************************************************)

Excused == excuse \cap {"again", "shared"} # {}

\* A connect() on its way to a connection or to its failure.
Connecting == tls_pc \in {"open", "configure", "handshake", "failed"}

SecureTypes ==
  /\ socket \in [Client -> Int] /\ tls_connected \in [Client -> BOOLEAN]
  /\ peeked \in [Client -> Int \X Int] /\ fresh \in [Client -> BOOLEAN]
  /\ ctx \in [Client -> [conn : Int, decoded : Int]]
  /\ held \in [Client -> SUBSET {"ca", "crt", "key"}] /\ conf \in [Client -> SUBSET {"ca", "own"}]
  /\ fds \in [FD -> [by : Client \cup {"none", "other"}, conn : Int]]
  /\ wire \in [Client -> [sent : Int, taken : Int, ended : BOOLEAN]]
  /\ last \in [Client -> [conn : Int, count : Nat]]
  /\ tls_pc \in {"idle", "open", "configure", "handshake", "failed", "write"}
  /\ tls_pc # "idle" => who \in Client
  /\ tls_calls \in Nat

\* A socket field that connect() has assigned names a socket of the client, up
\* to the first close() of a socket 0 that was not the client's: after that
\* one no call begins.
FieldStands ==
  /\ closedOther \in {"no", "zero"}
  /\ closedOther = "zero" => tls_pc = "idle"
  /\ closedOther # "zero" =>
       \A c \in Client : fresh[c] /\ socket[c] \in FD => fds[socket[c]].by = c
  /\ tls_pc \in {"configure", "handshake"} => fresh[who] /\ socket[who] \in FD

\* What connect() allocates is freed before it returns: the configuration knows
\* of it, unless mbedTLS could not enter the client's own certificate.
HeldStands ==
  /\ leaked \subseteq IF "unlinked" \in excuse THEN {"crt", "key"} ELSE {}
  /\ \A c \in Client :
       /\ held[c] # {} => c = who /\ tls_pc \in {"handshake", "failed"}
       /\ held[c] \ L!known(c) \subseteq IF "unlinked" \in excuse THEN {"crt", "key"} ELSE {}

\* The client knows of the sockets that it has opened.
OwnerStands ==
  \A c \in Client, f \in FD :
    fds[f].by = c => /\ socket[c] = f
                     /\ tls_connected[c] \/ (c = who /\ Connecting /\ tls_pc # "open")

\* The byte that peek() keeps is the next one, or stands for the end.
PeekStands(c) ==
  \/ /\ peeked[c] = <<last[c].conn, last[c].count + 1>>
     /\ last[c].count + 1 = wire[c].taken - ctx[c].decoded
  \/ /\ peeked[c] = L!Phantom /\ wire[c].ended /\ last[c].count = wire[c].sent
     /\ last[c].count = wire[c].taken - ctx[c].decoded

\* The bytes handed out, and the one that peek() keeps, are the first of the
\* session of the connection, which has a number of its own.
BytesStand ==
  \A c \in Client :
    /\ tls_connected[c] => socket[c] \in FD /\ ctx[c].conn = last[c].conn
    /\ tls_connected[c] /\ peeked[c] = L!NoByte =>
             last[c].count = wire[c].taken - ctx[c].decoded
    /\ tls_connected[c] /\ peeked[c] # L!NoByte => PeekStands(c)
    /\ ~tls_connected[c] => peeked[c] = L!NoByte

CallStands ==
  /\ Connecting => ~tls_connected[who]
  /\ tls_pc = "handshake" => ctx[who].decoded = 0 /\ wire[who].taken = 0

SecureInv ==
  /\ SecureTypes /\ FieldStands /\ HeldStands
  /\ ~Excused => OwnerStands /\ BytesStand /\ CallStands /\ inOrder

\* A set of descriptors has a lowest one.
LEMMA LeastOf ==
  ASSUME NEW D \in SUBSET Nat, D # {}
  PROVE  \E f \in D : \A g \in D : f <= g
<1> DEFINE R == {ss \in Nat \X Nat : ss[1] < ss[2]}
<1>1. IsWellFoundedOn(R, Nat)
  BY NatLessThanWellFounded DEF OpToRel
<1>2. PICK f \in D : \A g \in D : ~(<<g, f>> \in R)
  <2> HIDE DEF R
  <2> QED
    BY <1>1, WFMin
<1>3. ASSUME NEW g \in D
      PROVE  f <= g
  <2>1. <<g, f>> \in Nat \X Nat /\ <<g, f>>[1] = g /\ <<g, f>>[2] = f
    OBVIOUS
  <2>2. ~(g < f)
    BY <1>2, <2>1
  <2> QED
    BY <2>2
<1> QED
  BY <1>3

LEMMA LowestIsFree ==
  ASSUME L!ConstantsOK, \E f \in FD : fds[f] = L!Free
  PROVE  L!Lowest \in FD /\ fds[L!Lowest] = L!Free
<1> DEFINE D == {f \in FD : fds[f] = L!Free}
<1>1. D \in SUBSET Nat /\ D # {}
  BY DEF L!ConstantsOK
<1>2. \E f \in D : \A g \in D : f <= g
  BY <1>1, LeastOf
<1>3. \E f \in FD : fds[f] = L!Free /\ \A g \in FD : fds[g] = L!Free => f <= g
  BY <1>2
<1> QED
  BY <1>3 DEF L!Lowest

SecureConstants ==
  /\ L!NoByte \in Int \X Int /\ L!Phantom \in Int \X Int /\ L!Phantom # L!NoByte
  /\ L!None \in [conn : Int, decoded : Int] /\ L!None.conn = 0
  /\ L!Silent \in [sent : Int, taken : Int, ended : BOOLEAN] /\ L!Silent.taken = 0
  /\ L!Nothing \in [conn : Int, count : Nat]
  /\ L!Free \in [by : Client \cup {"none", "other"}, conn : Int] /\ L!Free.by = "none"
  /\ L!Other \in [by : Client \cup {"none", "other"}, conn : Int] /\ L!Other.by = "other"

LEMMA EmptyTypes == SecureConstants
BY DEF SecureConstants, L!NoByte, L!Phantom, L!None, L!Silent, L!Nothing, L!Free, L!Other

LEMMA SecureInit ==
  ASSUME L!ConstantsOK, L!Init
  PROVE  SecureInv
<1>0. SecureConstants
  BY EmptyTypes
<1>1. SecureTypes
  <2>1. socket \in [Client -> Int] /\ tls_connected \in [Client -> BOOLEAN]
    BY DEF L!Init
  <2>2. peeked \in [Client -> Int \X Int] /\ fresh \in [Client -> BOOLEAN]
    BY <1>0 DEF L!Init, SecureConstants
  <2>3. /\ ctx \in [Client -> [conn : Int, decoded : Int]]
        /\ held \in [Client -> SUBSET {"ca", "crt", "key"}]
        /\ conf \in [Client -> SUBSET {"ca", "own"}]
    BY <1>0 DEF L!Init, SecureConstants
  <2>4. fds \in [FD -> [by : Client \cup {"none", "other"}, conn : Int]]
    BY <1>0 DEF L!Init, SecureConstants
  <2>5. wire \in [Client -> [sent : Int, taken : Int, ended : BOOLEAN]]
    BY <1>0 DEF L!Init, SecureConstants
  <2>6. last \in [Client -> [conn : Int, count : Nat]]
    BY <1>0 DEF L!Init, SecureConstants
  <2> QED
    BY <2>1, <2>2, <2>3, <2>4, <2>5, <2>6 DEF L!Init, SecureTypes
<1>2. FieldStands /\ HeldStands
  BY DEF L!Init, L!ConstantsOK, FieldStands, HeldStands, L!known
<1>3. BytesStand /\ CallStands /\ inOrder
  BY DEF L!Init, BytesStand, CallStands, Connecting
<1>4. OwnerStands
  BY DEF L!Init, L!ConstantsOK, L!Free, OwnerStands
<1> QED
  BY <1>1, <1>2, <1>3, <1>4 DEF SecureInv

\* What touches no certificate.
LEMMA HeldSame ==
  ASSUME HeldStands, UNCHANGED <<held, conf, leaked>>, excuse \subseteq excuse',
         \A c \in Client : held[c] # {} => c = who' /\ tls_pc' \in {"handshake", "failed"}
  PROVE  HeldStands'
BY DEF HeldStands, L!known

\* stop_ssl_socket() frees what the configuration knows of.
LEMMA CertsFreed ==
  ASSUME SecureTypes, HeldStands, NEW c \in Client, L!freeCerts(c), excuse \subseteq excuse',
         \A d \in Client \ {c} : held[d] = {}
  PROVE  /\ held' \in [Client -> SUBSET {"ca", "crt", "key"}] /\ conf' \in [Client -> SUBSET {"ca", "own"}]
         /\ HeldStands'
<1>1. /\ leaked' = leaked \cup (held[c] \ L!known(c))
      /\ held' = [held EXCEPT ![c] = {}] /\ conf' = [conf EXCEPT ![c] = {}]
  BY DEF L!freeCerts
<1>2. \A d \in Client : held'[d] = {}
  BY <1>1 DEF SecureTypes
<1>3. /\ leaked \subseteq IF "unlinked" \in excuse THEN {"crt", "key"} ELSE {}
      /\ held[c] \ L!known(c) \subseteq IF "unlinked" \in excuse THEN {"crt", "key"} ELSE {}
  BY DEF HeldStands
<1>4. leaked' \subseteq IF "unlinked" \in excuse' THEN {"crt", "key"} ELSE {}
  BY <1>1, <1>3
<1>5. HeldStands'
  BY <1>2, <1>4 DEF HeldStands
<1> QED
  BY <1>1, <1>5 DEF SecureTypes

\* Steps of a call that touch neither the client nor its session.
LEMMA SecureMoves ==
  ASSUME SecureInv, tls_calls' \in Nat, excuse \subseteq excuse',
         UNCHANGED <<socket, tls_connected, peeked, ctx, held, conf, leaked, fresh, fds, wire, last, inOrder,
                     closedOther>>,
         \/ UNCHANGED <<tls_pc, who, excuse>>
         \/ (tls_pc = "handshake" /\ tls_pc' = "failed" /\ UNCHANGED <<who, excuse>>)
         \/ (tls_pc = "write" /\ tls_pc' = "idle" /\ UNCHANGED excuse)
         \/ /\ tls_pc = "idle" /\ tls_pc' \in {"open", "failed", "write"} /\ who' \in Client
            /\ closedOther # "zero"
            /\ ~Excused' => ~Excused /\ (tls_pc' # "write" => ~tls_connected[who'])
  PROVE  SecureInv'
<1>1. SecureTypes' /\ FieldStands' /\ HeldStands'
  BY HeldSame DEF SecureInv, SecureTypes, FieldStands, HeldStands
<1>2. ASSUME ~Excused'
      PROVE  OwnerStands' /\ BytesStand' /\ CallStands' /\ inOrder'
  <2>1. ~Excused
    BY <1>2 DEF Excused
  <2>2. OwnerStands /\ BytesStand /\ CallStands /\ inOrder
    BY <2>1 DEF SecureInv
  <2>3. OwnerStands'
    BY <2>2 DEF OwnerStands, Connecting
  <2>4. BytesStand'
    BY <2>2 DEF BytesStand, PeekStands
  <2>5. CallStands'
    BY <1>2, <2>2 DEF CallStands, Connecting
  <2> QED
    BY <2>2, <2>3, <2>4, <2>5
<1> QED
  BY <1>1, <1>2 DEF SecureInv

\* lwip_close() of the client's field frees that socket, and a field that
\* another client's connect() has assigned is not that one.
LEMMA Closed ==
  ASSUME L!ConstantsOK, SecureTypes, FieldStands, closedOther # "zero",
         NEW c \in Client, L!close(c)
  PROVE  /\ fds' \in [FD -> [by : Client \cup {"none", "other"}, conn : Int]]
         /\ \A f \in FD : fds'[f] = IF f = socket[c] THEN L!Free ELSE fds[f]
         /\ closedOther' \in {"no", "zero"}
         /\ closedOther' # "zero" =>
              \A d \in Client \ {c} :
                fresh[d] /\ socket[d] \in FD => fds'[socket[d]].by = d
<1>0. SecureConstants
  BY EmptyTypes
<1>1. CASE socket[c] \notin FD
  BY <1>1 DEF L!close, SecureTypes, FieldStands
<1>2. CASE socket[c] \in FD
  <2>1. /\ fds' = [fds EXCEPT ![socket[c]] = L!Free]
        /\ closedOther' = IF ~fresh[c] /\ fds[socket[c]] # L!Free THEN "zero"
                          ELSE IF fds[socket[c]] = L!Other /\ closedOther = "no" THEN "stray"
                          ELSE closedOther
    BY <1>2 DEF L!close
  <2>2. fds \in [FD -> [by : Client \cup {"none", "other"}, conn : Int]]
    BY DEF SecureTypes
  <2>3. /\ fds' \in [FD -> [by : Client \cup {"none", "other"}, conn : Int]]
        /\ \A f \in FD : fds'[f] = IF f = socket[c] THEN L!Free ELSE fds[f]
    BY <1>0, <2>1, <2>2 DEF SecureConstants
  <2>4. fresh[c] => fds[socket[c]] # L!Other
    BY <1>0, <1>2 DEF FieldStands, SecureConstants, L!ConstantsOK
  <2>5. closedOther' \in {"no", "zero"}
    <3>1. CASE fresh[c]
      BY <2>1, <2>4, <3>1 DEF FieldStands
    <3>2. CASE ~fresh[c] /\ fds[socket[c]] # L!Free
      BY <2>1, <3>2
    <3>3. CASE fds[socket[c]] = L!Free
      <4>1. fds[socket[c]] # L!Other
        BY <1>0, <3>3 DEF SecureConstants
      <4> QED
        BY <2>1, <3>3, <4>1 DEF FieldStands
    <3> QED
      BY <3>1, <3>2, <3>3
  <2>6. ASSUME closedOther' # "zero", NEW d \in Client \ {c}, fresh[d], socket[d] \in FD
        PROVE  fds'[socket[d]].by = d
    <3>1. fds[socket[d]].by = d
      BY <2>6 DEF FieldStands
    <3>2. CASE socket[d] = socket[c]
      <4>1. ~fresh[c]
        BY <1>2, <2>6, <3>1, <3>2 DEF FieldStands
      <4>2. fds[socket[c]] # L!Free
        BY <1>0, <2>6, <3>1, <3>2 DEF SecureConstants, L!ConstantsOK
      <4> QED
        BY <2>1, <2>6, <4>1, <4>2
    <3>3. CASE socket[d] # socket[c]
      BY <2>3, <2>6, <3>1, <3>3
    <3> QED
      BY <3>2, <3>3
  <2> QED
    BY <2>3, <2>5, <2>6
<1> QED
  BY <1>1, <1>2

\* stop(), by itself or at the end of a call.
LEMMA SecureStop ==
  ASSUME L!ConstantsOK, SecureInv, NEW c \in Client, closedOther # "zero", L!stopping(c),
         tls_pc = "idle" \/ c = who, tls_pc \in {"idle", "write", "failed"}, tls_pc' = "idle",
         tls_calls' \in Nat, UNCHANGED <<last, inOrder, excuse>>
  PROVE  SecureInv'
<1>0. SecureConstants /\ SecureTypes /\ FieldStands /\ HeldStands
  BY EmptyTypes DEF SecureInv
<1>1. /\ fds' \in [FD -> [by : Client \cup {"none", "other"}, conn : Int]]
      /\ \A f \in FD : fds'[f] = IF f = socket[c] THEN L!Free ELSE fds[f]
      /\ closedOther' \in {"no", "zero"}
      /\ closedOther' # "zero" =>
           \A d \in Client \ {c} :
             fresh[d] /\ socket[d] \in FD => fds'[socket[d]].by = d
  BY <1>0, Closed DEF L!stopping
<1>2. /\ socket' = [socket EXCEPT ![c] = 0] /\ fresh' = [fresh EXCEPT ![c] = FALSE]
      /\ ctx' = [ctx EXCEPT ![c] = L!None] /\ L!freeCerts(c)
      /\ tls_connected' = [tls_connected EXCEPT ![c] = tls_connected[c] /\ socket[c] < 0]
      /\ peeked' = [peeked EXCEPT ![c] = L!peekAfterStop(c)]
      /\ wire' = [wire EXCEPT ![c] = L!Silent]
  BY DEF L!stopping, L!stopped
<1>3. L!peekAfterStop(c) \in Int \X Int
  BY <1>0 DEF L!peekAfterStop, SecureConstants, SecureTypes
<1>6. /\ held' \in [Client -> SUBSET {"ca", "crt", "key"}] /\ conf' \in [Client -> SUBSET {"ca", "own"}]
      /\ HeldStands'
  <2>1. \A d \in Client \ {c} : held[d] = {}
    BY <1>0 DEF HeldStands
  <2> QED
    BY <1>0, <1>2, <2>1, CertsFreed
<1>4. SecureTypes'
  BY <1>0, <1>1, <1>2, <1>3, <1>6 DEF SecureTypes, SecureConstants
<1>5. FieldStands'
  BY <1>0, <1>1, <1>2 DEF FieldStands, SecureTypes
<1>7. ASSUME ~Excused'
      PROVE  OwnerStands' /\ BytesStand' /\ CallStands' /\ inOrder'
  <2>1. OwnerStands /\ BytesStand /\ CallStands /\ inOrder
    BY <1>7 DEF SecureInv, Excused
  <2>2. ~tls_connected'[c] /\ peeked'[c] = L!NoByte
    <3>1. tls_connected[c] => socket[c] \in Nat
      BY <2>1 DEF BytesStand, L!ConstantsOK
    <3>2. ~tls_connected'[c]
      <4>1. tls_connected'[c] = (tls_connected[c] /\ socket[c] < 0)
        BY <1>0, <1>2, Zenon DEF SecureTypes
      <4>2. ~(tls_connected[c] /\ socket[c] < 0)
        BY <3>1
      <4> QED
        BY <4>1, <4>2, Zenon
    <3>3. peeked'[c] = L!peekAfterStop(c)
      BY <1>0, <1>2 DEF SecureTypes
    <3>4. L!peekAfterStop(c) = L!NoByte
      BY <2>1, <3>1 DEF L!peekAfterStop, BytesStand
    <3> QED
      BY <3>2, <3>3, <3>4
  <2>3. \A d \in Client \ {c} : /\ tls_connected'[d] = tls_connected[d] /\ socket'[d] = socket[d]
                                /\ peeked'[d] = peeked[d] /\ ctx'[d] = ctx[d] /\ wire'[d] = wire[d]
    BY <1>0, <1>2 DEF SecureTypes
  <2>4. OwnerStands'
    <3> SUFFICES ASSUME NEW d \in Client, NEW f \in FD, fds'[f].by = d
                 PROVE  socket'[d] = f /\ tls_connected'[d]
      BY DEF OwnerStands
    <3>1. f # socket[c] /\ fds[f].by = d
      BY <1>0, <1>1 DEF SecureConstants, L!ConstantsOK
    <3>2. socket[d] = f /\ d # c
      BY <2>1, <3>1 DEF OwnerStands
    <3>3. tls_connected[d]
      BY <2>1, <3>1, <3>2 DEF OwnerStands, Connecting
    <3> QED
      BY <2>3, <3>2, <3>3
  <2>5. BytesStand'
    BY <2>1, <2>2, <2>3 DEF BytesStand, PeekStands
  <2> QED
    BY <2>1, <2>4, <2>5 DEF CallStands, Connecting
<1> QED
  BY <1>4, <1>5, <1>6, <1>7 DEF SecureInv

\* connect(): socket() and select().
LEMMA SecureOpen ==
  ASSUME L!ConstantsOK, SecureInv, NEW outcome \in {"none", "refused", "ok"},
         L!openSocket(outcome)
  PROVE  SecureInv'
<1>0. SecureConstants /\ SecureTypes /\ FieldStands /\ HeldStands /\ who \in Client
  BY EmptyTypes DEF SecureInv, SecureTypes, L!openSocket
<1>1. /\ tls_pc = "open" /\ closedOther # "zero"
      /\ fresh' = [fresh EXCEPT ![who] = TRUE]
      /\ UNCHANGED <<tls_connected, peeked, ctx, held, conf, leaked, wire, who, closedOther, excuse,
                     tls_calls, last, inOrder>>
  BY <1>0 DEF L!openSocket, L!certs, L!rest, L!history, FieldStands
<1>2. CASE outcome = "ok"
  <2>1. L!Lowest \in FD /\ fds[L!Lowest] = L!Free
    BY <1>2, LowestIsFree DEF L!openSocket
  <2>2. PICK f \in FD :
          /\ fds[f] = L!Free /\ socket' = [socket EXCEPT ![who] = f]
          /\ fds' = [fds EXCEPT ![f] = [by |-> who, conn |-> tls_calls]]
          /\ tls_pc' = "configure"
    BY <1>2, <2>1 DEF L!openSocket
  <2>3. [by |-> who, conn |-> tls_calls] \in [by : Client \cup {"none", "other"}, conn : Int]
    BY <1>0 DEF SecureTypes
  <2>4. f \in Int
    BY DEF L!ConstantsOK
  <2>5. SecureTypes'
    BY <1>0, <1>1, <2>2, <2>3, <2>4 DEF SecureTypes
  <2>6. \A g \in FD : g # f => fds'[g] = fds[g]
    BY <1>0, <2>2 DEF SecureTypes
  <2>7. fds'[f].by = who /\ socket'[who] = f /\ fresh'[who]
    BY <1>0, <1>1, <2>2, <2>3 DEF SecureTypes
  <2>8. \A d \in Client \ {who} : socket'[d] = socket[d] /\ fresh'[d] = fresh[d]
    BY <1>0, <1>1, <2>2 DEF SecureTypes
  <2>9. FieldStands'
    <3>1. ASSUME NEW d \in Client, fresh'[d], socket'[d] \in FD
          PROVE  fds'[socket'[d]].by = d
      <4>1. CASE d = who
        BY <2>7, <4>1
      <4>2. CASE d # who
        <5>1. fds[socket[d]].by = d
          BY <1>0, <1>1, <2>8, <3>1, <4>2 DEF FieldStands
        <5>2. socket[d] # f
          BY <1>0, <2>2, <5>1 DEF SecureConstants, L!ConstantsOK
        <5> QED
          BY <2>6, <2>8, <3>1, <4>2, <5>1, <5>2
      <4> QED
        BY <4>1, <4>2
    <3> QED
      BY <1>0, <1>1, <2>2, <2>7, <3>1 DEF FieldStands
  <2>10. HeldStands'
    BY <1>0, <1>1, <2>2, HeldSame DEF HeldStands
  <2>11. ASSUME ~Excused'
         PROVE  OwnerStands' /\ BytesStand' /\ CallStands' /\ inOrder'
    <3>1. OwnerStands /\ BytesStand /\ CallStands /\ inOrder
      BY <1>1, <2>11 DEF SecureInv, Excused
    <3>2. ~tls_connected[who]
      BY <1>1, <3>1 DEF CallStands, Connecting
    <3>3. OwnerStands'
      <4> SUFFICES ASSUME NEW d \in Client, NEW g \in FD, fds'[g].by = d
                   PROVE  socket'[d] = g /\ (tls_connected'[d] \/ d = who')
        BY <1>1, <2>2 DEF OwnerStands, Connecting
      <4>1. CASE g = f
        BY <1>1, <2>7, <4>1
      <4>2. CASE g # f
        <5>1. fds[g].by = d
          BY <2>6, <4>2
        <5>2. socket[d] = g /\ tls_connected[d]
          BY <1>1, <3>1, <5>1 DEF OwnerStands
        <5>3. d # who
          BY <3>2, <5>2
        <5> QED
          BY <1>1, <2>8, <5>2, <5>3
      <4> QED
        BY <4>1, <4>2
    <3>4. BytesStand'
      BY <1>1, <2>8, <3>1, <3>2 DEF BytesStand, PeekStands
    <3>5. CallStands'
      BY <1>1, <2>2, <3>2 DEF CallStands
    <3> QED
      BY <1>1, <3>1, <3>3, <3>4, <3>5
  <2> QED
    BY <2>5, <2>9, <2>10, <2>11 DEF SecureInv
<1>3. CASE outcome # "ok"
  <2>1. socket' = [socket EXCEPT ![who] = -1] /\ fds' = fds /\ tls_pc' = "failed"
    BY <1>3 DEF L!openSocket, L!closedNumber
  <2>2. socket'[who] \notin FD
    BY <1>0, <2>1 DEF SecureTypes, L!ConstantsOK
  <2>3. \A d \in Client \ {who} : socket'[d] = socket[d] /\ fresh'[d] = fresh[d]
    BY <1>0, <1>1, <2>1 DEF SecureTypes
  <2>4. SecureTypes'
    BY <1>0, <1>1, <2>1 DEF SecureTypes
  <2>5. FieldStands' /\ HeldStands'
    BY <1>0, <1>1, <2>1, <2>2, <2>3, HeldSame DEF FieldStands, HeldStands
  <2>6. ASSUME ~Excused'
        PROVE  OwnerStands' /\ BytesStand' /\ CallStands' /\ inOrder'
    <3>1. OwnerStands /\ BytesStand /\ CallStands /\ inOrder
      BY <1>1, <2>6 DEF SecureInv, Excused
    <3>2. ~tls_connected[who]
      BY <1>1, <3>1 DEF CallStands, Connecting
    <3>3. OwnerStands'
      BY <1>1, <2>1, <2>3, <3>1, <3>2 DEF OwnerStands
    <3>4. BytesStand'
      BY <1>1, <2>3, <3>1, <3>2 DEF BytesStand, PeekStands
    <3> QED
      BY <1>1, <2>1, <3>1, <3>2, <3>3, <3>4 DEF CallStands
  <2> QED
    BY <2>4, <2>5, <2>6 DEF SecureInv
<1> QED
  BY <1>2, <1>3

LEMMA SecureConfigure ==
  ASSUME L!ConstantsOK, SecureInv, NEW ok \in BOOLEAN, L!configure(ok)
  PROVE  SecureInv'
<1>0. SecureConstants /\ SecureTypes /\ FieldStands /\ HeldStands /\ who \in Client
  BY EmptyTypes DEF SecureInv, SecureTypes, L!configure
<1>1. /\ tls_pc = "configure" /\ socket[who] \in FD
      /\ UNCHANGED <<socket, tls_connected, peeked, fresh, who, fds, closedOther, leaked, tls_calls, last,
                     inOrder>>
  BY <1>0 DEF L!configure, L!rest, L!history, FieldStands
<1>2. PICK h \in SUBSET {"ca", "crt", "key"}, k \in SUBSET {"ca", "own"} :
        /\ held' = [held EXCEPT ![who] = h] /\ conf' = [conf EXCEPT ![who] = k]
        /\ "ca" \in h => "ca" \in k
        /\ "key" \in h <=> "crt" \in h
        /\ excuse' = IF "key" \in h /\ "own" \notin k THEN excuse \cup {"unlinked"} ELSE excuse
  BY DEF L!configure
<1>3. \/ /\ tls_pc' = "handshake" /\ wire' = [wire EXCEPT ![who] = L!Silent]
         /\ ctx' = [ctx EXCEPT ![who] = [conn |-> fds[socket[who]].conn, decoded |-> 0]]
      \/ tls_pc' = "failed" /\ UNCHANGED <<ctx, wire>>
  BY DEF L!configure
<1>4. [conn |-> fds[socket[who]].conn, decoded |-> 0] \in [conn : Int, decoded : Int]
  BY <1>0, <1>1 DEF SecureTypes
<1>5. SecureTypes'
  <2>1. /\ ctx' \in [Client -> [conn : Int, decoded : Int]]
        /\ wire' \in [Client -> [sent : Int, taken : Int, ended : BOOLEAN]]
    <3>1. CASE tls_pc' = "failed" /\ UNCHANGED <<ctx, wire>>
      BY <1>0, <3>1 DEF SecureTypes
    <3>2. CASE /\ wire' = [wire EXCEPT ![who] = L!Silent]
               /\ ctx' = [ctx EXCEPT ![who] = [conn |-> fds[socket[who]].conn, decoded |-> 0]]
      BY <1>0, <1>4, <3>2 DEF SecureTypes, SecureConstants
    <3> QED
      BY <1>3, <3>1, <3>2
  <2>2. /\ held' \in [Client -> SUBSET {"ca", "crt", "key"}]
        /\ conf' \in [Client -> SUBSET {"ca", "own"}]
    BY <1>0, <1>2 DEF SecureTypes
  <2> QED
    BY <1>0, <1>1, <1>3, <2>1, <2>2 DEF SecureTypes
<1>6. FieldStands'
  BY <1>0, <1>1, <1>3 DEF FieldStands
<1>7. HeldStands'
  <2>1. "unlinked" \in excuse => "unlinked" \in excuse'
    BY <1>2
  <2>2. leaked' \subseteq IF "unlinked" \in excuse' THEN {"crt", "key"} ELSE {}
    BY <1>0, <1>1, <2>1 DEF HeldStands
  <2>3. \A d \in Client \ {who} : held'[d] = {}
    BY <1>0, <1>1, <1>2 DEF HeldStands, SecureTypes
  <2>4. held'[who] = h /\ conf'[who] = k
    BY <1>0, <1>2 DEF SecureTypes
  <2>5. L!known(who)' = (IF "ca" \in k THEN {"ca"} ELSE {}) \cup (IF "own" \in k THEN {"crt", "key"} ELSE {})
    BY <1>1, <2>4 DEF L!known
  <2>6. h \ L!known(who)' \subseteq IF "unlinked" \in excuse' THEN {"crt", "key"} ELSE {}
    <3>1. CASE "key" \in h /\ "own" \notin k
      BY <1>2, <2>5, <3>1
    <3>2. CASE "own" \in k
      BY <1>2, <2>5, <3>2
    <3>3. CASE "key" \notin h
      BY <1>2, <2>5, <3>3
    <3> QED
      BY <3>1, <3>2, <3>3
  <2> QED
    BY <1>1, <1>3, <2>2, <2>3, <2>4, <2>6 DEF HeldStands
<1>8. ASSUME ~Excused'
      PROVE  OwnerStands' /\ BytesStand' /\ CallStands' /\ inOrder'
  <2>1. OwnerStands /\ BytesStand /\ CallStands /\ inOrder
    <3>1. excuse \subseteq excuse'
      BY <1>2
    <3> QED
      BY <1>8, <3>1 DEF SecureInv, Excused
  <2>2. ~tls_connected[who]
    BY <1>1, <2>1 DEF CallStands, Connecting
  <2>3. OwnerStands'
    BY <1>1, <1>3, <2>1 DEF OwnerStands, Connecting
  <2>4. \A d \in Client \ {who} : ctx'[d] = ctx[d] /\ wire'[d] = wire[d]
    BY <1>0, <1>3 DEF SecureTypes
  <2>5. BytesStand'
    BY <1>1, <2>1, <2>2, <2>4 DEF BytesStand, PeekStands
  <2>6. tls_pc' = "handshake" => ctx'[who].decoded = 0 /\ wire'[who].taken = 0
    BY <1>0, <1>3, <1>4 DEF SecureTypes, SecureConstants
  <2> QED
    BY <1>1, <2>1, <2>2, <2>3, <2>5, <2>6 DEF CallStands
<1> QED
  BY <1>5, <1>6, <1>7, <1>8 DEF SecureInv

LEMMA SecureHandshake ==
  ASSUME L!ConstantsOK, SecureInv, NEW outcome, L!handshake(outcome)
  PROVE  SecureInv'
<1>0. SecureConstants /\ SecureTypes /\ FieldStands /\ HeldStands /\ who \in Client
  BY EmptyTypes DEF SecureInv, SecureTypes, L!handshake
<1>1. /\ tls_pc = "handshake" /\ closedOther # "zero" /\ socket[who] \in FD /\ fresh[who]
      /\ UNCHANGED <<peeked, wire, inOrder, who, excuse, tls_calls>>
  BY <1>0 DEF L!handshake, L!world, FieldStands
<1>2. CASE outcome = "done"
  <2>1. /\ held' = [held EXCEPT ![who] = {}] /\ tls_connected' = [tls_connected EXCEPT ![who] = TRUE]
        /\ last' = [last EXCEPT ![who] = [conn |-> ctx[who].conn, count |-> 0]]
        /\ tls_pc' = "idle" /\ UNCHANGED <<socket, ctx, conf, leaked, fresh, fds, closedOther>>
    BY <1>2 DEF L!handshake
  <2>2. [conn |-> ctx[who].conn, count |-> 0] \in [conn : Int, count : Nat]
    BY <1>0 DEF SecureTypes
  <2>3. SecureTypes'
    BY <1>0, <1>1, <2>1, <2>2 DEF SecureTypes
  <2>4. FieldStands' /\ HeldStands'
    <3>1. \A d \in Client : held'[d] = {}
      BY <1>0, <1>1, <2>1 DEF HeldStands, SecureTypes
    <3> QED
      BY <1>0, <1>1, <2>1, <3>1 DEF FieldStands, HeldStands
  <2>5. ASSUME ~Excused'
        PROVE  OwnerStands' /\ BytesStand' /\ CallStands' /\ inOrder'
    <3>1. OwnerStands /\ BytesStand /\ CallStands /\ inOrder
      BY <1>1, <2>5 DEF SecureInv, Excused
    <3>2. tls_connected'[who] /\ last'[who].conn = ctx[who].conn /\ last'[who].count = 0
      BY <1>0, <2>1, <2>2 DEF SecureTypes
    <3>3. \A d \in Client \ {who} : tls_connected'[d] = tls_connected[d] /\ last'[d] = last[d]
      BY <1>0, <2>1 DEF SecureTypes
    <3>4. OwnerStands'
      BY <2>1, <3>1, <3>2, <3>3 DEF OwnerStands
    <3>5. ~tls_connected[who] /\ peeked[who] = L!NoByte
      BY <1>0, <1>1, <3>1 DEF BytesStand, CallStands, Connecting
    <3>6. ctx[who].decoded = 0 /\ wire[who].taken = 0
      BY <1>1, <3>1 DEF CallStands
    <3>7. BytesStand'
      BY <1>1, <2>1, <3>1, <3>2, <3>3, <3>5, <3>6 DEF BytesStand, PeekStands
    <3> QED
      BY <1>1, <2>1, <3>1, <3>4, <3>7 DEF CallStands, Connecting
  <2> QED
    BY <2>3, <2>4, <2>5 DEF SecureInv
<1>3. CASE outcome = "error" \/ outcome = "timeout"
  BY <1>0, <1>1, <1>3, SecureMoves DEF L!handshake, L!cl, L!certs, SecureTypes
<1>4. CASE outcome = "unverified"
  <2>1. /\ L!close(who) /\ socket' = [socket EXCEPT ![who] = 0]
        /\ fresh' = [fresh EXCEPT ![who] = FALSE]
        /\ ctx' = [ctx EXCEPT ![who] = L!None] /\ L!freeCerts(who)
        /\ tls_pc' = "failed" /\ UNCHANGED <<tls_connected, last>>
    BY <1>4 DEF L!handshake, L!stopped
  <2>2. /\ fds' \in [FD -> [by : Client \cup {"none", "other"}, conn : Int]]
        /\ \A f \in FD : fds'[f] = IF f = socket[who] THEN L!Free ELSE fds[f]
        /\ closedOther' \in {"no", "zero"}
        /\ closedOther' # "zero" =>
             \A d \in Client \ {who} :
               fresh[d] /\ socket[d] \in FD => fds'[socket[d]].by = d
    BY <1>0, <1>1, <2>1, Closed
  <2>3. closedOther' # "zero"
    BY <1>1, <2>1 DEF L!close
  <2>0. /\ held' \in [Client -> SUBSET {"ca", "crt", "key"}] /\ conf' \in [Client -> SUBSET {"ca", "own"}]
        /\ HeldStands'
    <3>1. \A d \in Client \ {who} : held[d] = {}
      BY <1>0 DEF HeldStands
    <3> QED
      BY <1>0, <1>1, <2>1, <3>1, CertsFreed
  <2>4. SecureTypes'
    BY <1>0, <1>1, <2>0, <2>1, <2>2 DEF SecureTypes, SecureConstants
  <2>5. FieldStands' /\ HeldStands'
    BY <1>0, <1>1, <2>0, <2>1, <2>2, <2>3 DEF FieldStands, SecureTypes
  <2>6. ASSUME ~Excused'
        PROVE  OwnerStands' /\ BytesStand' /\ CallStands' /\ inOrder'
    <3>1. OwnerStands /\ BytesStand /\ CallStands /\ inOrder
      BY <1>1, <2>6 DEF SecureInv, Excused
    <3>2. \A d \in Client \ {who} : socket'[d] = socket[d] /\ ctx'[d] = ctx[d]
      BY <1>0, <2>1 DEF SecureTypes
    <3>3. ~tls_connected[who]
      BY <1>1, <3>1 DEF CallStands, Connecting
    <3>4. OwnerStands'
      <4> SUFFICES ASSUME NEW d \in Client, NEW f \in FD, fds'[f].by = d
                   PROVE  socket'[d] = f /\ tls_connected'[d]
        BY DEF OwnerStands
      <4>1. f # socket[who] /\ fds[f].by = d
        BY <1>0, <2>2 DEF SecureConstants, L!ConstantsOK
      <4>2. socket[d] = f /\ d # who
        BY <3>1, <4>1 DEF OwnerStands
      <4>3. tls_connected[d]
        BY <3>1, <4>1, <4>2 DEF OwnerStands
      <4> QED
        BY <2>1, <3>2, <4>2, <4>3
    <3>5. BytesStand'
      BY <1>1, <2>1, <3>1, <3>2, <3>3 DEF BytesStand, PeekStands
    <3> QED
      BY <1>1, <2>1, <3>1, <3>3, <3>4, <3>5 DEF CallStands
  <2> QED
    BY <2>4, <2>5, <2>6 DEF SecureInv
<1> QED
  BY <1>2, <1>3, <1>4 DEF L!handshake

\* The peer, and the other tasks.
LEMMA SecureWorld ==
  ASSUME L!ConstantsOK, SecureInv, L!OtherOpens \/ L!Peer
  PROVE  SecureInv'
<1>0. SecureConstants /\ SecureTypes /\ FieldStands /\ HeldStands
  BY EmptyTypes DEF SecureInv
<1>1. CASE L!OtherOpens
  <2>1. L!Lowest \in FD /\ fds[L!Lowest] = L!Free
    BY <1>1, LowestIsFree DEF L!OtherOpens
  <2>2. PICK f \in FD : fds[f] = L!Free /\ fds' = [fds EXCEPT ![f] = L!Other]
    BY <1>1, <2>1 DEF L!OtherOpens
  <2>3. UNCHANGED <<socket, tls_connected, peeked, ctx, held, conf, leaked, fresh, tls_pc, who, wire, last, inOrder,
                    closedOther, excuse, tls_calls>>
    BY <1>1 DEF L!OtherOpens, L!cl, L!certs, L!history
  <2>4. \A g \in FD : fds'[g] = IF g = f THEN L!Other ELSE fds[g]
    BY <1>0, <2>2 DEF SecureTypes
  <2>5. \A g \in FD, c \in Client : fds'[g].by = c <=> fds[g].by = c
    BY <1>0, <2>2, <2>4 DEF SecureConstants, L!ConstantsOK
  <2>6. SecureTypes'
    BY <1>0, <2>2, <2>3 DEF SecureTypes, SecureConstants
  <2>7. FieldStands' /\ HeldStands'
    BY <1>0, <2>3, <2>5, HeldSame DEF FieldStands, HeldStands
  <2>8. ~Excused => OwnerStands'
    BY <2>3, <2>5 DEF SecureInv, OwnerStands, Connecting
  <2> QED
    BY <2>3, <2>6, <2>7, <2>8 DEF SecureInv, BytesStand, PeekStands, CallStands, Connecting, Excused
<1>2. ASSUME NEW c \in Talking, L!PeerSends(c) \/ L!PeerCloses(c)
      PROVE  SecureInv'
  <2>1. UNCHANGED <<socket, tls_connected, peeked, ctx, held, conf, leaked, fresh, tls_pc, who, fds, last, inOrder,
                    closedOther, excuse, tls_calls>>
    BY <1>2 DEF L!PeerSends, L!PeerCloses, L!cl, L!certs, L!history
  <2>2. c \in Client
    BY DEF L!ConstantsOK
  <2>3. /\ wire' \in [Client -> [sent : Int, taken : Int, ended : BOOLEAN]]
        /\ \A d \in Client : /\ wire'[d].taken = wire[d].taken
                             /\ wire[d].ended => wire'[d].ended /\ wire'[d].sent = wire[d].sent
    <3>1. CASE L!PeerSends(c)
      <4>1. wire \in [Client -> [sent : Int, taken : Int, ended : BOOLEAN]]
        BY <1>0 DEF SecureTypes
      <4>2. /\ wire' = [wire EXCEPT ![c].sent = wire[c].sent + 1] /\ wire[c].sent + 1 \in Int
            /\ ~wire[c].ended
        BY <2>2, <3>1, <4>1 DEF L!PeerSends
      <4> QED
        BY <2>2, <4>1, <4>2
    <3>2. CASE L!PeerCloses(c)
      BY <1>0, <2>2, <3>2 DEF L!PeerCloses, SecureTypes
    <3> QED
      BY <1>2, <3>1, <3>2
  <2>4. SecureTypes' /\ FieldStands' /\ HeldStands'
    BY <1>0, <2>1, <2>3, HeldSame DEF SecureTypes, FieldStands, HeldStands
  <2>5. ASSUME ~Excused'
        PROVE  OwnerStands' /\ BytesStand' /\ CallStands' /\ inOrder'
    <3>1. OwnerStands /\ BytesStand /\ CallStands /\ inOrder
      BY <2>1, <2>5 DEF SecureInv, Excused
    <3>2. tls_pc = "handshake" => who \in Client
      BY <1>0 DEF SecureTypes
    <3>3. OwnerStands'
      BY <2>1, <3>1 DEF OwnerStands, Connecting
    <3>4. BytesStand'
      <4>1. \A d \in Client :
              wire'[d].taken - ctx'[d].decoded = wire[d].taken - ctx[d].decoded
        BY <2>1, <2>3
      <4> QED
        BY <2>1, <2>3, <3>1, <4>1 DEF BytesStand, PeekStands
    <3>5. CallStands'
      BY <2>1, <2>3, <3>1, <3>2 DEF CallStands, Connecting
    <3> QED
      BY <2>1, <3>1, <3>3, <3>4, <3>5
  <2> QED
    BY <2>4, <2>5 DEF SecureInv
<1> QED
  BY <1>1, <1>2 DEF L!Peer

\* Bytes move from the wire to mbedTLS, to the client and to the sketch.
LEMMA SecureSession ==
  ASSUME SecureInv, L!Idle, NEW c \in Client, tls_connected[c],
         UNCHANGED <<socket, tls_connected, held, conf, leaked, fresh, tls_pc, who, fds, closedOther, excuse, tls_calls>>,
         peeked' \in [Client -> Int \X Int], ctx' \in [Client -> [conn : Int, decoded : Int]],
         wire' \in [Client -> [sent : Int, taken : Int, ended : BOOLEAN]],
         last' \in [Client -> [conn : Int, count : Nat]], inOrder',
         \A d \in Client \ {c} : /\ peeked'[d] = peeked[d] /\ ctx'[d] = ctx[d]
                                 /\ wire'[d] = wire[d] /\ last'[d] = last[d],
         ctx'[c].conn = last'[c].conn,
         \/ /\ peeked'[c] = L!NoByte
            /\ last'[c].count = wire'[c].taken - ctx'[c].decoded
         \/ peeked'[c] # L!NoByte /\ PeekStands(c)'
  PROVE  SecureInv'
<1>1. ~Excused /\ tls_pc = "idle"
  BY DEF L!Idle, Excused
<1>2. SecureTypes' /\ FieldStands' /\ HeldStands'
  BY HeldSame DEF SecureInv, SecureTypes, FieldStands, HeldStands
<1>3. OwnerStands'
  BY <1>1 DEF SecureInv, OwnerStands, Connecting
<1>4. BytesStand'
  <2> SUFFICES ASSUME NEW d \in Client
               PROVE  /\ tls_connected'[d] => socket'[d] \in FD /\ ctx'[d].conn = last'[d].conn
                      /\ tls_connected'[d] /\ peeked'[d] = L!NoByte =>
                               last'[d].count = wire'[d].taken - ctx'[d].decoded
                      /\ tls_connected'[d] /\ peeked'[d] # L!NoByte => PeekStands(d)'
                      /\ ~tls_connected'[d] => peeked'[d] = L!NoByte
    BY DEF BytesStand
  <2>1. BytesStand
    BY <1>1 DEF SecureInv
  <2>2. CASE d = c
    BY <2>1, <2>2 DEF BytesStand
  <2>3. CASE d # c
    BY <2>1, <2>3 DEF BytesStand, PeekStands
  <2> QED
    BY <2>2, <2>3
<1>5. CallStands'
  BY <1>1 DEF CallStands, Connecting
<1> QED
  BY <1>2, <1>3, <1>4, <1>5 DEF SecureInv

\* What decode() moves.
LEMMA Decoded ==
  ASSUME SecureTypes, NEW c \in Client, NEW n \in Int, NEW k \in Int, L!decode(c, n, k)
  PROVE  /\ ctx' \in [Client -> [conn : Int, decoded : Int]]
         /\ wire' \in [Client -> [sent : Int, taken : Int, ended : BOOLEAN]]
         /\ \A d \in Client \ {c} : ctx'[d] = ctx[d] /\ wire'[d] = wire[d]
         /\ ctx'[c].conn = ctx[c].conn
         /\ wire'[c].taken - ctx'[c].decoded = wire[c].taken - ctx[c].decoded + k
         /\ wire'[c].sent = wire[c].sent /\ wire'[c].ended = wire[c].ended
<1>1. /\ wire' = [wire EXCEPT ![c].taken = wire[c].taken + n]
      /\ ctx' = [ctx EXCEPT ![c].decoded = ctx[c].decoded + n - k]
  BY DEF L!decode
<1>2. /\ wire \in [Client -> [sent : Int, taken : Int, ended : BOOLEAN]]
      /\ ctx \in [Client -> [conn : Int, decoded : Int]]
  BY DEF SecureTypes
<1>3. /\ wire' \in [Client -> [sent : Int, taken : Int, ended : BOOLEAN]]
      /\ wire'[c].sent = wire[c].sent /\ wire'[c].ended = wire[c].ended
      /\ wire'[c].taken = wire[c].taken + n /\ \A d \in Client \ {c} : wire'[d] = wire[d]
  BY <1>1, <1>2
<1>4. /\ ctx' \in [Client -> [conn : Int, decoded : Int]]
      /\ ctx'[c].decoded = ctx[c].decoded + n - k /\ ctx'[c].conn = ctx[c].conn
      /\ \A d \in Client \ {c} : ctx'[d] = ctx[d]
  BY <1>1, <1>2
<1>5. wire[c].taken \in Int /\ ctx[c].decoded \in Int
  BY <1>2
<1> QED
  BY <1>3, <1>4, <1>5

\* What the sketch is given.
LEMMA Handed ==
  ASSUME SecureTypes, inOrder, NEW c \in Client,
         L!handed(c, <<last[c].conn, last[c].count + 1>>)
  PROVE  /\ inOrder' /\ last' \in [Client -> [conn : Int, count : Nat]]
         /\ last'[c].conn = last[c].conn /\ last'[c].count = last[c].count + 1
         /\ \A d \in Client \ {c} : last'[d] = last[d]
<1>1. inOrder'
  BY DEF L!handed, L!right
<1>2. last' = [last EXCEPT ![c].count = last[c].count + 1]
  <2>1. <<last[c].conn, last[c].count + 1>> # L!Phantom
    BY DEF L!Phantom, SecureTypes
  <2> QED
    BY <2>1 DEF L!handed
<1>3. last \in [Client -> [conn : Int, count : Nat]] /\ last[c].count + 1 \in Nat
  BY DEF SecureTypes
<1>4. last' \in [Client -> [conn : Int, count : Nat]]
  BY <1>2, <1>3
<1> QED
  BY <1>1, <1>2, <1>3, <1>4

LEMMA HandedEnd ==
  ASSUME SecureTypes, inOrder, NEW c \in Client, wire[c].ended, last[c].count = wire[c].sent,
         L!handed(c, L!Phantom)
  PROVE  inOrder' /\ last' = last
<1>1. inOrder'
  BY DEF L!handed, L!right
<1>2. last' = [last EXCEPT ![c].count = last[c].count]
  BY DEF L!handed
<1>3. last \in [Client -> [conn : Int, count : Nat]]
  BY DEF SecureTypes
<1> QED
  BY <1>1, <1>2, <1>3

\* At the end every byte that was sent has been taken from mbedTLS.
LEMMA EndReached ==
  ASSUME SecureTypes, NEW c \in Client, L!AtEnd(c)
  PROVE  wire[c].ended /\ wire[c].sent = wire[c].taken - ctx[c].decoded
<1>1. wire[c].sent \in Int /\ wire[c].taken \in Int /\ ctx[c].decoded \in Int
  BY DEF SecureTypes
<1> QED
  BY <1>1 DEF L!AtEnd, L!pending

LEMMA SecureRead ==
  ASSUME L!ConstantsOK, SecureInv, NEW c \in Client, L!read(c) \/ L!peek(c) \/ L!available(c)
  PROVE  SecureInv'
<1>0. SecureTypes /\ L!Idle /\ closedOther # "zero" /\ tls_connected[c] /\ tls_pc = "idle"
  BY DEF SecureInv, L!read, L!peek, L!available, L!Idle
<1>1. BytesStand /\ inOrder
  BY <1>0 DEF SecureInv, L!Idle, Excused
<1>2. ctx[c].conn = last[c].conn /\ last[c].count \in Nat /\ last[c].conn \in Int
  BY <1>0, <1>1 DEF BytesStand, SecureTypes
<1>3. UNCHANGED <<tls_pc, who, tls_calls, excuse>>
  BY DEF L!read, L!peek, L!available
<1> DEFINE Kept == UNCHANGED <<socket, tls_connected, held, conf, leaked, fresh, fds, closedOther>>
<1>4. CASE L!stopping(c) /\ UNCHANGED <<last, inOrder>>
  BY <1>0, <1>3, <1>4, SecureStop DEF SecureTypes
<1>5. CASE /\ peeked[c] # L!NoByte /\ peeked' = [peeked EXCEPT ![c] = L!NoByte]
           /\ L!handed(c, peeked[c]) /\ Kept /\ UNCHANGED <<ctx, wire>>
  <2>1. PeekStands(c)
    BY <1>0, <1>1, <1>5 DEF BytesStand
  <2>2. /\ inOrder' /\ last' \in [Client -> [conn : Int, count : Nat]]
        /\ last'[c].conn = last[c].conn /\ last'[c].count = wire[c].taken - ctx[c].decoded
        /\ \A d \in Client \ {c} : last'[d] = last[d]
    <3>1. CASE /\ peeked[c] = <<last[c].conn, last[c].count + 1>>
               /\ last[c].count + 1 = wire[c].taken - ctx[c].decoded
      BY <1>0, <1>1, <1>5, <3>1, Handed
    <3>2. CASE /\ peeked[c] = L!Phantom /\ wire[c].ended /\ last[c].count = wire[c].sent
               /\ last[c].count = wire[c].taken - ctx[c].decoded
      BY <1>0, <1>1, <1>5, <3>2, HandedEnd DEF SecureTypes
    <3> QED
      BY <2>1, <3>1, <3>2 DEF PeekStands
  <2>3. /\ peeked' \in [Client -> Int \X Int] /\ peeked'[c] = L!NoByte
        /\ \A d \in Client \ {c} : peeked'[d] = peeked[d]
    BY <1>0, <1>5, EmptyTypes DEF SecureTypes, SecureConstants
  <2> QED
    BY <1>0, <1>2, <1>3, <1>5, <2>2, <2>3, SecureSession DEF SecureTypes
<1>6. CASE /\ peeked[c] = L!NoByte /\ L!handed(c, L!nextByte(c)) /\ L!takes(c)
           /\ Kept /\ UNCHANGED peeked
  <2>1. last[c].count = wire[c].taken - ctx[c].decoded
    BY <1>0, <1>1, <1>6 DEF BytesStand
  <2>2. L!nextByte(c) = <<last[c].conn, last[c].count + 1>>
    BY <1>2, <2>1 DEF L!nextByte
  <2>3. /\ inOrder' /\ last' \in [Client -> [conn : Int, count : Nat]]
        /\ last'[c].conn = last[c].conn /\ last'[c].count = last[c].count + 1
        /\ \A d \in Client \ {c} : last'[d] = last[d]
    BY <1>0, <1>1, <1>6, <2>2, Handed
  <2>4. /\ ctx' \in [Client -> [conn : Int, decoded : Int]]
        /\ wire' \in [Client -> [sent : Int, taken : Int, ended : BOOLEAN]]
        /\ \A d \in Client \ {c} : ctx'[d] = ctx[d] /\ wire'[d] = wire[d]
        /\ ctx'[c].conn = ctx[c].conn
        /\ wire'[c].taken - ctx'[c].decoded = wire[c].taken - ctx[c].decoded + 1
    BY <1>0, <1>6, Decoded DEF L!takes
  <2> QED
    BY <1>0, <1>2, <1>3, <1>6, <2>1, <2>3, <2>4, SecureSession DEF SecureTypes
<1>7. CASE /\ peeked[c] = L!NoByte /\ L!takes(c) /\ peeked' = [peeked EXCEPT ![c] = L!nextByte(c)]
           /\ Kept /\ UNCHANGED <<last, inOrder>>
  <2>1. last[c].count = wire[c].taken - ctx[c].decoded
    BY <1>0, <1>1, <1>7 DEF BytesStand
  <2>2. L!nextByte(c) = <<last[c].conn, last[c].count + 1>>
    BY <1>2, <2>1 DEF L!nextByte
  <2>3. /\ peeked' \in [Client -> Int \X Int]
        /\ peeked'[c] = <<last[c].conn, last[c].count + 1>>
        /\ \A d \in Client \ {c} : peeked'[d] = peeked[d]
    BY <1>0, <1>2, <1>7, <2>2 DEF SecureTypes
  <2>4. /\ ctx' \in [Client -> [conn : Int, decoded : Int]]
        /\ wire' \in [Client -> [sent : Int, taken : Int, ended : BOOLEAN]]
        /\ \A d \in Client \ {c} : ctx'[d] = ctx[d] /\ wire'[d] = wire[d]
        /\ ctx'[c].conn = ctx[c].conn
        /\ wire'[c].taken - ctx'[c].decoded = wire[c].taken - ctx[c].decoded + 1
    BY <1>0, <1>7, Decoded DEF L!takes
  <2>5. peeked'[c] # L!NoByte /\ PeekStands(c)'
    BY <1>2, <1>7, <2>1, <2>3, <2>4 DEF L!NoByte, PeekStands
  <2> QED
    BY <1>0, <1>1, <1>2, <1>3, <1>7, <2>3, <2>4, <2>5, SecureSession DEF SecureTypes
<1>8. CASE /\ \E n \in 1 .. L!pending(c) : L!decode(c, n, 0)
           /\ Kept /\ UNCHANGED <<peeked, last, inOrder>>
  <2>1. /\ ctx' \in [Client -> [conn : Int, decoded : Int]]
        /\ wire' \in [Client -> [sent : Int, taken : Int, ended : BOOLEAN]]
        /\ \A d \in Client \ {c} : ctx'[d] = ctx[d] /\ wire'[d] = wire[d]
        /\ ctx'[c].conn = ctx[c].conn
        /\ wire'[c].taken - ctx'[c].decoded = wire[c].taken - ctx[c].decoded + 0
        /\ wire'[c].sent = wire[c].sent /\ wire'[c].ended = wire[c].ended
    BY <1>0, <1>8, Decoded
  <2>2. wire[c].taken \in Int /\ ctx[c].decoded \in Int
    BY <1>0 DEF SecureTypes
  <2>3. wire'[c].taken - ctx'[c].decoded = wire[c].taken - ctx[c].decoded
    BY <2>1, <2>2
  <2>4. CASE peeked[c] = L!NoByte
    BY <1>0, <1>1, <1>2, <1>3, <1>8, <2>1, <2>3, <2>4, SecureSession DEF SecureTypes, BytesStand
  <2>5. CASE peeked[c] # L!NoByte
    <3>1. PeekStands(c)'
      BY <1>0, <1>1, <1>8, <2>1, <2>3, <2>5 DEF BytesStand, PeekStands
    <3> QED
      BY <1>0, <1>1, <1>2, <1>3, <1>8, <2>1, <2>5, <3>1, SecureSession DEF SecureTypes
  <2> QED
    BY <2>4, <2>5
<1>9. CASE /\ peeked[c] = L!NoByte /\ L!AtEnd(c)
           /\ \/ UNCHANGED <<peeked, last, inOrder>>
              \/ L!handed(c, L!Phantom) /\ UNCHANGED peeked
              \/ peeked' = [peeked EXCEPT ![c] = L!Phantom] /\ UNCHANGED <<last, inOrder>>
           /\ Kept /\ UNCHANGED <<ctx, wire>>
  <2>1. /\ last[c].count = wire[c].taken - ctx[c].decoded
        /\ wire[c].ended /\ last[c].count = wire[c].sent
    BY <1>0, <1>1, <1>9, EndReached DEF BytesStand
  <2>2. inOrder' /\ last' = last
    BY <1>0, <1>1, <1>9, <2>1, HandedEnd
  <2>3. CASE peeked' = peeked
    BY <1>0, <1>2, <1>3, <1>9, <2>1, <2>2, <2>3, SecureSession DEF SecureTypes
  <2>4. CASE peeked' = [peeked EXCEPT ![c] = L!Phantom]
    <3>1. /\ peeked' \in [Client -> Int \X Int] /\ peeked'[c] = L!Phantom
          /\ \A d \in Client \ {c} : peeked'[d] = peeked[d]
      BY <1>0, <2>4, EmptyTypes DEF SecureTypes, SecureConstants
    <3>2. peeked'[c] # L!NoByte /\ PeekStands(c)'
      BY <1>9, <2>1, <2>2, <3>1, EmptyTypes DEF PeekStands, SecureConstants
    <3> QED
      BY <1>0, <1>2, <1>3, <1>9, <2>2, <3>1, <3>2, SecureSession DEF SecureTypes
  <2> QED
    BY <1>9, <2>3, <2>4
<1> QED
  <2>1. CASE L!read(c)
    BY <2>1, <1>4, <1>5, <1>6, <1>9 DEF L!read, L!fails, L!history, L!cl, L!certs
  <2>2. CASE L!available(c)
    BY <2>2, <1>4, <1>8 DEF L!available, L!history, L!certs
  <2>3. CASE L!peek(c)
    BY <2>3, <1>4, <1>7, <1>9 DEF L!peek, L!fails, L!history, L!certs
  <2> QED
    BY <2>1, <2>2, <2>3

\* operator= ends what is claimed of the clients.
LEMMA SecureAssign ==
  ASSUME L!ConstantsOK, SecureInv, NEW c \in Client, NEW d \in Client, L!assign(c, d)
  PROVE  SecureInv'
<1>0. SecureConstants /\ SecureTypes /\ FieldStands /\ HeldStands
  BY EmptyTypes DEF SecureInv
<1>1. /\ tls_pc = "idle" /\ closedOther # "zero" /\ L!close(c) /\ Excused' /\ tls_calls' \in Nat
      /\ UNCHANGED <<tls_pc, who, last>>
  <2>1. tls_calls' \in Nat /\ UNCHANGED last
    BY <1>0 DEF L!assign, L!history, SecureTypes
  <2>2. "shared" \in excuse'
    BY DEF L!assign
  <2> QED
    BY <2>1, <2>2 DEF L!assign, L!Idle, Excused
<1>2. /\ socket' = [socket EXCEPT ![c] = socket[d]]
      /\ tls_connected' = [tls_connected EXCEPT ![c] = tls_connected[d]]
      /\ fresh' = [fresh EXCEPT ![c] = FALSE]
      /\ peeked' = [peeked EXCEPT ![c] = L!peekAfterStop(c)]
      /\ ctx' = [ctx EXCEPT ![c] = L!None] /\ L!freeCerts(c) /\ excuse \subseteq excuse'
      /\ wire' = [wire EXCEPT ![c] = L!Silent]
  BY DEF L!assign
<1>3. L!peekAfterStop(c) \in Int \X Int
  BY <1>0 DEF L!peekAfterStop, SecureConstants, SecureTypes
<1>4. /\ fds' \in [FD -> [by : Client \cup {"none", "other"}, conn : Int]]
      /\ closedOther' \in {"no", "zero"}
      /\ closedOther' # "zero" =>
           \A e \in Client \ {c} :
             fresh[e] /\ socket[e] \in FD => fds'[socket[e]].by = e
  BY <1>0, <1>1, Closed
<1>5. /\ held' \in [Client -> SUBSET {"ca", "crt", "key"}] /\ conf' \in [Client -> SUBSET {"ca", "own"}]
      /\ HeldStands'
  <2>1. \A e \in Client \ {c} : held[e] = {}
    BY <1>0, <1>1 DEF HeldStands
  <2> QED
    BY <1>0, <1>2, <2>1, CertsFreed
<1>6. SecureTypes'
  BY <1>0, <1>1, <1>2, <1>3, <1>4, <1>5 DEF SecureTypes, SecureConstants
<1>7. FieldStands'
  BY <1>0, <1>1, <1>2, <1>4 DEF FieldStands, SecureTypes
<1> QED
  BY <1>1, <1>5, <1>6, <1>7 DEF SecureInv

LEMMA SecureNext ==
  ASSUME L!ConstantsOK, SecureInv, [L!Next]_L!vars
  PROVE  SecureInv'
<1>0. SecureTypes /\ FieldStands
  BY DEF SecureInv
<1>1. CASE UNCHANGED L!vars
  BY <1>0, <1>1, SecureMoves DEF L!vars, L!cl, L!certs, L!world, L!history, SecureTypes
<1>2. CASE L!Call
  <2>1. ASSUME NEW r \in {"none", "refused", "ok"}, L!openSocket(r)
        PROVE  SecureInv'
    BY <2>1, SecureOpen
  <2>2. ASSUME NEW ok \in BOOLEAN, L!configure(ok)
        PROVE  SecureInv'
    BY <2>2, SecureConfigure
  <2>3. ASSUME NEW ok \in BOOLEAN, L!writeDone(ok)
        PROVE  SecureInv'
    <3>1. /\ tls_pc = "write" /\ tls_pc' = "idle" /\ who \in Client /\ closedOther # "zero"
          /\ UNCHANGED <<last, inOrder, who, excuse, tls_calls>>
      BY <1>0, <2>3 DEF L!writeDone, L!rest, L!history, SecureTypes, FieldStands
    <3>2. CASE ok
      BY <1>0, <2>3, <3>1, <3>2, SecureMoves DEF L!writeDone, L!cl, L!certs, SecureTypes
    <3>3. CASE ~ok
      BY <1>0, <2>3, <3>1, <3>3, SecureStop DEF L!writeDone, SecureTypes
    <3> QED
      BY <3>2, <3>3
  <2>4. CASE L!connectFailed
    BY <1>0, <2>4, SecureStop
    DEF L!connectFailed, L!stopAfter, L!history, SecureTypes, FieldStands
  <2> QED
    BY <1>2, <2>1, <2>2, <2>3, <2>4, SecureHandshake DEF L!Call
<1>3. CASE L!Timeout
  BY <1>3, SecureHandshake DEF L!Timeout
<1>4. ASSUME NEW c \in Client, L!stop(c)
      PROVE  SecureInv'
  BY <1>0, <1>4, SecureStop DEF L!stop, L!Idle, L!history, SecureTypes
<1>5. ASSUME NEW c \in Client, L!connect(c) \/ L!write(c)
      PROVE  SecureInv'
  <2>1. /\ tls_pc = "idle" /\ closedOther # "zero" /\ who' = c /\ tls_calls' \in Nat /\ ~Excused
        /\ excuse \subseteq excuse'
        /\ UNCHANGED <<socket, tls_connected, peeked, ctx, held, conf, leaked, fresh, fds, wire, last, inOrder,
                       closedOther>>
    BY <1>0, <1>5 DEF L!connect, L!write, L!Idle, L!cl, L!certs, L!world, L!rest, L!history, Excused,
                      SecureTypes
  <2>2. CASE L!connect(c)
    <3>1. tls_pc' \in {"open", "failed"}
      BY <2>2 DEF L!connect
    <3>2. ~Excused' => ~tls_connected[c]
      BY <2>2 DEF L!connect, Excused
    <3> QED
      BY <2>1, <3>1, <3>2, SecureMoves
  <2>3. CASE L!write(c)
    BY <2>1, <2>3, SecureMoves DEF L!write
  <2> QED
    BY <1>5, <2>2, <2>3
<1>6. CASE L!setCACertBundle
  BY <1>0, <1>6, SecureMoves DEF L!setCACertBundle, L!cl, L!certs, L!world, L!history, SecureTypes
<1>7. CASE L!Sketch
  BY <1>4, <1>5, <1>7, SecureRead, SecureAssign DEF L!Sketch
<1> QED
  BY <1>1, <1>2, <1>3, <1>6, <1>7, SecureWorld DEF L!Next

\* For every number of clients and sockets, wherever connect() fails and
\* whoever opens a socket meanwhile: no socket of another part of the program
\* is closed, but for socket 0; a connect() that failed holds nothing, and loses
\* nothing but the client's own certificate and key, and these only if mbedTLS
\* could not enter them in the configuration.
THEOREM SecureSafe ==
  PartsSpec => []SocketsKept
<1>1. SecureInv /\ [L!Next]_L!vars => SecureInv'
  BY SecureNext, SocketsUsersAssumption
<1>2. L!Init => SecureInv
  BY SecureInit, SocketsUsersAssumption
<1>3. SecureInv => SocketsKept
  BY DEF SocketsKept, SecureInv, L!SocketsKept, FieldStands, HeldStands, OwnerStands, Connecting, Excused, L!OthersKept,
         L!FailedHoldsNothing
<1> QED
  BY <1>1, <1>2, <1>3, PartsMove, PTL DEF PartsSpec

\* For every number of clients, bytes and connections, what read() gives are
\* the bytes of the connection in order, each once, and the 255 of the end only
\* after the last of them.
THEOREM OrderSafe ==
  PartsSpec => []BytesInOrder
<1>1. SecureInv /\ [L!Next]_L!vars => SecureInv'
  BY SecureNext, SocketsUsersAssumption
<1>2. L!Init => SecureInv
  BY SecureInit, SocketsUsersAssumption
<1>3. SecureInv => BytesInOrder
  BY DEF BytesInOrder, SecureInv, Excused, L!BytesInOrder
<1> QED
  BY <1>1, <1>2, <1>3, PartsMove, PTL DEF PartsSpec
===============================================================================
