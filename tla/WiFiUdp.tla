-------------------------------- MODULE WiFiUdp -------------------------------
(***************************************************************************)
(* WiFiUDP: one object holds the packet under construction (tx_buffer) and *)
(* the packet being read (rx_buffer), both from the heap, one lwIP socket  *)
(* and ONE remote address, used for both directions.  Bytes carry no       *)
(* value: a packet is its length.                                          *)
(***************************************************************************)
EXTENDS Integers, Sequences

CONSTANTS BufSize,       \* kUdpBufferSize
          Lengths,       \* lengths of the datagrams that arrive
          Peers, Group,  \* hosts; the multicast group
          None,          \* no address
          MaxDatagrams,  \* bound: datagrams that arrive
          MaxBytes,      \* bound: bytes written into one packet
          CallsMayFail   \* may os_malloc(), lwip_socket(), ... fail?

\* What the constants have to be; the module of a run assumes it.
ConstantsOK ==
  /\ BufSize \in Nat \ {0} /\ Lengths \subseteq Nat
  /\ MaxDatagrams \in Nat /\ MaxBytes \in Nat
  /\ Group \notin Peers /\ None \notin Peers \cup {Group}

VARIABLES
  udp_server,     \* _udp_server >= 0
  server_port,    \* _server_port # 0
  multicast_ip,   \* _multicast_ip # INADDR_ANY
  remote,         \* _remote_ip and _remote_port, None for port 0
  tx_buffer, tx_buffer_len,
  rx_buffer, rx_len, rx_pos,  \* tx_buffer and rx_buffer: "is allocated"
  parsed,         \* the result of parsePacket(), when it was the last call
  ended,          \* the result of endPacket(), when it was the last call
  open,           \* the sketch has begun a packet and not ended it
  dest,           \* the host the current packet was begun for
  written, sent,  \* bytes written into the current packet; handed to lwIP
  sentTo,         \* the host the last datagram was sent to
  lost,           \* lwIP refused a part of the current packet to write()
  crossed,        \* a datagram was received since the packet was begun
  bytewise,       \* read() took bytes of the packet being read
  heap, sockets, joined,  \* live heap blocks, open sockets, memberships
  queue, arrived  \* datagrams waiting in the socket; how many came so far

object == <<udp_server, server_port, multicast_ip>>
tx == <<tx_buffer, tx_buffer_len>>
rx == <<rx_buffer, rx_len, rx_pos>>
packet == <<open, dest, written, sent, sentTo, lost>>
stack == <<sockets, joined, queue>>
history == <<crossed, bytewise>>
vars == <<object, remote, tx, rx, parsed, ended, packet, history, heap, stack, arrived>>

Init ==
  /\ udp_server = FALSE /\ server_port = FALSE /\ multicast_ip = FALSE
  /\ remote = None
  /\ tx_buffer = FALSE /\ tx_buffer_len = 0
  /\ rx_buffer = FALSE /\ rx_len = 0 /\ rx_pos = 0
  /\ parsed = "none" /\ ended = "none"
  /\ open = FALSE /\ dest = None /\ written = 0 /\ sent = 0 /\ sentTo = None
  /\ lost = FALSE /\ crossed = FALSE /\ bytewise = FALSE
  /\ heap = 0 /\ sockets = 0 /\ joined = 0 /\ queue = <<>> /\ arrived = 0

\* A call other than parsePacket() and endPacket().
OtherCall == parsed' = "none" /\ ended' = "none"

Blocks(b) == IF b THEN 1 ELSE 0

------------------------------------------------------------------------------
(* stop() and begin().  "none" is the call that succeeds; the others are   *)
(* the failures the code tests for.                                        *)

\* IP_DROP_MEMBERSHIP in stop(): the memberships left after it.
stopLeave == IF udp_server /\ multicast_ip THEN joined - 1 ELSE joined

\* What every stop() leaves: no buffers, no packet being read.
stopBuffers ==
  /\ tx_buffer_len' = 0
  /\ rx_buffer' = FALSE /\ rx_len' = 0 /\ rx_pos' = 0
  /\ queue' = <<>>
  /\ open' = FALSE

stop ==
  /\ stopBuffers
  /\ tx_buffer' = FALSE
  /\ heap' = heap - Blocks(tx_buffer) - Blocks(rx_buffer)
  /\ udp_server' = FALSE
  /\ sockets' = sockets - Blocks(udp_server)
  /\ joined' = stopLeave
  /\ IF udp_server THEN multicast_ip' = FALSE /\ server_port' = FALSE
                   ELSE UNCHANGED <<multicast_ip, server_port>>
  /\ OtherCall
  /\ UNCHANGED <<remote, dest, written, sent, sentTo, lost, history, arrived>>

\* begin(), and beginMulticast() when group.
begin(group, fail) ==
  LET up == fail = "none" IN
  /\ (fail = "join") => group
  /\ stopBuffers
  /\ tx_buffer' = up
  /\ heap' = heap - Blocks(tx_buffer) - Blocks(rx_buffer) + Blocks(up)
  /\ udp_server' = up
  /\ sockets' = sockets - Blocks(udp_server) + Blocks(up)
  /\ multicast_ip' = (up /\ group)
  /\ joined' = stopLeave + Blocks(up /\ group)
  \* after a failed malloc or socket stop() returns before it forgets the port
  /\ server_port' = (fail \in {"none", "malloc", "socket"})
  /\ OtherCall
  /\ UNCHANGED <<remote, dest, written, sent, sentTo, lost, history, arrived>>

Failures == IF CallsMayFail THEN {"none", "malloc", "socket", "bind", "join"} ELSE {"none"}

------------------------------------------------------------------------------
(* Sending.  The sketch writes into, and ends, only a packet it has begun.  *)

\* beginPacket() to the remote address r.
beginPacketTo(r, fail) ==
  /\ fail \in {"none", "malloc", "socket"}
  /\ (fail = "malloc") => ~tx_buffer
  /\ (fail = "socket") => ~udp_server
  /\ remote' = r
  /\ tx_buffer' = (fail # "malloc")
  /\ heap' = heap + Blocks(~tx_buffer /\ fail # "malloc")
  /\ tx_buffer_len' = IF fail = "malloc" THEN tx_buffer_len ELSE 0
  /\ udp_server' = (udp_server \/ fail = "none")
  /\ sockets' = sockets + Blocks(~udp_server /\ fail = "none")
  /\ open' = (fail = "none") /\ dest' = r /\ written' = 0 /\ sent' = 0
  /\ lost' = FALSE /\ crossed' = FALSE
  /\ OtherCall
  /\ UNCHANGED <<server_port, multicast_ip, rx, sentTo, bytewise, joined, queue, arrived>>

\* beginPacket(ip, port), and beginPacket(host, port) once the name resolves.
beginPacketIp(fail) == \E p \in Peers : beginPacketTo(p, fail)

\* beginPacket(): to the address that is there.
beginPacket(fail) == remote # None /\ beginPacketTo(remote, fail)

beginMulticastPacket(fail) ==
  /\ server_port /\ multicast_ip
  /\ beginPacketTo(Group, fail)

Outcomes == IF CallsMayFail THEN {"taken", "refused"} ELSE {"taken"}

\* endPacket()'s call of lwip_sendto() on the open socket.
Sendto(outcome) ==
  IF outcome = "taken"
    THEN sentTo' = remote /\ sent' = sent + tx_buffer_len
    ELSE UNCHANGED <<sentTo, sent>>

\* mutant: the buffer is not started again after it was sent
writeKeepsLength(outcome) ==
  /\ open /\ written < MaxBytes
  /\ IF tx_buffer_len = BufSize
       THEN /\ Sendto(outcome)
            /\ lost' = (lost \/ outcome = "refused")
            /\ tx_buffer_len' = tx_buffer_len + 1
       ELSE /\ tx_buffer_len' = tx_buffer_len + 1
            /\ UNCHANGED <<sent, sentTo, lost>>
  /\ written' = written + 1
  /\ OtherCall
  /\ UNCHANGED <<object, remote, tx_buffer, rx, open, dest, history, heap, stack, arrived>>

\* write(data): a full buffer is sent first, whatever endPacket() returns.
write(outcome) ==
  /\ open /\ written < MaxBytes
  /\ IF tx_buffer_len = BufSize
       THEN /\ Sendto(outcome)
            /\ lost' = (lost \/ outcome = "refused")
            /\ tx_buffer_len' = 1
       ELSE /\ tx_buffer_len' = tx_buffer_len + 1
            /\ UNCHANGED <<sent, sentTo, lost>>
  /\ written' = written + 1
  /\ OtherCall
  /\ UNCHANGED <<object, remote, tx_buffer, rx, open, dest, history, heap, stack, arrived>>

\* endPacket(): tx_buffer_len stays until the next beginPacket().
endPacket(outcome) ==
  /\ open
  /\ Sendto(outcome)
  /\ ended' = IF outcome = "taken" THEN "sent" ELSE "error"
  /\ parsed' = "none"
  /\ open' = FALSE
  /\ UNCHANGED <<object, remote, tx, rx, dest, written, lost, history, heap, stack, arrived>>

------------------------------------------------------------------------------
(* Receiving.                                                              *)

\* The network: a datagram of length l from p reaches the open socket.
Arrive(p, l) ==
  /\ udp_server /\ arrived < MaxDatagrams
  /\ queue' = Append(queue, [from |-> p, len |-> l])
  /\ arrived' = arrived + 1
  /\ OtherCall
  /\ UNCHANGED <<object, remote, tx, rx, packet, history, heap, sockets, joined>>

Truncated(l) == IF l < BufSize THEN l ELSE BufSize

\* parsePacket() when a packet is still there, or the heap is exhausted.
parsePacketRefused ==
  /\ rx_buffer \/ CallsMayFail
  /\ parsed' = IF rx_buffer THEN "zero" ELSE "oom"
  /\ ended' = "none"
  /\ UNCHANGED <<object, remote, tx, rx, packet, history, heap, stack, arrived>>

\* mutant: the buffer is lost when there is nothing to receive
parsePacketEmptyLeaks ==
  /\ ~rx_buffer /\ (~udp_server \/ queue = <<>>) /\ heap < 4
  /\ heap' = heap + 1
  /\ parsed' = "zero" /\ ended' = "none"
  /\ UNCHANGED <<object, remote, tx, rx, packet, history, stack, arrived>>

\* lwip_recvfrom() has nothing: the buffer is freed again.
parsePacketEmpty ==
  /\ ~rx_buffer /\ (~udp_server \/ queue = <<>>)
  /\ parsed' = "zero" /\ ended' = "none"
  /\ UNCHANGED <<object, remote, tx, rx, packet, history, heap, stack, arrived>>

parsePacketReceive ==
  /\ ~rx_buffer /\ udp_server /\ queue # <<>>
  /\ queue' = Tail(queue)
  /\ remote' = Head(queue).from
  /\ rx_buffer' = TRUE /\ heap' = heap + 1
  /\ rx_len' = Truncated(Head(queue).len) /\ rx_pos' = 0
  /\ parsed' = IF rx_len' = 0 THEN "zero" ELSE "packet"
  /\ ended' = "none"
  /\ crossed' = TRUE /\ bytewise' = FALSE
  /\ UNCHANGED <<object, tx, packet, sockets, joined, arrived>>

parsePacket == parsePacketRefused \/ parsePacketEmpty \/ parsePacketReceive

\* read(): one byte; the buffer stays after the last one.
readByte ==
  /\ rx_buffer /\ rx_pos < rx_len
  /\ rx_pos' = rx_pos + 1
  /\ bytewise' = TRUE
  /\ OtherCall
  /\ UNCHANGED <<object, remote, tx, rx_buffer, rx_len, packet, crossed, heap, stack, arrived>>

\* mutant: the emptied buffer is kept
readKeeps(n) ==
  /\ rx_buffer
  /\ rx_pos' = IF rx_len - rx_pos < n THEN rx_len ELSE rx_pos + n
  /\ OtherCall
  /\ UNCHANGED <<object, remote, tx, rx_buffer, rx_len, packet, history, heap, stack, arrived>>

\* read(buffer, n), n > 0: the emptied buffer is freed.
read(n) ==
  /\ rx_buffer
  /\ IF rx_len - rx_pos <= n
       THEN /\ rx_buffer' = FALSE /\ rx_len' = 0 /\ rx_pos' = 0
            /\ heap' = heap - 1
       ELSE /\ rx_pos' = rx_pos + n
            /\ UNCHANGED <<rx_buffer, rx_len, heap>>
  /\ OtherCall
  /\ UNCHANGED <<object, remote, tx, packet, history, stack, arrived>>

flush ==
  /\ rx_buffer' = FALSE /\ rx_len' = 0 /\ rx_pos' = 0
  /\ heap' = heap - Blocks(rx_buffer)
  /\ OtherCall
  /\ UNCHANGED <<object, remote, tx, packet, history, stack, arrived>>

------------------------------------------------------------------------------
Next ==
  \/ stop \/ flush \/ parsePacket \/ readByte
  \/ \E g \in BOOLEAN, f \in Failures : begin(g, f)
  \/ \E f \in Failures :
       beginPacketIp(f) \/ beginPacket(f) \/ beginMulticastPacket(f)
  \/ \E outcome \in Outcomes : write(outcome) \/ endPacket(outcome)
  \/ \E n \in 1 .. BufSize : read(n)
  \/ \E p \in Peers, l \in Lengths : Arrive(p, l)

\* The sketch's loop() polls parsePacket(), empties its packet with
\* read(buffer, n), and the heap is not exhausted for ever.
Fairness ==
  WF_vars(parsePacketReceive) /\ WF_vars(\E n \in 1 .. BufSize : read(n))

Spec == Init /\ [][Next]_vars /\ Fairness

------------------------------------------------------------------------------
(* Properties.                                                             *)

\* The two cursors stay inside their buffers: write() and read() never touch
\* memory past kUdpBufferSize or past the packet.
TypeOK ==
  /\ {udp_server, server_port, multicast_ip, tx_buffer, rx_buffer, open,
      lost, crossed, bytewise} \subseteq BOOLEAN
  /\ remote \in Peers \cup {Group, None}
  /\ dest \in Peers \cup {Group, None} /\ sentTo \in Peers \cup {Group, None}
  /\ tx_buffer_len \in 0 .. BufSize
  /\ rx_len \in 0 .. BufSize /\ rx_pos \in 0 .. rx_len
  /\ parsed \in {"none", "zero", "packet", "oom"}
  /\ ended \in {"none", "sent", "error"}
  /\ written \in 0 .. MaxBytes /\ sent \in 0 .. MaxBytes
  /\ arrived \in 0 .. MaxDatagrams
  /\ queue \in Seq([from : Peers, len : Lengths])
  /\ {heap, sockets, joined} \subseteq Nat

\* Whatever fails in begin(), beginMulticast(), beginPacket() or
\* parsePacket(), the object knows of every live heap block, open socket and
\* group membership: stop() and the destructor give everything back.
NothingLeaked ==
  /\ heap = Blocks(tx_buffer) + Blocks(rx_buffer)
  /\ sockets = Blocks(udp_server)
  /\ joined = Blocks(multicast_ip)

\* endPacket() answers 1 only when every byte written since beginPacket(),
\* also those that write() sent on the way, went to the host beginPacket()
\* was called for.  Two cases are excepted: write() discards the failure of
\* the part it sends, and parsePacket() overwrites the destination.
WholePacketSent ==
  (ended = "sent") => /\ lost \/ sent = written
                      /\ crossed \/ sentTo = dest

\* The two together: neither a resource nor a byte of a packet is lost.
PacketsKept == NothingLeaked /\ WholePacketSent

\* parsePacket() answers 0 while datagrams wait only when the current packet
\* has bytes left, is empty, or was taken with single-byte reads.
NextPacketStarts ==
  [][ (parsed' = "zero" /\ queue # <<>> /\ queue' = queue) =>
        rx_buffer /\ (rx_pos < rx_len \/ rx_len = 0 \/ bytewise) ]_vars

\* A sketch that keeps polling and reading gets every datagram.
QueueDrains == (queue # <<>>) ~> (queue = <<>>)

\* What Udp.h says of parsePacket(): 0 means that no packet is available, or
\* that the current one has bytes left.
ZeroMeansNone ==
  [][ (parsed' = "zero" /\ queue # <<>> /\ queue' = queue) =>
        rx_buffer /\ rx_pos < rx_len ]_vars
===============================================================================
