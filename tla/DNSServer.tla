------------------------------- MODULE DNSServer -------------------------------
(***************************************************************************)
(* The DNS server of a captive portal: processNextRequest(), which the     *)
(* sketch calls from loop(), takes one packet from the UDP socket and      *)
(* answers it at once.  A name is a sequence of words and dots; "www" is   *)
(* the word, wherever it ends, that downcaseAndRemoveWwwPrefix() removes   *)
(* together with the dot that follows.                                     *)
(***************************************************************************)
EXTENDS Integers, Sequences

CONSTANTS Packet,      \* the packets that clients send
          Domain,      \* the domains that the sketch starts a server for
          ReplyCode,   \* the codes of setErrorReplyCode()
          TTL,         \* the arguments of setTTL()
          MaxPackets,  \* bound: packets that are sent
          MaxCalls     \* bound: calls of start(), stop(), setErrorReplyCode(), setTTL()

Star == <<"*">>
IP == "resolvedIP"
NonExistentDomain == "NonExistentDomain"
DNS_DEFAULT_TTL == 60

\* A name has words with a dot between any two.
IsName(n) == \A i \in DOMAIN n : n[i] = "." <=> i % 2 = 0

\* A packet: its sender and ID, the flags QR and OPCode and the counts QD, AN
\* and AR of its header (NS counts as AR), its name of at most 255 bytes, and
\* its form: a "whole" packet, one "short" of a header, an "unterminated" one,
\* whose name does not end inside it, or an "empty" one.
Form == {"whole", "short", "unterminated", "empty"}
\* What the constants have to be; the module of a run assumes it.
ConstantsOK ==
  /\ \A p \in Packet : p.QR \in 0 .. 1 /\ p.OPCode \in 0 .. 1 /\ p.QD \in Nat /\ p.AN \in Nat /\ p.AR \in Nat
  /\ \A p \in Packet : p.name \in Seq(STRING) /\ p.form \in Form
  /\ \A p \in Packet : p = [from |-> p.from, ID |-> p.ID, QR |-> p.QR, OPCode |-> p.OPCode, QD |-> p.QD,
                             AN |-> p.AN, AR |-> p.AR, name |-> p.name, form |-> p.form]
  /\ \A d \in Domain : d \in Seq(STRING) /\ IsName(d)
  /\ IP \notin ReplyCode
  /\ MaxPackets \in Nat /\ MaxCalls \in Nat

VARIABLES open,     \* the socket is bound
          domain,   \* _domainName
          code,     \* _errorReplyCode
          ttl,      \* _ttl
          queue,    \* datagrams that wait in the socket
          rx,       \* WiFiUDP's _rx_buffer: "none", or why it holds a packet
          reply,    \* the last reply, and the packet that it answers
          sent,     \* packets sent to the server
          calls     \* calls of the sketch

vars == <<open, domain, code, ttl, queue, rx, reply, sent, calls>>

None == [answer |-> "none"]
Init == /\ open = FALSE /\ domain = <<>> /\ code = NonExistentDomain /\ ttl = DNS_DEFAULT_TTL
        /\ queue = <<>> /\ rx = "none" /\ reply = None /\ sent = 0 /\ calls = 0

------------------------------------------------------------------------------
(* External: the clients.                                                  *)

Send(p) == /\ sent < MaxPackets /\ sent' = sent + 1
           /\ queue' = IF open THEN Append(queue, p) ELSE queue
           /\ UNCHANGED <<open, domain, code, ttl, rx, reply, calls>>

------------------------------------------------------------------------------
lower(w) == IF w = "WWW" THEN "www" ELSE IF w = "Site" THEN "site" ELSE w

\* Mutant: toLowerCase() is missing.
downcaseNot(n) == n
downcase(n) == [i \in DOMAIN n |-> lower(n[i])]

\* replace("www.", ""): every occurrence goes, at the front or not.
wwwAt(n, i) == i \in 1 .. Len(n) - 1 /\ n[i] = "www" /\ n[i + 1] = "."
downcaseAndRemoveWwwPrefix(n) ==
  LET m == downcase(n)
      gone == {i \in DOMAIN m : wwwAt(m, i) \/ wwwAt(m, i - 1)}
      kept[i \in Nat] == IF i = 0 THEN <<>>
                         ELSE IF i \in gone THEN kept[i - 1] ELSE Append(kept[i - 1], m[i])
  IN kept[Len(m)]

called == calls < MaxCalls /\ calls' = calls + 1

\* _udp.begin() closes the socket first; it may not get a new one.
start(d) == /\ called
            /\ domain' = downcaseAndRemoveWwwPrefix(d)
            /\ open' \in BOOLEAN
            /\ queue' = <<>> /\ rx' = "none" /\ reply' = None
            /\ UNCHANGED <<code, ttl, sent>>
stop == /\ called
        /\ open' = FALSE /\ queue' = <<>> /\ rx' = "none" /\ reply' = None
        /\ UNCHANGED <<domain, code, ttl, sent>>
setErrorReplyCode(c) == /\ called
                        /\ code' = c /\ reply' = None
                        /\ UNCHANGED <<open, domain, ttl, queue, rx, sent>>
setTTL(t) == /\ called
             /\ ttl' = t /\ reply' = None
             /\ UNCHANGED <<open, domain, code, queue, rx, sent>>

------------------------------------------------------------------------------
requestIncludesOnlyOneQuestion(p) == p.QD = 1 /\ p.AN = 0 /\ p.AR = 0
getDomainNameWithoutWwwPrefix(p) == downcaseAndRemoveWwwPrefix(p.name)

replyWithIP(p) == [request |-> p, to |-> p.from, ID |-> p.ID, answer |-> IP, ttl |-> ttl, QR |-> 1, QD |-> p.QD, AN |-> p.QD, AR |-> p.AR]
replyWithCustomCode(p) == [request |-> p, to |-> p.from, ID |-> p.ID, answer |-> code, QR |-> 1, QD |-> 0, AN |-> p.AN, AR |-> p.AR]

hijacked(p) == /\ p.QR = 0 /\ p.OPCode = 0
               /\ requestIncludesOnlyOneQuestion(p)
               /\ domain = Star \/ getDomainNameWithoutWwwPrefix(p) = domain

\* Mutant: whatever is not resolved gets the error code, responses too.
rejectedAll(p) == ~hijacked(p)
rejected(p) == ~hijacked(p) /\ p.QR = 0

answerTo(p) == IF hijacked(p) THEN replyWithIP(p)
               ELSE IF rejected(p) THEN replyWithCustomCode(p) ELSE None

\* parsePacket() took the packet into _rx_buffer.  An empty one counts as
\* none, and without memory for _buffer it is not read: either way it stays
\* there, and parsePacket() returns 0 until the socket is closed.
parsed == open /\ rx = "none" /\ queue # <<>>
leftUnread == /\ parsed
              /\ rx' = "unread" /\ queue' = Tail(queue) /\ reply' = None
              /\ UNCHANGED <<open, domain, code, ttl, sent, calls>>

\* What the parser sees of a packet.  _buffer has the size of the datagram
\* and its length is not looked at again: past its end the header and the name
\* are whatever the heap holds there.
asSeen(p) ==
  CASE p.form = "short"        -> {[q EXCEPT !.from = p.from, !.form = "short"] : q \in Packet}
    [] p.form = "unterminated" -> {[p EXCEPT !.name = n] : n \in {q.name : q \in Packet} \cup {domain}}
    [] OTHER                   -> {p}

\* The packet is read and answered in one call; the reply may get lost.
processPacket == /\ parsed /\ Head(queue).form # "empty"
                 /\ \E p \in asSeen(Head(queue)) : reply' \in {answerTo(p), None}
                 /\ queue' = Tail(queue)
                 /\ UNCHANGED <<open, domain, code, ttl, rx, sent, calls>>

processNextRequest == leftUnread \/ processPacket

Next == \/ processNextRequest
        \/ stop
        \/ \E p \in Packet : Send(p)
        \/ \E d \in Domain : start(d)
        \/ \E c \in ReplyCode : setErrorReplyCode(c)
        \/ \E t \in TTL : setTTL(t)

Spec == Init /\ [][Next]_vars

------------------------------------------------------------------------------
Replied == reply.answer # "none"

\* A name means the site of a domain: the same labels, in any case, with or
\* without a "www." in front.
Bare(n) == IF wwwAt(n, 1) THEN SubSeq(n, 3, Len(n)) ELSE n
Spelled(n) == Bare([i \in DOMAIN n |-> lower(n[i])])
SameSite(n, d) == Spelled(n) = Spelled(d)

\* Names with another "www." lose it too, and mean another site.
InnerWww(n) == \E i \in 2 .. Len(n) : wwwAt([j \in DOMAIN n |-> lower(n[j])], i)

\* A reply goes to the sender of the query and is the server's address, with
\* the time to live that is set, or the error code that is set.  The address is
\* only for the names of the domain, in any spelling; a standard query with one
\* question and no other record gets it.  (With another record, as EDNS adds,
\* the code is sent even for such a name; either answer passes.)  Of a datagram
\* whose name runs past its end only the ID is known, of a short one nothing.
AnswersItsDomain ==
  Replied =>
    LET p == reply.request
        plain == p.OPCode = 0 /\ p.QD = 1 /\ p.AN = 0 /\ p.AR = 0
        own == domain = Star \/ SameSite(p.name, domain) IN
    /\ reply.to = p.from
    /\ p.form # "short" => reply.ID = p.ID
    /\ reply.answer \in {IP, code}
    /\ reply.answer = IP => reply.ttl = ttl
    /\ p.form = "whole" /\ ~InnerWww(p.name) =>
         /\ reply.answer = IP => own
         /\ plain /\ own => reply.answer = IP

\* The server never answers an answer, but for one too short to have the flag
\* that says so: two servers would answer each other for ever.
NoReplyToReply == Replied /\ reply.request.form # "short" => reply.request.QR = 0
===============================================================================
