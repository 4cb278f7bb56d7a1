------------------------------- MODULE Parsing -------------------------------
(* The text handling of the core, each part by itself: String, the parsers *)
(* of Stream, IPAddress, the numbers of print(), and the queries and        *)
(* answers of DNSServer.                                                   *)
EXTENDS Integers, Sequences

CONSTANTS
  Text, Made, MaxLen,
  SentByte, Target, Length, Terminator, Ignore, MaxBytes,
  Octet, Offset, Field, MaxReads,
  Packet, Domain, ReplyCode, TTL, MaxPackets, MaxCalls,
  Long, Word, LongLongBits, Number

VARIABLES
  part,  \* the component that runs: it is chosen at the start
  s, other,
  ahead, arrived, call, at, seen, targets, text, value, ret,
  addr, address_text, reads,
  open, domain, code, ttl, datagrams, rx, reply, sent, calls,
  out, print_ret, arg

S == INSTANCE ArduinoString
I == INSTANCE Stream WITH
  Byte <- SentByte, pc <- at, num <- value
A == INSTANCE IPAddress WITH
  Index <- Offset, Number <- Field, text <- address_text
D == INSTANCE DNSServer WITH
  queue <- datagrams
P == INSTANCE PrintNumbers WITH
  ret <- print_ret

ASSUME ParsingAssumption ==
  S!ConstantsOK /\ I!ConstantsOK /\ A!ConstantsOK /\ D!ConstantsOK /\ P!ConstantsOK

stringVars == <<
  s, other>>
streamVars == <<
  ahead, arrived, call, at, seen, targets, text, value, ret>>
addressVars == <<
  addr, address_text, reads>>
dnsVars == <<
  open, domain, code, ttl, datagrams, rx, reply, sent, calls>>
printVars == <<
  out, print_ret, arg>>

Part == {"string", "stream", "address", "dns", "print"}
allVars == <<part, stringVars, streamVars, addressVars, dnsVars, printVars>>

PartsInit ==
  /\ part \in Part
  /\ S!Init /\ I!Init /\ A!Init /\ D!Init /\ P!Init

\* One component moves, with its own steps; the others rest.
PartsNext ==
  \/ part = "string" /\ S!Next /\ UNCHANGED <<part, streamVars, addressVars, dnsVars, printVars>>
  \/ part = "stream" /\ I!Next /\ UNCHANGED <<part, stringVars, addressVars, dnsVars, printVars>>
  \/ part = "address" /\ A!Next /\ UNCHANGED <<part, stringVars, streamVars, dnsVars, printVars>>
  \/ part = "dns" /\ D!Next /\ UNCHANGED <<part, stringVars, streamVars, addressVars, printVars>>
  \/ part = "print" /\ P!Next /\ UNCHANGED <<part, stringVars, streamVars, addressVars, dnsVars>>

PartsSpec == PartsInit /\ [][PartsNext]_allVars

\* The searches and the edits of String give what their reference definitions
\* say, with memory or without, and the buffer keeps its terminator.  Excepted are
\* indexOf() of a String without a buffer, replace() of a text that overlaps itself
\* or that the new text completes, and s += s with a buffer that moves.
StringIsExact == part = "string" => S!SearchesAgree /\ S!EditsAgree /\ S!Terminated

\* The comment in replace(), "compute size needed for result": the buffer of a
\* String holds what replace() writes.
ReplaceFits == part = "string" => S!ReplaceFits

\* findMulti() stops after the first occurrence of a target, the number
\* parsers and the bounded reads take exactly what they use.
StreamIsExact == part = "stream" => I!FindIsExact /\ I!ParseIsExact /\ I!ReadIsExact

\* The text of an address reads back as that address, and what the parsers
\* take and refuse agrees with a definition by fields, but for an IPv6 text
\* with "::" for a single field at an end, or with one colon in front.
AddressesAgree == part = "address" => A!RoundTrip /\ A!ParseAgrees

\* DNSServer answers a plain query for its domain with its address and one for
\* another name with the error code, to the client that asked, and never answers
\* a response; of a datagram that ends too early only the client is known.
AnswersItsDomain == part = "dns" => D!AnswersItsDomain /\ D!NoReplyToReply

\* The digits that print() writes denote the number, in the bases 2, 8, 10 and 16
\* and in every width.
TextIsNumber == part = "print" => P!TextIsNumber
==============================================================================
