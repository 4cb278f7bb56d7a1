------------------------------- MODULE IPAddress -------------------------------
(***************************************************************************)
(* The IPAddress class: the sixteen bytes and the type of an address, the  *)
(* two texts it is written as and the parser that reads them.  A text is a *)
(* sequence of numbers, dots and colons: how a number is spelled is left   *)
(* out, decimal between dots and hexadecimal between colons.  Bytes are    *)
(* counted from 0, as in the code.                                         *)
(***************************************************************************)
EXTENDS Integers, SequencesExt

CONSTANTS Octet,     \* the values that the sketch writes into a byte
          Index,     \* bound: the bytes of an IPv6 address that it writes
          Number,    \* the numbers that a user puts into a text
          MaxReads   \* bound: texts that are read

Dot == -1
Colon == -2
Other == -3  \* any other character
Separator == {Dot, Colon, Other}

\* What the constants have to be; the module of a run assumes it.
ConstantsOK ==
  /\ Octet \subseteq 0 .. 255 /\ Index \subseteq 0 .. 15
  /\ Number \subseteq Nat /\ MaxReads \in Nat

VARIABLES addr,  \* _type and _address.bytes
          text,  \* what fromString() is given next
          reads  \* texts read so far

vars == <<addr, text, reads>>

Pos == 0 .. 15
V4 == 12  \* IPADDRESS_V4_BYTES_INDEX
Zeros == [i \in Pos |-> 0]

Init == addr = [type |-> "IPv4", bytes |-> Zeros] /\ text = <<>> /\ reads = 0

------------------------------------------------------------------------------
(* Writing: toString(), printTo().                                         *)

field(b, f) == b[2 * f] * 256 + b[2 * f + 1]

\* The colons or dots between n numbers.
joined(n, num(_), sep) == [i \in 1 .. 2 * n - 1 |-> IF i % 2 = 1 THEN num(i \div 2) ELSE sep]
toString4(b) == joined(4, LAMBDA i : b[V4 + i], Dot)
toString6(b) == joined(8, LAMBDA f : field(b, f), Colon)
toString(a) == IF a.type = "IPv4" THEN toString4(a.bytes) ELSE toString6(a.bytes)

\* The left-most longest run of two or more zero fields: start and length.
runStep(b, r, f) ==
  IF field(b, f) # 0 THEN [r EXCEPT !.cs = -1]
  ELSE LET q == IF r.cs = -1 THEN [r EXCEPT !.cs = f, !.cl = 1] ELSE [r EXCEPT !.cl = @ + 1] IN
       IF q.cl > q.ll THEN [q EXCEPT !.ls = q.cs, !.ll = q.cl] ELSE q
run(b) == FoldLeft(LAMBDA r, f : runStep(b, r, f),
                   [ls |-> -1, ll |-> 1, cs |-> -1, cl |-> 0], [i \in 1 .. 8 |-> i - 1])

\* What printTo() writes for field f.
printed(b, r, f) ==
  IF f < r.ls \/ f >= r.ls + r.ll
    THEN <<field(b, f)>> \o IF f < 7 THEN <<Colon>> ELSE <<>>
  ELSE IF f # r.ls THEN <<>>
  ELSE IF r.ls = 0 THEN <<Colon, Colon>> ELSE <<Colon>>
printTo(a) ==
  IF a.type = "IPv4" THEN toString4(a.bytes)
  ELSE FlattenSeq([i \in 1 .. 8 |-> printed(a.bytes, run(a.bytes), i - 1)])

------------------------------------------------------------------------------
(* Reading: fromString().                                                  *)

store(b, f, acc) == [b EXCEPT ![2 * f] = acc \div 256, ![2 * f + 1] = acc % 256]
bad(p) == [p EXCEPT !.ok = FALSE]

\* One character of fromString4().
step4(p, c) ==
  CASE ~p.ok -> p
    [] c >= 0 /\ c > 255 -> bad(p)
    [] c >= 0 /\ c <= 255 -> [p EXCEPT !.acc = c]
    [] c = Dot /\ (p.dots = 3 \/ p.acc < 0) -> bad(p)
    [] c = Dot /\ p.dots # 3 /\ p.acc >= 0 ->
         [p EXCEPT !.bytes[V4 + p.dots] = p.acc, !.dots = @ + 1, !.acc = -1]
    [] OTHER -> bad(p)
fromString4(t) ==
  LET p == FoldLeft(step4, [ok |-> TRUE, bytes |-> Zeros, acc |-> -1, dots |-> 0], t) IN
  IF ~p.ok \/ p.dots # 3 \/ p.acc < 0 THEN bad(p) ELSE [p EXCEPT !.bytes[V4 + 3] = p.acc]

\* The character of t at offset i; the text ends with a NUL.
at(t, i) == IF i <= Len(t) THEN t[i] ELSE Other

\* The place of "::" among the fields.
doubleAt(p) == p.colons + IF p.acc # 0 THEN 1 ELSE 0

\* A single colon, or the first one of "::".
colonStored(p) ==
  IF p.colons = 7 THEN bad(p)
  ELSE [p EXCEPT !.bytes = store(p.bytes, p.colons, p.acc), !.colons = @ + 1, !.acc = 0]

\* Mutant: a second "::" is accepted.
colonTwice(p, t, i) ==
  IF at(t, i + 1) = Colon
    THEN IF at(t, i + 2) = Colon THEN bad(p)
         ELSE [colonStored([p EXCEPT !.double = doubleAt(p)]) EXCEPT !.skip = TRUE]
  ELSE IF i = Len(t) THEN bad(p) ELSE colonStored(p)

colon(p, t, i) ==
  IF at(t, i + 1) = Colon
    THEN IF p.double >= 0 \/ at(t, i + 2) = Colon THEN bad(p)
         ELSE [colonStored([p EXCEPT !.double = doubleAt(p)]) EXCEPT !.skip = TRUE]
  ELSE IF i = Len(t) THEN bad(p) ELSE colonStored(p)

step6(p, t, i) ==
  CASE ~p.ok -> p
    [] p.ok /\ p.skip -> [p EXCEPT !.skip = FALSE]
    [] p.ok /\ ~p.skip /\ t[i] >= 0 -> IF t[i] > 65535 THEN bad(p) ELSE [p EXCEPT !.acc = t[i]]
    [] p.ok /\ ~p.skip /\ t[i] = Colon -> colon(p, t, i)
    [] OTHER -> bad(p)

\* Mutant: the fields keep their place and the rest is cleared.
movedNot(b, colons, double) == [i \in Pos |-> IF i < 2 * colons THEN b[i] ELSE 0]

\* The fields after "::" move to the end, zeros fill the gap.
moved(b, colons, double) ==
  [i \in Pos |->
     IF i < 2 * double THEN b[i]
     ELSE IF i < 16 - 2 * colons + 2 * double THEN 0
     ELSE b[i - (16 - 2 * colons)]]

fromString6(b, t) ==
  LET p == FoldLeftDomain(LAMBDA q, i : step6(q, t, i),
             [ok |-> TRUE, bytes |-> b, acc |-> 0, colons |-> 0, double |-> -1, skip |-> FALSE], t)
      last == store(p.bytes, p.colons, p.acc) IN
  IF ~p.ok \/ (p.double = -1 /\ p.colons # 7) \/ (p.double > -1 /\ p.colons > 6) THEN bad(p)
  ELSE [p EXCEPT !.bytes = IF p.double = -1 THEN last ELSE moved(last, p.colons + 1, p.double)]

\* A text that neither reads leaves the bytes that they wrote, and the type.
parsed(a, t) ==
  LET p4 == fromString4(t)
      p6 == fromString6(p4.bytes, t) IN
  IF p4.ok THEN [ok |-> TRUE, type |-> "IPv4", bytes |-> p4.bytes]
  ELSE IF p6.ok THEN [ok |-> TRUE, type |-> "IPv6", bytes |-> p6.bytes]
  ELSE [ok |-> FALSE, type |-> a.type, bytes |-> p6.bytes]

------------------------------------------------------------------------------
(* What a sketch does with an address.                                     *)

offset(i) == IF addr.type = "IPv4" THEN V4 + i ELSE i
SetByte == /\ \E i \in IF addr.type = "IPv4" THEN 0 .. 3 ELSE Index, o \in Octet :
                addr' = [addr EXCEPT !.bytes[offset(i)] = o]
           /\ text = <<>> /\ UNCHANGED <<text, reads>>
four(o) == [type |-> "IPv4", bytes |-> [i \in Pos |-> IF i < V4 THEN 0 ELSE o[i - V4]]]
six(o) == [type |-> "IPv6", bytes |-> [i \in Pos |-> IF i \in Index THEN o[i] ELSE 0]]
ConstructOf == /\ addr' \in {four(o) : o \in [0 .. 3 -> Octet]} \cup {six(o) : o \in [Index -> Octet]}
               /\ text = <<>> /\ UNCHANGED <<text, reads>>
assign == /\ addr' \in {four(o) : o \in [0 .. 3 -> Octet]}
          /\ text = <<>> /\ UNCHANGED <<text, reads>>
Construct == /\ \E t \in {"IPv4", "IPv6"} : addr' = [type |-> t, bytes |-> Zeros]
             /\ text = <<>> /\ UNCHANGED <<text, reads>>

\* A text: one that an address was written as, or that with a token
\* deleted, doubled or replaced.
Edited(t) == {RemoveAt(t, i) : i \in DOMAIN t} \cup {InsertAt(t, i, t[i]) : i \in DOMAIN t}
               \cup {ReplaceAt(t, i, c) : i \in DOMAIN t, c \in Separator \cup Number}
\* Two numbers side by side are one.
Separated(t) == \A i \in 1 .. Len(t) - 1 : t[i] < 0 \/ t[i + 1] < 0
Write == /\ text = <<>> /\ reads < MaxReads
         /\ text' \in {toString(addr), printTo(addr)} \cup Edited(toString(addr)) \cup Edited(printTo(addr))
         /\ Separated(text')
         /\ UNCHANGED <<addr, reads>>
fromString == /\ text # <<>>
              /\ addr' = [type |-> parsed(addr, text).type, bytes |-> parsed(addr, text).bytes]
              /\ text' = <<>> /\ reads' = reads + 1

Next == SetByte \/ Construct \/ ConstructOf \/ assign \/ Write \/ fromString
Spec == Init /\ [][Next]_vars

------------------------------------------------------------------------------
\* The grammar of the texts: numbers with one separator between any two.
IsList(t, sep) == t = <<>> \/ (Len(t) % 2 = 1 /\ \A i \in DOMAIN t : IF i % 2 = 1 THEN t[i] >= 0 ELSE t[i] = sep)
Numbers(t) == SelectSeq(t, LAMBDA c : c >= 0)
Before(t, i) == SubSeq(t, 1, i - 1)
After(t, i) == SubSeq(t, i + 2, Len(t))

IsV4(t) == t # <<>> /\ IsList(t, Dot) /\ Len(t) = 7 /\ \A i \in DOMAIN t : t[i] <= 255
Doubles(t) == {i \in 1 .. Len(t) - 1 : /\ t[i] = Colon /\ t[i + 1] = Colon
                                       /\ IsList(Before(t, i), Colon) /\ IsList(After(t, i), Colon)
                                       /\ Len(Numbers(t)) <= 7}
IsV6(t) == /\ \A i \in DOMAIN t : t[i] <= 65535
           /\ (IsList(t, Colon) /\ Len(t) = 15) \/ Doubles(t) # {}

\* The eight fields that an IPv6 text stands for.
Meaning(t) ==
  IF IsList(t, Colon) THEN Numbers(t)
  ELSE LET i == CHOOSE j \in Doubles(t) : TRUE
           l == Numbers(Before(t, i))
           r == Numbers(After(t, i)) IN
       l \o [j \in 1 .. 8 - Len(l) - Len(r) |-> 0] \o r

\* Two texts that the parser reads otherwise: "::" for a single field at
\* either end is refused, and a colon before the first field stands for a 0.
EndDouble(t) == Len(Numbers(t)) = 7 /\ Doubles(t) # {} /\ (t[1] = Colon \/ t[Len(t)] = Colon)
LeadingColon(t) == t # <<>> /\ t[1] = Colon /\ 1 \notin Doubles(t)

\* Every text that toString() or printTo() writes for an address reads back
\* as that address: whichever run of zero fields printTo() compresses, and
\* wherever fromString6() finds the double colon.
RoundTrip ==
  \A t \in {toString(addr), printTo(addr)} :
    parsed(addr, t) = [ok |-> TRUE, type |-> addr.type, bytes |->
      IF addr.type = "IPv6" THEN addr.bytes ELSE [i \in Pos |-> IF i < V4 THEN 0 ELSE addr.bytes[i]]]

\* fromString() accepts the IPv4 and IPv6 texts of the grammar and no other,
\* up to the two it is known to misread, gives them the value they stand for,
\* and what the address held before makes no difference.
ParseAgrees ==
  text # <<>> =>
    LET p == parsed(addr, text) IN
    /\ ~EndDouble(text) /\ ~LeadingColon(text) => p.ok = (IsV4(text) \/ IsV6(text))
    /\ p.ok /\ IsV4(text) => p.type = "IPv4" /\ \A i \in 0 .. 3 : p.bytes[V4 + i] = Numbers(text)[i + 1]
    /\ p.ok /\ IsV6(text) => p.type = "IPv6" /\ \A f \in 0 .. 7 : field(p.bytes, f) = Meaning(text)[f + 1]
===============================================================================
