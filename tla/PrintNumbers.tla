---------------------------- MODULE PrintNumbers ----------------------------
(***************************************************************************)
(* The Print class: how a number becomes text.  The device takes what it   *)
(* is given; floats are left out.  The widths of unsigned long, of "16 bit *)
(* math" and of unsigned long long are parameters.                         *)
(***************************************************************************)
EXTENDS Integers, Sequences

CONSTANTS Long,    \* 2^32: unsigned long counts modulo Long
          Word,    \* 0xFFFF: the largest uint16_t
          LongLongBits,  \* 64: the size of printULLNumber()'s buffer
          Number   \* the numbers that are printed

\* BIN, OCT, DEC and HEX; base 0 is a case of its own, and 1 is taken for 10.
Base == {0, 1, 2, 8, 10, 16}

\* b to the power of k, as a loop computes it.
power(b, k) == LET p[i \in Nat] == IF i = 0 THEN 1 ELSE p[i - 1] * b IN p[k]

\* What the constants have to be; the module of a run assumes it.  Word leaves
\* room for two digits in every base.
ConstantsOK ==
  /\ LongLongBits \in Nat \ {0}
  /\ Long \in 1 .. power(2, LongLongBits)
  /\ Word \in Nat /\ Word >= 2 * 16
  /\ Number \subseteq (-(Long \div 2)) .. power(2, LongLongBits) - 1

VARIABLES out,  \* what the device has got from the last call
          ret,  \* what the call returned
          arg   \* the number that was printed, its type and base

vars == <<out, ret, arg>>

\* A digit is its value; the other characters are negative.
Minus == -1
CR == -2
LF == -3
NoArg == [type |-> "none", n |-> 0, base |-> 0, line |-> FALSE]

Init == out = <<>> /\ ret = 0 /\ arg = NoArg

------------------------------------------------------------------------------
baseOf(b) == IF b < 2 THEN 10 ELSE b

digits(n, b) ==
  LET d[m \in Nat] == IF m < b THEN <<m>> ELSE Append(d[m \div b], m % b) IN d[n]
printNumber(n, base) == digits(n, baseOf(base))

\* The chunks of printULLNumber(): th16 is the first power of the base that is
\* not below top, grown(b) its exponent.
top(b) == Word \div b
grown(b) == CHOOSE k \in 0 .. Word : power(b, k) >= top(b) /\ \A j \in 0 .. k - 1 : power(b, j) < top(b)
th16(b) == power(b, grown(b))

\* Mutant: a chunk has one digit less.
innerLoopsLess(b) == grown(b) - 1
innerLoops(b) == grown(b)

\* The n lowest digits of r, leading zeros included: rest[k] is r after k rounds.
lowest(r, n, b) ==
  LET rest[k \in Nat] == IF k = 0 THEN r ELSE rest[k - 1] \div b IN
  [i \in 1 .. n |-> rest[n - i] % b]
chunks(n64, b) ==
  LET c[m \in Nat] == IF m > th16(b) THEN c[m \div th16(b)] \o lowest(m % th16(b), innerLoops(b), b)
                      ELSE digits(m, b)
  IN c[n64]
printULLNumber(n64, base) == IF n64 = 0 THEN <<0>> ELSE chunks(n64, baseOf(base))

\* print(): '-' and the absolute value in base 10, two's complement in others.
unsigned(n, base) == IF n >= 0 THEN n ELSE IF base = 10 THEN -n ELSE n + Long
sign(n, base) == IF n < 0 /\ base = 10 THEN <<Minus>> ELSE <<>>

------------------------------------------------------------------------------
newline(line) == IF line THEN <<CR, LF>> ELSE <<>>

writes(text, type, n, base, line) ==
  /\ arg = NoArg  \* bound: the calls are independent, one is followed
  /\ base # 0  \* base 0 writes the number as one byte
  /\ out' = sign(n, base) \o text \o newline(line)
  /\ ret' = Len(sign(n, base)) + Len(text) + Len(newline(line))
  /\ arg' = [type |-> type, n |-> n, base |-> base, line |-> line]

\* print() and println() of an int, a long and their unsigned kin.
printLong(n, base, line) == n < Long /\ writes(printNumber(unsigned(n, base), base), "long", n, base, line)

\* print() and println() of a long long; a negative one only in base 10.
printLongLong(n, base, line) ==
  /\ n >= 0 \/ base = 10
  /\ writes(printULLNumber(unsigned(n, base), base), "long long", n, base, line)

Next == \E n \in Number, base \in Base, line \in BOOLEAN : printLong(n, base, line) \/ printLongLong(n, base, line)
Spec == Init /\ [][Next]_vars

------------------------------------------------------------------------------
\* The value of a text, and whether it is written without leading zeros.
ValueIn(s, b) == LET v[i \in 0 .. Len(s)] == IF i = 0 THEN 0 ELSE v[i - 1] * b + s[i] IN v[Len(s)]
Plain(s) == Len(s) > 1 => s[1] # 0

\* What print() writes means the number in its base - its two's complement,
\* if it is negative and the base is not 10 - with no digit too many, also
\* where printULLNumber() puts it together from chunks of "16 bit math", and
\* fits into the buffer; the count is that of the characters.
TextIsNumber ==
  arg.type # "none" =>
    LET b == baseOf(arg.base)
        negative == out[1] = Minus
        last == Len(out) - IF arg.line THEN 2 ELSE 0
        text == SubSeq(out, IF negative THEN 2 ELSE 1, last)
        value == (IF negative THEN -1 ELSE 1) * ValueIn(text, b) IN
    /\ value = arg.n \/ (arg.n < 0 /\ arg.base # 10 /\ value = arg.n + Long)
    /\ Plain(text) /\ \A i \in DOMAIN text : text[i] \in 0 .. b - 1
    /\ Len(text) <= LongLongBits
    /\ ret = Len(out)
===============================================================================
