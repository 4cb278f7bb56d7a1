-------------------------------- MODULE Stream --------------------------------
(***************************************************************************)
(* The parsing methods of Stream.  A method takes one byte after another   *)
(* from the device, waits up to _timeout for each, and keeps what it has   *)
(* read only in its own variables: there is no way to put a byte back.     *)
(* Bytes may arrive, or fail to arrive in time, between any two of its     *)
(* steps.  A float is modelled as an exact decimal, m / 10^places.         *)
(***************************************************************************)
EXTENDS Integers, Sequences, FiniteSets, FiniteSetsExt

CONSTANTS Byte,      \* the bytes that the device sends
          Target,    \* the strings that the sketch looks for
          Length,    \* the sizes of its buffers
          Terminator,  \* the characters that end a field
          Ignore,    \* the characters that it has parseInt() leave out
          MaxBytes   \* bound: bytes that arrive

Numeral == <<"0", "1", "2", "3", "4", "5", "6", "7", "8", "9">>
Value == [c \in {Numeral[i] : i \in 1 .. 10} |-> (CHOOSE i \in 1 .. 10 : Numeral[i] = c) - 1]
IsDigit(c) == c \in DOMAIN Value
Space == {" "}
NoIgnore == "none"

\* What the constants have to be; the module of a run assumes it.
ConstantsOK ==
  /\ \A t \in Target : t \in Seq(Byte)
  /\ Length \subseteq Nat /\ MaxBytes \in Nat

VARIABLES ahead,    \* the bytes that have arrived and are not read yet
          arrived,  \* their number, and that of those read
          call,     \* the method that runs, or ran last, with its arguments
          pc,       \* where it is
          seen,     \* what it has taken from the device
          targets,  \* findMulti(): MultiTarget.index of each target
          text,     \* the readers: the buffer or String
          num,      \* parseInt(), parseFloat(): value, isNegative, isFraction
          ret       \* what it returned: m and places of a number, places 0 if it has none

vars == <<ahead, arrived, call, pc, seen, targets, text, num, ret>>

Finds == [op : {"find"}, strs : {<<t>> : t \in Target} \cup (Target \X Target)]
Parses == [op : {"parseInt", "parseFloat"}, lookahead : {"SKIP_ALL", "SKIP_NONE", "SKIP_WHITESPACE"},
           ignore : Ignore \cup {NoIgnore}]
\* stop: the characters that end the call; length: Unbounded for a String.
Unbounded == -1
Reads == [op : {"read"}, stop : {{}} \cup {{c} : c \in Terminator}, length : Length \cup {Unbounded}]
Calls == Finds \cup Parses \cup Reads

NoCall == [op |-> "none"]
None == <<0, 0>>  \* what parseInt() and parseFloat() return without a number
Zero == [m |-> 0, places |-> 0, isNegative |-> FALSE, isFraction |-> FALSE]

Init == /\ ahead = <<>> /\ arrived = 0
        /\ call = NoCall /\ pc = "idle" /\ seen = <<>>
        /\ targets = <<>> /\ text = <<>> /\ num = Zero /\ ret = None

Arrive(c) == /\ arrived < MaxBytes
             /\ arrived' = arrived + 1
             /\ ahead' = Append(ahead, c)
             /\ UNCHANGED <<call, pc, seen, targets, text, num, ret>>

------------------------------------------------------------------------------
(* find(), findUntil(): findMulti() with one or two targets.               *)

\* Mutant: the walk back does not compare the rest of the found string.
continuesUnchecked(str, index, c, i) == str[i + 1] = c

\* The longest shorter match that c continues: the walk back over the index.
continues(str, index, c, i) ==
  /\ str[i + 1] = c
  /\ \A k \in 1 .. i : str[k] = str[k + index - i]
walkBack(str, index, c) ==
  LET good == {i \in 0 .. index - 1 : continues(str, index, c, i)} IN
  IF good = {} THEN 0 ELSE Max(good) + 1
nextIndex(str, index, c) ==
  IF str[index + 1] = c THEN index + 1 ELSE walkBack(str, index, c)

empty(strs) == {t \in DOMAIN strs : strs[t] = <<>>}

found(t) == <<t - 1, 0>>  \* t - targets; -1 after a timeout
return(value) == pc' = "returned" /\ ret' = value

findMulti == /\ pc = "find" /\ ahead # <<>>
             /\ LET c == Head(ahead)
                    strs == call.strs
                    next == [t \in DOMAIN strs |-> nextIndex(strs[t], targets[t], c)]
                    hits == {t \in DOMAIN strs : next[t] = Len(strs[t])} IN
                /\ targets' = next
                /\ IF hits = {} THEN UNCHANGED <<pc, ret>> ELSE return(found(Min(hits)))
                /\ seen' = Append(seen, c)
             /\ ahead' = Tail(ahead)
             /\ UNCHANGED <<arrived, call, text, num>>

------------------------------------------------------------------------------
(* parseInt(), parseFloat().                                               *)

detectDecimal == call.op = "parseFloat"

\* The characters at which peekNextDigit() stops, and those it may discard.
starts(c) == IsDigit(c) \/ c = "-" \/ (detectDecimal /\ c = ".")
skips(c) == \/ call.lookahead = "SKIP_ALL"
            \/ call.lookahead = "SKIP_WHITESPACE" /\ c \in Space

peekNextDigit == /\ pc = "look" /\ ahead # <<>>
                 /\ LET c == Head(ahead) IN
                    \/ starts(c) /\ pc' = "number" /\ UNCHANGED <<ahead, seen, ret>>
                    \/ /\ ~starts(c) /\ skips(c)
                       /\ ahead' = Tail(ahead) /\ seen' = Append(seen, c)
                       /\ UNCHANGED <<pc, ret>>
                    \/ ~starts(c) /\ ~skips(c) /\ return(None) /\ UNCHANGED <<ahead, seen>>
                 /\ UNCHANGED <<arrived, call, targets, text, num>>

\* Mutant: digits after the point count as digits before it.
takenWhole(n, c) ==
  IF c = call.ignore THEN n
  ELSE IF c = "-" THEN [n EXCEPT !.isNegative = TRUE]
  ELSE IF c = "." THEN [n EXCEPT !.isFraction = TRUE]
  ELSE [n EXCEPT !.m = @ * 10 + Value[c]]

taken(n, c) ==
  IF c = call.ignore THEN n
  ELSE IF c = "-" THEN [n EXCEPT !.isNegative = TRUE]
  ELSE IF c = "." THEN [n EXCEPT !.isFraction = TRUE]
  ELSE [n EXCEPT !.m = @ * 10 + Value[c], !.places = IF n.isFraction THEN @ + 1 ELSE @]

signed(n) == <<IF n.isNegative THEN -n.m ELSE n.m, n.places>>

\* read() takes the character that was peeked.
digit == /\ pc = "number" /\ ahead # <<>>
         /\ LET c == Head(ahead) IN num' = taken(num, c) /\ seen' = Append(seen, c)
         /\ ahead' = Tail(ahead)
         /\ pc' = "next"
         /\ UNCHANGED <<arrived, call, targets, text, ret>>

\* timedPeek() and the condition of the loop.
goesOn(c) == IsDigit(c) \/ c = call.ignore \/ (detectDecimal /\ c = "." /\ ~num.isFraction)
nextDigit == /\ pc = "next" /\ ahead # <<>>
             /\ IF goesOn(Head(ahead)) THEN pc' = "number" /\ UNCHANGED ret ELSE return(signed(num))
             /\ UNCHANGED <<ahead, arrived, call, seen, targets, text, num>>

------------------------------------------------------------------------------
(* readBytes(), readBytesUntil(), readString(), readStringUntil().         *)

count == <<Len(text), 0>>
\* Mutant: one byte too many.
fullLate == call.length # Unbounded /\ Len(text) > call.length

full == call.length # Unbounded /\ Len(text) >= call.length
keeps(c) == c \notin call.stop

readFull == /\ pc = "read" /\ full /\ return(count)
            /\ UNCHANGED <<ahead, arrived, call, seen, targets, text, num>>

readByte == /\ pc = "read" /\ ~full /\ ahead # <<>>
            /\ LET c == Head(ahead) IN
               /\ seen' = Append(seen, c)
               /\ IF keeps(c) THEN text' = Append(text, c) /\ UNCHANGED <<pc, ret>>
                  ELSE return(count) /\ UNCHANGED text
            /\ ahead' = Tail(ahead)
            /\ UNCHANGED <<arrived, call, targets, num>>

------------------------------------------------------------------------------
begin(c) == /\ pc \in {"idle", "returned"}
            /\ call' = c /\ seen' = <<>> /\ text' = <<>> /\ num' = Zero
            /\ targets' = IF c.op = "find" THEN [t \in DOMAIN c.strs |-> 0] ELSE <<>>
            /\ IF c.op = "find" /\ empty(c.strs) # {} THEN return(found(Min(empty(c.strs))))
               ELSE /\ pc' = CASE c.op = "find" -> "find" [] c.op = "read" -> "read" [] OTHER -> "look"
                    /\ ret' = None
            /\ UNCHANGED <<ahead, arrived>>

\* timedRead(), timedPeek() return -1: nothing came for _timeout.
atTimeout == CASE pc = "find" -> found(0)
               [] pc = "read" -> count
               [] pc = "look" -> None
               [] pc = "next" -> signed(num)
timedOut == /\ pc \in {"find", "look", "next", "read"} /\ ahead = <<>> /\ ~(pc = "read" /\ full)
            /\ return(atTimeout)
            /\ UNCHANGED <<ahead, arrived, call, seen, targets, text, num>>

Step == findMulti \/ peekNextDigit \/ digit \/ nextDigit \/ readFull \/ readByte \/ timedOut
Next == Step \/ (\E c \in Byte : Arrive(c)) \/ (\E c \in Calls : begin(c))

Spec == Init /\ [][Next]_vars

------------------------------------------------------------------------------
EndsWith(s, t) == Len(t) <= Len(s) /\ SubSeq(s, Len(s) - Len(t) + 1, Len(s)) = t
Prefix(s, n) == SubSeq(s, 1, n)

\* The length of the longest proper beginning of str that s ends with.
Matched(s, str) == Max({n \in 0 .. Len(str) - 1 : EndsWith(s, Prefix(str, n))})

\* find() and findUntil() stop at the first place where the bytes they took
\* end with a target, which is the one they name, never after it and never
\* without it; until then each index is the longest match still possible,
\* however the target overlaps itself ("1112" in "11112").
FindIsExact ==
  call.op = "find" =>
    LET strs == call.strs
        ends(n) == {t \in DOMAIN strs : EndsWith(Prefix(seen, n), strs[t])} IN
    /\ \A n \in 0 .. Len(seen) - 1 : ends(n) = {}
    /\ pc = "find" => /\ ends(Len(seen)) = {}
                      /\ \A t \in DOMAIN strs : targets[t] = Matched(seen, strs[t])
    /\ pc = "returned" =>
         IF ret[1] = -1 THEN ends(Len(seen)) = {} ELSE ret[1] + 1 = Min(ends(Len(seen)))

\* The number that the digits at some places of s stand for.
ValueOf(s, places) ==
  LET v[i \in 0 .. Len(s)] == IF i = 0 THEN 0 ELSE IF i \in places THEN v[i - 1] * 10 + Value[s[i]] ELSE v[i - 1]
  IN v[Len(s)]

\* The places in seen where a number may begin, those of the number that does
\* and of what was skipped before it, and of its characters by kind.
Begins == {i \in DOMAIN seen : starts(seen[i])}
Figures == {i \in DOMAIN seen : \E b \in Begins : b <= i}
Skipped == DOMAIN seen \ Figures
Plain == {i \in Figures : seen[i] # call.ignore}
Digits == {i \in Plain : IsDigit(seen[i])}
Decimals == {i \in Digits : \E p \in Plain : p < i /\ seen[p] = "."}
Signs == {i \in Plain : seen[i] = "-"}

\* parseInt() and parseFloat() return the value of exactly the characters
\* they took after what the lookahead mode lets them skip - also when the
\* device falls silent inside the number - and SKIP_NONE leaves the stream
\* untouched when the first waiting character cannot begin a number.
ParseIsExact ==
  call.op \in {"parseInt", "parseFloat"} /\ pc = "returned" =>
    /\ call.lookahead = "SKIP_NONE" => Skipped = {}
    /\ call.lookahead = "SKIP_WHITESPACE" => \A i \in Skipped : seen[i] \in Space
    /\ \A i \in Signs, j \in Plain : i <= j
    /\ ret = IF Begins = {} THEN None
             ELSE <<(IF Signs = {} THEN 1 ELSE -1) * ValueOf(seen, Digits), Cardinality(Decimals)>>

\* A reader returns the bytes it took, in their order, without the one that
\* ended it; it never takes a byte that it has no room for, and leaves the
\* terminator of a field that filled the buffer in the stream.
ReadIsExact ==
  call.op = "read" =>
    /\ call.length # Unbounded => Len(seen) <= call.length
    /\ seen = text \/ \E c \in call.stop : seen = Append(text, c)
    /\ \A i \in DOMAIN text : text[i] \notin call.stop
    /\ pc = "returned" => ret = count
===============================================================================
