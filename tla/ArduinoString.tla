----------------------------- MODULE ArduinoString -----------------------------
(***************************************************************************)
(* The String class: a buffer of capacity + 1 characters in the heap, NULL *)
(* if there was no memory, that always holds a terminated C string.  Calls *)
(* that need memory may not get it.  Offsets count from 0, as in the code; *)
(* the character at offset i is buf[i + 1].                                *)
(***************************************************************************)
EXTENDS Integers, Sequences, FiniteSetsExt

CONSTANTS Text,   \* the texts that the sketch passes to a String
          Made,   \* bound: the texts of which a second String is made
          MaxLen  \* bound: the length of the String

NUL == "0"
Junk == "?"  \* memory that nothing was written to
Null == [buf |-> <<>>, len |-> 0, cap |-> 0]

\* What the constants have to be; the module of a run assumes it.
ConstantsOK ==
  /\ \A t \in Text : t \in Seq(STRING) /\ \A i \in DOMAIN t : t[i] # NUL
  /\ MaxLen \in Nat

VARIABLES s,     \* the String whose methods are called
          other  \* a second String: what is assigned to s, or moved into it

vars == <<s, other>>

------------------------------------------------------------------------------
(* The C library.                                                          *)

\* A write past the end of the buffer makes it longer than its capacity says.
memcpy(buf, at, text) ==
  [i \in 1 .. Max({Len(buf), at + Len(text)}) |->
     IF i - 1 \in at .. at + Len(text) - 1 THEN text[i - at]
     ELSE IF i <= Len(buf) THEN buf[i] ELSE Junk]
terminate(buf, at) == memcpy(buf, at, <<NUL>>)

strlen(buf, from) == Min({i \in from .. Len(buf) - 1 : buf[i + 1] = NUL}) - from

strstr(buf, from, pattern) ==
  LET end == from + strlen(buf, from)
      at == {i \in from .. end - Len(pattern) : SubSeq(buf, i + 1, i + Len(pattern)) = pattern} IN
  IF at = {} THEN -1 ELSE Min(at)

tolower(c) == IF c = "A" THEN "a" ELSE c
toupper(c) == IF c = "a" THEN "A" ELSE c
isspace(c) == c = " "

\* A loop: n rounds of F, from x.
iterate(F(_), x, n) == LET after[k \in Nat] == IF k = 0 THEN x ELSE F(after[k - 1]) IN after[n]

------------------------------------------------------------------------------
(* Memory.                                                                 *)

changeBuffer(x, n) ==
  [x EXCEPT !.buf = [i \in 1 .. n + 1 |-> IF i <= Len(x.buf) THEN x.buf[i] ELSE Junk], !.cap = n]

\* reserve(n) asks for memory, and may get none.
asks(x, n) == x.buf = <<>> \/ x.cap < n
reserve(x, n) ==
  IF ~asks(x, n) THEN x
  ELSE IF x.len > 0 THEN changeBuffer(x, n)
  ELSE [changeBuffer(x, n) EXCEPT !.buf = terminate(@, 0)]

\* operator=, constructors and substring(): without memory the String is NULL.
copy(x, text, ok) ==
  IF asks(x, Len(text)) /\ ~ok THEN Null
  ELSE LET r == reserve(x, Len(text)) IN
       [r EXCEPT !.len = Len(text), !.buf = terminate(memcpy(@, 0, text), Len(text))]

\* What a String holds.
Value(x) == SubSeq(x.buf, 1, x.len)

\* An argument that is a String, made from t: it may have got no memory.
argument(t, got) == copy(Null, t, got)

\* concat() of the String a: it fails if a has no buffer, or without memory.
concatFails(x, a, ok) == a.buf = <<>> \/ (a.len > 0 /\ asks(x, x.len + a.len) /\ ~ok)

\* The String then stays as it was,
concat(x, a, ok) ==
  IF concatFails(x, a, ok) \/ a.len = 0 THEN x
  ELSE LET n == x.len + a.len
           r == reserve(x, n) IN
       [r EXCEPT !.len = n, !.buf = terminate(memcpy(@, x.len, Value(a)), n)]

\* and the sum of operator + is NULL.
sum(x, a, ok) == IF concatFails(x, a, ok) THEN Null ELSE concat(x, a, ok)

\* concat(*this): when reserve() moves the buffer the source is the freed one, which
\* is as it was or written over.
doubled(x, ok, kept) ==
  IF asks(x, 2 * x.len) /\ ok /\ ~kept
  THEN concat(x, argument([i \in 1 .. x.len |-> Junk], TRUE), ok)
  ELSE concat(x, x, ok)

------------------------------------------------------------------------------
(* Searches.                                                               *)

\* mutant: a search may begin at the end
indexOfAtEnd(x, a, from) == IF from > x.len \/ x.buf = <<>> THEN -1 ELSE strstr(x.buf, from, Value(a))

\* Without a buffer of a, strstr() reads at NULL: the result is not followed.
indexOf(x, a, from) == IF from >= x.len THEN -1 ELSE strstr(x.buf, from, Value(a))

\* From left to right, as far as from; p is where the search goes on.
foundNext(x, t, from, q) ==
  LET at == strstr(x.buf, q.p, t) IN
  IF q.p > from \/ at < 0 THEN q
  ELSE [p |-> at + 1, found |-> IF at <= from THEN at ELSE q.found]
lastFound(x, t, from) ==
  iterate(LAMBDA q : foundNext(x, t, from, q), [p |-> 0, found |-> -1], x.len).found

\* Here, in the comparisons and in replace(), an argument without a buffer is the
\* empty text: its length is 0.
lastIndexOf(x, t, from) ==
  IF t = <<>> \/ x.len = 0 \/ Len(t) > x.len THEN -1
  ELSE lastFound(x, t, IF from >= x.len THEN x.len - 1 ELSE from)

\* len - s2.len is unsigned and wraps: a longer text passes the test, and the comparison
\* then meets the end of the string.
startsWith(x, a, offset) ==
  /\ x.len < a.len \/ offset <= x.len - a.len
  /\ x.buf # <<>> /\ a.buf # <<>>
  /\ offset + a.len <= Len(x.buf) /\ SubSeq(x.buf, offset + 1, offset + a.len) = Value(a)

endsWith(x, a) ==
  /\ x.len >= a.len /\ x.buf # <<>> /\ a.buf # <<>>
  /\ LET from == x.len - a.len IN SubSeq(x.buf, from + 1, from + strlen(x.buf, from)) = Value(a)

equals(x, t) ==
  x.len = Len(t) /\ (x.buf # <<>> => SubSeq(x.buf, 1, strlen(x.buf, 0)) = t)

equalsIgnoreCase(x, t) ==
  /\ x.len = Len(t)
  /\ x.len > 0 => \A i \in 1 .. strlen(x.buf, 0) : tolower(x.buf[i]) = tolower(t[i])

------------------------------------------------------------------------------
(* Changes.                                                                *)

\* What was found from left to right: the size of the result rests on it.
countNext(x, find, q) ==
  LET at == strstr(x.buf, q.from, find) IN
  IF at < 0 THEN q ELSE [from |-> at + Len(find), count |-> q.count + 1]
occurrences(x, find) == iterate(LAMBDA q : countNext(x, find, q), [from |-> 0, count |-> 0], x.len).count

overwriteNext(find, with, q) ==
  LET at == strstr(q.buf, q.from, find) IN
  IF at < 0 THEN q ELSE [buf |-> memcpy(q.buf, at, with), from |-> at + Len(with)]
overwrite(x, find, with) ==
  iterate(LAMBDA q : overwriteNext(find, with, q), [buf |-> x.buf, from |-> 0], x.len).buf

\* mutant: the tail is moved without its last character
movedShort(x, at, find, with) ==
  LET tail == SubSeq(x.buf, at + Len(find) + 1, x.len - 1)
      n == x.len + Len(with) - Len(find) IN
  [x EXCEPT !.len = n,
            !.buf = memcpy(terminate(memcpy(@, at + Len(with), tail), n), at, with)]

\* One replacement: the tail is moved, then the text is put in its place.
moved(x, at, find, with) ==
  LET tail == SubSeq(x.buf, at + Len(find) + 1, x.len)
      n == x.len + Len(with) - Len(find) IN
  [x EXCEPT !.len = n,
            !.buf = memcpy(terminate(memcpy(@, at + Len(with), tail), n), at, with)]

\* From right to left, in the text as it has become.
replaceNext(find, with, q) ==
  LET at == IF q.index < 0 THEN -1 ELSE lastIndexOf(q.x, find, q.index) IN
  IF at < 0 THEN q ELSE [x |-> moved(q.x, at, find, with), index |-> at - 1]
fromRight(x, find, with) ==
  iterate(LAMBDA q : replaceNext(find, with, q), [x |-> x, index |-> x.len - 1], x.len).x

replaced(x, find, with, ok) ==
  LET diff == Len(with) - Len(find)
      count == occurrences(x, find)
      size == x.len + count * diff IN
  IF x.len = 0 \/ find = <<>> THEN x
  ELSE IF diff = 0 THEN [x EXCEPT !.buf = overwrite(x, find, with)]
  ELSE IF count = 0 \/ (size > x.cap /\ ~ok) THEN x
  ELSE fromRight(IF size > x.cap THEN changeBuffer(x, size) ELSE x, find, with)

removed(x, index, count) ==
  LET c == Min({count, x.len - index})
      tail == SubSeq(x.buf, index + c + 1, x.len) IN
  IF index >= x.len \/ count = 0 THEN x
  ELSE [x EXCEPT !.len = x.len - c, !.buf = terminate(memcpy(@, index, tail), x.len - c)]

\* mutant: the end of the old text stays
trimmedOpen(x) ==
  LET begin == Min({i \in 0 .. Len(x.buf) - 1 : ~isspace(x.buf[i + 1])})
      ends == {i \in begin .. x.len - 1 : ~isspace(x.buf[i + 1])}
      end == IF ends = {} THEN begin - 1 ELSE Max(ends) IN
  IF x.len = 0 THEN x
  ELSE [x EXCEPT !.len = end + 1 - begin,
                 !.buf = memcpy(@, 0, SubSeq(x.buf, begin + 1, end + 1))]

trimmed(x) ==
  LET begin == Min({i \in 0 .. Len(x.buf) - 1 : ~isspace(x.buf[i + 1])})
      ends == {i \in begin .. x.len - 1 : ~isspace(x.buf[i + 1])}
      end == IF ends = {} THEN begin - 1 ELSE Max(ends) IN
  IF x.len = 0 THEN x
  ELSE [x EXCEPT !.len = end + 1 - begin,
                 !.buf = terminate(memcpy(@, 0, SubSeq(x.buf, begin + 1, end + 1)), end + 1 - begin)]

eachChar(x, F(_)) ==
  IF x.buf = <<>> THEN x
  ELSE [x EXCEPT !.buf = [i \in DOMAIN x.buf |-> IF i <= strlen(x.buf, 0) THEN F(x.buf[i]) ELSE x.buf[i]]]

\* `String out;` is the empty text, if it gets memory.
substring(x, left, right, made, ok) ==
  LET l == Min({left, right})
      r == Min({Max({left, right}), x.len})
      out == argument(<<>>, made) IN
  IF l >= x.len THEN out ELSE copy(out, SubSeq(x.buf, l + 1, r), ok)

------------------------------------------------------------------------------
(* The calls.                                                              *)

Init == s = Null /\ other = Null

\* bound: after a write past the end of its buffer a String is not followed
fits(x) == Len(x.buf) = IF x.buf = <<>> THEN 0 ELSE x.cap + 1
Call == fits(s)

\* bound: the second String is made, used and then left
construct(t, ok) == t \in Made /\ Call /\ other.buf = <<>> /\ other' = copy(Null, t, ok) /\ UNCHANGED s

assign(t, ok) == Call /\ s' = copy(s, t, ok) /\ UNCHANGED other
assignOther(ok) ==
  /\ Call /\ s' = (IF other.buf = <<>> THEN Null ELSE copy(s, Value(other), ok))
  /\ UNCHANGED other

move == Call /\ s' = other /\ other' = Null
destroy == Call /\ other.buf # <<>> /\ other' = Null /\ UNCHANGED s

append(a, ok) == Call /\ s.len + a.len <= MaxLen /\ s' = concat(s, a, ok) /\ UNCHANGED other
plus(a, ok) == Call /\ s.len + a.len <= MaxLen /\ s' = sum(s, a, ok) /\ UNCHANGED other

appendSelf(ok, kept) ==
  Call /\ s.len > 0 /\ 2 * s.len <= MaxLen /\ s' = doubled(s, ok, kept) /\ UNCHANGED other

setCharAt(i, c) ==
  /\ Call /\ UNCHANGED other
  /\ s' = IF i < s.len THEN [s EXCEPT !.buf[i + 1] = c] ELSE s

replaceChar(c, d) ==
  Call /\ s' = eachChar(s, LAMBDA x : IF x = c THEN d ELSE x) /\ UNCHANGED other

replace(find, with, ok) ==
  /\ Call /\ find # <<>> /\ s.len > 0
  /\ s.len + occurrences(s, find) * (Len(with) - Len(find)) <= MaxLen
  /\ s' = replaced(s, find, with, ok) /\ UNCHANGED other

remove(i, n) == Call /\ s' = removed(s, i, n) /\ UNCHANGED other
trim == Call /\ s' = trimmed(s) /\ UNCHANGED other
toLowerCase == Call /\ s' = eachChar(s, tolower) /\ UNCHANGED other
toUpperCase == Call /\ s' = eachChar(s, toupper) /\ UNCHANGED other
\* s = s.substring(l, r)
takeSubstring(l, r, made, ok) == Call /\ s' = substring(s, l, r, made, ok) /\ UNCHANGED other

Next ==
  \/ move \/ destroy \/ trim \/ toLowerCase \/ toUpperCase
  \/ \E c, d \in {"a", " "} : replaceChar(c, d)
  \/ \E i \in 0 .. MaxLen : \/ \E c \in {"a", " "} : setCharAt(i, c)
                            \/ \E n \in 0 .. MaxLen : remove(i, n)
  \/ \E ok \in BOOLEAN :
       \/ assignOther(ok)
       \/ \E t \in Text : construct(t, ok) \/ assign(t, ok)
       \/ \E f, w \in Text : replace(f, w, ok)
       \/ \E got \in BOOLEAN :
            \/ appendSelf(ok, got)
            \/ \E t \in Text : append(argument(t, got), ok) \/ plus(argument(t, got), ok)
            \/ \E l, r \in 0 .. MaxLen : takeSubstring(l, r, got, ok)

Spec == Init /\ [][Next]_vars

------------------------------------------------------------------------------
(* What the methods mean for the text they are called on.                  *)

occursAt(v, t, i) == i >= 0 /\ i + Len(t) <= Len(v) /\ SubSeq(v, i + 1, i + Len(t)) = t
places(v, t) == {i \in 0 .. Len(v) : occursAt(v, t, i)}

\* v with w for every f, from the left; from[i] is what becomes of the text from
\* place i.
substitute(v, f, w) ==
  LET from[i \in 1 .. Len(v) + 1] ==
        IF i > Len(v) THEN <<>>
        ELSE IF occursAt(v, f, i - 1) THEN w \o from[i + Len(f)] ELSE <<v[i]>> \o from[i + 1]
  IN from[1]

\* The end q of f that starts with c, with what may stand after it.
meets(q, c) == SubSeq(q, 1, Min({Len(q), Len(c)})) = SubSeq(c, 1, Min({Len(q), Len(c)}))
ends(f) == {SubSeq(f, k + 1, Len(f)) : k \in 1 .. Len(f) - 1}
\* A text put in may complete a find that begins before it,
cascades(f, w) == Len(f) # Len(w) /\ \E q \in ends(f) : meets(q, w)
\* and two finds may overlap.
overlaps(f) == \E q \in ends(f) : occursAt(f, q, 0)

\* Every search and comparison says of the buffer what it says of the text, and
\* startsWith() and endsWith() say no if there is no buffer to look in or for.
\* Excepted is indexOf() of a String without one.
SearchesAgree ==
  fits(s) =>
    \A t \in Text, got \in BOOLEAN, from \in 0 .. s.len :
      LET v == Value(s)
          a == argument(t, got)
          both == s.buf # <<>> /\ a.buf # <<>>
          first == {i \in places(v, t) : i >= from}
          last == {i \in places(v, t) : i <= from} IN
      /\ a.buf # <<>> => indexOf(s, a, from) = IF from = s.len \/ first = {} THEN -1 ELSE Min(first)
      /\ t # <<>> => lastIndexOf(s, t, from) = IF last = {} THEN -1 ELSE Max(last)
      /\ startsWith(s, a, from) <=> both /\ from \in places(v, t)
      /\ endsWith(s, a) <=> both /\ s.len - Len(t) \in places(v, t)
      /\ equals(s, t) <=> v = t
      /\ equalsIgnoreCase(s, t) <=> Len(t) = s.len /\ \A i \in DOMAIN t : tolower(t[i]) = tolower(v[i])

\* In every state that calls lead to, assignment, +=, +, replace(), remove(),
\* substring() and trim() give the text they should; without memory, for the String
\* or for its argument, the old text or none.  Excepted are replace() of a text that
\* overlaps itself, or that the new text completes (the code looks for it again in
\* what it has just written), and s += s when the buffer has to grow and moves (the
\* code copies from the freed one).
EditsAgree ==
  LET v == Value(s) IN
  fits(s) =>
    /\ \A t \in Text, ok \in BOOLEAN :
         /\ Value(copy(s, t, ok)) \in {t} \cup (IF ok THEN {} ELSE {<<>>})
         /\ \A got \in BOOLEAN : LET a == argument(t, got) IN
              /\ Value(concat(s, a, ok)) \in {v \o t} \cup (IF got /\ ok THEN {} ELSE {v})
              /\ Value(sum(s, a, ok)) \in {v \o t} \cup (IF got /\ ok THEN {} ELSE {<<>>})
    /\ \A kept \in BOOLEAN : kept \/ ~asks(s, 2 * s.len) => Value(doubled(s, TRUE, kept)) = v \o v
    /\ \A f, w \in Text, ok \in BOOLEAN :
         f # <<>> /\ ~cascades(f, w) /\ ~overlaps(f) =>
           Value(replaced(s, f, w, ok)) \in {substitute(v, f, w)} \cup (IF ok THEN {} ELSE {v})
    /\ \A i, n \in 0 .. MaxLen :
         /\ Value(removed(s, i, n)) = SubSeq(v, 1, Min({i, Len(v)})) \o SubSeq(v, i + n + 1, Len(v))
         /\ i <= n =>
              LET t == SubSeq(v, i + 1, Min({n, Len(v)})) IN
              \A made, ok \in BOOLEAN :
                Value(substring(s, i, n, made, ok)) \in {t} \cup (IF ok THEN {} ELSE {<<>>})
    /\ LET t == Value(trimmed(s)) IN
         /\ t # <<>> => ~isspace(t[1]) /\ ~isspace(t[Len(t)])
         /\ \E i, j \in 0 .. Len(v) :
              /\ t = SubSeq(v, i + 1, j)
              /\ \A k \in DOMAIN v : k \in i + 1 .. j \/ isspace(v[k])

\* The text ends where len says, with the only NUL of the buffer before it,
\* and within the capacity; only a replace() that finds what it has written
\* leaves the buffer.
Terminated ==
  /\ fits(s) /\ s.buf # <<>> => strlen(s.buf, 0) = s.len
  /\ \A f, w \in Text :
       fits(s) /\ ~cascades(f, w) => fits(replaced(s, f, w, TRUE))

\* replace() reserves what its result needs.
ReplaceFits == fits(s)
================================================================================
