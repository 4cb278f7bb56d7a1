-------------------------- MODULE PubSubClientProofs --------------------------
(***************************************************************************)
(* For every keepalive interval, every bound on the time between two calls *)
(* of loop() and every traffic: a connection on which either side has      *)
(* fallen silent is not kept.  For every base and every length: the        *)
(* packets on the wire are the ones that were sent, in both directions.    *)
(***************************************************************************)
EXTENDS Mqtt, Integers, Sequences, Recursion, TLAPS

------------------------------------------------------------------------------
(* The digits of a length.                                                 *)

\* The base is at least 2.
LEMMA BaseOK == Base \in Nat /\ Base > 1
BY MqttAssumption DEF W!ConstantsOK

\* Quotient and remainder.
LEMMA Division ==
  ASSUME NEW a \in Nat
  PROVE  /\ a \div Base \in Nat /\ a % Base \in 0 .. Base - 1
         /\ a = Base * (a \div Base) + (a % Base)
BY BaseOK

\* The quotient is smaller than the number.
LEMMA DivisionSmaller ==
  ASSUME NEW a \in Nat, a > 0
  PROVE  a \div Base < a
<1> DEFINE q == a \div Base
<1>1. q \in Nat /\ a >= Base * q
  BY Division, BaseOK
<1> HIDE DEF q
<1>2. Base * q >= 2 * q
  BY <1>1, BaseOK
<1>3. Base * q \in Nat
  BY <1>1, BaseOK
<1>4. q < a
  BY <1>1, <1>2, <1>3
<1> QED
  BY <1>4 DEF q

\* The quotients of n by the powers of Base.
Parts(n) == CHOOSE f : f = [k \in 0 .. n |-> IF k = 0 THEN n ELSE f[k - 1] \div Base]

\* The recursive definition defines them.
LEMMA PartsStep ==
  ASSUME NEW n \in Nat
  PROVE  /\ Parts(n) \in [0 .. n -> Nat] /\ Parts(n)[0] = n
         /\ \A k \in 1 .. n : Parts(n)[k] = Parts(n)[k - 1] \div Base
<1> DEFINE G == [d \in (1 .. n) \X Nat |-> d[2] \div Base]
           Q(f) == [k \in 0 .. n |-> IF k = 0 THEN n ELSE f[k - 1] \div Base]
<1>1. \A k \in 1 .. n : \A x \in Nat : G[<<k, x>>] = x \div Base /\ x \div Base \in Nat
  BY Division
<1>2. Stays(G, Nat, n)
  BY <1>1 DEF Stays
<1> HIDE DEF G
<1>3. PICK f \in [0 .. n -> Nat] : Follows(f, n, G, n)
  BY <1>2, StepsExist
<1>4. f[0] = n /\ \A k \in 1 .. n : f[k] = f[k - 1] \div Base
  <2>1. \A k \in 1 .. n : f[k - 1] \in Nat
    BY <1>3
  <2> QED BY <1>1, <1>3, <2>1 DEF Follows
<1>5. f = Q(f)
  <2>1. \A k \in 0 .. n : f[k] = IF k = 0 THEN n ELSE f[k - 1] \div Base
    BY <1>4
  <2> QED BY <1>3, <2>1
<1>6. Parts(n) = CHOOSE g : g = Q(g)
  BY DEF Parts
<1> HIDE DEF Q
<1>7. Parts(n) = Q(Parts(n))
  BY <1>5, <1>6
<1> DEFINE p == Parts(n)
<1> HIDE DEF p
<1>8. p = Q(p)
  BY <1>7 DEF p
<1>9. \A k \in 0 .. n : p[k] = IF k = 0 THEN n ELSE p[k - 1] \div Base
  <2>1. \A k \in 0 .. n : Q(p)[k] = IF k = 0 THEN n ELSE p[k - 1] \div Base
    BY DEF Q
  <2> QED BY <1>8, <2>1
<1>10. DOMAIN p = 0 .. n /\ p = [k \in 0 .. n |-> p[k]]
  BY <1>8 DEF Q
<1> DEFINE T == {k \in Nat : k <= n => p[k] \in Nat}
<1>11. \A k \in Nat : k \in T
  <2>1. 0 \in T
    BY <1>9
  <2>2. ASSUME NEW k \in Nat, k \in T PROVE k + 1 \in T
    <3> SUFFICES ASSUME k + 1 <= n PROVE p[k + 1] \in Nat
      OBVIOUS
    <3>1. k + 1 \in 0 .. n /\ k + 1 # 0 /\ (k + 1) - 1 = k /\ p[k] \in Nat
      BY <2>2
    <3> QED BY <3>1, <1>9, Division
  <2> HIDE DEF T
  <2> QED BY <2>1, <2>2, Induction
<1>12. p \in [0 .. n -> Nat]
  BY <1>10, <1>11
<1>13. p[0] = n /\ \A k \in 1 .. n : p[k] = p[k - 1] \div Base
  <2>1. \A k \in 1 .. n : k \in 0 .. n /\ k # 0
    OBVIOUS
  <2> QED BY <1>9, <2>1
<1> QED
  BY <1>12, <1>13 DEF p

\* Sooner or later a quotient is a digit.
LEMMA PartsEnd ==
  ASSUME NEW n \in Nat
  PROVE  \E l \in 0 .. n : Parts(n)[l] < Base /\ \A k \in 0 .. n : Parts(n)[k] < Base => l <= k
<1> DEFINE p == Parts(n)
<1> HIDE DEF p
<1>0. p \in [0 .. n -> Nat] /\ p[0] = n /\ \A k \in 1 .. n : p[k] = p[k - 1] \div Base
  BY PartsStep DEF p
<1> DEFINE T == {k \in Nat : k <= n => p[k] <= n - k}
<1>1. \A k \in Nat : k \in T
  <2>1. 0 \in T
    BY <1>0
  <2>2. ASSUME NEW k \in Nat, k \in T PROVE k + 1 \in T
    <3> SUFFICES ASSUME k + 1 <= n PROVE p[k + 1] <= n - (k + 1)
      OBVIOUS
    <3>1. k + 1 \in 1 .. n /\ (k + 1) - 1 = k /\ p[k] \in Nat /\ p[k] <= n - k
      BY <2>2, <1>0
    <3>2. p[k + 1] = p[k] \div Base
      BY <3>1, <1>0
    <3>3. CASE p[k] > 0
      <4>1. p[k + 1] < p[k] /\ p[k + 1] \in Nat
        BY <3>1, <3>2, <3>3, DivisionSmaller, Division
      <4> QED BY <4>1, <3>1
    <3>4. CASE p[k] = 0
      <4>1. p[k + 1] = 0
        BY <3>2, <3>4, BaseOK
      <4> QED BY <4>1, <3>1
    <3> QED BY <3>1, <3>3, <3>4
  <2> HIDE DEF T
  <2> QED BY <2>1, <2>2, Induction
<1> DEFINE D == {k \in 0 .. n : p[k] < Base}
<1>2. n \in D
  BY <1>0, <1>1, BaseOK
<1>3. PICK l \in D : \A k \in D : l <= k
  <2>1. D \in SUBSET Nat /\ D # {}
    BY <1>2
  <2> HIDE DEF D
  <2> QED BY <2>1, LeastNumber
<1> QED
  BY <1>3 DEF p

\* v are the L digits of n, the lowest first, all but the last marked; q what
\* is left of n.
Spelled(v, L, n, q) ==
  /\ L \in Nat \ {0} /\ v \in [1 .. L -> Nat] /\ q \in [0 .. L - 1 -> Nat] /\ q[0] = n
  /\ \A k \in 1 .. L - 1 : q[k - 1] >= Base /\ q[k] = q[k - 1] \div Base /\ v[k] = (q[k - 1] % Base) + Base
  /\ v[L] = q[L - 1] /\ q[L - 1] < Base

\* The least element, which Min chooses, is the only one.
LEMMA MinIs ==
  ASSUME NEW D \in SUBSET Nat, NEW l \in D, \A k \in D : l <= k
  PROVE  W!Min(D) = l /\ R!Min(D) = l
<1>1. \A x \in D : (\A y \in D : x <= y) => x = l
  OBVIOUS
<1>2. (CHOOSE x \in D : \A y \in D : x <= y) = l
  BY <1>1
<1> QED
  BY <1>2 DEF W!Min, R!Min

\* The digits as either module has them.
Digits(n, l) == [k \in 1 .. l + 1 |-> IF k <= l THEN (Parts(n)[k - 1] % Base) + Base ELSE Parts(n)[k - 1]]

\* The digits of either module spell the number.
LEMMA DigitsSpell ==
  ASSUME NEW n \in Nat
  PROVE  \E L \in Nat : \E v, q :
           /\ Spelled(v, L, n, q) /\ R!digits(n) = v
           /\ W!digits(n) = [k \in 1 .. L |-> <<"len", v[k]>>]
<1>1. PICK l \in 0 .. n : Parts(n)[l] < Base /\ \A k \in 0 .. n : Parts(n)[k] < Base => l <= k
  BY PartsEnd
<1>2. /\ Parts(n) \in [0 .. n -> Nat] /\ Parts(n)[0] = n
      /\ \A k \in 1 .. n : Parts(n)[k] = Parts(n)[k - 1] \div Base
  BY PartsStep
<1> DEFINE D == {k \in 0 .. n : Parts(n)[k] < Base}
<1>3. W!Min(D) = l /\ R!Min(D) = l
  <2>1. D \in SUBSET Nat /\ l \in D /\ \A k \in D : l <= k
    BY <1>1
  <2> HIDE DEF D
  <2> QED BY <2>1, MinIs
<1>4. R!digits(n) = Digits(n, l)
  <2>1. R!digits(n) = Digits(n, R!Min(D))
    BY DEF R!digits, Digits, Parts
  <2> HIDE DEF D
  <2> QED BY <2>1, <1>3
<1>5. W!digits(n) = [k \in 1 .. l + 1 |-> <<"len", IF k <= l THEN (Parts(n)[k - 1] % Base) + Base ELSE Parts(n)[k - 1]>>]
  <2> DEFINE F(m) == [k \in 1 .. m + 1 |-> <<"len", IF k <= m THEN (Parts(n)[k - 1] % Base) + Base ELSE Parts(n)[k - 1]>>]
  <2>1. W!digits(n) = F(W!Min(D))
    BY DEF W!digits, Parts
  <2> HIDE DEF D, F
  <2>2. W!digits(n) = F(l)
    BY <2>1, <1>3
  <2> QED BY <2>2 DEF F
<1> DEFINE v == Digits(n, l)
           q == [k \in 0 .. l |-> Parts(n)[k]]
<1>6. \A k \in 1 .. l + 1 : v[k] = IF k <= l THEN (Parts(n)[k - 1] % Base) + Base ELSE Parts(n)[k - 1]
  BY DEF Digits
<1>7. W!digits(n) = [k \in 1 .. l + 1 |-> <<"len", v[k]>>]
  BY <1>5, <1>6
<1>8. v \in [1 .. l + 1 -> Nat]
  <2>0. \A k \in 1 .. l + 1 : k - 1 \in 0 .. n
    BY <1>1
  <2>1. \A k \in 1 .. l + 1 : Parts(n)[k - 1] \in Nat /\ Parts(n)[k - 1] % Base \in Nat
    <3>1. \A k \in 1 .. l + 1 : Parts(n)[k - 1] \in Nat
      BY <2>0, <1>2
    <3>2. \A a \in Nat : a % Base \in Nat
      BY BaseOK
    <3> QED BY <3>1, <3>2
  <2> QED BY <1>6, <2>1, BaseOK DEF Digits
<1> HIDE DEF v
<1>9. q \in [0 .. l -> Nat] /\ q[0] = n /\ q[l] < Base
  BY <1>1, <1>2
<1>10. \A k \in 1 .. l : q[k - 1] >= Base /\ q[k] = q[k - 1] \div Base /\ v[k] = (q[k - 1] % Base) + Base
  <2> SUFFICES ASSUME NEW k \in 1 .. l
               PROVE  q[k - 1] >= Base /\ q[k] = q[k - 1] \div Base /\ v[k] = (q[k - 1] % Base) + Base
    OBVIOUS
  <2>1. k - 1 \in 0 .. n /\ k \in 1 .. n /\ k - 1 < l /\ k \in 0 .. l /\ k - 1 \in 0 .. l /\ k \in 1 .. l + 1
    BY <1>1
  <2>2. ~(Parts(n)[k - 1] < Base)
    BY <1>1, <2>1
  <2>3. Parts(n)[k - 1] >= Base
    BY <2>1, <2>2, <1>2, BaseOK
  <2> QED BY <2>1, <2>3, <1>2, <1>6
<1>11. v[l + 1] = q[l]
  BY <1>1, <1>6
<1>12. Spelled(v, l + 1, n, q)
  <2>1. (l + 1) - 1 = l /\ l + 1 \in Nat \ {0}
    BY <1>1
  <2> HIDE DEF q
  <2> QED BY <1>8, <1>9, <1>10, <1>11, <2>1 DEF Spelled
<1> HIDE DEF q
<1> QED
  BY <1>4, <1>7, <1>12, l + 1 \in Nat DEF v

\* A number below the fourth power of Base has at most four digits, and this is it.
LEMMA FourDigits ==
  ASSUME NEW n \in Nat, n < Base * Base * Base * Base, NEW L \in Nat, NEW v, NEW q, Spelled(v, L, n, q)
  PROVE  L <= 4
<1> SUFFICES ASSUME L >= 5 PROVE FALSE
  OBVIOUS
<1>1. q[0] \in Nat /\ q[1] \in Nat /\ q[2] \in Nat /\ q[3] \in Nat /\ q[3] >= Base /\ q[0] = n
  <2>1. 4 \in 1 .. L - 1 /\ 0 \in 0 .. L - 1 /\ 1 \in 0 .. L - 1 /\ 2 \in 0 .. L - 1 /\ 3 \in 0 .. L - 1
    OBVIOUS
  <2> QED BY <2>1, 4 - 1 = 3 DEF Spelled
<1>2. q[1] = q[0] \div Base /\ q[2] = q[1] \div Base /\ q[3] = q[2] \div Base
  <2>1. 1 \in 1 .. L - 1 /\ 2 \in 1 .. L - 1 /\ 3 \in 1 .. L - 1
    OBVIOUS
  <2> QED BY <2>1, 1 - 1 = 0, 2 - 1 = 1, 3 - 1 = 2 DEF Spelled
<1> DEFINE a == q[1]  b == q[2]  c == q[3]
<1>3. a \in Nat /\ b \in Nat /\ c \in Nat /\ c >= Base
  BY <1>1
<1>4. n >= Base * a /\ a >= Base * b /\ b >= Base * c
  BY <1>1, <1>2, Division, BaseOK
<1> HIDE DEF a, b, c
<1>5. b >= Base * Base /\ b \in Nat
  BY <1>3, <1>4, BaseOK
<1>6. a >= Base * (Base * Base)
  <2> DEFINE s == Base * Base
  <2>1. s \in Nat /\ b >= s
    BY <1>5, BaseOK
  <2> HIDE DEF s
  <2>2. Base * b >= Base * s
    BY <2>1, <1>3, BaseOK
  <2>3. a >= Base * s
    BY <2>1, <2>2, <1>3, <1>4, BaseOK
  <2> QED BY <2>3 DEF s
<1>7. n >= Base * (Base * (Base * Base))
  <2> DEFINE s == Base * (Base * Base)
  <2>1. s \in Nat /\ a >= s
    BY <1>6, BaseOK
  <2> HIDE DEF s
  <2>2. Base * a >= Base * s
    BY <2>1, <1>3, BaseOK
  <2>3. n >= Base * s
    BY <2>1, <2>2, <1>3, <1>4, BaseOK
  <2> QED BY <2>3 DEF s
<1>8. Base * (Base * (Base * Base)) = Base * Base * Base * Base
  BY BaseOK
<1> QED
  BY <1>7, <1>8, BaseOK

\* Sequences of one and of two elements, and functions that are sequences.
LEMMA OneOf ==
  ASSUME NEW A, NEW a \in A
  PROVE  <<a>> \in Seq(A) /\ Len(<<a>>) = 1 /\ <<a>>[1] = a
OBVIOUS

LEMMA TwoOf ==
  ASSUME NEW A, NEW a \in A, NEW b \in A
  PROVE  <<a, b>> \in Seq(A) /\ Len(<<a, b>>) = 2 /\ <<a, b>>[2] = b
OBVIOUS

LEMMA AllOf ==
  ASSUME NEW A, NEW n \in Nat, NEW f \in [1 .. n -> A]
  PROVE  f \in Seq(A) /\ Len(f) = n
OBVIOUS

\* The first n bytes of s.
LEMMA Beginning ==
  ASSUME NEW A, NEW s \in Seq(A), NEW n \in 0 .. Len(s)
  PROVE  /\ SubSeq(s, 1, n) \in Seq(A) /\ Len(SubSeq(s, 1, n)) = n
         /\ \A j \in 1 .. n : SubSeq(s, 1, n)[j] = s[j]
OBVIOUS


------------------------------------------------------------------------------
(* What the client writes.                                                 *)

Octet == {"head", "len", "data"} \X Nat

\* The fields of a length on the wire.
Field(n) == W!digits(n)

\* A length that fits an uint16_t has at most four digits.
LEMMA FieldForm ==
  ASSUME NEW n \in Nat, n < Word
  PROVE  \E L \in 1 .. 4 : \E v, q :
           /\ Spelled(v, L, n, q) /\ Field(n) \in Seq(Octet) /\ Len(Field(n)) = L
           /\ \A k \in 1 .. L : Field(n)[k] = <<"len", v[k]>>
<1>1a. PICK L \in Nat : \E v, q : Spelled(v, L, n, q) /\ W!digits(n) = [k \in 1 .. L |-> <<"len", v[k]>>]
  BY DigitsSpell
<1>1. PICK v, q : Spelled(v, L, n, q) /\ W!digits(n) = [k \in 1 .. L |-> <<"len", v[k]>>]
  BY <1>1a
<1>2. n < Base * Base * Base * Base
  <2> DEFINE z == Base * Base * Base * Base
  <2>1. Word \in Nat /\ Word <= z
    BY MqttAssumption DEF W!ConstantsOK
  <2>2. z \in Nat
    BY BaseOK
  <2> HIDE DEF z
  <2>3. n < z
    BY <2>1, <2>2
  <2> QED BY <2>3 DEF z
<1>3. L \in 1 .. 4 /\ v \in [1 .. L -> Nat]
  <2>1. L <= 4
    BY <1>1, <1>2, FourDigits
  <2> QED BY <2>1, <1>1 DEF Spelled
<1>4. \A k \in 1 .. L : <<"len", v[k]>> \in Octet
  BY <1>3 DEF Octet
<1>5. Field(n) \in [1 .. L -> Octet] /\ \A k \in 1 .. L : Field(n)[k] = <<"len", v[k]>>
  BY <1>1, <1>4 DEF Field
<1>6. Field(n) \in Seq(Octet) /\ Len(Field(n)) = L
  BY <1>3, <1>5, AllOf
<1> QED
  BY <1>1, <1>3, <1>5, <1>6

\* A packet of length n, which begins at a, is on the wire w, as far as its length field.
Stands(w, n, a) ==
  /\ n < Word /\ a + Len(Field(n)) <= Len(w)
  /\ \A j \in 1 .. Len(Field(n)) : w[a + j] = Field(n)[j]

\* The wire w holds the packets whose lengths are in s, the k-th from at[k - 1]
\* on, but for the last m bytes.
Placed(w, s, m, at) ==
  /\ at \in [0 .. Len(s) -> Nat] /\ at[0] = 1
  /\ \A k \in 1 .. Len(s) : Stands(w, s[k], at[k - 1]) /\ at[k] = at[k - 1] + 1 + Len(Field(s[k])) + s[k]
  /\ at[Len(s)] = Len(w) + 1 + m

\* The bytes b begin a packet of length n.
Begins(b, n) ==
  /\ b \in Seq(Octet) /\ Len(b) >= 1 + Len(Field(n))
  /\ \A j \in 1 .. Len(Field(n)) : b[1 + j] = Field(n)[j]

\* More of the wire leaves what was there.
LEMMA StandsBefore ==
  ASSUME NEW w \in Seq(Octet), NEW b \in Seq(Octet), NEW n \in Nat, NEW a \in Nat, Stands(w, n, a)
  PROVE  Stands(w \o b, n, a)
<1> DEFINE F == Field(n)
           x == w \o b
<1>1. n < Word /\ a + Len(F) <= Len(w) /\ \A j \in 1 .. Len(F) : w[a + j] = F[j]
  BY DEF Stands
<1>2. Len(F) \in Nat
  BY <1>1, FieldForm
<1>4. Len(w) \in Nat /\ Len(b) \in Nat /\ Len(x) = Len(w) + Len(b) /\ \A i_ \in 1 .. Len(w) : x[i_] = w[i_]
  BY Concatenation DEF Joined
<1> HIDE DEF F, x
<1>6. \A j \in 1 .. Len(F) : a + j \in 1 .. Len(w)
  BY <1>1, <1>2, <1>4
<1>7. a + Len(F) <= Len(x)
  BY <1>1, <1>2, <1>4
<1>8. \A j \in 1 .. Len(F) : x[a + j] = F[j]
  BY <1>1, <1>4, <1>6
<1> QED
  BY <1>1, <1>7, <1>8 DEF Stands, F, x

\* A packet of length n is written, but for its last m bytes.
LEMMA PlacedPacket ==
  ASSUME NEW w \in Seq(Octet), NEW s \in Seq(Nat), NEW at, Placed(w, s, 0, at),
         NEW n \in Nat, n < Word, NEW b, Begins(b, n), NEW m \in Nat, Len(b) + m = 1 + Len(Field(n)) + n
  PROVE  \E bt : Placed(w \o b, Append(s, n), m, bt)
<1> DEFINE N == Len(s)
           F == Field(n)
           t == Append(s, n)
           x == w \o b
           bt == [k \in 0 .. N + 1 |-> IF k <= N THEN at[k] ELSE at[N] + 1 + Len(F) + n]
<1>0. /\ N \in Nat /\ Len(w) \in Nat /\ Len(b) \in Nat /\ b \in Seq(Octet) /\ Len(F) \in Nat /\ at \in [0 .. N -> Nat]
      /\ at[N] = Len(w) + 1 /\ at[N] \in Nat /\ at[0] = 1
  <2>1. at[N] = Len(w) + 1 + 0 /\ at \in [0 .. N -> Nat] /\ at[0] = 1
    BY DEF Placed
  <2>2. b \in Seq(Octet)
    BY DEF Begins
  <2>3. Len(F) \in Nat
    BY FieldForm
  <2> QED BY <2>1, <2>2, <2>3
<1>1. Len(t) = N + 1 /\ t[N + 1] = n /\ \A k \in 1 .. N : t[k] = s[k]
  OBVIOUS
<1>2. /\ Len(x) = Len(w) + Len(b) /\ \A j \in 1 .. Len(b) : x[Len(w) + j] = b[j]
  BY <1>0, Concatenation DEF Joined
<1>3. /\ bt \in [0 .. N + 1 -> Nat] /\ bt[N + 1] = at[N] + 1 + Len(F) + n
      /\ \A k \in 0 .. N : bt[k] = at[k]
  <2> HIDE DEF F
  <2> QED BY <1>0
<1> HIDE DEF bt
<1>4. Stands(x, n, at[N])
  <2>2. Len(b) >= 1 + Len(F) /\ \A j \in 1 .. Len(F) : b[1 + j] = F[j]
    BY DEF Begins
  <2> HIDE DEF F, x, t
  <2>3. at[N] + Len(F) <= Len(x)
    BY <2>2, <1>0, <1>2
  <2>4. ASSUME NEW j \in 1 .. Len(F) PROVE x[at[N] + j] = F[j]
    <3>1. 1 + j \in 1 .. Len(b) /\ Len(w) + (1 + j) = at[N] + j
      BY <2>2, <1>0
    <3>2. x[Len(w) + (1 + j)] = b[1 + j]
      BY <3>1, <1>2
    <3> QED BY <3>1, <3>2, <2>2
  <2> QED BY <2>3, <2>4 DEF F, Stands
<1>7. ASSUME NEW k \in 1 .. N + 1
      PROVE  Stands(x, t[k], bt[k - 1]) /\ bt[k] = bt[k - 1] + 1 + Len(Field(t[k])) + t[k]
  <2>1. CASE k = N + 1
    <3>1. t[k] = n /\ bt[k - 1] = at[N] /\ bt[k] = at[N] + 1 + Len(F) + n
      BY <2>1, <1>0, <1>1, <1>3
    <3> QED BY <3>1, <1>4
  <2>2. CASE k \in 1 .. N
    <3>0. k \in 0 .. N /\ k - 1 \in 0 .. N /\ s[k] \in Nat
      BY <2>2, <1>0
    <3>1. t[k] = s[k] /\ bt[k - 1] = at[k - 1] /\ bt[k] = at[k] /\ at[k - 1] \in Nat /\ s[k] \in Nat
      <4> HIDE DEF t
      <4> QED BY <2>2, <3>0, <1>0, <1>1, <1>3
    <3>2. Stands(w, s[k], at[k - 1]) /\ at[k] = at[k - 1] + 1 + Len(Field(s[k])) + s[k]
      BY <2>2 DEF Placed
    <3>3. Stands(x, s[k], at[k - 1])
      BY <3>1, <3>2, <1>0, StandsBefore
    <3> HIDE DEF x, t
    <3> QED BY <3>1, <3>2, <3>3
  <2>3. k = N + 1 \/ k \in 1 .. N
    BY <1>0
  <2> QED BY <2>1, <2>2, <2>3
<1>5. bt[0] = 1 /\ bt[N + 1] = Len(x) + 1 + m
  <2> DEFINE a == at[N]  c == Len(w)  d == Len(b)  e == Len(F)  f == Len(x)  g == bt[N + 1]
  <2>1. /\ c \in Nat /\ d \in Nat /\ e \in Nat /\ a = c + 1 /\ f = c + d /\ g = a + 1 + e + n
        /\ d + m = 1 + e + n
    BY <1>0, <1>2, <1>3
  <2>2. bt[0] = at[0]
    BY <1>0, <1>3
  <2> HIDE DEF a, c, d, e, f, g
  <2>3. g = f + 1 + m
    BY <2>1
  <2> QED BY <2>2, <2>3, <1>0 DEF f, g
<1>6. Placed(x, t, m, bt)
  <2> HIDE DEF x, t
  <2> QED BY <1>1, <1>3, <1>7, <1>5 DEF Placed
<1> QED
  BY <1>6

\* Bytes of the packet that is being streamed are written.
LEMMA PlacedMore ==
  ASSUME NEW w \in Seq(Octet), NEW s \in Seq(Nat), NEW m \in Nat, NEW at, Placed(w, s, m, at),
         NEW b \in Seq(Octet), Len(b) <= m
  PROVE  Placed(w \o b, s, m - Len(b), at)
<1>1. Len(w) \in Nat /\ Len(b) \in Nat /\ Len(w \o b) = Len(w) + Len(b)
  BY Concatenation DEF Joined
<1>2. at[Len(s)] = Len(w) + 1 + m /\ at \in [0 .. Len(s) -> Nat] /\ at[0] = 1
  BY DEF Placed
<1>3. at[Len(s)] = Len(w \o b) + 1 + (m - Len(b))
  BY <1>1, <1>2
<1>4. ASSUME NEW k \in 1 .. Len(s)
      PROVE  Stands(w \o b, s[k], at[k - 1]) /\ at[k] = at[k - 1] + 1 + Len(Field(s[k])) + s[k]
  <2>1. s[k] \in Nat /\ k - 1 \in 0 .. Len(s)
    OBVIOUS
  <2>2. at[k - 1] \in Nat
    BY <2>1, <1>2
  <2>3. Stands(w, s[k], at[k - 1]) /\ at[k] = at[k - 1] + 1 + Len(Field(s[k])) + s[k]
    BY DEF Placed
  <2> QED BY <2>1, <2>2, <2>3, StandsBefore
<1> DEFINE x == w \o b
<1> HIDE DEF x
<1>5. Placed(x, s, m - Len(b), at)
  BY <1>2, <1>3, <1>4 DEF Placed, x
<1> QED
  BY <1>5 DEF x

\* What the broker makes of the digits of n: n.
LEMMA DigitsWeigh ==
  ASSUME NEW n \in Nat, NEW L \in 1 .. 4, NEW v, NEW q, Spelled(v, L, n, q), NEW d,
         \A k \in 1 .. 4 : d[k] = IF k <= L THEN v[k] % Base ELSE 0
  PROVE  d[1] + Base * (d[2] + Base * (d[3] + Base * d[4])) = n
<1>0. v \in [1 .. L -> Nat] /\ q \in [0 .. L - 1 -> Nat] /\ q[0] = n
  BY DEF Spelled
<1>1. ASSUME NEW k \in 1 .. L - 1
      PROVE  d[k] + Base * q[k] = q[k - 1] /\ q[k] \in Nat /\ q[k - 1] \in Nat
  <2>1. k \in 1 .. L /\ k \in 1 .. 4 /\ k <= L /\ k \in 0 .. L - 1 /\ k - 1 \in 0 .. L - 1
    OBVIOUS
  <2>2. q[k - 1] \in Nat /\ q[k] \in Nat /\ q[k] = q[k - 1] \div Base /\ v[k] = (q[k - 1] % Base) + Base
    BY <2>1, <1>0 DEF Spelled
  <2> DEFINE f == q[k - 1] % Base
  <2>3. f \in 0 .. Base - 1 /\ q[k - 1] = Base * q[k] + f /\ v[k] = f + Base
    BY <2>2, Division
  <2> HIDE DEF f
  <2>4. (f + Base) % Base = f
    BY <2>3, BaseOK
  <2>5. d[k] = f
    BY <2>1, <2>3, <2>4
  <2>6. Base * q[k] \in Nat
    BY <2>2, BaseOK
  <2> QED BY <2>2, <2>3, <2>5, <2>6
<1>2. d[L] = q[L - 1] /\ q[L - 1] \in Nat
  <2>1. v[L] = q[L - 1] /\ q[L - 1] < Base /\ q[L - 1] \in Nat
    BY <1>0 DEF Spelled
  <2>2. v[L] % Base = v[L]
    BY <2>1, BaseOK
  <2> QED BY <2>1, <2>2
<1>3. \A k \in 1 .. 4 : k > L => d[k] = 0
  OBVIOUS
<1>4. CASE L = 1
  <2>1. d[1] = n /\ d[2] = 0 /\ d[3] = 0 /\ d[4] = 0
    BY <1>0, <1>2, <1>3, <1>4
  <2> QED BY <2>1, BaseOK
<1>5. CASE L = 2
  <2>1. d[2] = q[1] /\ d[3] = 0 /\ d[4] = 0 /\ d[1] + Base * q[1] = n /\ q[1] \in Nat
    BY <1>0, <1>1, <1>2, <1>3, <1>5
  <2>2. d[3] + Base * d[4] = 0
    BY <2>1, BaseOK
  <2>3. d[2] + Base * 0 = q[1]
    BY <2>1, BaseOK
  <2> QED BY <2>1, <2>2, <2>3
<1>6. CASE L = 3
  <2>1. d[3] = q[2] /\ d[4] = 0 /\ d[2] + Base * q[2] = q[1] /\ d[1] + Base * q[1] = n /\ q[2] \in Nat
    BY <1>0, <1>1, <1>2, <1>3, <1>6
  <2>2. d[3] + Base * d[4] = q[2]
    BY <2>1, BaseOK
  <2> QED BY <2>1, <2>2
<1>7. CASE L = 4
  <2>1. d[4] = q[3] /\ d[3] + Base * q[3] = q[2] /\ d[2] + Base * q[2] = q[1] /\ d[1] + Base * q[1] = n
    BY <1>0, <1>1, <1>2, <1>7
  <2> QED BY <2>1
<1> QED
  BY <1>4, <1>5, <1>6, <1>7

\* The broker reads the length of a packet on the wire.
LEMMA BrokerReads ==
  ASSUME NEW w \in Seq(Octet), NEW n \in Nat, NEW a \in Nat, Stands(w, n, a)
  PROVE  W!fieldLen(w, a) = Len(Field(n)) /\ W!Weigh(w, a) = n /\ W!EndOf(w, a) = a + Len(Field(n)) + n
<1>0. n < Word /\ a + Len(Field(n)) <= Len(w) /\ \A j \in 1 .. Len(Field(n)) : w[a + j] = Field(n)[j]
  BY DEF Stands
<1>1a. PICK L \in 1 .. 4 : \E v, q :
           /\ Spelled(v, L, n, q) /\ Len(Field(n)) = L
           /\ \A k \in 1 .. L : Field(n)[k] = <<"len", v[k]>>
  BY <1>0, FieldForm
<1>1. PICK v, q :
           /\ Spelled(v, L, n, q) /\ Len(Field(n)) = L
           /\ \A k \in 1 .. L : Field(n)[k] = <<"len", v[k]>>
  BY <1>1a
<1>2. \A j \in 1 .. L : w[a + j][2] = v[j]
  BY <1>0, <1>1
<1> DEFINE D == {k \in 1 .. 4 : k = 4 \/ a + k > Len(w) \/ w[a + k][2] < Base}
<1>3. W!fieldLen(w, a) = L
  <2>1. L \in D
    <3>1. v[L] < Base /\ L \in 1 .. L
      BY <1>1 DEF Spelled
    <3> QED BY <3>1, <1>2
  <2>2. ASSUME NEW k \in D PROVE L <= k
    <3> SUFFICES ASSUME k < L PROVE FALSE
      OBVIOUS
    <3>1. k \in 1 .. L - 1 /\ k \in 1 .. L /\ k # 4
      OBVIOUS
    <3>2. a + k <= Len(w)
      BY <3>1, <1>0, <1>1
    <3>3. v[k] = (q[k - 1] % Base) + Base /\ q[k - 1] \in Nat
      BY <3>1, <1>1 DEF Spelled
    <3>4. q[k - 1] % Base \in 0 .. Base - 1
      BY <3>3, Division
    <3>5. ~(v[k] < Base)
      <4> DEFINE f == q[k - 1] % Base
      <4>1. f \in Nat /\ v[k] = f + Base
        BY <3>3, <3>4, BaseOK
      <4> HIDE DEF f
      <4> QED BY <4>1, BaseOK
    <3>6. w[a + k][2] = v[k]
      BY <3>1, <1>2
    <3>7. Len(w) \in Nat /\ ~(a + k > Len(w))
      BY <3>1, <3>2
    <3> QED BY <3>1, <3>5, <3>6, <3>7
  <2>3. D \in SUBSET Nat
    OBVIOUS
  <2>4. W!fieldLen(w, a) = W!Min(D)
    BY DEF W!fieldLen
  <2> HIDE DEF D
  <2> QED BY <2>1, <2>2, <2>3, <2>4, MinIs
<1> DEFINE d == [k \in 1 .. 4 |-> IF k <= L THEN w[a + k][2] % Base ELSE 0]
<1>4. W!Weigh(w, a) = d[1] + Base * (d[2] + Base * (d[3] + Base * d[4]))
  <2>1. /\ d[1] = IF 1 <= L THEN w[a + 1][2] % Base ELSE 0
        /\ d[2] = IF 2 <= L THEN w[a + 2][2] % Base ELSE 0
        /\ d[3] = IF 3 <= L THEN w[a + 3][2] % Base ELSE 0
        /\ d[4] = IF 4 <= L THEN w[a + 4][2] % Base ELSE 0
    OBVIOUS
  <2> HIDE DEF d
  <2> QED BY <1>3, <2>1 DEF W!Weigh
<1>5. \A k \in 1 .. 4 : d[k] = IF k <= L THEN v[k] % Base ELSE 0
  <2>1. \A k \in 1 .. 4 : d[k] = IF k <= L THEN w[a + k][2] % Base ELSE 0
    OBVIOUS
  <2>2. \A k \in 1 .. 4 : k <= L => k \in 1 .. L
    OBVIOUS
  <2> HIDE DEF d
  <2> QED BY <2>1, <2>2, <1>2
<1> HIDE DEF d
<1>6. W!Weigh(w, a) = n
  BY <1>1, <1>4, <1>5, DigitsWeigh
<1> QED
  BY <1>1, <1>3, <1>6 DEF W!EndOf

\* The packets that the broker finds are the ones that are there.
LEMMA BrokerFinds ==
  ASSUME NEW w \in Seq(Octet), NEW s \in Seq(Nat), NEW m \in Nat, NEW at, Placed(w, s, m, at), NEW start,
         start = CHOOSE f : f = [k \in 0 .. Len(s) |-> IF k = 0 THEN 1 ELSE W!EndOf(w, f[k - 1]) + 1]
  PROVE  /\ \A k \in DOMAIN s : start[k - 1] <= Len(w) /\ W!Weigh(w, start[k - 1]) = s[k]
         /\ start[Len(s)] - 1 = Len(w) + m
<1> DEFINE G(f) == [k \in 0 .. Len(s) |-> IF k = 0 THEN 1 ELSE W!EndOf(w, f[k - 1]) + 1]
<1>0. Len(s) \in Nat /\ at \in [0 .. Len(s) -> Nat] /\ at[0] = 1 /\ at[Len(s)] = Len(w) + 1 + m /\ Len(w) \in Nat
  BY DEF Placed
<1>1. ASSUME NEW k \in 1 .. Len(s)
      PROVE  /\ at[k - 1] \in Nat /\ at[k] = W!EndOf(w, at[k - 1]) + 1
             /\ W!Weigh(w, at[k - 1]) = s[k] /\ at[k - 1] <= Len(w)
  <2>1. k - 1 \in 0 .. Len(s) /\ s[k] \in Nat
    OBVIOUS
  <2>2. at[k - 1] \in Nat /\ Stands(w, s[k], at[k - 1]) /\ at[k] = at[k - 1] + 1 + Len(Field(s[k])) + s[k]
    BY <2>1, <1>0 DEF Placed
  <2>3. Len(Field(s[k])) \in Nat
    BY <2>1, <2>2, FieldForm DEF Stands
  <2>4. W!Weigh(w, at[k - 1]) = s[k] /\ W!EndOf(w, at[k - 1]) = at[k - 1] + Len(Field(s[k])) + s[k]
    BY <2>1, <2>2, BrokerReads
  <2>5. at[k - 1] + Len(Field(s[k])) <= Len(w)
    BY <2>2 DEF Stands
  <2> DEFINE a == at[k - 1]  F == Len(Field(s[k]))
  <2>6. a \in Nat /\ F \in Nat /\ a + F <= Len(w) /\ at[k] = a + 1 + F + s[k]
    BY <2>2, <2>3, <2>5
  <2>7. W!EndOf(w, a) = a + F + s[k]
    BY <2>4
  <2> HIDE DEF a, F
  <2>8. a <= Len(w) /\ at[k] = W!EndOf(w, a) + 1
    <3> DEFINE e == W!EndOf(w, a)  l == Len(w)  c == s[k]
    <3>1. /\ a \in Nat /\ F \in Nat /\ l \in Nat /\ c \in Nat /\ a + F <= l /\ e = a + F + c
          /\ at[k] = a + 1 + F + c
      BY <2>1, <2>6, <2>7, <1>0
    <3> HIDE DEF e, l, c
    <3>2. a <= l /\ a + 1 + F + c = e + 1
      BY <3>1
    <3> QED BY <3>1, <3>2 DEF e, l
  <2> QED BY <2>2, <2>4, <2>8 DEF a
<1>2. at = G(at)
  <2>1. \A k \in 0 .. Len(s) : at[k] = IF k = 0 THEN 1 ELSE W!EndOf(w, at[k - 1]) + 1
    <3>1. \A k \in 0 .. Len(s) : k = 0 \/ k \in 1 .. Len(s)
      BY <1>0
    <3> QED BY <3>1, <1>0, <1>1
  <2> QED BY <2>1, <1>0
<1>3. start = CHOOSE f : f = G(f)
  OBVIOUS
<1> HIDE DEF G
<1>4. start = G(start)
  BY <1>2, <1>3
<1>5. \A k \in 0 .. Len(s) : start[k] = IF k = 0 THEN 1 ELSE W!EndOf(w, start[k - 1]) + 1
  <2>1. \A k \in 0 .. Len(s) : G(start)[k] = IF k = 0 THEN 1 ELSE W!EndOf(w, start[k - 1]) + 1
    BY DEF G
  <2> QED BY <1>4, <2>1
<1> DEFINE T == {k \in Nat : k <= Len(s) => start[k] = at[k]}
<1>6. \A k \in Nat : k \in T
  <2>1. 0 \in T
    <3>1. 0 \in 0 .. Len(s)
      BY <1>0
    <3>2. start[0] = 1
      BY <3>1, <1>5
    <3> QED BY <3>2, <1>0
  <2>2. ASSUME NEW k \in Nat, k \in T PROVE k + 1 \in T
    <3> SUFFICES ASSUME k + 1 <= Len(s) PROVE start[k + 1] = at[k + 1]
      OBVIOUS
    <3>1. k + 1 \in 0 .. Len(s) /\ k + 1 \in 1 .. Len(s) /\ k + 1 # 0 /\ (k + 1) - 1 = k /\ start[k] = at[k]
      BY <2>2, <1>0
    <3>2. start[k + 1] = W!EndOf(w, start[k]) + 1
      BY <3>1, <1>5
    <3>3. at[k + 1] = W!EndOf(w, at[k]) + 1
      BY <3>1, <1>1
    <3> QED BY <3>1, <3>2, <3>3
  <2> HIDE DEF T
  <2> QED BY <2>1, <2>2, Induction
<1>7. \A k \in 0 .. Len(s) : start[k] = at[k]
  BY <1>6
<1>8. ASSUME NEW k \in DOMAIN s
      PROVE  start[k - 1] <= Len(w) /\ W!Weigh(w, start[k - 1]) = s[k]
  <2>1. k \in 1 .. Len(s) /\ k - 1 \in 0 .. Len(s)
    OBVIOUS
  <2> QED BY <2>1, <1>1, <1>7
<1>9. start[Len(s)] - 1 = Len(w) + m
  <2>1. start[Len(s)] = Len(w) + 1 + m
    BY <1>0, <1>7
  <2> QED BY <2>1, <1>0
<1> QED
  BY <1>8, <1>9

WriterTypes ==
  /\ wire \in Seq(Octet) /\ accepted \in Seq(Nat) /\ left \in Nat /\ bufferSize \in Nat
  /\ torn \in BOOLEAN /\ abused \in BOOLEAN

Sound == ~torn /\ ~abused /\ ~W!TooLong => \E at : Placed(wire, accepted, left, at)

WriterInv == WriterTypes /\ Sound /\ W!BufferHolds

\* The bytes of a topic or payload.
LEMMA DataIs ==
  ASSUME NEW n \in Nat
  PROVE  W!Data(n) \in Seq(Octet) /\ Len(W!Data(n)) = n
<1>1. <<"data", 0>> \in Octet
  BY DEF Octet
<1>2. W!Data(n) \in [1 .. n -> Octet]
  BY <1>1 DEF W!Data
<1> QED BY <1>2, AllOf

\* The lengths are natural numbers.
LEMMA WriterConstants ==
  /\ Word \in Nat \ {0} /\ TopicLen \subseteq Nat /\ Plength \subseteq Nat /\ Size \subseteq Nat
BY MqttAssumption DEF W!ConstantsOK

\* What is written of a packet of length n: its header and data.
Header(n) == <<W!Head1>> \o Field(n)

\* The header begins the packet.
LEMMA HeaderIs ==
  ASSUME NEW n \in Nat, n < Word
  PROVE  Begins(Header(n), n) /\ Len(Header(n)) = 1 + Len(Field(n))
<1>1. Field(n) \in Seq(Octet) /\ Len(Field(n)) \in Nat
  BY FieldForm
<1>2. <<W!Head1>> \in Seq(Octet) /\ Len(<<W!Head1>>) = 1
  <2>1. W!Head1 \in Octet
    BY DEF W!Head1, Octet
  <2> QED BY <2>1, OneOf
<1> DEFINE h == <<W!Head1>>
           F == Field(n)
           x == h \o F
<1> HIDE DEF h, F
<1>3. x \in Seq(Octet) /\ Joined(x, h, F)
  BY <1>1, <1>2, Concatenation DEF h, F
<1>4. Len(x) = 1 + Len(F) /\ \A j \in 1 .. Len(F) : x[1 + j] = F[j]
  BY <1>2, <1>3 DEF Joined, h
<1>5. Len(x) >= 1 + Len(F)
  BY <1>1, <1>4 DEF F
<1> QED
  BY <1>3, <1>4, <1>5 DEF Begins, Header, F, h

\* Any beginning of it that has the length.
LEMMA BeginsLonger ==
  ASSUME NEW n \in Nat, n < Word, NEW b, Begins(b, n), NEW c \in Seq(Octet)
  PROVE  Begins(b \o c, n)
<1>1. b \in Seq(Octet) /\ Len(b) >= 1 + Len(Field(n)) /\ \A j \in 1 .. Len(Field(n)) : b[1 + j] = Field(n)[j]
  BY DEF Begins
<1>2. Len(Field(n)) \in Nat
  BY FieldForm
<1>3. /\ b \o c \in Seq(Octet) /\ Len(b \o c) = Len(b) + Len(c) /\ Len(b) \in Nat /\ Len(c) \in Nat
      /\ \A j \in 1 .. Len(b) : (b \o c)[j] = b[j]
  BY <1>1, Concatenation DEF Joined
<1> DEFINE x == b \o c
           F == Field(n)
<1> HIDE DEF x, F
<1>4. \A j \in 1 .. Len(F) : 1 + j \in 1 .. Len(b)
  BY <1>1, <1>2, <1>3 DEF F
<1>5. \A j \in 1 .. Len(F) : x[1 + j] = F[j]
  BY <1>1, <1>3, <1>4 DEF x, F
<1>6. Len(x) >= 1 + Len(F)
  BY <1>1, <1>2, <1>3 DEF x, F
<1> QED
  BY <1>3, <1>5, <1>6 DEF Begins, x, F

\* A part of it that has all of its length begins it too.
LEMMA BeginsShorter ==
  ASSUME NEW n \in Nat, n < Word, NEW b, Begins(b, n), NEW c \in 0 .. Len(b), c >= 1 + Len(Field(n))
  PROVE  Begins(SubSeq(b, 1, c), n)
<1>1. b \in Seq(Octet) /\ Len(b) >= 1 + Len(Field(n)) /\ \A j \in 1 .. Len(Field(n)) : b[1 + j] = Field(n)[j]
  BY DEF Begins
<1>2. Len(Field(n)) \in Nat
  BY FieldForm
<1> DEFINE x == SubSeq(b, 1, c)
           F == Field(n)
<1>3. x \in Seq(Octet) /\ Len(x) = c /\ \A j \in 1 .. c : x[j] = b[j]
  BY <1>1, Beginning
<1> HIDE DEF x, F
<1>4. \A j \in 1 .. Len(F) : 1 + j \in 1 .. c
  BY <1>1, <1>2, <1>3 DEF F
<1>5. \A j \in 1 .. Len(F) : x[1 + j] = F[j]
  BY <1>1, <1>3, <1>4 DEF F
<1>6. Len(x) >= 1 + Len(F)
  BY <1>3 DEF F
<1> QED
  BY <1>3, <1>5, <1>6 DEF Begins, x, F

\* A call that reports a packet as sent leaves it on the wire.
LEMMA Sends ==
  ASSUME WriterTypes, Sound, ~torn, ~abused, left = 0,
         NEW n \in Nat, accepted' = Append(accepted, n), ~W!TooLong',
         NEW b, n < Word => Begins(b, n) /\ Len(b) + left' = 1 + Len(Field(n)) + n, wire' = wire \o b, left' \in Nat
  PROVE  \E at : Placed(wire', accepted', left', at)
<1>1. /\ Len(accepted') = Len(accepted) + 1 /\ accepted'[Len(accepted) + 1] = n /\ Len(accepted) \in Nat
      /\ \A k \in 1 .. Len(accepted) : accepted'[k] = accepted[k]
      /\ DOMAIN accepted' = 1 .. Len(accepted) + 1 /\ DOMAIN accepted = 1 .. Len(accepted)
  BY DEF WriterTypes
<1>2. n < Word
  <2>1. Len(accepted) + 1 \in DOMAIN accepted'
    BY <1>1
  <2>2. ~(n >= Word)
    BY <1>1, <2>1 DEF W!TooLong
  <2> QED BY <2>2, WriterConstants
<1>3. ~W!TooLong
  <2>1. \A k \in DOMAIN accepted : k \in DOMAIN accepted' /\ accepted'[k] = accepted[k]
    BY <1>1
  <2> QED BY <2>1 DEF W!TooLong
<1>4. PICK at : Placed(wire, accepted, 0, at)
  BY <1>3 DEF Sound
<1> QED
  BY <1>2, <1>4, PlacedPacket DEF WriterTypes

\* The length field and the header of any length.
LEMMA FieldTyped ==
  ASSUME NEW n \in Nat
  PROVE  Field(n) \in Seq(Octet) /\ Header(n) \in Seq(Octet) /\ Len(Header(n)) = 1 + Len(Field(n)) /\ Len(Field(n)) \in Nat
<1>1a. PICK L \in Nat : \E v, q : Spelled(v, L, n, q) /\ W!digits(n) = [k \in 1 .. L |-> <<"len", v[k]>>]
  BY DigitsSpell
<1>1. PICK v, q : Spelled(v, L, n, q) /\ W!digits(n) = [k \in 1 .. L |-> <<"len", v[k]>>]
  BY <1>1a
<1>2. v \in [1 .. L -> Nat]
  BY <1>1 DEF Spelled
<1>3. \A k \in 1 .. L : <<"len", v[k]>> \in Octet
  BY <1>2 DEF Octet
<1>4. Field(n) \in [1 .. L -> Octet]
  BY <1>1, <1>3 DEF Field
<1>5. Field(n) \in Seq(Octet) /\ Len(Field(n)) \in Nat
  BY <1>4, AllOf
<1>6. <<W!Head1>> \in Seq(Octet) /\ Len(<<W!Head1>>) = 1
  <2>1. W!Head1 \in Octet
    BY DEF W!Head1, Octet
  <2> QED BY <2>1, OneOf
<1>7. <<W!Head1>> \o Field(n) \in Seq(Octet) /\ Joined(<<W!Head1>> \o Field(n), <<W!Head1>>, Field(n))
  BY <1>5, <1>6, Concatenation
<1>8. Len(<<W!Head1>> \o Field(n)) = 1 + Len(Field(n))
  BY <1>6, <1>7 DEF Joined
<1> QED
  BY <1>5, <1>7, <1>8 DEF Header

\* A length that fits an uint16_t is not cut.
LEMMA RemainderTyped ==
  ASSUME NEW n \in Nat
  PROVE  n % Word \in Nat /\ (n < Word => n % Word = n)
  BY WriterConstants

\* A call that is not torn has written all it had to write.
LEMMA Takes ==
  ASSUME WriterTypes, NEW b \in Seq(Octet), NEW rc \in 0 .. Len(b), NEW n \in Nat, W!takes(b, rc, n), ~torn
  PROVE  /\ wire' \in Seq(Octet) /\ accepted' \in Seq(Nat) /\ torn' \in BOOLEAN
         /\ ~torn' => wire' = wire \o b /\ accepted' = Append(accepted, n)
<1>1. SubSeq(b, 1, rc) \in Seq(Octet)
  BY Beginning
<1>2. wire' = wire \o SubSeq(b, 1, rc)
  BY DEF W!takes
<1>3. wire' \in Seq(Octet)
  BY <1>1, <1>2 DEF WriterTypes
<1>4. CASE rc = Len(b)
  <2>1. accepted' = Append(accepted, n) /\ torn' = torn
    BY <1>4 DEF W!takes
  <2>2. SubSeq(b, 1, Len(b)) = b
    OBVIOUS
  <2>3. torn' \in BOOLEAN
    BY <2>1, Zenon DEF WriterTypes
  <2>4. accepted' \in Seq(Nat)
    BY <2>1 DEF WriterTypes
  <2> QED BY <2>1, <2>2, <2>3, <2>4, <1>2, <1>3, <1>4
<1>5. CASE rc # Len(b)
  BY <1>3, <1>5 DEF W!takes, WriterTypes
<1> QED
  BY <1>4, <1>5

\* One packet, in one write.
LEMMA StepWrite ==
  ASSUME WriterInv, ~torn, NEW op, NEW n \in Nat, NEW u, W!write(op, n, u)
  PROVE  WriterTypes' /\ Sound'
<1> DEFINE b == W!buildHeader(n) \o W!Data(n)
<1>0. /\ WriterTypes /\ Sound
      /\ bufferSize' = bufferSize /\ left' = left /\ abused' = (abused \/ left > 0)
      /\ left \in Nat /\ abused \in BOOLEAN
  BY DEF WriterInv, W!write, W!interrupts, WriterTypes
<1>1. PICK rc \in 0 .. Len(W!buildHeader(n)) + n : W!takes(b, rc, n)
  BY DEF W!write
<1>2. n % Word \in Nat /\ (n < Word => n % Word = n)
  BY RemainderTyped
<1>3. W!buildHeader(n) = Header(n % Word)
  BY DEF W!buildHeader, W!lengthField, Header, Field
<1>4. W!Data(n) \in Seq(Octet) /\ Len(W!Data(n)) = n
  BY DataIs
<1>5. W!buildHeader(n) \in Seq(Octet)
  BY <1>2, <1>3, FieldTyped
<1>6. b \in Seq(Octet) /\ Len(b) = Len(W!buildHeader(n)) + n
  <2>1. b \in Seq(Octet) /\ Joined(b, W!buildHeader(n), W!Data(n))
    BY <1>4, <1>5, Concatenation
  <2> QED BY <2>1, <1>4 DEF Joined
<1>7. ASSUME n < Word
      PROVE  Begins(b, n) /\ Len(b) + 0 = 1 + Len(Field(n)) + n
  <2>1. W!buildHeader(n) = Header(n)
    BY <1>2, <1>3, <1>7
  <2>2. Begins(Header(n), n) /\ Len(Header(n)) = 1 + Len(Field(n))
    BY <1>7, HeaderIs
  <2>3. Len(Field(n)) \in Nat
    BY FieldTyped
  <2>4. Begins(b, n)
    BY <2>1, <2>2, <1>4, <1>7, BeginsLonger
  <2> QED BY <2>1, <2>2, <2>3, <2>4, <1>6
<1> HIDE DEF b
<1>8. /\ wire' \in Seq(Octet) /\ accepted' \in Seq(Nat) /\ torn' \in BOOLEAN
      /\ ~torn' => wire' = wire \o b /\ accepted' = Append(accepted, n)
  BY <1>0, <1>1, <1>6, Takes
<1>9. WriterTypes'
  BY <1>0, <1>8 DEF WriterTypes
<1>10. Sound'
  <2> SUFFICES ASSUME ~torn', ~abused', ~W!TooLong'
               PROVE  \E at : Placed(wire', accepted', left', at)
    BY DEF Sound
  <2>0. ~abused /\ ~(left > 0)
    BY <1>0, Zenon
  <2>1. ~abused /\ left = 0
    BY <1>0, <2>0
  <2>2. left' = 0 /\ left' \in Nat
    BY <1>0, <2>1
  <2>3. n < Word => Begins(b, n) /\ Len(b) + left' = 1 + Len(Field(n)) + n
    BY <1>7, <2>2
  <2> QED BY <1>0, <1>8, <2>1, <2>2, <2>3, Sends
<1> QED
  BY <1>9, <1>10

\* strnlen() up to the size of the buffer.
LEMMA TopicLengthIs ==
  ASSUME NEW tl \in Nat, bufferSize \in Nat
  PROVE  W!topicLength(tl) = IF tl <= bufferSize THEN tl ELSE bufferSize
<1> DEFINE D == {tl, bufferSize}
<1>1. CASE tl <= bufferSize
  <2>1. D \in SUBSET Nat /\ tl \in D /\ \A k \in D : tl <= k
    BY <1>1
  <2> HIDE DEF D
  <2>2. W!Min(D) = tl
    BY <2>1, MinIs
  <2> QED BY <1>1, <2>2 DEF W!topicLength, D
<1>2. CASE ~(tl <= bufferSize)
  <2>1. D \in SUBSET Nat /\ bufferSize \in D /\ \A k \in D : bufferSize <= k
    BY <1>2
  <2> HIDE DEF D
  <2>2. W!Min(D) = bufferSize
    BY <2>1, MinIs
  <2> QED BY <1>2, <2>2 DEF W!topicLength, D
<1> QED
  BY <1>1, <1>2

\* publish_P() writes header, topic and payload.
LEMMA StepPublishP ==
  ASSUME WriterInv, ~torn, NEW tl \in Nat, NEW pl \in Nat, W!publish_P(tl, pl)
  PROVE  WriterTypes' /\ Sound'
<1> DEFINE n == pl + 2 + W!topicLength(tl)
           first == <<W!Head1>> \o W!lengthField(n) \o W!Data(2 + tl)
           H == Header(n)
           D == W!Data(2 + tl)
<1>0. /\ WriterTypes /\ Sound
      /\ bufferSize' = bufferSize /\ left' = left /\ abused' = (abused \/ left > 0)
      /\ left \in Nat /\ abused \in BOOLEAN /\ bufferSize \in Nat
  BY DEF WriterInv, W!publish_P, W!interrupts, WriterTypes
<1>1. PICK rc \in 0 .. Len(first), k \in 0 .. pl :
         /\ wire' = wire \o SubSeq(first, 1, rc) \o W!Data(k)
         /\ IF rc + k = 1 + Len(W!lengthField(n)) + n THEN accepted' = Append(accepted, n) /\ UNCHANGED torn
            ELSE torn' = TRUE /\ UNCHANGED accepted
  BY DEF W!publish_P
<1>2. W!topicLength(tl) \in Nat /\ n \in Nat /\ n >= pl
  <2>1. W!topicLength(tl) \in Nat
    BY <1>0, TopicLengthIs
  <2> HIDE DEF first
  <2> QED BY <2>1
<1>3. first = H \o D /\ W!lengthField(n) = Field(n)
  BY DEF W!lengthField, Header, Field
<1> HIDE DEF first
<1> DEFINE m == n
<1> HIDE DEF m
<1>4. H \in Seq(Octet) /\ Len(H) = 1 + Len(Field(n)) /\ Len(Field(n)) \in Nat
  <2> HIDE DEF n
  <2> QED BY <1>2, FieldTyped
<1>5. D \in Seq(Octet) /\ W!Data(k) \in Seq(Octet) /\ Len(W!Data(k)) = k /\ k \in Nat
  <2>1. 2 + tl \in Nat /\ k \in Nat
    OBVIOUS
  <2> QED BY <2>1, DataIs
<1> HIDE DEF n, H, D
<1>6. first \in Seq(Octet)
  BY <1>3, <1>4, <1>5
<1> DEFINE s == SubSeq(first, 1, rc)
           b == s \o W!Data(k)
<1>7. s \in Seq(Octet) /\ Len(s) = rc
  BY <1>6, Beginning
<1> HIDE DEF s
<1>8. b \in Seq(Octet) /\ Len(b) = rc + k
  <2>1. b \in Seq(Octet) /\ Joined(b, s, W!Data(k))
    BY <1>5, <1>7, Concatenation
  <2> QED BY <2>1, <1>5, <1>7 DEF Joined
<1>9. wire' = wire \o b
  <2>1. wire' = (wire \o s) \o W!Data(k)
    BY <1>1 DEF s
  <2> DEFINE d == W!Data(k)
  <2>2. wire \in Seq(Octet) /\ s \in Seq(Octet) /\ d \in Seq(Octet)
    BY <1>0, <1>5, <1>7 DEF WriterTypes
  <2>3. wire' = (wire \o s) \o d /\ b = s \o d
    BY <2>1
  <2> HIDE DEF d, b
  <2>4. (wire \o s) \o d = wire \o (s \o d)
    BY <2>2
  <2> QED BY <2>3, <2>4
<1> HIDE DEF b
<1>10. WriterTypes'
  <2>1. wire' \in Seq(Octet)
    BY <1>0, <1>8, <1>9 DEF WriterTypes
  <2>2. accepted' \in Seq(Nat)
    <3>1. accepted \in Seq(Nat) /\ (accepted' = Append(accepted, n) \/ accepted' = accepted)
      BY <1>0, <1>1 DEF WriterTypes
    <3> QED BY <3>1, <1>2
  <2>3. torn' \in BOOLEAN
    BY <1>0, <1>1, Zenon DEF WriterTypes
  <2> QED BY <2>1, <2>2, <2>3, <1>0 DEF WriterTypes
<1>11. Sound'
  <2> SUFFICES ASSUME ~torn', ~abused', ~W!TooLong'
               PROVE  \E at : Placed(wire', accepted', left', at)
    BY DEF Sound
  <2>0. ~abused /\ ~(left > 0)
    BY <1>0, Zenon
  <2>1. ~abused /\ left = 0 /\ left' = 0 /\ left' \in Nat
    BY <1>0, <2>0
  <2>2. rc + k = 1 + Len(Field(n)) + n /\ accepted' = Append(accepted, n)
    BY <1>1, <1>3
  <2>3. ASSUME n < Word
        PROVE  Begins(b, n) /\ Len(b) + left' = 1 + Len(Field(n)) + n
    <3>1. Begins(first, n)
      <4>1. Begins(H, n)
        BY <1>2, <2>3, HeaderIs DEF H
      <4> QED BY <4>1, <1>2, <1>3, <1>5, <2>3, BeginsLonger
    <3>2. rc >= 1 + Len(Field(n)) /\ rc \in 0 .. Len(first)
      <4> DEFINE l == Len(Field(n))
      <4>1. l \in Nat /\ rc \in Nat /\ k \in Nat /\ rc + k = 1 + l + n /\ k <= pl /\ pl <= n /\ n \in Nat
        BY <1>2, <1>4, <2>2, <1>6
      <4> HIDE DEF l
      <4>2. rc >= 1 + l
        BY <4>1
      <4> QED BY <4>2 DEF l
    <3>3. Begins(s, n)
      BY <1>2, <2>3, <3>1, <3>2, BeginsShorter DEF s
    <3>4. Begins(b, n)
      BY <1>2, <1>5, <2>3, <3>3, BeginsLonger DEF b
    <3>5. Len(b) + left' = rc + k
      <4>1. Len(first) \in Nat
        BY <1>6
      <4> QED BY <1>5, <1>8, <2>1, <4>1
    <3> QED BY <3>4, <3>5, <2>2
  <2> QED BY <1>0, <1>2, <1>9, <2>1, <2>2, <2>3, Sends
<1> QED
  BY <1>10, <1>11

\* beginPublish() writes header and topic and leaves the payload.
LEMMA StepBegin ==
  ASSUME WriterInv, ~torn, NEW tl \in Nat, NEW pl \in Nat, W!beginPublish(tl, pl)
  PROVE  WriterTypes' /\ Sound'
<1> DEFINE n == 2 + tl + pl
           H == W!buildHeader(n)
           b == H \o W!Data(2 + tl)
<1>0. /\ WriterTypes /\ Sound
      /\ bufferSize' = bufferSize /\ left' = pl /\ abused' = (abused \/ left > 0)
      /\ left \in Nat /\ abused \in BOOLEAN
  BY DEF WriterInv, W!beginPublish, W!interrupts, WriterTypes
<1>1. PICK rc \in 0 .. Len(b) : W!takes(b, rc, n)
  BY DEF W!beginPublish
<1>2. n \in Nat /\ n % Word \in Nat /\ (n < Word => n % Word = n)
  <2>1. n \in Nat
    OBVIOUS
  <2> HIDE DEF n
  <2> QED BY <2>1, RemainderTyped
<1>3. H = Header(n % Word)
  BY DEF W!buildHeader, W!lengthField, Header, Field
<1>4. W!Data(2 + tl) \in Seq(Octet) /\ Len(W!Data(2 + tl)) = 2 + tl
  <2>1. 2 + tl \in Nat
    OBVIOUS
  <2> QED BY <2>1, DataIs
<1>5. H \in Seq(Octet)
  BY <1>2, <1>3, FieldTyped
<1> HIDE DEF H
<1>6. b \in Seq(Octet) /\ Len(b) = Len(H) + (2 + tl)
  <2>1. b \in Seq(Octet) /\ Joined(b, H, W!Data(2 + tl))
    BY <1>4, <1>5, Concatenation
  <2> QED BY <2>1, <1>4 DEF Joined
<1>7. ASSUME n < Word
      PROVE  Begins(b, n) /\ Len(b) + pl = 1 + Len(Field(n)) + n
  <2>1. H = Header(n)
    BY <1>2, <1>3, <1>7
  <2>2. Begins(Header(n), n) /\ Len(Header(n)) = 1 + Len(Field(n))
    BY <1>2, <1>7, HeaderIs
  <2>3. Len(Field(n)) \in Nat
    BY <1>2, FieldTyped
  <2>4. Begins(b, n)
    BY <2>1, <2>2, <1>2, <1>4, <1>7, BeginsLonger
  <2>5. Len(b) + pl = 1 + Len(Field(n)) + n
    <3> DEFINE l == Len(Field(n))
    <3>1. l \in Nat /\ Len(b) = (1 + l) + (2 + tl)
      BY <2>1, <2>2, <2>3, <1>6
    <3> HIDE DEF l
    <3>2. Len(b) + pl = 1 + l + n
      BY <3>1
    <3> QED BY <3>2 DEF l
  <2> QED BY <2>4, <2>5
<1> HIDE DEF b
<1>8. /\ wire' \in Seq(Octet) /\ accepted' \in Seq(Nat) /\ torn' \in BOOLEAN
      /\ ~torn' => wire' = wire \o b /\ accepted' = Append(accepted, n)
  BY <1>0, <1>1, <1>2, <1>6, Takes
<1>9. WriterTypes'
  BY <1>0, <1>8 DEF WriterTypes
<1> HIDE DEF n
<1>10. Sound'
  <2> SUFFICES ASSUME ~torn', ~abused', ~W!TooLong'
               PROVE  \E at : Placed(wire', accepted', left', at)
    BY DEF Sound
  <2>0. ~abused /\ ~(left > 0)
    BY <1>0, Zenon
  <2>1. ~abused /\ left = 0
    BY <1>0, <2>0
  <2>3. n < Word => Begins(b, n) /\ Len(b) + left' = 1 + Len(Field(n)) + n
    BY <1>0, <1>7
  <2> QED BY <1>0, <1>2, <1>8, <2>1, <2>3, Sends
<1> QED
  BY <1>9, <1>10

\* write() continues the payload.
LEMMA StepPayload ==
  ASSUME WriterInv, ~torn, NEW n \in Nat, W!writePayload(n)
  PROVE  WriterTypes' /\ Sound'
<1>0. /\ WriterTypes /\ Sound /\ left \in Nat /\ abused \in BOOLEAN /\ wire \in Seq(Octet) /\ accepted \in Seq(Nat)
      /\ left' = (IF n <= left THEN left - n ELSE 0) /\ abused' = (abused \/ n > left)
      /\ bufferSize' = bufferSize /\ accepted' = accepted
  BY DEF WriterInv, W!writePayload, WriterTypes
<1>1. PICK rc \in 0 .. n : wire' = wire \o W!Data(rc) /\ torn' = (torn \/ rc < n)
  BY DEF W!writePayload
<1>2. rc \in Nat /\ W!Data(rc) \in Seq(Octet) /\ Len(W!Data(rc)) = rc
  BY DataIs
<1>3. left' \in Nat
  BY <1>0
<1>4. torn' \in BOOLEAN /\ abused' \in BOOLEAN
  BY <1>0, <1>1, Zenon DEF WriterTypes
<1>5. WriterTypes'
  BY <1>0, <1>1, <1>2, <1>3, <1>4 DEF WriterTypes
<1>6. Sound'
  <2> SUFFICES ASSUME ~torn', ~abused', ~W!TooLong'
               PROVE  \E at : Placed(wire', accepted', left', at)
    BY DEF Sound
  <2>1. ~abused /\ ~(n > left) /\ ~(rc < n)
    BY <1>0, <1>1, Zenon
  <2>2. rc = n /\ left' = left - rc /\ rc <= left
    BY <1>0, <2>1
  <2>3. ~W!TooLong
    BY <1>0 DEF W!TooLong
  <2>4. PICK at : Placed(wire, accepted, left, at)
    BY <1>0, <2>1, <2>3 DEF Sound
  <2>5. Placed(wire \o W!Data(rc), accepted, left - rc, at)
    BY <1>0, <1>2, <2>2, <2>4, PlacedMore
  <2> QED BY <1>0, <1>1, <2>2, <2>5
<1> QED
  BY <1>5, <1>6

\* What a call leaves alone.
LEMMA SoundStays ==
  ASSUME WriterTypes, Sound, UNCHANGED <<wire, accepted, left, torn, abused>>
  PROVE  Sound'
<1>1. W!TooLong' = W!TooLong
  BY DEF W!TooLong
<1> QED
  BY <1>1 DEF Sound

\* Other calls than publish() and unsubscribe() do not matter.
LEMMA OverElsewhere ==
  ASSUME W!BufferHolds, NEW op, NEW n, W!uses(op, n), op # "publish", op # "unsubscribe"
  PROVE  W!BufferHolds'
BY DEF W!BufferHolds, W!uses

\* A call that fits does not matter.
LEMMA OverNot ==
  ASSUME W!BufferHolds, NEW op, NEW n, W!uses(op, n), ~(n > bufferSize)
  PROVE  W!BufferHolds'
BY DEF W!BufferHolds, W!uses

\* Every call keeps the invariant.
LEMMA WriterStep ==
  ASSUME WriterInv, W!Next
  PROVE  WriterInv'
<1>0. WriterTypes /\ Sound /\ W!BufferHolds /\ bufferSize \in Nat
  BY DEF WriterInv, WriterTypes
<1>1. ASSUME W!refused PROVE WriterInv'
  <2>1. UNCHANGED <<bufferSize, wire, accepted, left, torn, abused, over>>
    BY <1>1 DEF W!refused
  <2>2. WriterTypes' /\ W!BufferHolds'
    BY <1>0, <2>1 DEF WriterTypes, W!BufferHolds
  <2> QED BY <1>0, <2>1, <2>2, SoundStays DEF WriterInv
<1>2. ASSUME NEW tl \in TopicLen, NEW pl \in Plength, W!publish(tl, pl) PROVE WriterInv'
  <2>1. tl \in Nat /\ pl \in Nat /\ ~torn
    BY <1>2, WriterConstants DEF W!publish, W!called
  <2>2. CASE W!tooLong(tl, pl)
    BY <1>1, <1>2, <2>2 DEF W!publish
  <2>3. CASE ~W!tooLong(tl, pl)
    <3>1. W!write("publish", 2 + tl + pl, W!MAX_HEADER_SIZE + 2 + tl + pl)
      BY <1>2, <2>3 DEF W!publish
    <3>2. ~(W!MAX_HEADER_SIZE + 2 + tl + pl > bufferSize)
      <4>1. ~(bufferSize < 5 + 2 + W!topicLength(tl) + pl)
        BY <2>3 DEF W!tooLong, W!MAX_HEADER_SIZE
      <4>2. W!topicLength(tl) = IF tl <= bufferSize THEN tl ELSE bufferSize
        BY <1>0, <2>1, TopicLengthIs
      <4>3. ~(5 + 2 + tl + pl > bufferSize)
        <5>1. CASE tl <= bufferSize
          BY <4>1, <4>2, <5>1, <2>1, <1>0
        <5>2. CASE ~(tl <= bufferSize)
          BY <4>1, <4>2, <5>2, <2>1, <1>0
        <5> QED BY <5>1, <5>2
      <4> QED BY <4>3 DEF W!MAX_HEADER_SIZE
    <3>3. W!BufferHolds'
      <4>1. W!uses("publish", W!MAX_HEADER_SIZE + 2 + tl + pl)
        BY <3>1 DEF W!write
      <4> QED BY <4>1, <3>2, <1>0, OverNot
    <3>4. WriterTypes' /\ Sound'
      <4>1. 2 + tl + pl \in Nat
        BY <2>1
      <4> QED BY <4>1, <3>1, <2>1, StepWrite
    <3> QED BY <3>3, <3>4 DEF WriterInv
  <2> QED BY <2>2, <2>3
<1>3. ASSUME NEW tl \in TopicLen, W!subscribe(tl) PROVE WriterInv'
  <2>1. tl \in Nat /\ ~torn
    BY <1>3, WriterConstants DEF W!subscribe, W!called
  <2>2. CASE bufferSize < 9 + W!topicLength(tl)
    BY <1>1, <1>3, <2>2 DEF W!subscribe
  <2>3. CASE ~(bufferSize < 9 + W!topicLength(tl))
    <3>1. W!write("subscribe", 2 + 2 + tl + 1, W!MAX_HEADER_SIZE + 2 + 2 + tl + 1)
      BY <1>3, <2>3 DEF W!subscribe
    <3>3. W!BufferHolds'
      <4>1. W!uses("subscribe", W!MAX_HEADER_SIZE + 2 + 2 + tl + 1)
        BY <3>1 DEF W!write
      <4> QED BY <4>1, <1>0, OverElsewhere
    <3>4. WriterTypes' /\ Sound'
      <4>1. 2 + 2 + tl + 1 \in Nat
        BY <2>1
      <4> QED BY <4>1, <3>1, <2>1, StepWrite
    <3> QED BY <3>3, <3>4 DEF WriterInv
  <2> QED BY <2>2, <2>3
<1>4. ASSUME NEW tl \in TopicLen, W!unsubscribe(tl) PROVE WriterInv'
  <2>1. tl \in Nat /\ ~torn
    BY <1>4, WriterConstants DEF W!unsubscribe, W!called
  <2>2. CASE bufferSize < 9 + W!topicLength(tl)
    BY <1>1, <1>4, <2>2 DEF W!unsubscribe
  <2>3. CASE ~(bufferSize < 9 + W!topicLength(tl))
    <3>1. W!write("unsubscribe", 2 + 2 + tl, W!MAX_HEADER_SIZE + 2 + 2 + tl)
      BY <1>4, <2>3 DEF W!unsubscribe
    <3>2. ~(W!MAX_HEADER_SIZE + 2 + 2 + tl > bufferSize)
      <4>2. W!topicLength(tl) = IF tl <= bufferSize THEN tl ELSE bufferSize
        BY <1>0, <2>1, TopicLengthIs
      <4>3. ~(5 + 2 + 2 + tl > bufferSize)
        <5>1. CASE tl <= bufferSize
          BY <2>3, <4>2, <5>1, <2>1, <1>0
        <5>2. CASE ~(tl <= bufferSize)
          BY <2>3, <4>2, <5>2, <2>1, <1>0
        <5> QED BY <5>1, <5>2
      <4> QED BY <4>3 DEF W!MAX_HEADER_SIZE
    <3>3. W!BufferHolds'
      <4>1. W!uses("unsubscribe", W!MAX_HEADER_SIZE + 2 + 2 + tl)
        BY <3>1 DEF W!write
      <4> QED BY <4>1, <3>2, <1>0, OverNot
    <3>4. WriterTypes' /\ Sound'
      <4>1. 2 + 2 + tl \in Nat
        BY <2>1
      <4> QED BY <4>1, <3>1, <2>1, StepWrite
    <3> QED BY <3>3, <3>4 DEF WriterInv
  <2> QED BY <2>2, <2>3
<1>5. ASSUME NEW tl \in TopicLen, NEW pl \in Plength, W!publish_P(tl, pl) PROVE WriterInv'
  <2>1. tl \in Nat /\ pl \in Nat /\ ~torn
    BY <1>5, WriterConstants DEF W!publish_P, W!called
  <2>2. \E n : W!uses("publish_P", n)
    BY <1>5 DEF W!publish_P
  <2>3. W!BufferHolds'
    BY <2>2, <1>0, OverElsewhere
  <2> QED BY <1>5, <2>1, <2>3, StepPublishP DEF WriterInv
<1>6. ASSUME NEW tl \in TopicLen, NEW pl \in Plength, W!beginPublish(tl, pl) PROVE WriterInv'
  <2>1. tl \in Nat /\ pl \in Nat /\ ~torn
    BY <1>6, WriterConstants DEF W!beginPublish, W!called
  <2>2. \E n : W!uses("beginPublish", n)
    BY <1>6 DEF W!beginPublish
  <2>3. W!BufferHolds'
    BY <2>2, <1>0, OverElsewhere
  <2> QED BY <1>6, <2>1, <2>3, StepBegin DEF WriterInv
<1>7. ASSUME NEW n \in Plength, W!writePayload(n) PROVE WriterInv'
  <2>1. n \in Nat /\ ~torn /\ over' = over
    BY <1>7, WriterConstants DEF W!writePayload, W!called
  <2>2. W!BufferHolds'
    BY <1>0, <2>1 DEF W!BufferHolds
  <2> QED BY <1>7, <2>1, <2>2, StepPayload DEF WriterInv
<1>8. ASSUME NEW n \in Size, W!setBufferSize(n) PROVE WriterInv'
  <2>1. UNCHANGED <<wire, accepted, left, torn, abused, over>> /\ bufferSize' \in {n, bufferSize}
    BY <1>8 DEF W!setBufferSize
  <2>2. bufferSize' \in Nat
    BY <2>1, <1>0, WriterConstants
  <2>3. WriterTypes' /\ W!BufferHolds'
    BY <1>0, <2>1, <2>2 DEF WriterTypes, W!BufferHolds
  <2> QED BY <1>0, <2>1, <2>3, SoundStays DEF WriterInv
<1> QED
  BY <1>2, <1>3, <1>4, <1>5, <1>6, <1>7, <1>8 DEF W!Next

\* It holds at the start.
LEMMA WriterStart ==
  ASSUME W!Init
  PROVE  WriterInv
<1>1. WriterTypes
  <2>1. bufferSize \in Nat
    BY WriterConstants DEF W!Init
  <2>2. torn \in BOOLEAN /\ abused \in BOOLEAN /\ wire = <<>> /\ accepted = <<>> /\ left = 0
    BY DEF W!Init
  <2> QED BY <2>1, <2>2 DEF WriterTypes
<1> DEFINE at == [k \in 0 .. 0 |-> 1]
<1>2. at \in [0 .. 0 -> Nat] /\ at[0] = 1
  OBVIOUS
<1> HIDE DEF at
<1>3. Placed(<<>>, <<>>, 0, at)
  <2>1. Len(<<>>) = 0
    OBVIOUS
  <2> QED BY <1>2, <2>1 DEF Placed
<1>4. Sound
  BY <1>3 DEF Sound, W!Init
<1>5. W!BufferHolds
  BY DEF W!BufferHolds, W!Init
<1> QED
  BY <1>1, <1>4, <1>5 DEF WriterInv

\* Whatever the sketch publishes, streams and subscribes to, with whatever
\* lengths and sizes of the buffer, the broker finds on the wire exactly the
\* packets that the calls reported as sent, and publish() and unsubscribe() never
\* put one together past the end of the buffer.
THEOREM WriterSafe == PartsSpec => []WholePackets
<1>1. PartsInit => WriterInv
  BY WriterStart DEF PartsInit
<1>2. WriterInv /\ [PartsNext]_allVars => WriterInv'
  <2> SUFFICES ASSUME WriterInv, [PartsNext]_allVars PROVE WriterInv'
    OBVIOUS
  <2>1. CASE W!Next
    BY <2>1, WriterStep
  <2>2. CASE UNCHANGED writerVars
    <3>1. UNCHANGED <<bufferSize, wire, accepted, left, torn, abused, over>>
      BY <2>2 DEF writerVars
    <3>2. WriterTypes' /\ W!BufferHolds'
      BY <3>1 DEF WriterInv, WriterTypes, W!BufferHolds
    <3> QED BY <3>1, <3>2, SoundStays DEF WriterInv
  <2>3. W!Next \/ UNCHANGED writerVars
    BY DEF PartsNext, allVars
  <2> QED BY <2>1, <2>2, <2>3
<1>3. WriterInv => WholePackets
  <2> SUFFICES ASSUME WriterInv PROVE W!WholePackets /\ W!BufferHolds
    BY DEF WholePackets
  <2>1. W!BufferHolds
    BY DEF WriterInv
  <2>2. W!WholePackets
    <3> SUFFICES ASSUME ~torn, ~abused, ~W!TooLong PROVE W!WholePackets
      BY DEF W!WholePackets
    <3>1. PICK at : Placed(wire, accepted, left, at)
      BY DEF WriterInv, Sound
    <3> DEFINE start == CHOOSE f : f = [k \in 0 .. Len(accepted) |-> IF k = 0 THEN 1 ELSE W!EndOf(wire, f[k - 1]) + 1]
    <3>2. /\ \A k \in DOMAIN accepted : start[k - 1] <= Len(wire) /\ W!Weigh(wire, start[k - 1]) = accepted[k]
          /\ start[Len(accepted)] - 1 = Len(wire) + left
      <4>1. wire \in Seq(Octet) /\ accepted \in Seq(Nat) /\ left \in Nat
        BY DEF WriterInv, WriterTypes
      <4>2. start = CHOOSE f : f = [k \in 0 .. Len(accepted) |-> IF k = 0 THEN 1 ELSE W!EndOf(wire, f[k - 1]) + 1]
        OBVIOUS
      <4> HIDE DEF start
      <4> QED BY <3>1, <4>1, <4>2, BrokerFinds
    <3> QED BY <3>2 DEF W!WholePackets
  <2> QED BY <2>1, <2>2
<1> QED
  BY <1>1, <1>2, <1>3, PTL DEF PartsSpec

------------------------------------------------------------------------------
(* What it reads.                                                          *)

Byte == {"first", "in"} \X BOOLEAN \X Int
Inner == {"in"} \X BOOLEAN \X Int

\* The bytes B of packet p, whose length has the L digits v.
Form(B, p, L, v) ==
  /\ B \in Seq(Byte) /\ Len(B) = 1 + L + R!Length(p)
  /\ B[1] = <<"first", FALSE, IF p.publish THEN p.qos ELSE -1>>
  /\ \A k \in 1 .. L : B[1 + k] = <<"in", FALSE, v[k]>>
  /\ p.publish => B[L + 3] = <<"in", FALSE, p.topic>>
  /\ \A j \in 2 .. Len(B) : B[j] \in Inner

\* What is a byte.
LEMMA ByteIs ==
  ASSUME NEW b \in BOOLEAN, NEW n \in Int
  PROVE  <<"in", b, n>> \in Inner /\ <<"first", b, n>> \in Byte
BY Zenon DEF Inner, Byte

\* What the constants make of a packet.
LEMMA ReaderConstants ==
  /\ BufferSize \in Nat /\ BufferSize >= 7
  /\ \A p \in R!Packet :
       /\ p.publish \in BOOLEAN /\ p.qos \in {0, 1} /\ p.topic \in 0 .. Base - 1 /\ p.payload \in Nat
       /\ R!Length(p) \in Nat /\ R!Length(p) < Base * Base * Base * Base
<1>0. R!ConstantsOK
  BY MqttAssumption
<1>1. BufferSize \in Nat /\ BufferSize >= 7
  BY <1>0 DEF R!ConstantsOK
<1>2. ASSUME NEW p \in R!Packet
      PROVE  p.publish \in BOOLEAN /\ p.qos \in {0, 1} /\ p.topic \in 0 .. Base - 1 /\ p.payload \in Nat
  <2>1. Topic \subseteq 0 .. Base - 1 /\ Payload \subseteq Nat /\ 0 \in 0 .. Base - 1
    BY <1>0, BaseOK DEF R!ConstantsOK
  <2>2. CASE p \in [publish : {TRUE}, qos : {0, 1}, topic : Topic, payload : Payload]
    <3>1. p.publish = TRUE /\ p.qos \in {0, 1} /\ p.topic \in Topic /\ p.payload \in Payload
      BY <2>2, Zenon
    <3> QED BY <2>1, <3>1
  <2>3. CASE p \in [publish : {FALSE}, qos : {0}, topic : {0}, payload : Payload]
    <3>1. p.publish = FALSE /\ p.qos = 0 /\ p.topic = 0 /\ p.payload \in Payload
      BY <2>3, Zenon
    <3> QED BY <2>1, <3>1
  <2> QED BY <2>2, <2>3 DEF R!Packet
<1>3. ASSUME NEW p \in R!Packet
      PROVE  R!Length(p) \in Nat
  BY <1>2, BaseOK DEF R!Length, R!id
<1> QED
  BY <1>0, <1>1, <1>2, <1>3 DEF R!ConstantsOK

\* The bytes of a topic or a payload.
LEMMA PlainIs ==
  ASSUME NEW n \in Nat, NEW pay \in BOOLEAN
  PROVE  R!Plain(n, pay) \in Seq(Inner) /\ Len(R!Plain(n, pay)) = n
<1>1. <<"in", pay, Base>> \in Inner
  <2>1. Base \in Int
    BY BaseOK
  <2> QED BY <2>1, ByteIs, Zenon
<1>2. R!Plain(n, pay) \in [1 .. n -> Inner]
  BY <1>1 DEF R!Plain
<1> QED BY <1>2, AllOf

\* The bytes of a packet are laid out as MQTT says.
LEMMA BytesForm ==
  ASSUME NEW p \in R!Packet
  PROVE  \E L \in 1 .. 4 : \E v, q : Spelled(v, L, R!Length(p), q) /\ Form(R!Bytes(p), p, L, v)
<1>0. /\ p.publish \in BOOLEAN /\ p.qos \in {0, 1} /\ p.topic \in 0 .. Base - 1 /\ p.payload \in Nat
      /\ R!Length(p) \in Nat /\ R!Length(p) < Base * Base * Base * Base
  BY ReaderConstants
<1>1a. PICK L \in Nat : \E v, q : Spelled(v, L, R!Length(p), q) /\ R!digits(R!Length(p)) = v
  BY <1>0, DigitsSpell
<1>1. PICK v, q : Spelled(v, L, R!Length(p), q) /\ R!digits(R!Length(p)) = v
  BY <1>1a
<1>2. L \in 1 .. 4 /\ v \in [1 .. L -> Nat] /\ Len(v) = L
  <2>1. L <= 4
    BY <1>0, <1>1, FourDigits
  <2>2. L \in Nat \ {0} /\ v \in [1 .. L -> Nat]
    BY <1>1 DEF Spelled
  <2>3. v \in Seq(Nat) /\ Len(v) = L
    BY <2>2
  <2> QED BY <2>1, <2>2, <2>3
<1> DEFINE head == <<<<"first", FALSE, IF p.publish THEN p.qos ELSE -1>>>>
           field == [k \in 1 .. L |-> <<"in", FALSE, v[k]>>]
           two == <<<<"in", FALSE, 0>>, <<"in", FALSE, p.topic>>>>
           tail == IF p.publish THEN two \o R!Plain(p.topic + R!id(p), FALSE) \o R!Plain(p.payload, TRUE)
                   ELSE R!Plain(p.payload, FALSE)
<1>3. R!Bytes(p) = head \o field \o tail
  BY <1>1, <1>2 DEF R!Bytes
<1>4. head \in Seq(Byte) /\ Len(head) = 1 /\ head[1] = <<"first", FALSE, IF p.publish THEN p.qos ELSE -1>>
  <2>1. (IF p.publish THEN p.qos ELSE -1) \in Int
    BY <1>0
  <2> QED BY <2>1, ByteIs, OneOf
<1>5. field \in Seq(Inner) /\ Len(field) = L /\ \A k \in 1 .. L : field[k] = <<"in", FALSE, v[k]>>
  <2>1. \A k \in 1 .. L : <<"in", FALSE, v[k]>> \in Inner
    <3>1. \A k \in 1 .. L : v[k] \in Int
      BY <1>2
    <3> QED BY <3>1, ByteIs
  <2>2. field \in [1 .. L -> Inner] /\ \A k \in 1 .. L : field[k] = <<"in", FALSE, v[k]>>
    BY <2>1
  <2> HIDE DEF field
  <2> QED BY <2>2, AllOf
<1>6. /\ tail \in Seq(Inner) /\ Len(tail) = R!Length(p)
      /\ p.publish => Len(tail) >= 2 /\ tail[2] = <<"in", FALSE, p.topic>>
  <2>1. CASE ~p.publish
    <3>1. tail = R!Plain(p.payload, FALSE)
      BY <2>1
    <3> HIDE DEF tail
    <3> QED BY <1>0, <2>1, <3>1, PlainIs DEF R!Length
  <2>2. CASE p.publish
    <3> DEFINE t == R!Plain(p.topic + R!id(p), FALSE)
               u == R!Plain(p.payload, TRUE)
               w == two \o t
    <3>2. R!id(p) \in Nat /\ p.topic \in Nat
      BY <1>0, BaseOK DEF R!id
    <3>1. two \in Seq(Inner) /\ Len(two) = 2 /\ two[2] = <<"in", FALSE, p.topic>>
      <4>1. <<"in", FALSE, 0>> \in Inner /\ <<"in", FALSE, p.topic>> \in Inner
        <5>1. 0 \in Int /\ p.topic \in Int /\ FALSE \in BOOLEAN
          BY <3>2
        <5> QED BY <5>1, ByteIs, Zenon
      <4> QED BY <4>1, TwoOf
    <3> HIDE DEF two
    <3>3. t \in Seq(Inner) /\ Len(t) = p.topic + R!id(p) /\ u \in Seq(Inner) /\ Len(u) = p.payload
      <4>1. p.topic + R!id(p) \in Nat /\ p.payload \in Nat
        BY <1>0, <3>2
      <4> QED BY <4>1, PlainIs
    <3> HIDE DEF t, u
    <3>4. w \in Seq(Inner) /\ Joined(w, two, t)
      BY <3>1, <3>3, Concatenation
    <3>5. tail = w \o u
      BY <2>2 DEF t, u
    <3> HIDE DEF w, tail
    <3>6. tail \in Seq(Inner) /\ Joined(tail, w, u)
      BY <3>3, <3>4, <3>5, Concatenation
    <3>7. Len(tail) = 2 + p.topic + R!id(p) + p.payload
      BY <3>1, <3>2, <3>3, <3>4, <3>6, <1>0 DEF Joined
    <3>8. Len(w) >= 2 /\ w[2] = two[2]
      <4>1. Len(w) = 2 + Len(t) /\ \A a \in 1 .. 2 : w[a] = two[a]
        BY <3>1, <3>4 DEF Joined
      <4> QED BY <4>1, <3>2, <3>3
    <3>9. tail[2] = w[2]
      BY <3>6, <3>8, <3>4 DEF Joined
    <3>10. Len(tail) >= 2
      BY <3>7, <3>2, <1>0
    <3> QED BY <2>2, <3>1, <3>6, <3>7, <3>8, <3>9, <3>10 DEF R!Length
  <2> QED BY <1>0, <2>1, <2>2
<1> HIDE DEF head, field, tail
<1> DEFINE m == head \o field
           B == m \o tail
<1>7. Inner \subseteq Byte
  BY Zenon DEF Inner, Byte
<1>8. field \in Seq(Byte) /\ tail \in Seq(Byte)
  BY <1>5, <1>6, <1>7
<1>9. m \in Seq(Byte) /\ Joined(m, head, field)
  BY <1>4, <1>8, Concatenation
<1> HIDE DEF m
<1>10. B \in Seq(Byte) /\ Joined(B, m, tail)
  BY <1>8, <1>9, Concatenation
<1>11. B = R!Bytes(p)
  BY <1>3 DEF m
<1> HIDE DEF B
<1>12. Len(m) = 1 + L /\ m[1] = head[1] /\ \A k \in 1 .. L : m[1 + k] = field[k]
  <2>1. /\ Len(m) = 1 + L /\ \A a \in 1 .. 1 : m[a] = head[a]
        /\ \A a \in 1 .. L : m[1 + a] = field[a]
    <3> HIDE DEF Form
    <3> QED BY <1>4, <1>5, <1>9 DEF Joined
  <2> QED BY <2>1
<1>13. Len(B) = 1 + L + R!Length(p) /\ \A j \in 1 .. 1 + L : B[j] = m[j]
  BY <1>6, <1>10, <1>12 DEF Joined
<1>14. \A j \in 1 .. R!Length(p) : B[1 + L + j] = tail[j]
  BY <1>6, <1>10, <1>12 DEF Joined
<1>15. B[1] = head[1] /\ \A k \in 1 .. L : B[1 + k] = field[k]
  <2>1. 1 \in 1 .. 1 + L /\ \A k \in 1 .. L : 1 + k \in 1 .. 1 + L
    BY <1>2
  <2> QED BY <2>1, <1>12, <1>13
<1>16. p.publish => B[L + 3] = <<"in", FALSE, p.topic>>
  <2> SUFFICES ASSUME p.publish PROVE B[L + 3] = tail[2]
    BY <1>6
  <2>1. 2 \in 1 .. R!Length(p) /\ 1 + L + 2 = L + 3
    BY <1>0, <1>2, <1>6
  <2>2. B[1 + L + 2] = tail[2]
    BY <1>14, <2>1
  <2> QED BY <2>1, <2>2
<1>17. ASSUME NEW j \in 2 .. Len(B) PROVE B[j] \in Inner
  <2>1. CASE j <= 1 + L
    <3>1. j - 1 \in 1 .. L /\ 1 + (j - 1) = j
      BY <1>2, <2>1
    <3>2. B[j] = field[j - 1]
      BY <1>15, <3>1
    <3> QED BY <3>1, <3>2, <1>5
  <2>2. CASE j > 1 + L
    <3>1. j - (1 + L) \in 1 .. R!Length(p) /\ 1 + L + (j - (1 + L)) = j
      BY <1>0, <1>2, <1>13, <2>2
    <3>2. B[j] = tail[j - (1 + L)]
      BY <1>14, <3>1
    <3> QED BY <3>1, <3>2, <1>6
  <2> QED BY <2>1, <2>2, <1>2
<1>18. Form(B, p, L, v)
  BY <1>4, <1>5, <1>10, <1>13, <1>15, <1>16, <1>17 DEF Form
<1> QED
  BY <1>1, <1>2, <1>11, <1>18

\* They are bytes, and there is at least one.
LEMMA BytesTyped ==
  ASSUME NEW p \in R!Packet
  PROVE  R!Bytes(p) \in Seq(Byte) /\ Len(R!Bytes(p)) \in Nat \ {0}
<1>1a. PICK L \in 1 .. 4 : \E v, q : Spelled(v, L, R!Length(p), q) /\ Form(R!Bytes(p), p, L, v)
  BY BytesForm
<1>1. PICK v, q : Spelled(v, L, R!Length(p), q) /\ Form(R!Bytes(p), p, L, v)
  BY <1>1a
<1>2. R!Length(p) \in Nat
  BY ReaderConstants
<1> QED
  BY <1>1, <1>2 DEF Form

\* The packets of s were sent one after the other, the k-th after at[k - 1]
\* bytes; all but the first off bytes of them are in w.
Layout(w, off, s, at) ==
  /\ at \in [0 .. Len(s) -> Nat] /\ at[0] = 0
  /\ \A k \in 0 .. Len(s) : at[k] <= at[Len(s)]
  /\ Len(w) + off = at[Len(s)]
  /\ \A k \in 1 .. Len(s) :
       /\ at[k] = at[k - 1] + Len(R!Bytes(s[k]))
       /\ \A j \in 1 .. Len(R!Bytes(s[k])) :
            at[k - 1] + j > off => w[at[k - 1] + j - off] = R!Bytes(s[k])[j]

\* Another packet is sent.
LEMMA LayoutSend ==
  ASSUME NEW w \in Seq(Byte), NEW off \in Nat, NEW s \in Seq(R!Packet), NEW at, Layout(w, off, s, at),
         NEW p \in R!Packet
  PROVE  \E bt : /\ Layout(w \o R!Bytes(p), off, Append(s, p), bt)
                 /\ \A k \in 0 .. Len(s) : bt[k] = at[k]
<1> DEFINE n == Len(s)
           B == R!Bytes(p)
           x == w \o B
           t == Append(s, p)
           bt == [k \in 0 .. n + 1 |-> IF k <= n THEN at[k] ELSE at[n] + Len(B)]
<1>0. /\ n \in Nat /\ B \in Seq(Byte) /\ Len(B) \in Nat /\ Len(w) \in Nat
      /\ at \in [0 .. n -> Nat] /\ at[n] \in Nat /\ Len(w) + off = at[n]
  BY BytesTyped DEF Layout
<1>1. Len(t) = n + 1 /\ t[n + 1] = p /\ \A k \in 1 .. n : t[k] = s[k]
  OBVIOUS
<1>2. /\ Len(x) = Len(w) + Len(B) /\ \A a \in 1 .. Len(w) : x[a] = w[a]
      /\ \A a \in 1 .. Len(B) : x[Len(w) + a] = B[a]
  <2> HIDE DEF B
  <2> QED BY <1>0, Concatenation DEF Joined
<1>3. /\ bt \in [0 .. n + 1 -> Nat] /\ bt[n + 1] = at[n] + Len(B)
      /\ \A k \in 0 .. n : bt[k] = at[k]
  <2> HIDE DEF B
  <2> QED BY <1>0
<1> HIDE DEF bt, x, t
<1>4. \A k \in 0 .. n + 1 : bt[k] <= bt[n + 1]
  <2>1. \A k \in 0 .. n : bt[k] <= bt[n + 1]
    <3>1. \A k \in 0 .. n : at[k] <= at[n] /\ at[k] \in Nat
      BY <1>0 DEF Layout
    <3> HIDE DEF B
    <3> QED BY <3>1, <1>0, <1>3
  <2>2. bt[n + 1] \in Nat /\ \A k \in 0 .. n + 1 : k \in 0 .. n \/ k = n + 1
    BY <1>0, <1>3
  <2>3. bt[n + 1] <= bt[n + 1]
    BY <2>2
  <2> QED BY <2>1, <2>2, <2>3
<1>5. ASSUME NEW k \in 1 .. n + 1
      PROVE  /\ bt[k] = bt[k - 1] + Len(R!Bytes(t[k]))
             /\ \A j \in 1 .. Len(R!Bytes(t[k])) :
                  bt[k - 1] + j > off => x[bt[k - 1] + j - off] = R!Bytes(t[k])[j]
  <2>1. CASE k = n + 1
    <3>1. t[k] = p /\ bt[k - 1] = at[n] /\ bt[k] = at[n] + Len(B)
      BY <2>1, <1>0, <1>1, <1>3
    <3>2. \A j \in 1 .. Len(B) : at[n] + j - off = Len(w) + j
      BY <1>0
    <3> QED BY <3>1, <3>2, <1>2
  <2>2. CASE k \in 1 .. n
    <3> DEFINE C == R!Bytes(s[k])
    <3>1. t[k] = s[k] /\ bt[k - 1] = at[k - 1] /\ bt[k] = at[k] /\ k \in 0 .. n /\ k - 1 \in 0 .. n /\ s[k] \in R!Packet
      BY <2>2, <1>0, <1>1, <1>3
    <3>2. /\ at[k] = at[k - 1] + Len(C) /\ at[k] <= at[n]
          /\ \A j \in 1 .. Len(C) : at[k - 1] + j > off => w[at[k - 1] + j - off] = C[j]
      BY <2>2, <3>1 DEF Layout
    <3>3. Len(C) \in Nat /\ at[k - 1] \in Nat /\ at[k] \in Nat
      BY <3>1, BytesTyped, <1>0
    <3> HIDE DEF C
    <3>4. ASSUME NEW j \in 1 .. Len(C), at[k - 1] + j > off
          PROVE  x[at[k - 1] + j - off] = C[j]
      <4>1. at[k - 1] + j - off \in 1 .. Len(w)
        BY <3>2, <3>3, <3>4, <1>0
      <4> QED BY <4>1, <1>2, <3>2, <3>4
    <3> QED BY <3>1, <3>2, <3>4 DEF C
  <2> QED BY <2>1, <2>2, <1>0
<1>6. Len(x) + off = bt[n + 1] /\ bt[0] = 0
  <2>1. at[0] = 0 /\ 0 \in 0 .. n
    BY <1>0 DEF Layout
  <2> HIDE DEF B
  <2> QED BY <1>0, <1>2, <1>3, <2>1
<1>7. Layout(x, off, t, bt)
  BY <1>1, <1>3, <1>4, <1>5, <1>6 DEF Layout
<1> QED
  BY <1>3, <1>7 DEF x, t

\* A byte is taken.
LEMMA LayoutTake ==
  ASSUME NEW w \in Seq(Byte), w # <<>>, NEW off \in Nat, NEW s \in Seq(R!Packet), NEW at, Layout(w, off, s, at)
  PROVE  Layout(Tail(w), off + 1, s, at)
<1> DEFINE x == Tail(w)
<1>1. Len(w) \in Nat \ {0} /\ Len(x) = Len(w) - 1 /\ \A a \in 1 .. Len(w) - 1 : x[a] = w[a + 1]
  OBVIOUS
<1> HIDE DEF x
<1>2. /\ at \in [0 .. Len(s) -> Nat] /\ Len(s) \in Nat /\ at[Len(s)] \in Nat /\ Len(w) + off = at[Len(s)]
  BY DEF Layout
<1>3. ASSUME NEW k \in 1 .. Len(s), NEW j \in 1 .. Len(R!Bytes(s[k])), at[k - 1] + j > off + 1
      PROVE  x[at[k - 1] + j - (off + 1)] = R!Bytes(s[k])[j]
  <2> DEFINE C == R!Bytes(s[k])
             a == at[k - 1] + j - (off + 1)
  <2>1. s[k] \in R!Packet
    OBVIOUS
  <2>2. Len(C) \in Nat
    BY <2>1, BytesTyped
  <2>3. at[k] = at[k - 1] + Len(C) /\ at[k] <= at[Len(s)] /\ k \in 0 .. Len(s) /\ k - 1 \in 0 .. Len(s)
    BY DEF Layout
  <2>4. at[k - 1] \in Nat /\ at[k] \in Nat
    BY <1>2, <2>3
  <2>5. at[k - 1] + j > off => w[at[k - 1] + j - off] = C[j]
    BY DEF Layout
  <2>6. j \in Nat /\ j <= Len(C)
    BY <2>2
  <2> HIDE DEF C
  <2>7. a \in 1 .. Len(w) - 1 /\ a + 1 = at[k - 1] + j - off /\ at[k - 1] + j > off
    <3> DEFINE b == at[k - 1]  e == at[k]  z == at[Len(s)]
    <3>1. b \in Nat /\ e \in Nat /\ z \in Nat /\ e <= z /\ e = b + Len(C) /\ Len(w) + off = z /\ b + j > off + 1
      BY <1>2, <1>3, <2>3, <2>4
    <3> HIDE DEF b, e, z
    <3>2. b + j - (off + 1) \in 1 .. Len(w) - 1 /\ b + j - (off + 1) + 1 = b + j - off /\ b + j > off
      BY <1>1, <2>2, <2>6, <3>1
    <3> QED BY <3>2 DEF b
  <2> HIDE DEF a
  <2>8. x[a] = C[j]
    BY <2>5, <2>7, <1>1
  <2> QED BY <2>8 DEF a, C
<1>4. Len(x) + (off + 1) = at[Len(s)]
  BY <1>1, <1>2
<1>5. Layout(x, off + 1, s, at)
  BY <1>3, <1>4 DEF Layout
<1> QED
  BY <1>5 DEF x

\* The next byte is the one of packet k that comes after the first i bytes.
LEMMA LayoutNext ==
  ASSUME NEW w \in Seq(Byte), NEW off \in Nat, NEW s \in Seq(R!Packet), NEW at, Layout(w, off, s, at),
         NEW k \in 1 .. Len(s), NEW i_ \in Nat, off = at[k - 1] + i_, i_ < Len(R!Bytes(s[k]))
  PROVE  w[1] = R!Bytes(s[k])[i_ + 1]
<1>1. s[k] \in R!Packet /\ k - 1 \in 0 .. Len(s)
  OBVIOUS
<1>2. Len(R!Bytes(s[k])) \in Nat /\ at[k - 1] \in Nat
  BY <1>1, BytesTyped DEF Layout
<1>3. i_ + 1 \in 1 .. Len(R!Bytes(s[k])) /\ at[k - 1] + (i_ + 1) > off /\ at[k - 1] + (i_ + 1) - off = 1
  BY <1>2
<1> QED BY <1>3 DEF Layout

\* If there is a byte after the packets up to the k-th, there is another packet.
LEMMA LayoutMore ==
  ASSUME NEW w \in Seq(Byte), w # <<>>, NEW off \in Nat, NEW s \in Seq(R!Packet), NEW at, Layout(w, off, s, at),
         NEW k \in 0 .. Len(s), off = at[k]
  PROVE  k < Len(s)
<1>1. Len(w) \in Nat \ {0} /\ Len(s) \in Nat /\ at[Len(s)] \in Nat /\ Len(w) + off = at[Len(s)]
  BY DEF Layout
<1> QED BY <1>1

Rd == [pc : {"idle", "header", "length", "topic1", "topic2", "rest", "end"}, publish : BOOLEAN,
       qos : Int, len : Nat, length : Nat, multiplier : Nat, llen : Nat, skip : Int, i : Nat, idx : Nat]

\* How much of the payload of p is among its first n bytes.
Streamed(hs, p, L, n) ==
  IF hs /\ p.publish /\ n > L + 3 + p.topic + R!id(p) THEN n - (L + 3 + p.topic + R!id(p)) ELSE 0
Fits(n) == IF n <= BufferSize THEN n ELSE BufferSize

\* The variables r of readPacket() when it has n bytes of p, whose length has
\* the digits v with the quotients q, and has written m bytes to the Stream.
Begun(r, p) == r.publish = p.publish /\ (r.qos = IF p.publish THEN p.qos ELSE -1)
Weighed(r, p, L) == Begun(r, p) /\ r.length = R!Length(p) /\ r.llen = L

InHeader(r, n, m) == n = 0 /\ m = 0 /\ r.length = 0 /\ r.multiplier = 1 /\ r.i = 0
InLength(r, p, n, L, q, m) ==
  /\ n \in 1 .. L /\ m = 0 /\ Begun(r, p) /\ r.len = n /\ r.i = 0
  /\ r.length + r.multiplier * q[n - 1] = R!Length(p)
InTopic(r, p, n, L, m) ==
  /\ p.publish /\ m = 0 /\ Weighed(r, p, L) /\ r.len = n /\ r.i = 0
  /\ n = IF r.pc = "topic1" THEN 1 + L ELSE 2 + L
InRest(hs, r, p, n, L, m) ==
  /\ Weighed(r, p, L) /\ r.idx = n /\ r.len = Fits(n) /\ r.i = n - (1 + L)
  /\ n >= 1 + L /\ (p.publish => r.skip = p.topic + R!id(p) /\ n >= 3 + L)
  /\ n < 1 + L + R!Length(p) /\ m = Streamed(hs, p, L, n)
AtEnd(hs, r, p, n, L, m) ==
  /\ n = 1 + L + R!Length(p) /\ r.idx = n /\ r.len = Fits(n) /\ m = Streamed(hs, p, L, n)
Done(hs, p, n, L, m, x) ==
  /\ n = 1 + L + R!Length(p) /\ m = Streamed(hs, p, L, n)
  /\ x = IF n <= BufferSize THEN n ELSE IF hs THEN BufferSize ELSE 0

Reading(hs, r, p, n, L, q, m, x) ==
  /\ r \in Rd
  /\ r.pc = "header" => InHeader(r, n, m)
  /\ r.pc = "length" => InLength(r, p, n, L, q, m)
  /\ r.pc \in {"topic1", "topic2"} => InTopic(r, p, n, L, m)
  /\ r.pc = "rest" => InRest(hs, r, p, n, L, m)
  /\ r.pc = "end" => AtEnd(hs, r, p, n, L, m)
  /\ r.pc = "idle" => Done(hs, p, n, L, m, x)

\* The numbers of a packet.
LEMMA PacketNumbers ==
  ASSUME NEW p \in R!Packet
  PROVE  /\ p.publish \in BOOLEAN /\ p.qos \in {0, 1} /\ p.topic \in Nat /\ p.topic < Base /\ p.payload \in Nat
         /\ R!id(p) \in {0, 2} /\ R!Length(p) \in Nat
         /\ p.publish => R!Length(p) = 2 + p.topic + R!id(p) + p.payload
  BY ReaderConstants, BaseOK DEF R!id, R!Length

\* readPacket() takes the first byte of a packet.
LEMMA ReadsHeader ==
  ASSUME NEW hs \in BOOLEAN, NEW r, NEW p \in R!Packet, NEW L \in 1 .. 4, NEW v, NEW q, Spelled(v, L, R!Length(p), q),
         NEW m, NEW x, Reading(hs, r, p, 0, L, q, m, x), r.pc = "header",
         NEW b, b = IF p.publish THEN p.qos ELSE -1
  PROVE  Reading(hs, [r EXCEPT !.pc = "length", !.publish = b \in {0, 1}, !.qos = b, !.len = 1], p, 1, L, q, m, x)
<1> DEFINE u == [r EXCEPT !.pc = "length", !.publish = b \in {0, 1}, !.qos = b, !.len = 1]
<1>0. p.publish \in BOOLEAN /\ p.qos \in {0, 1} /\ R!Length(p) \in Nat
  BY PacketNumbers
<1>1. r \in Rd /\ r.length = 0 /\ r.multiplier = 1 /\ r.i = 0 /\ m = 0
  BY DEF Reading, InHeader
<1>2. (b \in {0, 1}) = p.publish /\ b \in Int
  BY <1>0
<1>3. /\ u \in Rd /\ u.pc = "length" /\ u.publish = p.publish /\ u.qos = b /\ u.len = 1 /\ u.i = 0
      /\ u.length = 0 /\ u.multiplier = 1
  <2> DEFINE u1 == [r EXCEPT !.pc = "length"]
             u2 == [u1 EXCEPT !.publish = p.publish]
             u3 == [u2 EXCEPT !.qos = b]
  <2>5. u = [u3 EXCEPT !.len = 1]
    BY <1>2
  <2>1. u1 \in Rd /\ u1.pc = "length" /\ u1.i = 0 /\ u1.length = 0 /\ u1.multiplier = 1
    BY <1>1 DEF Rd
  <2> HIDE DEF u1
  <2>2. /\ u2 \in Rd /\ u2.pc = "length" /\ u2.i = 0 /\ u2.length = 0 /\ u2.multiplier = 1
        /\ u2.publish = p.publish
    BY <2>1, <1>0 DEF Rd
  <2> HIDE DEF u2
  <2>3. /\ u3 \in Rd /\ u3.pc = "length" /\ u3.i = 0 /\ u3.length = 0 /\ u3.multiplier = 1
        /\ u3.publish = p.publish /\ u3.qos = b
    BY <2>2, <1>2 DEF Rd
  <2> HIDE DEF u3
  <2> QED BY <2>3, <2>5 DEF Rd
<1> HIDE DEF u
<1>4. q[0] = R!Length(p) /\ 1 \in 1 .. L /\ 1 - 1 = 0
  BY DEF Spelled
<1>5. u.length + u.multiplier * q[1 - 1] = R!Length(p)
  BY <1>3, <1>4, <1>0
<1>6. InLength(u, p, 1, L, q, m)
  BY <1>1, <1>3, <1>4, <1>5 DEF InLength, Begun
<1> QED
  BY <1>3, <1>6 DEF Reading, u

\* A digit more: what was read and what is left still add up.
LEMMA Sum ==
  ASSUME NEW a \in Nat, NEW m \in Nat, NEW c \in Nat
  PROVE  (a + (c % Base) * m) + (m * Base) * (c \div Base) = a + m * c
<1> DEFINE e == c \div Base  f == c % Base
<1>1. e \in Nat /\ f \in Nat /\ c = Base * e + f
  BY Division, BaseOK
<1> HIDE DEF e, f
<1>2. m * c = m * (Base * e + f)
  BY <1>1
<1>3. m * (Base * e + f) = m * (Base * e) + m * f
  BY <1>1, BaseOK
<1>4. m * (Base * e) = (m * Base) * e /\ m * f = f * m
  BY <1>1, BaseOK
<1>5. m * f \in Nat /\ (m * Base) * e \in Nat /\ m * c \in Nat
  BY <1>1, BaseOK
<1>6. (a + f * m) + (m * Base) * e = a + m * c
  BY <1>2, <1>3, <1>4, <1>5
<1> QED
  BY <1>6 DEF e, f

\* It takes a byte of the length.
LEMMA ReadsLength ==
  ASSUME NEW hs \in BOOLEAN, NEW r, NEW p \in R!Packet, NEW L \in 1 .. 4, NEW v, NEW q, Spelled(v, L, R!Length(p), q),
         NEW n, NEW m, NEW x, Reading(hs, r, p, n, L, q, m, x), r.pc = "length",
         NEW b, b = v[n],
         NEW s, s = [r EXCEPT !.len = r.len + 1, !.length = r.length + (b % Base) * r.multiplier,
                              !.multiplier = r.multiplier * Base, !.llen = r.len]
  PROVE  Reading(hs, IF b >= Base THEN s ELSE R!afterLength(s), p, n + 1, L, q, m, x)
<1>0. /\ p.publish \in BOOLEAN /\ p.qos \in {0, 1} /\ R!Length(p) \in Nat /\ p.topic \in Nat /\ p.payload \in Nat
      /\ R!id(p) \in {0, 2}
  BY PacketNumbers
<1>1. /\ r \in Rd /\ n \in 1 .. L /\ m = 0 /\ Begun(r, p) /\ r.len = n /\ r.i = 0
      /\ r.length + r.multiplier * q[n - 1] = R!Length(p)
  BY DEF Reading, InLength
<1>2. L \in Nat /\ n \in Nat /\ q[n - 1] \in Nat /\ v[n] \in Nat /\ b \in Nat
  BY <1>1 DEF Spelled
<1>3. /\ r.length \in Nat /\ r.multiplier \in Nat /\ r.multiplier * Base \in Nat
      /\ b % Base \in Nat /\ (b % Base) * r.multiplier \in Nat
  BY <1>1, <1>2, BaseOK DEF Rd
<1>4. /\ s \in Rd /\ s.pc = "length" /\ s.publish = r.publish /\ s.qos = r.qos /\ s.len = n + 1
      /\ s.length = r.length + (b % Base) * r.multiplier
      /\ s.multiplier = r.multiplier * Base /\ s.llen = n /\ s.i = 0
  <2> DEFINE s1 == [r EXCEPT !.len = r.len + 1]
             s2 == [s1 EXCEPT !.length = r.length + (b % Base) * r.multiplier]
             s3 == [s2 EXCEPT !.multiplier = r.multiplier * Base]
  <2>1. /\ s1 \in Rd /\ s1.pc = r.pc /\ s1.publish = r.publish /\ s1.qos = r.qos /\ s1.len = n + 1
        /\ s1.i = r.i
    BY <1>1, <1>2 DEF Rd
  <2>5. s = [s3 EXCEPT !.llen = r.len]
    OBVIOUS
  <2> HIDE DEF s1
  <2>2. /\ s2 \in Rd /\ s2.pc = s1.pc /\ s2.publish = s1.publish /\ s2.qos = s1.qos /\ s2.len = s1.len
        /\ s2.i = s1.i /\ s2.length = r.length + (b % Base) * r.multiplier
    BY <2>1, <1>3 DEF Rd
  <2> HIDE DEF s2
  <2>3. /\ s3 \in Rd /\ s3.pc = s2.pc /\ s3.publish = s2.publish /\ s3.qos = s2.qos /\ s3.len = s2.len
        /\ s3.i = s2.i /\ s3.length = s2.length /\ s3.multiplier = r.multiplier * Base
    BY <2>2, <1>3 DEF Rd
  <2> HIDE DEF s3
  <2>4. /\ s \in Rd /\ s.pc = s3.pc /\ s.publish = s3.publish /\ s.qos = s3.qos /\ s.len = s3.len
        /\ s.i = s3.i /\ s.length = s3.length /\ s.multiplier = s3.multiplier /\ s.llen = n
    BY <2>3, <2>5, <1>1, <1>2 DEF Rd
  <2> QED BY <2>1, <2>2, <2>3, <2>4, <1>1
<1>5. Begun(s, p)
  BY <1>1, <1>4 DEF Begun
<1>6. CASE n < L
  <2>1. n \in 1 .. L - 1
    BY <1>6, <1>1, <1>2
  <2>2. q[n] = q[n - 1] \div Base /\ b = (q[n - 1] % Base) + Base
    BY <2>1 DEF Spelled
  <2>3. b >= Base /\ b % Base = q[n - 1] % Base
    <3> DEFINE f == q[n - 1] % Base
    <3>1. f \in 0 .. Base - 1 /\ b = f + Base
      BY <2>2, <1>2, Division
    <3> HIDE DEF f
    <3>2. b >= Base /\ b % Base = f
      BY <3>1, BaseOK
    <3> QED BY <3>2 DEF f
  <2>4. s.length + s.multiplier * q[n] = R!Length(p)
    BY <2>2, <2>3, <1>1, <1>2, <1>3, <1>4, Sum
  <2>5. n + 1 \in 1 .. L /\ (n + 1) - 1 = n
    BY <1>2, <2>1
  <2>6. InLength(s, p, n + 1, L, q, m)
    BY <2>4, <2>5, <1>1, <1>4, <1>5 DEF InLength
  <2>7. Reading(hs, s, p, n + 1, L, q, m, x)
    BY <2>6, <1>4 DEF Reading
  <2> QED BY <2>3, <2>7
<1>7. CASE n = L
  <2>1. b = q[n - 1] /\ b < Base
    BY <1>7 DEF Spelled
  <2>2. b % Base = b /\ ~(b >= Base)
    BY <2>1, <1>2, BaseOK
  <2>3. s.length = R!Length(p)
    <3>1. b * r.multiplier = r.multiplier * b
      BY <1>2, <1>3
    <3> QED BY <2>1, <2>2, <3>1, <1>1, <1>4
  <2>4. Weighed(s, p, L)
    BY <2>3, <1>4, <1>5, <1>7 DEF Weighed
  <2>5. n + 1 = 1 + L /\ n + 1 \in Nat /\ n + 1 <= BufferSize /\ L + 1 <= 5
    BY <1>7, <1>2, ReaderConstants
  <2>6. CASE p.publish
    <3> DEFINE u == [s EXCEPT !.pc = "topic1"]
    <3>1. R!afterLength(s) = u
      BY <2>6, <1>5 DEF R!afterLength, Begun
    <3>2. /\ u \in Rd /\ u.pc = "topic1" /\ u.publish = s.publish /\ u.qos = s.qos /\ u.len = s.len
          /\ u.length = s.length /\ u.llen = s.llen /\ u.i = s.i
      BY <1>4 DEF Rd
    <3> HIDE DEF u
    <3>3. InTopic(u, p, n + 1, L, m)
      BY <3>2, <2>4, <2>5, <2>6, <1>1, <1>4 DEF InTopic, Weighed, Begun
    <3>4. Reading(hs, u, p, n + 1, L, q, m, x)
      BY <3>2, <3>3 DEF Reading
    <3> QED BY <2>2, <3>1, <3>4
  <2>7. CASE ~p.publish
    <3> DEFINE t == [s EXCEPT !.idx = s.len]
               u == R!rest(t)
    <3>1. R!afterLength(s) = u
      BY <2>7, <1>5 DEF R!afterLength, Begun
    <3>2. /\ t \in Rd /\ t.publish = s.publish /\ t.qos = s.qos /\ t.len = s.len /\ t.idx = s.len
          /\ t.length = s.length /\ t.llen = s.llen /\ t.i = s.i
      BY <1>4, <2>5 DEF Rd
    <3> HIDE DEF t
    <3>3. m = Streamed(hs, p, L, n + 1) /\ Fits(n + 1) = n + 1
      BY <2>5, <2>7, <1>1 DEF Streamed, Fits
    <3>4. CASE t.i < t.length
      <4>1. /\ u \in Rd /\ u.pc = "rest" /\ u.publish = t.publish /\ u.qos = t.qos /\ u.len = t.len
            /\ u.length = t.length /\ u.llen = t.llen /\ u.i = t.i /\ u.idx = t.idx
        BY <3>2, <3>4 DEF Rd, R!rest
      <4> HIDE DEF u
      <4>2. Weighed(u, p, L)
        BY <2>4, <3>2, <4>1 DEF Weighed, Begun
      <4>3. n + 1 < 1 + L + R!Length(p)
        BY <3>2, <3>4, <1>0, <1>2, <1>4, <2>3, <2>5
      <4>4. InRest(hs, u, p, n + 1, L, m)
        BY <4>1, <4>2, <4>3, <3>2, <3>3, <2>5, <2>7, <1>2, <1>4 DEF InRest
      <4>5. Reading(hs, u, p, n + 1, L, q, m, x)
        BY <4>1, <4>4 DEF Reading
      <4> QED BY <4>5, <3>1, <2>2
    <3>5. CASE ~(t.i < t.length)
      <4>1. u \in Rd /\ u.pc = "end" /\ u.len = t.len /\ u.idx = t.idx
        BY <3>2, <3>5 DEF Rd, R!rest
      <4> HIDE DEF u
      <4>2. n + 1 = 1 + L + R!Length(p)
        BY <3>2, <3>5, <1>0, <1>2, <1>4, <2>3, <2>5
      <4>3. AtEnd(hs, u, p, n + 1, L, m)
        BY <4>1, <4>2, <3>2, <3>3, <1>4 DEF AtEnd
      <4>4. Reading(hs, u, p, n + 1, L, q, m, x)
        BY <4>1, <4>3 DEF Reading
      <4> QED BY <4>4, <3>1, <2>2
    <3> QED BY <3>4, <3>5
  <2> QED BY <2>6, <2>7
<1> QED
  BY <1>1, <1>2, <1>6, <1>7

\* It takes the high byte of the length of the topic.
LEMMA ReadsTopic1 ==
  ASSUME NEW hs \in BOOLEAN, NEW r, NEW p \in R!Packet, NEW L \in 1 .. 4, NEW q,
         NEW n, NEW m, NEW x, Reading(hs, r, p, n, L, q, m, x), r.pc = "topic1"
  PROVE  Reading(hs, [r EXCEPT !.pc = "topic2", !.len = r.len + 1], p, n + 1, L, q, m, x)
<1> DEFINE u1 == [r EXCEPT !.pc = "topic2"]
           u == [u1 EXCEPT !.len = r.len + 1]
<1>1. r \in Rd /\ InTopic(r, p, n, L, m) /\ r.len \in Nat
  BY DEF Reading, Rd
<1>2. /\ u1 \in Rd /\ u1.pc = "topic2" /\ u1.publish = r.publish /\ u1.qos = r.qos /\ u1.len = r.len
      /\ u1.length = r.length /\ u1.llen = r.llen /\ u1.i = r.i
  BY <1>1 DEF Rd
<1>0. u = [r EXCEPT !.pc = "topic2", !.len = r.len + 1]
  OBVIOUS
<1> HIDE DEF u1
<1>3. /\ u \in Rd /\ u.pc = "topic2" /\ u.publish = r.publish /\ u.qos = r.qos /\ u.len = r.len + 1
      /\ u.length = r.length /\ u.llen = r.llen /\ u.i = r.i
  BY <1>1, <1>2 DEF Rd
<1> HIDE DEF u
<1>4. n = 1 + L /\ r.len = n /\ n + 1 = 2 + L
  BY <1>1 DEF InTopic
<1>5. InTopic(u, p, n + 1, L, m)
  BY <1>1, <1>3, <1>4 DEF InTopic, Weighed, Begun
<1>6. Reading(hs, u, p, n + 1, L, q, m, x)
  BY <1>3, <1>5 DEF Reading
<1> QED
  BY <1>0, <1>6

\* It takes the low byte.
LEMMA ReadsTopic2 ==
  ASSUME NEW hs \in BOOLEAN, NEW r, NEW p \in R!Packet, NEW L \in 1 .. 4, NEW q,
         NEW n, NEW m, NEW x, Reading(hs, r, p, n, L, q, m, x), r.pc = "topic2", NEW b, b = p.topic
  PROVE  Reading(hs, R!rest([r EXCEPT !.len = r.len + 1, !.skip = b + IF r.qos = 1 THEN 2 ELSE 0,
                                  !.i = 2, !.idx = r.len + 1]), p, n + 1, L, q, m, x)
<1> DEFINE d == b + IF r.qos = 1 THEN 2 ELSE 0
           u1 == [r EXCEPT !.len = r.len + 1]
           u2 == [u1 EXCEPT !.skip = d]
           u3 == [u2 EXCEPT !.i = 2]
           u == [u3 EXCEPT !.idx = r.len + 1]
           s == R!rest(u)
<1>0. /\ p.publish \in BOOLEAN /\ p.topic \in Nat /\ p.payload \in Nat
      /\ R!id(p) \in {0, 2} /\ R!Length(p) \in Nat
      /\ p.publish => R!Length(p) = 2 + p.topic + R!id(p) + p.payload
  BY PacketNumbers
<1>1. r \in Rd /\ InTopic(r, p, n, L, m) /\ r.len \in Nat
  BY DEF Reading, Rd
<1>2. /\ n = 2 + L /\ r.len = n /\ p.publish /\ m = 0 /\ Weighed(r, p, L)
      /\ n + 1 = 3 + L /\ n + 1 <= 7 /\ n + 1 \in Nat
  BY <1>1 DEF InTopic
<1>3. d = p.topic + R!id(p) /\ d \in Nat
  <2>1. r.qos = p.qos
    BY <1>2 DEF Weighed, Begun
  <2> QED BY <2>1, <1>0, <1>2 DEF R!id
<1>4. u = [r EXCEPT !.len = r.len + 1, !.skip = b + IF r.qos = 1 THEN 2 ELSE 0, !.i = 2, !.idx = r.len + 1]
  OBVIOUS
<1> HIDE DEF d
<1>5. /\ u1 \in Rd /\ u1.publish = r.publish /\ u1.qos = r.qos /\ u1.len = n + 1
      /\ u1.length = r.length /\ u1.llen = r.llen
  BY <1>1, <1>2 DEF Rd
<1> HIDE DEF u1
<1>6. /\ u2 \in Rd /\ u2.publish = r.publish /\ u2.qos = r.qos /\ u2.len = n + 1
      /\ u2.length = r.length /\ u2.llen = r.llen /\ u2.skip = d
  BY <1>3, <1>5 DEF Rd
<1> HIDE DEF u2
<1>7. /\ u3 \in Rd /\ u3.publish = r.publish /\ u3.qos = r.qos /\ u3.len = n + 1
      /\ u3.length = r.length /\ u3.llen = r.llen /\ u3.skip = d /\ u3.i = 2
  BY <1>6 DEF Rd
<1> HIDE DEF u3
<1>8. /\ u \in Rd /\ u.publish = r.publish /\ u.qos = r.qos /\ u.len = n + 1
      /\ u.length = r.length /\ u.llen = r.llen /\ u.skip = d /\ u.i = 2 /\ u.idx = n + 1
  BY <1>1, <1>2, <1>7 DEF Rd
<1> HIDE DEF u
<1>9. r.length = R!Length(p) /\ r.llen = L
  BY <1>2 DEF Weighed
<1>10. m = Streamed(hs, p, L, n + 1) /\ Fits(n + 1) = n + 1
  BY <1>0, <1>2, ReaderConstants DEF Streamed, Fits
<1>11. CASE u.i < u.length
  <2>1. /\ s \in Rd /\ s.pc = "rest" /\ s.publish = u.publish /\ s.qos = u.qos /\ s.len = u.len
        /\ s.length = u.length /\ s.llen = u.llen /\ s.skip = u.skip /\ s.i = u.i /\ s.idx = u.idx
    BY <1>8, <1>11 DEF Rd, R!rest
  <2> HIDE DEF s
  <2>2. Weighed(s, p, L)
    BY <1>2, <1>8, <2>1 DEF Weighed, Begun
  <2>3. n + 1 < 1 + L + R!Length(p) /\ 2 = (n + 1) - (1 + L) /\ n + 1 >= 1 + L /\ n + 1 >= 3 + L
    BY <1>0, <1>2, <1>8, <1>9, <1>11
  <2>4. InRest(hs, s, p, n + 1, L, m)
    BY <2>1, <2>2, <2>3, <1>3, <1>8, <1>10 DEF InRest
  <2>5. Reading(hs, s, p, n + 1, L, q, m, x)
    BY <2>1, <2>4 DEF Reading
  <2> QED BY <1>4, <2>5 DEF s
<1>12. CASE ~(u.i < u.length)
  <2>1. s \in Rd /\ s.pc = "end" /\ s.len = u.len /\ s.idx = u.idx
    BY <1>8, <1>12 DEF Rd, R!rest
  <2> HIDE DEF s
  <2>2. n + 1 = 1 + L + R!Length(p)
    BY <1>0, <1>2, <1>8, <1>9, <1>12
  <2>3. AtEnd(hs, s, p, n + 1, L, m)
    BY <2>1, <2>2, <1>8, <1>10 DEF AtEnd
  <2>4. Reading(hs, s, p, n + 1, L, q, m, x)
    BY <2>1, <2>3 DEF Reading
  <2> QED BY <1>4, <2>4 DEF s
<1> QED
  BY <1>11, <1>12

\* It takes a byte of the rest.
LEMMA ReadsRest ==
  ASSUME NEW hs \in BOOLEAN, NEW r, NEW p \in R!Packet, NEW L \in 1 .. 4, NEW q,
         NEW n \in Nat, NEW m, NEW x, Reading(hs, r, p, n, L, q, m, x), r.pc = "rest",
         NEW h, h = IF r.i + 1 < r.length THEN r.pc ELSE "end",
         NEW l, l = IF r.len < BufferSize THEN r.len + 1 ELSE r.len,
         NEW k, k = IF hs /\ r.publish /\ r.idx - r.llen - 2 > r.skip THEN m + 1 ELSE m
  PROVE  Reading(hs, [r EXCEPT !.len = l, !.idx = r.idx + 1, !.i = r.i + 1, !.pc = h], p, n + 1, L, q, k, x)
<1> DEFINE u1 == [r EXCEPT !.len = l]
           u2 == [u1 EXCEPT !.idx = r.idx + 1]
           u3 == [u2 EXCEPT !.i = r.i + 1]
           u == [u3 EXCEPT !.pc = h]
<1>0. /\ p.publish \in BOOLEAN /\ p.topic \in Nat /\ p.payload \in Nat
      /\ R!id(p) \in {0, 2} /\ R!Length(p) \in Nat
      /\ p.publish => R!Length(p) = 2 + p.topic + R!id(p) + p.payload
  BY PacketNumbers
<1>1. r \in Rd /\ InRest(hs, r, p, n, L, m) /\ r.len \in Nat /\ r.idx \in Nat /\ r.i \in Nat /\ r.length \in Nat
  BY DEF Reading, Rd
<1>2. /\ Weighed(r, p, L) /\ r.idx = n /\ r.len = Fits(n) /\ r.i = n - (1 + L)
      /\ n >= 1 + L /\ (p.publish => r.skip = p.topic + R!id(p) /\ n >= 3 + L)
      /\ n < 1 + L + R!Length(p) /\ m = Streamed(hs, p, L, n)
  BY <1>1 DEF InRest
<1>3. r.publish = p.publish /\ r.length = R!Length(p) /\ r.llen = L
  BY <1>2 DEF Weighed, Begun
<1>4. l = Fits(n + 1) /\ l \in Nat
  BY <1>1, <1>2, ReaderConstants DEF Fits
<1>5. k = Streamed(hs, p, L, n + 1)
  <2>1. CASE hs /\ p.publish
    <3>1. k = IF n - L - 2 > p.topic + R!id(p) THEN m + 1 ELSE m
      BY <1>2, <1>3, <2>1
    <3>2. CASE n - L - 2 > p.topic + R!id(p)
      <4>1. n >= L + 3 + p.topic + R!id(p)
        BY <3>1, <3>2, <1>0
      <4>2. m = n - (L + 3 + p.topic + R!id(p))
        BY <4>1, <2>1, <1>2, <1>0 DEF Streamed
      <4> QED BY <4>1, <4>2, <3>1, <3>2, <2>1, <1>0 DEF Streamed
    <3>3. CASE ~(n - L - 2 > p.topic + R!id(p))
      <4>1. n + 1 <= L + 3 + p.topic + R!id(p)
        BY <3>1, <3>3, <1>0
      <4>2. m = 0
        BY <4>1, <2>1, <1>2, <1>0 DEF Streamed
      <4> QED BY <4>1, <4>2, <3>1, <3>3, <2>1, <1>0 DEF Streamed
    <3> QED BY <3>2, <3>3
  <2>2. CASE ~(hs /\ p.publish)
    <3>1. k = m
      BY <2>2, <1>3
    <3>2. m = 0
      BY <2>2, <1>2 DEF Streamed
    <3> QED BY <2>2, <3>1, <3>2 DEF Streamed
  <2> QED BY <2>1, <2>2
<1>6. u = [r EXCEPT !.len = l, !.idx = r.idx + 1, !.i = r.i + 1, !.pc = h]
  OBVIOUS
<1>7. /\ u1 \in Rd /\ u1.publish = r.publish /\ u1.qos = r.qos /\ u1.len = l
      /\ u1.length = r.length /\ u1.llen = r.llen /\ u1.skip = r.skip
  BY <1>1, <1>4 DEF Rd
<1> HIDE DEF u1
<1>8. /\ u2 \in Rd /\ u2.publish = r.publish /\ u2.qos = r.qos /\ u2.len = l
      /\ u2.length = r.length /\ u2.llen = r.llen /\ u2.skip = r.skip /\ u2.idx = n + 1
  BY <1>1, <1>2, <1>7 DEF Rd
<1> HIDE DEF u2
<1>9. /\ u3 \in Rd /\ u3.publish = r.publish /\ u3.qos = r.qos /\ u3.len = l
      /\ u3.length = r.length /\ u3.llen = r.llen /\ u3.skip = r.skip /\ u3.idx = n + 1 /\ u3.i = r.i + 1
  BY <1>1, <1>8 DEF Rd
<1> HIDE DEF u3
<1>10. h \in {"rest", "end"}
  OBVIOUS
<1>11. /\ u \in Rd /\ u.publish = r.publish /\ u.qos = r.qos /\ u.len = l /\ u.pc = h
       /\ u.length = r.length /\ u.llen = r.llen /\ u.skip = r.skip /\ u.idx = n + 1 /\ u.i = r.i + 1
  BY <1>9, <1>10 DEF Rd
<1> HIDE DEF u
<1>12. CASE r.i + 1 < r.length
  <2>1. u.pc = "rest"
    BY <1>11, <1>12
  <2>2. Weighed(u, p, L)
    BY <1>2, <1>11 DEF Weighed, Begun
  <2>3. /\ n + 1 < 1 + L + R!Length(p) /\ r.i + 1 = (n + 1) - (1 + L)
        /\ n + 1 >= 1 + L /\ (p.publish => n + 1 >= 3 + L)
    BY <1>0, <1>2, <1>3, <1>12
  <2>4. InRest(hs, u, p, n + 1, L, k)
    BY <2>2, <2>3, <1>2, <1>4, <1>5, <1>11 DEF InRest
  <2>5. Reading(hs, u, p, n + 1, L, q, k, x)
    BY <2>1, <2>4, <1>11 DEF Reading
  <2> QED BY <1>6, <2>5
<1>13. CASE ~(r.i + 1 < r.length)
  <2>1. u.pc = "end"
    BY <1>11, <1>13
  <2>2. n + 1 = 1 + L + R!Length(p)
    BY <1>0, <1>2, <1>3, <1>13
  <2>3. AtEnd(hs, u, p, n + 1, L, k)
    BY <2>2, <1>4, <1>5, <1>11 DEF AtEnd
  <2>4. Reading(hs, u, p, n + 1, L, q, k, x)
    BY <2>1, <2>3, <1>11 DEF Reading
  <2> QED BY <1>6, <2>4
<1> QED
  BY <1>12, <1>13

\* readPacket() returns.
LEMMA ReadsEnd ==
  ASSUME NEW hs \in BOOLEAN, NEW r, NEW p \in R!Packet, NEW L \in 1 .. 4, NEW q,
         NEW n \in Nat, NEW m, NEW x, Reading(hs, r, p, n, L, q, m, x), r.pc = "end",
         NEW y, y = IF ~hs /\ r.idx > BufferSize THEN 0 ELSE r.len
  PROVE  Reading(hs, [r EXCEPT !.pc = "idle"], p, n, L, q, m, y)
<1> DEFINE u == [r EXCEPT !.pc = "idle"]
<1>1. r \in Rd /\ AtEnd(hs, r, p, n, L, m)
  BY DEF Reading
<1>2. u \in Rd /\ u.pc = "idle"
  BY <1>1 DEF Rd
<1> HIDE DEF u
<1>3. Done(hs, p, n, L, m, y)
  BY <1>1, ReaderConstants DEF AtEnd, Done, Fits
<1> QED
  BY <1>2, <1>3 DEF Reading, u

\* readPacket() has the first bytes t of the k-th of the packets s, at the place
\* where the broker put them; w is what follows.
Midway(hs, w, s, k, t, r, m, x, at) ==
  LET p == s[k]  B == R!Bytes(s[k]) IN
  /\ Layout(w, at[k - 1] + Len(t), s, at)
  /\ Len(t) <= Len(B) /\ \A j \in 1 .. Len(t) : t[j] = B[j]
  /\ \E L \in 1 .. 4 : \E v, q : Spelled(v, L, R!Length(p), q) /\ Form(B, p, L, v) /\ Reading(hs, r, p, Len(t), L, q, m, x)

Follow(hs, w, s, k, t, r, m, x, at) ==
  IF k = 0 THEN Layout(w, 0, s, at) /\ t = <<>> /\ r.pc = "idle" /\ x = -1 ELSE Midway(hs, w, s, k, t, r, m, x, at)

ReaderTypes ==
  /\ available \in Seq(Byte) /\ coming \in Seq(Byte) /\ took \in Seq(Byte) /\ sent \in Seq(R!Packet)
  /\ packet \in 0 .. Len(sent) /\ hasStream \in BOOLEAN

ReaderFollows == \E at : Follow(hasStream, available \o coming, sent, packet, took, rd, stream, ret, at)

ReaderInv == ~stalled => ReaderTypes /\ ReaderFollows

\* It holds at the start.
LEMMA FollowInit ==
  ASSUME R!Init
  PROVE  ReaderInv
<1>1. ReaderTypes
  BY DEF R!Init, ReaderTypes
<1> DEFINE at == [k \in 0 .. 0 |-> 0]
<1>2. available \o coming = <<>> /\ sent = <<>> /\ Len(sent) = 0 /\ Len(<<>>) = 0
  BY DEF R!Init
<1>3. Layout(<<>>, 0, <<>>, at)
  <2>1. at \in [0 .. Len(<<>>) -> Nat] /\ \A k \in 0 .. Len(<<>>) : at[k] = 0
    OBVIOUS
  <2> HIDE DEF at
  <2> QED BY <2>1, Len(<<>>) = 0 DEF Layout
<1> HIDE DEF at
<1>4. rd.pc = "idle"
  BY Zenon DEF R!Init, R!Idle
<1>5. Follow(hasStream, available \o coming, sent, packet, took, rd, stream, ret, at)
  BY <1>2, <1>3, <1>4 DEF Follow, R!Init
<1> QED
  BY <1>1, <1>5 DEF ReaderInv, ReaderFollows

\* The broker sends another packet.
LEMMA FollowSend ==
  ASSUME NEW hs, NEW w \in Seq(Byte), NEW s \in Seq(R!Packet), NEW k \in 0 .. Len(s), NEW t \in Seq(Byte),
         NEW r, NEW m, NEW x, NEW at, Follow(hs, w, s, k, t, r, m, x, at), NEW p \in R!Packet
  PROVE  \E bt : Follow(hs, w \o R!Bytes(p), Append(s, p), k, t, r, m, x, bt)
<1>1. CASE k = 0
  <2>1. Layout(w, 0, s, at) /\ t = <<>> /\ r.pc = "idle" /\ x = -1
    BY <1>1 DEF Follow
  <2>2. PICK bt : Layout(w \o R!Bytes(p), 0, Append(s, p), bt)
    BY <2>1, LayoutSend, 0 \in Nat
  <2> QED BY <1>1, <2>1, <2>2 DEF Follow
<1>2. CASE k # 0
  <2>1. Midway(hs, w, s, k, t, r, m, x, at)
    BY <1>2 DEF Follow
  <2>2. k \in 1 .. Len(s) /\ k - 1 \in 0 .. Len(s) /\ Append(s, p)[k] = s[k]
    BY <1>2
  <2>3. at[k - 1] \in Nat /\ Layout(w, at[k - 1] + Len(t), s, at) /\ at[k - 1] + Len(t) \in Nat
    <3>1. Layout(w, at[k - 1] + Len(t), s, at)
      BY <2>1 DEF Midway
    <3>2. at[k - 1] \in Nat
      BY <3>1, <2>2 DEF Layout
    <3> QED BY <3>1, <3>2
  <2>4. PICK bt : /\ Layout(w \o R!Bytes(p), at[k - 1] + Len(t), Append(s, p), bt)
                  /\ \A i_ \in 0 .. Len(s) : bt[i_] = at[i_]
    BY <2>3, LayoutSend
  <2>5. bt[k - 1] = at[k - 1]
    BY <2>2, <2>4
  <2>6. Midway(hs, w \o R!Bytes(p), Append(s, p), k, t, r, m, x, bt)
    BY <2>1, <2>2, <2>4, <2>5 DEF Midway
  <2> QED BY <1>2, <2>6 DEF Follow
<1> QED
  BY <1>1, <1>2

\* loop() finds a byte: another packet begins.
LEMMA FollowLoop ==
  ASSUME NEW hs, NEW w \in Seq(Byte), w # <<>>, NEW s \in Seq(R!Packet), NEW k \in 0 .. Len(s), NEW t \in Seq(Byte),
         NEW r, NEW m, NEW x, NEW at, Follow(hs, w, s, k, t, r, m, x, at), r.pc = "idle"
  PROVE  k < Len(s) /\ Follow(hs, w, s, k + 1, <<>>, [R!Idle EXCEPT !.pc = "header"], 0, -1, at)
<1> DEFINE u == [R!Idle EXCEPT !.pc = "header"]
<1>1. Layout(w, at[k], s, at) /\ at[k] \in Nat
  <2>1. CASE k = 0
    <3>1. Layout(w, 0, s, at)
      BY <2>1 DEF Follow
    <3>2. at[0] = 0
      BY <3>1 DEF Layout
    <3> QED BY <2>1, <3>1, <3>2
  <2>2. CASE k # 0
    <3>1. Midway(hs, w, s, k, t, r, m, x, at)
      BY <2>2 DEF Follow
    <3>2. k \in 1 .. Len(s) /\ k \in 0 .. Len(s)
      BY <2>2
    <3>3a. PICK L \in 1 .. 4 : \E v, q : Form(R!Bytes(s[k]), s[k], L, v) /\ Reading(hs, r, s[k], Len(t), L, q, m, x)
      BY <3>1 DEF Midway
    <3>3. PICK v, q : Form(R!Bytes(s[k]), s[k], L, v) /\ Reading(hs, r, s[k], Len(t), L, q, m, x)
      BY <3>3a
    <3>4. Len(t) = 1 + L + R!Length(s[k]) /\ Len(R!Bytes(s[k])) = 1 + L + R!Length(s[k])
      BY <3>3 DEF Form, Reading, Done
    <3>5. Layout(w, at[k - 1] + Len(t), s, at)
      BY <3>1 DEF Midway
    <3>6. at[k] = at[k - 1] + Len(t) /\ at[k] \in Nat
      BY <3>2, <3>4, <3>5 DEF Layout
    <3> QED BY <3>5, <3>6
  <2> QED BY <2>1, <2>2
<1>2. k < Len(s)
  BY <1>1, LayoutMore
<1>3. k + 1 \in 1 .. Len(s) /\ (k + 1) - 1 = k /\ k + 1 # 0 /\ s[k + 1] \in R!Packet
  BY <1>2
<1>4a. PICK L \in 1 .. 4 : \E v, q : Spelled(v, L, R!Length(s[k + 1]), q) /\ Form(R!Bytes(s[k + 1]), s[k + 1], L, v)
  BY <1>3, BytesForm
<1>4. PICK v, q : Spelled(v, L, R!Length(s[k + 1]), q) /\ Form(R!Bytes(s[k + 1]), s[k + 1], L, v)
  BY <1>4a
<1>5. u \in Rd /\ u.pc = "header" /\ u.length = 0 /\ u.multiplier = 1 /\ u.i = 0
  <2>1. R!Idle \in Rd /\ R!Idle.length = 0 /\ R!Idle.multiplier = 1 /\ R!Idle.i = 0
    BY DEF R!Idle, Rd
  <2> QED BY <2>1 DEF Rd
<1> HIDE DEF u
<1>6. Reading(hs, u, s[k + 1], 0, L, q, 0, -1)
  BY <1>5 DEF Reading, InHeader
<1>7. Len(<<>>) = 0 /\ at[k] + 0 = at[k] /\ Len(R!Bytes(s[k + 1])) \in Nat
  BY <1>1, <1>3, BytesTyped
<1>8. Midway(hs, w, s, k + 1, <<>>, u, 0, -1, at)
  BY <1>1, <1>3, <1>4, <1>6, <1>7 DEF Midway
<1> QED
  BY <1>2, <1>3, <1>8 DEF Follow, u

\* A byte is taken, which readPacket() reads the way it should.
LEMMA FollowTake ==
  ASSUME NEW hs, NEW w \in Seq(Byte), w # <<>>, NEW s \in Seq(R!Packet), NEW k \in 1 .. Len(s), NEW t \in Seq(Byte),
         NEW r, NEW m, NEW x, NEW at, Midway(hs, w, s, k, t, r, m, x, at),
         NEW L \in 1 .. 4, NEW v, NEW q, Spelled(v, L, R!Length(s[k]), q), Form(R!Bytes(s[k]), s[k], L, v),
         Len(t) < Len(R!Bytes(s[k])), NEW r2, NEW m2, Reading(hs, r2, s[k], Len(t) + 1, L, q, m2, x)
  PROVE  Midway(hs, Tail(w), s, k, Append(t, w[1]), r2, m2, x, at)
<1> DEFINE B == R!Bytes(s[k])
           u == Append(t, w[1])
<1>1. /\ Layout(w, at[k - 1] + Len(t), s, at) /\ \A j \in 1 .. Len(t) : t[j] = B[j]
  BY DEF Midway
<1>2. k - 1 \in 0 .. Len(s) /\ s[k] \in R!Packet
  OBVIOUS
<1>3. at[k - 1] \in Nat /\ at[k - 1] + Len(t) \in Nat /\ Len(B) \in Nat
  <2>1. at[k - 1] \in Nat
    BY <1>1, <1>2 DEF Layout
  <2> QED BY <2>1, <1>2, BytesTyped
<1>4. w[1] = B[Len(t) + 1]
  BY <1>1, <1>3, LayoutNext
<1>5. Layout(Tail(w), at[k - 1] + Len(t) + 1, s, at)
  BY <1>1, <1>3, LayoutTake
<1>6. w[1] \in Byte
  OBVIOUS
<1>7. Len(u) = Len(t) + 1 /\ u[Len(t) + 1] = w[1] /\ \A j \in 1 .. Len(t) : u[j] = t[j]
  BY <1>6
<1>8. at[k - 1] + Len(t) + 1 = at[k - 1] + Len(u) /\ Len(u) <= Len(B)
  <2> DEFINE a == at[k - 1]  c == Len(t)  d == Len(B)  e == Len(u)
  <2>1. a \in Nat /\ c \in Nat /\ d \in Nat /\ e = c + 1 /\ c < d
    BY <1>3, <1>7
  <2> HIDE DEF a, c, d, e
  <2>2. a + c + 1 = a + e /\ e <= d
    BY <2>1
  <2> QED BY <2>2 DEF a, c, d, e
<1>9. \A j \in 1 .. Len(u) : u[j] = B[j]
  <2>1. \A j \in 1 .. Len(u) : j \in 1 .. Len(t) \/ j = Len(t) + 1
    BY <1>7
  <2> QED BY <2>1, <1>1, <1>4, <1>7
<1> HIDE DEF u
<1>10. Midway(hs, Tail(w), s, k, u, r2, m2, x, at)
  BY <1>5, <1>7, <1>8, <1>9 DEF Midway
<1> QED BY <1>10 DEF u

\* What is to come begins with what has arrived.
LEMMA Ahead ==
  ASSUME NEW a \in Seq(Byte), NEW c \in Seq(Byte), a # <<>>
  PROVE  /\ a \o c \in Seq(Byte) /\ a \o c # <<>> /\ (a \o c)[1] = Head(a)
         /\ Tail(a \o c) = Tail(a) \o c /\ Tail(a) \in Seq(Byte) /\ Head(a) \in Byte
<1>1. a \o c \in Seq(Byte) /\ Joined(a \o c, a, c)
  BY Concatenation
<1>2. Len(a) \in Nat \ {0} /\ Len(c) \in Nat /\ Head(a) = a[1] /\ Tail(a) \in Seq(Byte) /\ Len(Tail(a)) = Len(a) - 1 /\ Head(a) \in Byte
  OBVIOUS
<1>3. 1 \in 1 .. Len(a) /\ Len(a \o c) = Len(a) + Len(c)
  BY <1>1, <1>2 DEF Joined
<1>4. (a \o c)[1] = Head(a) /\ a \o c # <<>>
  <2>1. (a \o c)[1] = a[1]
    BY <1>1, <1>3 DEF Joined
  <2>2. Len(a \o c) # 0
    BY <1>2, <1>3
  <2> QED BY <2>1, <2>2, <1>2
<1>5. Tail(a \o c) = Tail(a) \o c
  OBVIOUS
<1> QED
  BY <1>1, <1>2, <1>4, <1>5

\* What arrives was at the head of what was coming.
LEMMA Arrives ==
  ASSUME NEW a \in Seq(Byte), NEW c \in Seq(Byte), NEW n \in 1 .. Len(c)
  PROVE  /\ (a \o SubSeq(c, 1, n)) \o SubSeq(c, n + 1, Len(c)) = a \o c
         /\ a \o SubSeq(c, 1, n) \in Seq(Byte) /\ SubSeq(c, n + 1, Len(c)) \in Seq(Byte)
<1> DEFINE d == SubSeq(c, 1, n)
           e == SubSeq(c, n + 1, Len(c))
           x == a \o d
           y == x \o e
           z == a \o c
<1>0. Len(a) \in Nat /\ Len(c) \in Nat /\ n \in 1 .. Len(c)
  OBVIOUS
<1>1. d \in Seq(Byte) /\ Len(d) = n /\ \A j \in 1 .. n : d[j] = c[j]
  BY <1>0
<1>2. e \in Seq(Byte) /\ Len(e) = Len(c) - n /\ \A j \in 1 .. Len(c) - n : e[j] = c[n + j]
  BY <1>0
<1> HIDE DEF d, e
<1>3. x \in Seq(Byte) /\ Joined(x, a, d)
  BY <1>1, Concatenation
<1> HIDE DEF x
<1>4. y \in Seq(Byte) /\ Joined(y, x, e)
  BY <1>2, <1>3, Concatenation
<1>5. z \in Seq(Byte) /\ Joined(z, a, c)
  BY Concatenation
<1> HIDE DEF y, z
<1>6. Len(x) = Len(a) + n /\ Len(y) = Len(a) + Len(c) /\ Len(z) = Len(a) + Len(c)
  BY <1>0, <1>1, <1>2, <1>3, <1>4, <1>5 DEF Joined
<1>7. ASSUME NEW j \in 1 .. Len(a) + Len(c) PROVE y[j] = z[j]
  <2>1. CASE j <= Len(a)
    <3>1. j \in 1 .. Len(a) /\ j \in 1 .. Len(x)
      BY <2>1, <1>0, <1>6
    <3> QED BY <3>1, <1>3, <1>4, <1>5 DEF Joined
  <2>2. CASE j > Len(a) /\ j <= Len(a) + n
    <3>1. j - Len(a) \in 1 .. n /\ j \in 1 .. Len(x) /\ j - Len(a) \in 1 .. Len(c) /\ Len(a) + (j - Len(a)) = j
      BY <2>2, <1>0, <1>6
    <3>2. y[j] = x[j] /\ x[Len(a) + (j - Len(a))] = d[j - Len(a)] /\ z[Len(a) + (j - Len(a))] = c[j - Len(a)]
      BY <3>1, <1>1, <1>3, <1>4, <1>5 DEF Joined
    <3> QED BY <3>1, <3>2, <1>1
  <2>3. CASE j > Len(a) + n
    <3> DEFINE i_ == j - (Len(a) + n)
    <3>1. i_ \in 1 .. Len(c) - n /\ Len(x) + i_ = j /\ n + i_ \in 1 .. Len(c) /\ Len(a) + (n + i_) = j
      <4> DEFINE A == Len(a)  C == Len(c)  X == Len(x)
      <4>1. A \in Nat /\ C \in Nat /\ n \in Nat /\ n <= C /\ X = A + n /\ j \in Nat /\ j > A + n /\ j <= A + C
        BY <2>3, <1>0, <1>6
      <4> HIDE DEF A, C, X
      <4>2. j - (A + n) \in 1 .. C - n /\ X + (j - (A + n)) = j
        BY <4>1
      <4>3. n + (j - (A + n)) \in 1 .. C /\ A + (n + (j - (A + n))) = j
        BY <4>1
      <4> QED BY <4>2, <4>3 DEF A, C, X
    <3> HIDE DEF i_
    <3>2. y[Len(x) + i_] = e[i_] /\ z[Len(a) + (n + i_)] = c[n + i_]
      BY <3>1, <1>2, <1>4, <1>5 DEF Joined
    <3> QED BY <3>1, <3>2, <1>2
  <2> QED BY <2>1, <2>2, <2>3, <1>0
<1>8. y = z
  BY <1>4, <1>5, <1>6, <1>7
<1> QED
  BY <1>2, <1>3, <1>8 DEF d, e, x, y, z

\* A byte is taken.
LEMMA TakesByte ==
  ASSUME ReaderTypes, packet # 0, NEW at,
         Midway(hasStream, available \o coming, sent, packet, took, rd, stream, ret, at),
         NEW L \in 1 .. 4, NEW v, NEW q, Spelled(v, L, R!Length(sent[packet]), q),
         Form(R!Bytes(sent[packet]), sent[packet], L, v), Len(took) < Len(R!Bytes(sent[packet])),
         NEW r, R!readByte(r), packet' = packet, ret' = ret,
         Reading(hasStream, r, sent[packet], Len(took) + 1, L, q, stream', ret)
  PROVE  ReaderTypes' /\ ReaderFollows'
<1>1. /\ available # <<>> /\ rd' = r /\ took' = Append(took, Head(available)) /\ available' = Tail(available)
      /\ hasStream' = hasStream /\ coming' = coming /\ sent' = sent
  BY DEF R!readByte
<1>2. /\ available \in Seq(Byte) /\ coming \in Seq(Byte) /\ took \in Seq(Byte) /\ sent \in Seq(R!Packet)
      /\ packet \in 1 .. Len(sent) /\ hasStream \in BOOLEAN
  BY DEF ReaderTypes
<1> DEFINE w == available \o coming
<1>3. /\ w \in Seq(Byte) /\ w # <<>> /\ w[1] = Head(available) /\ Tail(w) = available' \o coming'
      /\ available' \in Seq(Byte) /\ Head(available) \in Byte
  BY <1>1, <1>2, Ahead
<1>4. ReaderTypes'
  <2>1. took' \in Seq(Byte)
    BY <1>1, <1>2, <1>3
  <2> QED BY <2>1, <1>1, <1>2, <1>3 DEF ReaderTypes
<1> HIDE DEF w
<1>5. Midway(hasStream, Tail(w), sent, packet, Append(took, w[1]), r, stream', ret, at)
  <2>1. Midway(hasStream, w, sent, packet, took, rd, stream, ret, at)
    BY DEF w
  <2> QED BY <2>1, <1>2, <1>3, FollowTake
<1>6. Follow(hasStream', available' \o coming', sent', packet', took', rd', stream', ret', at)
  BY <1>1, <1>3, <1>5 DEF Follow
<1> QED
  BY <1>4, <1>6 DEF ReaderFollows

\* What holds inside readPacket().
LEMMA Inside ==
  ASSUME ReaderTypes, ReaderFollows, rd.pc # "idle"
  PROVE  /\ packet # 0 /\ packet \in 1 .. Len(sent) /\ sent[packet] \in R!Packet /\ Len(took) \in Nat
         /\ \E at : /\ Midway(hasStream, available \o coming, sent, packet, took, rd, stream, ret, at)
                    /\ available # <<>> /\ Len(took) < Len(R!Bytes(sent[packet])) =>
                         Head(available) = R!Bytes(sent[packet])[Len(took) + 1]
         /\ \E L \in 1 .. 4 : \E v, q :
              /\ Spelled(v, L, R!Length(sent[packet]), q)
              /\ Form(R!Bytes(sent[packet]), sent[packet], L, v)
              /\ Reading(hasStream, rd, sent[packet], Len(took), L, q, stream, ret)
<1>1. PICK at : Follow(hasStream, available \o coming, sent, packet, took, rd, stream, ret, at)
  BY DEF ReaderFollows
<1>2. packet # 0 /\ Midway(hasStream, available \o coming, sent, packet, took, rd, stream, ret, at)
  BY <1>1 DEF Follow
<1>3. packet \in 1 .. Len(sent) /\ sent[packet] \in R!Packet /\ Len(took) \in Nat
  BY <1>2 DEF ReaderTypes
<1>4. ASSUME available # <<>>, Len(took) < Len(R!Bytes(sent[packet]))
      PROVE  Head(available) = R!Bytes(sent[packet])[Len(took) + 1]
  <2> DEFINE w == available \o coming
  <2>1. w \in Seq(Byte) /\ w[1] = Head(available)
    BY <1>4, Ahead DEF ReaderTypes
  <2>2. Layout(w, at[packet - 1] + Len(took), sent, at)
    BY <1>2 DEF Midway
  <2> HIDE DEF w
  <2>3. at[packet - 1] \in Nat
    <3>1. packet - 1 \in 0 .. Len(sent)
      BY <1>3
    <3> QED BY <3>1, <2>2 DEF Layout
  <2>4. at[packet - 1] + Len(took) \in Nat /\ sent \in Seq(R!Packet)
    BY <2>3, <1>3 DEF ReaderTypes
  <2>5. w[1] = R!Bytes(sent[packet])[Len(took) + 1]
    BY <1>3, <1>4, <2>1, <2>2, <2>4, LayoutNext
  <2> QED BY <2>1, <2>5
<1>5. \E L \in 1 .. 4 : \E v, q :
              /\ Spelled(v, L, R!Length(sent[packet]), q)
              /\ Form(R!Bytes(sent[packet]), sent[packet], L, v)
              /\ Reading(hasStream, rd, sent[packet], Len(took), L, q, stream, ret)
  BY <1>2 DEF Midway
<1> QED
  BY <1>2, <1>3, <1>4, <1>5

\* The first byte of a packet.
LEMMA StepHeader ==
  ASSUME ReaderTypes, ReaderFollows, R!header
  PROVE  ReaderTypes' /\ ReaderFollows'
<1> DEFINE p == sent[packet]
           B == R!Bytes(p)
<1>0. rd.pc = "header" /\ available # <<>> /\ packet' = packet /\ ret' = ret /\ stream' = stream
  BY DEF R!header, R!readByte
<1>1. packet # 0 /\ p \in R!Packet
  BY <1>0, Inside
<1>2. PICK at : /\ Midway(hasStream, available \o coming, sent, packet, took, rd, stream, ret, at)
                /\ available # <<>> /\ Len(took) < Len(B) => Head(available) = B[Len(took) + 1]
  BY <1>0, Inside
<1>3a. PICK L \in 1 .. 4 : \E v, q :
         Spelled(v, L, R!Length(p), q) /\ Form(B, p, L, v) /\ Reading(hasStream, rd, p, Len(took), L, q, stream, ret)
  BY <1>0, Inside
<1>3. PICK v, q :
         Spelled(v, L, R!Length(p), q) /\ Form(B, p, L, v) /\ Reading(hasStream, rd, p, Len(took), L, q, stream, ret)
  BY <1>3a
<1>4. Len(took) = 0 /\ Len(B) \in Nat \ {0} /\ 0 + 1 = 1
  BY <1>0, <1>1, <1>3, BytesTyped DEF Reading, InHeader
<1> DEFINE b == Head(available)[3]
           r == [rd EXCEPT !.pc = "length", !.publish = b \in {0, 1}, !.qos = b, !.len = 1]
<1>5. b = IF p.publish THEN p.qos ELSE -1
  <2>1. Head(available) = B[1]
    BY <1>0, <1>2, <1>4
  <2>2. B[1] = <<"first", FALSE, IF p.publish THEN p.qos ELSE -1>>
    BY <1>3 DEF Form
  <2> QED BY <2>1, <2>2
<1>6. R!readByte(r)
  BY DEF R!header, R!value
<1> HIDE DEF b
<1>7. Reading(hasStream, r, p, 1, L, q, stream, ret)
  <2>1. hasStream \in BOOLEAN
    BY DEF ReaderTypes
  <2>2. Reading(hasStream, rd, p, 0, L, q, stream, ret)
    BY <1>3, <1>4
  <2> QED BY <2>1, <2>2, <1>0, <1>1, <1>3, <1>5, ReadsHeader
<1> HIDE DEF r, p
<1>8. Reading(hasStream, r, p, Len(took) + 1, L, q, stream', ret) /\ Len(took) < Len(B)
  BY <1>0, <1>4, <1>7
<1> QED
  BY <1>0, <1>1, <1>2, <1>3, <1>6, <1>8, TakesByte DEF p

\* A byte of its length.
LEMMA StepLength ==
  ASSUME ReaderTypes, ReaderFollows, R!lengthByte
  PROVE  ReaderTypes' /\ ReaderFollows'
<1> DEFINE p == sent[packet]
           B == R!Bytes(p)
<1>0. rd.pc = "length" /\ available # <<>> /\ packet' = packet /\ ret' = ret /\ stream' = stream
  BY DEF R!lengthByte
<1>1. packet # 0 /\ p \in R!Packet /\ Len(took) \in Nat
  BY <1>0, Inside
<1>2. PICK at : /\ Midway(hasStream, available \o coming, sent, packet, took, rd, stream, ret, at)
                /\ available # <<>> /\ Len(took) < Len(B) => Head(available) = B[Len(took) + 1]
  BY <1>0, Inside
<1>3a. PICK L \in 1 .. 4 : \E v, q :
         Spelled(v, L, R!Length(p), q) /\ Form(B, p, L, v) /\ Reading(hasStream, rd, p, Len(took), L, q, stream, ret)
  BY <1>0, Inside
<1>3. PICK v, q :
         Spelled(v, L, R!Length(p), q) /\ Form(B, p, L, v) /\ Reading(hasStream, rd, p, Len(took), L, q, stream, ret)
  BY <1>3a
<1>4. Len(took) \in 1 .. L /\ Len(took) < Len(B)
  <2>1. Len(took) \in 1 .. L
    BY <1>0, <1>3 DEF Reading, InLength
  <2>2. R!Length(p) \in Nat /\ Len(B) = 1 + L + R!Length(p)
    BY <1>1, <1>3, PacketNumbers DEF Form
  <2> HIDE DEF B, p
  <2> QED BY <2>1, <2>2
<1> DEFINE b == Head(available)[3]
           r == [rd EXCEPT !.len = rd.len + 1, !.length = rd.length + (b % Base) * rd.multiplier,
                           !.multiplier = rd.multiplier * Base, !.llen = rd.len]
           u == IF b >= Base THEN r ELSE R!afterLength(r)
<1>5. b = v[Len(took)]
  <2>1. Head(available) = B[Len(took) + 1]
    BY <1>0, <1>2, <1>4
  <2>2. B[1 + Len(took)] = <<"in", FALSE, v[Len(took)]>>
    BY <1>3, <1>4 DEF Form
  <2>3. 1 + Len(took) = Len(took) + 1
    BY <1>1
  <2> QED BY <2>1, <2>2, <2>3
<1>6. R!readByte(u)
  BY DEF R!lengthByte, R!value
<1> HIDE DEF b
<1>7. Reading(hasStream, u, p, Len(took) + 1, L, q, stream, ret)
  <2>1. hasStream \in BOOLEAN
    BY DEF ReaderTypes
  <2>2. r = [rd EXCEPT !.len = rd.len + 1, !.length = rd.length + (b % Base) * rd.multiplier,
                           !.multiplier = rd.multiplier * Base, !.llen = rd.len]
    OBVIOUS
  <2> HIDE DEF r, p
  <2> QED BY <2>1, <2>2, <1>0, <1>1, <1>3, <1>5, ReadsLength
<1> HIDE DEF u, p
<1>8. Reading(hasStream, u, p, Len(took) + 1, L, q, stream', ret)
  BY <1>0, <1>7
<1> QED
  BY <1>0, <1>1, <1>2, <1>3, <1>4, <1>6, <1>8, TakesByte DEF p

\* A byte of the length of its topic.
LEMMA StepTopic ==
  ASSUME ReaderTypes, ReaderFollows, R!topicByte
  PROVE  ReaderTypes' /\ ReaderFollows'
<1> DEFINE p == sent[packet]
           B == R!Bytes(p)
<1>0. rd.pc \in {"topic1", "topic2"} /\ rd.pc # "idle" /\ available # <<>> /\ packet' = packet /\ ret' = ret /\ stream' = stream
  BY DEF R!topicByte
<1>1. packet # 0 /\ p \in R!Packet /\ Len(took) \in Nat
  BY <1>0, Inside
<1>2. PICK at : /\ Midway(hasStream, available \o coming, sent, packet, took, rd, stream, ret, at)
                /\ available # <<>> /\ Len(took) < Len(B) => Head(available) = B[Len(took) + 1]
  BY <1>0, Inside
<1>3a. PICK L \in 1 .. 4 : \E v, q :
         Spelled(v, L, R!Length(p), q) /\ Form(B, p, L, v) /\ Reading(hasStream, rd, p, Len(took), L, q, stream, ret)
  BY <1>0, Inside
<1>3. PICK v, q :
         Spelled(v, L, R!Length(p), q) /\ Form(B, p, L, v) /\ Reading(hasStream, rd, p, Len(took), L, q, stream, ret)
  BY <1>3a
<1>4. /\ p.publish /\ Len(took) < Len(B)
      /\ Len(took) = IF rd.pc = "topic1" THEN 1 + L ELSE 2 + L
  <2>1. p.publish /\ Len(took) = IF rd.pc = "topic1" THEN 1 + L ELSE 2 + L
    BY <1>0, <1>3 DEF Reading, InTopic
  <2>2. R!Length(p) \in Nat /\ Len(B) = 1 + L + R!Length(p) /\ R!Length(p) >= 2
    <3>1. /\ p.topic \in Nat /\ p.payload \in Nat /\ R!id(p) \in {0, 2} /\ R!Length(p) \in Nat
          /\ R!Length(p) = 2 + p.topic + R!id(p) + p.payload
      BY <1>1, <2>1, PacketNumbers
    <3> QED BY <1>3, <3>1 DEF Form
  <2> HIDE DEF B, p
  <2> QED BY <2>1, <2>2
<1>9. hasStream \in BOOLEAN
  BY DEF ReaderTypes
<1>5. CASE rd.pc = "topic1"
  <2> DEFINE u == [rd EXCEPT !.pc = "topic2", !.len = rd.len + 1]
  <2>1. R!readByte(u)
    BY <1>5 DEF R!topicByte
  <2>2. Reading(hasStream, u, p, Len(took) + 1, L, q, stream, ret)
    <3> HIDE DEF p
    <3> QED BY <1>1, <1>3, <1>5, <1>9, ReadsTopic1
  <2> HIDE DEF u, p
  <2>3. Reading(hasStream, u, p, Len(took) + 1, L, q, stream', ret)
    BY <1>0, <2>2
  <2> QED
    BY <1>0, <1>1, <1>2, <1>3, <1>4, <2>1, <2>3, TakesByte DEF p
<1>6. CASE rd.pc = "topic2"
  <2> DEFINE b == Head(available)[3]
             u == R!rest([rd EXCEPT !.len = rd.len + 1, !.skip = b + IF rd.qos = 1 THEN 2 ELSE 0,
                                    !.i = 2, !.idx = rd.len + 1])
  <2>1. R!readByte(u)
    BY <1>6 DEF R!topicByte, R!value
  <2>2. b = p.topic
    <3>1. Head(available) = B[Len(took) + 1]
      BY <1>0, <1>2, <1>4
    <3>2. B[L + 3] = <<"in", FALSE, p.topic>>
      BY <1>3, <1>4 DEF Form
    <3>3. Len(took) + 1 = L + 3
      BY <1>4, <1>6
    <3> QED BY <3>1, <3>2, <3>3
  <2> HIDE DEF b
  <2>3. Reading(hasStream, u, p, Len(took) + 1, L, q, stream, ret)
    <3> HIDE DEF p
    <3> QED BY <1>1, <1>3, <1>6, <1>9, <2>2, ReadsTopic2
  <2> HIDE DEF u, p
  <2>4. Reading(hasStream, u, p, Len(took) + 1, L, q, stream', ret)
    BY <1>0, <2>3
  <2> QED
    BY <1>0, <1>1, <1>2, <1>3, <1>4, <2>1, <2>4, TakesByte DEF p
<1> QED
  BY <1>0, <1>5, <1>6

\* A byte of the rest.
LEMMA StepRest ==
  ASSUME ReaderTypes, ReaderFollows, R!restByte
  PROVE  ReaderTypes' /\ ReaderFollows'
<1> DEFINE p == sent[packet]
           B == R!Bytes(p)
           k == IF hasStream /\ R!inPayload THEN stream + 1 ELSE stream
           l == IF rd.len < BufferSize THEN rd.len + 1 ELSE rd.len
           h == IF rd.i + 1 < rd.length THEN rd.pc ELSE "end"
           u == [rd EXCEPT !.len = l, !.idx = rd.idx + 1, !.i = rd.i + 1, !.pc = h]
<1>0. /\ rd.pc = "rest" /\ available # <<>> /\ packet' = packet /\ ret' = ret
      /\ stream' = k
  BY DEF R!restByte
<1>1. packet # 0 /\ p \in R!Packet /\ Len(took) \in Nat
  BY <1>0, Inside
<1>2. PICK at : Midway(hasStream, available \o coming, sent, packet, took, rd, stream, ret, at)
  BY <1>0, Inside
<1>3a. PICK L \in 1 .. 4 : \E v, q :
         Spelled(v, L, R!Length(p), q) /\ Form(B, p, L, v) /\ Reading(hasStream, rd, p, Len(took), L, q, stream, ret)
  BY <1>0, Inside
<1>3. PICK v, q :
         Spelled(v, L, R!Length(p), q) /\ Form(B, p, L, v) /\ Reading(hasStream, rd, p, Len(took), L, q, stream, ret)
  BY <1>3a
<1>4. Len(took) < Len(B)
  BY <1>0, <1>3 DEF Reading, InRest, Form
<1>5. R!readByte(u)
  BY DEF R!restByte, R!moreToRead
<1>6. k = IF hasStream /\ rd.publish /\ rd.idx - rd.llen - 2 > rd.skip THEN stream + 1 ELSE stream
  BY DEF R!inPayload
<1>9. hasStream \in BOOLEAN
  BY DEF ReaderTypes
<1> HIDE DEF k
<1>7. Reading(hasStream, u, p, Len(took) + 1, L, q, k, ret)
  <2>1. /\ h = IF rd.i + 1 < rd.length THEN rd.pc ELSE "end"
        /\ l = IF rd.len < BufferSize THEN rd.len + 1 ELSE rd.len
    OBVIOUS
  <2> HIDE DEF p, h, l
  <2> QED BY <1>0, <1>1, <1>3, <1>6, <1>9, <2>1, ReadsRest
<1> HIDE DEF u, p
<1>8. Reading(hasStream, u, p, Len(took) + 1, L, q, stream', ret)
  BY <1>0, <1>7
<1> QED
  BY <1>0, <1>1, <1>2, <1>3, <1>4, <1>5, <1>8, TakesByte DEF p

\* readPacket() returns.
LEMMA StepEnd ==
  ASSUME ReaderTypes, ReaderFollows, R!readEnd
  PROVE  ReaderTypes' /\ ReaderFollows'
<1> DEFINE p == sent[packet]
           u == [rd EXCEPT !.pc = "idle"]
           y == IF ~hasStream /\ rd.idx > BufferSize THEN 0 ELSE rd.len
<1>0. /\ rd.pc = "end" /\ ret' = y /\ rd' = u
      /\ UNCHANGED <<hasStream, coming, available, sent, packet, took, stream>>
  BY DEF R!readEnd, R!returns
<1>1. packet # 0 /\ p \in R!Packet /\ Len(took) \in Nat
  BY <1>0, Inside
<1>2. PICK at : Midway(hasStream, available \o coming, sent, packet, took, rd, stream, ret, at)
  BY <1>0, Inside
<1>3a. PICK L \in 1 .. 4 : \E v, q :
         /\ Spelled(v, L, R!Length(p), q) /\ Form(R!Bytes(p), p, L, v)
         /\ Reading(hasStream, rd, p, Len(took), L, q, stream, ret)
  BY <1>2 DEF Midway
<1>3. PICK v, q :
         /\ Spelled(v, L, R!Length(p), q) /\ Form(R!Bytes(p), p, L, v)
         /\ Reading(hasStream, rd, p, Len(took), L, q, stream, ret)
  BY <1>3a
<1>4. Reading(hasStream, u, p, Len(took), L, q, stream, y)
  <2>1. hasStream \in BOOLEAN /\ y = IF ~hasStream /\ rd.idx > BufferSize THEN 0 ELSE rd.len
    BY DEF ReaderTypes
  <2> HIDE DEF p, y
  <2> QED BY <2>1, <1>0, <1>1, <1>3, ReadsEnd
<1> HIDE DEF y, u
<1>5. Midway(hasStream, available \o coming, sent, packet, took, u, stream, y, at)
  BY <1>2, <1>3, <1>4 DEF Midway
<1>6. Follow(hasStream', available' \o coming', sent', packet', took', rd', stream', ret', at)
  BY <1>0, <1>1, <1>5 DEF Follow
<1>7. ReaderTypes'
  BY <1>0 DEF ReaderTypes
<1> QED
  BY <1>6, <1>7 DEF ReaderFollows

\* loop() begins a packet.
LEMMA StepLoop ==
  ASSUME ReaderTypes, ReaderFollows, R!loop
  PROVE  ReaderTypes' /\ ReaderFollows'
<1> DEFINE w == available \o coming
           u == [R!Idle EXCEPT !.pc = "header"]
<1>0. /\ rd.pc = "idle" /\ available # <<>> /\ rd' = u
      /\ packet' = packet + 1 /\ took' = <<>> /\ stream' = 0 /\ ret' = -1
      /\ UNCHANGED <<hasStream, coming, available, sent>>
  BY DEF R!loop
<1>1. PICK at : Follow(hasStream, w, sent, packet, took, rd, stream, ret, at)
  BY DEF ReaderFollows
<1>2. w \in Seq(Byte) /\ w # <<>>
  BY <1>0, Ahead DEF ReaderTypes
<1>3. packet < Len(sent) /\ Follow(hasStream, w, sent, packet + 1, <<>>, u, 0, -1, at)
  <2> HIDE DEF w
  <2> QED BY <1>0, <1>1, <1>2, FollowLoop DEF ReaderTypes
<1>4. ReaderTypes'
  BY <1>0, <1>3 DEF ReaderTypes
<1> HIDE DEF u
<1>5. Follow(hasStream', available' \o coming', sent', packet', took', rd', stream', ret', at)
  BY <1>0, <1>3
<1> QED
  BY <1>4, <1>5 DEF ReaderFollows

\* The broker sends a packet.
LEMMA StepSend ==
  ASSUME ReaderTypes, ReaderFollows, NEW p \in R!Packet, R!BrokerSends(p)
  PROVE  ReaderTypes' /\ ReaderFollows'
<1> DEFINE w == available \o coming
<1>0. /\ sent' = Append(sent, p) /\ coming' = coming \o R!Bytes(p)
      /\ UNCHANGED <<hasStream, available, rd, packet, took, stream, ret>>
  BY DEF R!BrokerSends
<1>1. PICK at : Follow(hasStream, w, sent, packet, took, rd, stream, ret, at)
  BY DEF ReaderFollows
<1>2. R!Bytes(p) \in Seq(Byte) /\ w \in Seq(Byte)
  BY BytesTyped DEF ReaderTypes
<1>3. w \o R!Bytes(p) = available' \o coming'
  <2> DEFINE B == R!Bytes(p)
  <2>1. B \in Seq(Byte) /\ available \in Seq(Byte) /\ coming \in Seq(Byte)
    BY <1>2 DEF ReaderTypes
  <2> HIDE DEF B
  <2>2. (available \o coming) \o B = available \o (coming \o B)
    BY <2>1
  <2> QED BY <1>0, <2>2 DEF B
<1>4. PICK bt : Follow(hasStream, w \o R!Bytes(p), Append(sent, p), packet, took, rd, stream, ret, bt)
  <2> HIDE DEF w
  <2> QED BY <1>1, <1>2, FollowSend DEF ReaderTypes
<1>5. ReaderTypes'
  BY <1>0, <1>2 DEF ReaderTypes
<1>6. Follow(hasStream', available' \o coming', sent', packet', took', rd', stream', ret', bt)
  <2> HIDE DEF w
  <2> QED BY <1>0, <1>3, <1>4
<1> QED
  BY <1>5, <1>6 DEF ReaderFollows

\* Bytes arrive.
LEMMA StepDeliver ==
  ASSUME ReaderTypes, ReaderFollows, R!Deliver
  PROVE  ReaderTypes' /\ ReaderFollows'
<1>0. PICK n \in DOMAIN coming :
         /\ available' = available \o SubSeq(coming, 1, n)
         /\ coming' = SubSeq(coming, n + 1, Len(coming))
         /\ UNCHANGED <<hasStream, sent, rd, packet, took, stream, ret>>
  BY DEF R!Deliver
<1>1. n \in 1 .. Len(coming)
  BY DEF ReaderTypes
<1>2. available' \o coming' = available \o coming /\ available' \in Seq(Byte) /\ coming' \in Seq(Byte)
  BY <1>0, <1>1, Arrives DEF ReaderTypes
<1>3. ReaderTypes'
  BY <1>0, <1>2 DEF ReaderTypes
<1>4. ReaderFollows'
  BY <1>0, <1>2 DEF ReaderFollows
<1> QED
  BY <1>3, <1>4

\* The length of a packet of the broker never has a fifth digit.
LEMMA NoMalformed ==
  ASSUME ReaderTypes, ReaderFollows
  PROVE  ~R!malformed
<1> SUFFICES ASSUME R!malformed PROVE FALSE
  OBVIOUS
<1>0. rd.pc = "length" /\ rd.len = 5
  BY DEF R!malformed
<1>1a. PICK L \in 1 .. 4 : \E v, q : Reading(hasStream, rd, sent[packet], Len(took), L, q, stream, ret)
  BY <1>0, Inside
<1>1. PICK v, q : Reading(hasStream, rd, sent[packet], Len(took), L, q, stream, ret)
  BY <1>1a
<1>2. Len(took) \in 1 .. L /\ rd.len = Len(took)
  BY <1>0, <1>1 DEF Reading, InLength
<1> QED
  BY <1>0, <1>2

\* Every step of the reader keeps the invariant.
LEMMA ReaderStep ==
  ASSUME ReaderInv, R!Next
  PROVE  ReaderInv'
<1> SUFFICES ASSUME ~stalled'
             PROVE  ReaderTypes' /\ ReaderFollows'
  BY DEF ReaderInv
<1>1. CASE R!timeout
  BY <1>1 DEF R!timeout
<1>2. CASE ~R!timeout
  <2>1. ~stalled
    BY <1>2 DEF R!Next, R!BrokerSends, R!Deliver, R!loop, R!header, R!readByte, R!lengthByte, R!malformed, R!topicByte,
                R!restByte, R!readEnd
  <2>2. ReaderTypes /\ ReaderFollows
    BY <2>1 DEF ReaderInv
  <2>3. CASE \E p \in R!Packet : R!BrokerSends(p)
    BY <2>2, <2>3, StepSend
  <2>4. CASE R!Deliver
    BY <2>2, <2>4, StepDeliver
  <2>5. CASE R!loop
    BY <2>2, <2>5, StepLoop
  <2>6. CASE R!header
    BY <2>2, <2>6, StepHeader
  <2>7. CASE R!lengthByte
    BY <2>2, <2>7, StepLength
  <2>8. CASE R!topicByte
    BY <2>2, <2>8, StepTopic
  <2>9. CASE R!restByte
    BY <2>2, <2>9, StepRest
  <2>10. CASE R!readEnd
    BY <2>2, <2>10, StepEnd
  <2> QED
    BY <1>2, <2>2, <2>3, <2>4, <2>5, <2>6, <2>7, <2>8, <2>9, <2>10, NoMalformed DEF R!Next
<1> QED
  BY <1>1, <1>2

\* The invariant says what the property says.
LEMMA ReaderInvMeans ==
  ASSUME ReaderInv
  PROVE  R!StaysAligned /\ R!PacketIsWhole
<1> SUFFICES ASSUME ~stalled
             PROVE  R!StaysAligned /\ R!PacketIsWhole
  BY DEF R!StaysAligned, R!PacketIsWhole
<1>1. ReaderTypes /\ ReaderFollows
  BY DEF ReaderInv
<1>2. PICK at : Follow(hasStream, available \o coming, sent, packet, took, rd, stream, ret, at)
  BY <1>1 DEF ReaderFollows
<1>3. CASE packet = 0
  <2>1. took = <<>> /\ ~(packet > 0)
    BY <1>2, <1>3 DEF Follow
  <2> QED BY <2>1 DEF R!StaysAligned, R!PacketIsWhole
<1>4. CASE packet # 0
  <2> DEFINE p == sent[packet]
             B == R!Bytes(p)
  <2>1. /\ Len(took) <= Len(B) /\ \A j \in 1 .. Len(took) : took[j] = B[j]
        /\ \E L \in 1 .. 4 : \E v, q : Form(B, p, L, v) /\ Reading(hasStream, rd, p, Len(took), L, q, stream, ret)
    BY <1>2, <1>4 DEF Follow, Midway
  <2>2a. PICK L \in 1 .. 4 : \E v, q : Form(B, p, L, v) /\ Reading(hasStream, rd, p, Len(took), L, q, stream, ret)
    BY <2>1
  <2>2. PICK v, q : Form(B, p, L, v) /\ Reading(hasStream, rd, p, Len(took), L, q, stream, ret)
    BY <2>2a
  <2>3. p \in R!Packet /\ took \in Seq(Byte) /\ Len(took) \in Nat
    BY <1>1, <1>4 DEF ReaderTypes
  <2>4. B \in Seq(Byte) /\ Len(B) \in Nat
    BY <2>3, BytesTyped
  <2>5. R!StaysAligned
    <3> SUFFICES ASSUME took # <<>>
                 PROVE  took[1][1] = "first" /\ \A i_ \in 2 .. Len(took) : took[i_][1] = "in"
      BY DEF R!StaysAligned
    <3>1. 1 \in 1 .. Len(took)
      BY <2>3
    <3>2. took[1] = B[1]
      BY <2>1, <3>1
    <3>3. B[1] = <<"first", FALSE, IF p.publish THEN p.qos ELSE -1>>
      BY <2>2 DEF Form
    <3>4. took[1][1] = "first"
      <4> HIDE DEF B, p
      <4> QED BY <3>2, <3>3
    <3>5. ASSUME NEW i_ \in 2 .. Len(took)
          PROVE  took[i_][1] = "in"
      <4>1. i_ \in 1 .. Len(took) /\ i_ \in 2 .. Len(B)
        BY <2>1, <2>3, <2>4
      <4>2. took[i_] = B[i_] /\ B[i_] \in Inner
        BY <4>1, <2>1, <2>2 DEF Form
      <4> HIDE DEF B
      <4>3. took[i_] \in Inner
        BY <4>2
      <4> QED BY <4>3 DEF Inner
    <3> QED BY <3>4, <3>5
  <2>6. R!PacketIsWhole
    <3> SUFFICES ASSUME rd.pc = "idle"
                 PROVE  /\ took = B
                        /\ ret = IF Len(took) <= BufferSize THEN Len(took) ELSE IF hasStream THEN BufferSize ELSE 0
                        /\ hasStream /\ p.publish => stream = p.payload
      BY DEF R!PacketIsWhole
    <3>1. Done(hasStream, p, Len(took), L, stream, ret)
      BY <2>2 DEF Reading
    <3>2. Len(took) = 1 + L + R!Length(p) /\ Len(B) = 1 + L + R!Length(p)
      BY <2>2, <3>1 DEF Done, Form
    <3>3. took = B
      <4> HIDE DEF B
      <4> QED BY <2>1, <2>3, <2>4, <3>2
    <3>4. ret = IF Len(took) <= BufferSize THEN Len(took) ELSE IF hasStream THEN BufferSize ELSE 0
      BY <3>1 DEF Done
    <3>5. ASSUME hasStream, p.publish PROVE stream = p.payload
      <4>1. /\ p.topic \in Nat /\ p.payload \in Nat /\ R!id(p) \in {0, 2}
            /\ R!Length(p) = 2 + p.topic + R!id(p) + p.payload
        BY <2>3, <3>5, PacketNumbers
      <4>2. stream = Streamed(hasStream, p, L, 1 + L + R!Length(p))
        BY <3>1, <3>2 DEF Done
      <4>3. 1 + L + R!Length(p) = (L + 3 + p.topic + R!id(p)) + p.payload
        BY <4>1
      <4> QED BY <4>1, <4>2, <4>3, <3>5 DEF Streamed
    <3> QED BY <3>3, <3>4, <3>5
  <2> QED BY <2>5, <2>6
<1> QED
  BY <1>3, <1>4

\* For every sequence of packets of the broker, in whatever pieces the network
\* delivers them, readPacket() stays at the boundaries of the packets and has the
\* whole of one when it returns, its payload and no more in the Stream, unless
\* it gave up waiting inside one.
THEOREM ReaderSafe == PartsSpec => []PacketIsWhole
<1>1. PartsInit => ReaderInv
  BY FollowInit DEF PartsInit
<1>2. ReaderInv /\ [PartsNext]_allVars => ReaderInv'
  <2> SUFFICES ASSUME ReaderInv, [PartsNext]_allVars PROVE ReaderInv'
    OBVIOUS
  <2>1. CASE R!Next
    BY <2>1, ReaderStep
  <2>2. CASE UNCHANGED readerVars
    BY <2>2 DEF readerVars, ReaderInv, ReaderTypes, ReaderFollows
  <2>3. R!Next \/ UNCHANGED readerVars
    BY DEF PartsNext, allVars
  <2> QED BY <2>1, <2>2, <2>3
<1>3. ReaderInv => PacketIsWhole
  BY ReaderInvMeans DEF PacketIsWhole
<1> QED
  BY <1>1, <1>2, <1>3, PTL DEF PartsSpec

------------------------------------------------------------------------------
(* The session and its timers.                                             *)

\* The longest time between two looks at the ages.
Interval == KeepAlive + MaxGap

\* The types that the argument needs.
Types ==
  /\ inAge \in Nat /\ outAge \in Nat /\ silence \in Nat /\ unheard \in Nat /\ gap \in Nat
  /\ pingOutstanding \in BOOLEAN
  /\ gap <= MaxGap

\* While connect() waits for CONNACK both ages count from its CONNECT.
Waiting ==
  pc = "connack" => up /\ state # "connected" /\ outAge <= inAge /\ inAge <= SocketTimeout /\ unheard <= outAge

\* The ages were at most KeepAlive when loop() last looked at them; the broker
\* was sent nothing since lastOutActivity; and what it sent is as old as
\* lastInActivity or, after a PINGREQ, one interval older.
Ages ==
  connected =>
    /\ inAge <= KeepAlive + gap /\ outAge <= KeepAlive + gap
    /\ unheard <= outAge
    /\ silence <= inAge + (IF pingOutstanding THEN Interval ELSE 0)

IInv == Types /\ Waiting /\ Ages

USE TimeAssumption

------------------------------------------------------------------------------
\* An age that is not at its end grows by one.
LEMMA OlderGrows ==
  ASSUME NEW age \in Nat
  PROVE  /\ Older(age) \in Nat /\ Older(age) <= age + 1
         /\ age <= 2 * Interval + SocketTimeout - 1 => Older(age) = age + 1
BY DEF Older, MaxAge, Interval

LEMMA InitHolds == Init => IInv
<1> SUFFICES ASSUME Init
             PROVE  IInv
  OBVIOUS
<1>1. pingOutstanding \in BOOLEAN
  BY Zenon DEF Init
<1>2. Types
  BY <1>1 DEF Init, Types
<1>3. Waiting /\ Ages
  BY DEF Init, Waiting, Ages, connected
<1> QED
  BY <1>2, <1>3 DEF IInv

\* Time passes: gap grows with the ages.
LEMMA TickHolds ==
  ASSUME IInv, Tick
  PROVE  IInv'
<1>1. /\ Older(inAge) \in Nat /\ Older(outAge) \in Nat
      /\ Older(silence) \in Nat /\ Older(unheard) \in Nat
      /\ Older(inAge) <= inAge + 1 /\ Older(outAge) <= outAge + 1
      /\ Older(silence) <= silence + 1 /\ Older(unheard) <= unheard + 1
  BY OlderGrows DEF IInv, Types
<1>2. UNCHANGED <<state, up, pingOutstanding, pc>>
  BY DEF Tick, session
<1>3. Types'
  BY <1>1, <1>2 DEF IInv, Types, Tick
<1>4. Waiting'
  <2> SUFFICES ASSUME pc = "connack"
               PROVE  /\ up /\ state # "connected" /\ outAge' <= inAge' /\ inAge' <= SocketTimeout
                      /\ unheard' <= outAge'
    BY <1>2 DEF Waiting
  <2>1. up /\ state # "connected" /\ outAge <= inAge /\ inAge < SocketTimeout /\ unheard <= outAge
    BY DEF IInv, Waiting, Tick
  <2>2. Older(inAge) = inAge + 1 /\ Older(outAge) = outAge + 1
    BY <2>1, OlderGrows DEF IInv, Types, Interval
  <2> QED
    BY <1>1, <2>1, <2>2 DEF IInv, Types, Tick
<1>5. Ages'
  <2> SUFFICES ASSUME connected
               PROVE  /\ inAge' <= KeepAlive + gap' /\ outAge' <= KeepAlive + gap'
                      /\ unheard' <= outAge'
                      /\ silence' <= inAge' + (IF pingOutstanding THEN Interval ELSE 0)
    BY <1>2 DEF Ages, connected
  <2>1. gap < MaxGap /\ gap' = gap + 1
    BY DEF Tick
  <2>2. Older(inAge) = inAge + 1 /\ Older(outAge) = outAge + 1
    BY <2>1, OlderGrows DEF IInv, Types, Ages, Interval
  <2> QED
    BY <1>1, <2>1, <2>2 DEF IInv, Types, Ages, Tick, Interval
<1> QED
  BY <1>3, <1>4, <1>5 DEF IInv

\* What the broker and the network do changes no age and connects nobody.
LEMMA NetworkHolds ==
  ASSUME IInv,
         \/ BrokerPingResp \/ BrokerDies \/ ConnectionLost
         \/ \E p \in Packets : BrokerSends(p)
         \/ UNCHANGED vars
  PROVE  IInv'
<1>1. /\ UNCHANGED <<state, inAge, outAge, silence, unheard, gap, pingOutstanding, pc>>
      /\ up' => up
      /\ pc = "connack" => up' = up
  BY DEF BrokerPingResp, BrokerDies, ConnectionLost, BrokerSends, vars, session
<1> QED
  BY <1>1 DEF IInv, Types, Waiting, Ages, connected

\* connect(): CONNACK comes within socketTimeout, so that the broker has heard
\* of the client no longer ago than that.
LEMMA ConnectHolds ==
  ASSUME IInv, SocketTimeout <= KeepAlive,
         connectFails \/ connectSends \/ connectTimeout \/ connectAccepted \/ connectRefused
  PROVE  IInv'
<1> USE DEF IInv, Types, Waiting, Ages, Interval, connected, StopClient
<1>1. CASE connectFails
  BY <1>1 DEF connectFails
<1>2. CASE connectSends
  BY <1>2 DEF connectSends
<1>3. CASE connectTimeout
  BY <1>3 DEF connectTimeout
<1>4. CASE connectAccepted
  <2>1. pingOutstanding' \in BOOLEAN /\ ~pingOutstanding'
    BY <1>4, Zenon DEF connectAccepted
  <2>2. /\ pc = "connack" /\ pc' = "idle" /\ inAge' = 0 /\ silence' = 0 /\ gap' = 0
        /\ UNCHANGED <<outAge, unheard>>
    BY <1>4 DEF connectAccepted
  <2> QED
    BY <2>1, <2>2
<1>5. CASE connectRefused
  BY <1>5 DEF connectRefused
<1> QED
  BY <1>1, <1>2, <1>3, <1>4, <1>5

\* loop() that gives up, or reads what it cannot parse.
LEMMA GiveUpHolds ==
  ASSUME IInv, loopLost \/ loopTimeout \/ loopMalformed
  PROVE  IInv'
<1> USE DEF IInv, Types, Waiting, Ages, Interval, connected, StopClient
<1>1. CASE loopLost
  BY <1>1 DEF loopLost
<1>2. CASE loopTimeout
  BY <1>2 DEF loopTimeout
<1>3. CASE loopMalformed
  BY <1>3 DEF loopMalformed, keepalive
<1> QED
  BY <1>1, <1>2, <1>3

\* The keepalive part of loop(): ages above KeepAlive start again with a PINGREQ.
LEMMA KeepaliveHolds ==
  ASSUME IInv, connected, pc' # "connack", gap' = 0, state' = state, up' = up,
         NEW read, keepalive(read),
         silence' \in {0, silence},
         read \notin {"none", "TOOBIG"} => silence' = 0
  PROVE  IInv'
<1>1. Types'
  BY DEF IInv, Types, keepalive
<1>2. Waiting'
  BY DEF Waiting
<1>3. Ages'
  <2>1. CASE pingDue
    <3>1. ~pingOutstanding /\ inAge' = 0 /\ outAge' = 0 /\ unheard' = 0
      BY <2>1 DEF keepalive
    <3>2. silence <= Interval
      BY <3>1 DEF IInv, Types, Ages, Interval
    <3>3. read \in {"none", "TOOBIG"} => pingOutstanding'
      BY <2>1 DEF keepalive
    <3> QED
      BY <3>1, <3>2, <3>3, <1>1 DEF Ages, Types, Interval
  <2>2. CASE ~pingDue
    <3>1. inAge <= KeepAlive /\ outAge <= KeepAlive
      BY <2>2 DEF pingDue, Overdue, IInv, Types
    <3>2. pingOutstanding' = (pingOutstanding /\ read # "PINGRESP")
      BY <2>2 DEF keepalive
    <3>3. /\ outAge' = outAge
          /\ unheard' \in {0, unheard}
          /\ inAge' = IF read \notin {"none", "TOOBIG"} THEN 0 ELSE inAge
      BY <2>2 DEF keepalive
    <3>4. CASE read \in {"none", "TOOBIG"}
      <4>1. inAge' = inAge /\ silence' \in {0, silence}
        BY <3>4, <3>3
      <4>2. pingOutstanding' = pingOutstanding
        BY <3>4, <3>2 DEF IInv, Types
      <4> QED
        BY <4>1, <4>2, <3>1, <3>3, <1>1 DEF IInv, Types, Ages, Interval
    <3>5. CASE read \notin {"none", "TOOBIG"}
      BY <3>5, <3>1, <3>3 DEF IInv, Types, Ages, Interval
    <3> QED
      BY <3>4, <3>5
  <2> QED
    BY <2>1, <2>2
<1> QED
  BY <1>1, <1>2, <1>3 DEF IInv

\* loop() that goes on.
LEMMA LoopHolds ==
  ASSUME IInv, loopIdle \/ loopRead
  PROVE  IInv'
<1>1. CASE loopIdle
  <2>1. /\ connected /\ pc' # "connack" /\ gap' = 0 /\ state' = state /\ up' = up
        /\ keepalive("none") /\ silence' = silence
    BY <1>1 DEF loopIdle
  <2> QED
    BY <2>1, KeepaliveHolds
<1>2. CASE loopRead
  <2> DEFINE read == Head(inbox).kind
  <2>1. /\ connected /\ gap' = 0 /\ state' = state /\ up' = up
        /\ pc' \in {"callback", "idle"}
        /\ keepalive(read) /\ silence' = (IF read = "TOOBIG" THEN silence ELSE 0)
    BY <1>2 DEF loopRead
  <2>2. pc' # "connack" /\ silence' \in {0, silence} /\ (read \notin {"none", "TOOBIG"} => silence' = 0)
    BY <2>1
  <2> HIDE DEF read
  <2> QED
    BY <2>1, <2>2, KeepaliveHolds
<1> QED
  BY <1>1, <1>2

\* Calls that send: the client's own age starts again with the broker's.
LEMMA SketchHolds ==
  ASSUME IInv, callbackReturns \/ publish \/ subscribe \/ disconnect
  PROVE  IInv'
<1> USE DEF IInv, Types, Waiting, Ages, Interval, connected, StopClient, InSketch, session
<1>1. CASE callbackReturns
  BY <1>1 DEF callbackReturns
<1>2. CASE publish
  BY <1>2 DEF publish
<1>3. CASE subscribe
  BY <1>3 DEF subscribe
<1>4. CASE disconnect
  BY <1>4 DEF disconnect
<1> QED
  BY <1>1, <1>2, <1>3, <1>4

------------------------------------------------------------------------------
\* Whatever the traffic, a connected client has heard of its broker within two
\* intervals, and the broker of the client within one, if connect() waits for
\* CONNACK no longer than one keepalive interval (both are 15 s by default).
THEOREM SilenceSafe ==
  ASSUME SocketTimeout <= KeepAlive
  PROVE  Spec => []SilenceNoticed
<1>1. Init => IInv
  BY InitHolds
<1>2. IInv /\ [Next]_vars => IInv'
  <2> SUFFICES ASSUME IInv, Next \/ UNCHANGED vars
               PROVE  IInv'
    OBVIOUS
  <2> QED
    BY TickHolds, NetworkHolds, ConnectHolds, GiveUpHolds, LoopHolds, SketchHolds DEF Next
<1>3. IInv => SilenceNoticed
  BY DEF IInv, Types, Ages, SilenceNoticed, Interval
<1> QED
  BY <1>1, <1>2, <1>3, PTL DEF Spec

------------------------------------------------------------------------------
(***************************************************************************)
(* A healthy broker is kept.  Its PINGRESP is in the inbox before the next *)
(* tick, behind at most MaxBacklog packets, of which each loop() reads     *)
(* one; the invariant follows its place i against the ages.                *)
(***************************************************************************)
AnyPacket == Packets \cup {Plain("PINGRESP")}

IsPong(i) == inbox[i].kind = "PINGRESP"
NoPong == \A i \in 1 .. Len(inbox) : ~IsPong(i)
OnePong == \A i, j \in 1 .. Len(inbox) : IsPong(i) /\ IsPong(j) => i = j

\* The longest time until loop() has read i packets.
Wait(i) == i * MaxGap

\* The packets that wait, and PINGRESPs only where one is due.
Backlog ==
  /\ inbox \in Seq(AnyPacket)
  /\ ~up => inbox = <<>> /\ ~owed
  /\ ~(connected /\ pingOutstanding) => ~owed /\ NoPong
  /\ owed => NoPong
  /\ OnePong
  /\ Len(inbox) <= MaxBacklog + 1
  /\ NoPong => Len(inbox) <= MaxBacklog

\* A PINGRESP at place i is read before an age passes KeepAlive.
InTime(i) ==
  /\ IsPong(i)
  /\ inAge + Wait(i) <= KeepAlive + gap
  /\ outAge + Wait(i) <= KeepAlive + gap

Answered ==
  connected /\ alive /\ pingOutstanding =>
    \/ owed /\ inAge = 0 /\ outAge = 0 /\ gap = 0
    \/ \E i \in 1 .. Len(inbox) : InTime(i)

PingInv ==
  /\ Types
  /\ pc = "connack" => up /\ state # "connected"
  /\ owed \in BOOLEAN /\ alive \in BOOLEAN
  /\ Backlog /\ Answered

\* What is needed of the product.
LEMMA WaitGrows ==
  ASSUME NEW i \in Nat \ {0}
  PROVE  /\ Wait(i) \in Nat /\ Wait(i - 1) \in Nat
         /\ Wait(i) = Wait(i - 1) + MaxGap
         /\ Wait(i) >= MaxGap
BY DEF Wait

LEMMA WaitMonotone ==
  ASSUME NEW i \in Nat, NEW j \in Nat, i <= j
  PROVE  Wait(i) <= Wait(j)
BY DEF Wait

\* One loop() later: the age is no greater, the packet one place nearer.
LEMMA OnePlaceNearer ==
  ASSUME NEW age \in Nat, NEW age2 \in Nat, NEW w \in Nat, NEW w2 \in Nat, NEW g \in Nat,
         age2 <= age, g <= MaxGap, w = w2 + MaxGap, age + w <= KeepAlive + g
  PROVE  age2 + w2 <= KeepAlive + 0
OBVIOUS

LEMMA NotAPong ==
  ASSUME NEW p \in Packets
  PROVE  p.kind # "PINGRESP"
BY DEF Packets, Plain

\* Types does not depend on the values of the constants.
LEMMA TypesHold ==
  ASSUME Types, owed \in BOOLEAN, alive \in BOOLEAN, Next \/ UNCHANGED vars
  PROVE  Types' /\ owed' \in BOOLEAN /\ alive' \in BOOLEAN
<1> USE DEF Types, session, broker
<1>1. CASE Tick
  BY <1>1, OlderGrows DEF Tick
<1>2. CASE \/ BrokerPingResp \/ BrokerDies \/ ConnectionLost
           \/ \E p \in Packets : BrokerSends(p)
           \/ UNCHANGED vars
  <2>1. UNCHANGED <<inAge, outAge, silence, unheard, gap, pingOutstanding>>
    BY <1>2 DEF BrokerPingResp, BrokerDies, ConnectionLost, BrokerSends, vars
  <2>2. owed' \in BOOLEAN /\ alive' \in BOOLEAN
    BY <1>2, Zenon DEF BrokerPingResp, BrokerDies, ConnectionLost, BrokerSends, vars
  <2> QED
    BY <2>1, <2>2
<1>3. CASE connectFails \/ connectSends \/ connectTimeout \/ connectAccepted \/ connectRefused
  <2>1. pingOutstanding' \in BOOLEAN /\ owed' \in BOOLEAN /\ alive' \in BOOLEAN
    BY <1>3, Zenon DEF connectFails, connectSends, connectTimeout, connectAccepted, connectRefused,
                       StopClient
  <2>2. /\ inAge' \in {0, inAge} /\ outAge' \in {0, outAge} /\ silence' \in {0, silence}
        /\ unheard' \in {0, unheard} /\ gap' \in {0, gap}
    BY <1>3 DEF connectFails, connectSends, connectTimeout, connectAccepted, connectRefused
  <2> QED
    BY <2>1, <2>2
<1>4. CASE loopLost \/ loopTimeout \/ loopIdle \/ loopRead \/ loopMalformed
  <2>1. /\ inAge' \in {0, inAge} /\ outAge' \in {0, outAge} /\ silence' \in {0, silence}
        /\ unheard' \in {0, unheard} /\ gap' \in {0, gap}
    BY <1>4 DEF loopLost, loopTimeout, loopIdle, loopRead, loopMalformed, keepalive
  <2>2. pingOutstanding' \in BOOLEAN
    BY <1>4, Zenon DEF loopLost, loopTimeout, loopIdle, loopRead, loopMalformed, keepalive
  <2>3. owed' \in BOOLEAN /\ alive' \in BOOLEAN
    BY <1>4, Zenon DEF loopLost, loopTimeout, loopIdle, loopRead, loopMalformed, StopClient
  <2> QED
    BY <2>1, <2>2, <2>3
<1>5. CASE callbackReturns \/ publish \/ subscribe \/ disconnect
  <2>1. /\ inAge' \in {0, inAge} /\ outAge' \in {0, outAge} /\ silence' = silence
        /\ unheard' \in {0, unheard} /\ gap' = gap
    BY <1>5 DEF callbackReturns, publish, subscribe, disconnect
  <2>2. pingOutstanding' = pingOutstanding /\ alive' = alive /\ owed' \in {FALSE, owed}
    BY <1>5, Zenon DEF callbackReturns, publish, subscribe, disconnect, StopClient
  <2>3. owed' \in BOOLEAN
    BY <2>2, Zenon
  <2> QED
    BY <2>1, <2>2, <2>3
<1> QED
  BY <1>1, <1>2, <1>3, <1>4, <1>5 DEF Next

\* A client that is stopped has nothing waiting.
LEMMA StoppedHolds ==
  ASSUME StopClient
  PROVE  Backlog' /\ Answered'
BY DEF StopClient, Backlog, Answered, NoPong, OnePong, connected

\* The first two kinds of step need no more than that.
LEMMA StopsHold ==
  ASSUME connectTimeout \/ connectRefused \/ loopLost \/ loopTimeout \/ loopMalformed \/ disconnect
  PROVE  Backlog' /\ Answered'
BY StoppedHolds DEF connectTimeout, connectRefused, loopLost, loopTimeout, loopMalformed, disconnect

\* Time passes while no PINGRESP is owed: an age and the gap grow alike.
LEMMA TickAnswers ==
  ASSUME PingInv, Tick
  PROVE  Backlog' /\ Answered'
<1> USE DEF PingInv
<1>1. UNCHANGED <<state, up, pingOutstanding, inbox, owed, alive>>
  BY DEF Tick, session, broker
<1>2. Backlog'
  BY <1>1 DEF Backlog, NoPong, OnePong, IsPong, connected
<1>3. Answered'
  <2> SUFFICES ASSUME connected, alive, pingOutstanding
               PROVE  \E i \in 1 .. Len(inbox) : InTime(i)'
    BY <1>1 DEF Answered, connected
  <2>1. ~owed
    BY DEF Tick
  <2>2. PICK i \in 1 .. Len(inbox) : InTime(i)
    BY <2>1 DEF Answered
  <2>3. i \in Nat \ {0}
    BY DEF Backlog
  <2>4. Wait(i) \in Nat
    BY <2>3, WaitGrows
  <2>5. inAge' <= inAge + 1 /\ outAge' <= outAge + 1 /\ gap' = gap + 1
    BY OlderGrows DEF Tick, Types
  <2>6. inAge' \in Nat /\ outAge' \in Nat
    BY OlderGrows DEF Tick, Types
  <2>7. inAge' + Wait(i) <= KeepAlive + gap' /\ outAge' + Wait(i) <= KeepAlive + gap'
    BY <2>2, <2>4, <2>5, <2>6 DEF InTime, Types
  <2>8. IsPong(i)'
    BY <2>2, <1>1 DEF InTime, IsPong
  <2> QED
    BY <2>7, <2>8 DEF InTime, Wait
<1> QED
  BY <1>2, <1>3

\* A packet that is not a PINGRESP joins the others; places do not change.
LEMMA SendsAnswers ==
  ASSUME PingInv, NEW p \in Packets, BrokerSends(p)
  PROVE  Backlog' /\ Answered'
<1> USE DEF PingInv
<1>1. /\ UNCHANGED <<state, up, pingOutstanding, owed, alive, inAge, outAge, gap>>
      /\ inbox' = Append(inbox, p) /\ up /\ Len(inbox) < MaxBacklog
  BY DEF BrokerSends, session
<1>2. inbox \in Seq(AnyPacket) /\ p \in AnyPacket /\ p.kind # "PINGRESP"
  BY NotAPong DEF Backlog, AnyPacket
<1>3. /\ inbox' \in Seq(AnyPacket) /\ Len(inbox') = Len(inbox) + 1 /\ Len(inbox) \in Nat
      /\ \A i \in 1 .. Len(inbox) : inbox'[i] = inbox[i]
      /\ inbox'[Len(inbox) + 1] = p
  BY <1>1, <1>2
<1>4. (NoPong' <=> NoPong) /\ (OnePong => OnePong')
  BY <1>2, <1>3 DEF NoPong, OnePong, IsPong
<1>5. Backlog'
  BY <1>1, <1>3, <1>4 DEF Backlog, connected
<1>6. \A i \in 1 .. Len(inbox) : InTime(i) => i \in 1 .. Len(inbox') /\ InTime(i)'
  BY <1>1, <1>3 DEF InTime, IsPong, Wait
<1>7. Answered'
  BY <1>1, <1>6 DEF Answered, connected
<1> QED
  BY <1>5, <1>7

\* The broker answers: no tick has passed since the PINGREQ.
LEMMA PingRespAnswers ==
  ASSUME PingInv, BrokerPingResp, Wait(MaxBacklog + 1) <= KeepAlive
  PROVE  Backlog' /\ Answered'
<1> USE DEF PingInv
<1> DEFINE pong == Plain("PINGRESP")
<1>0. PICK last \in Nat : last = Len(inbox) + 1
  BY DEF Backlog
<1>1. /\ UNCHANGED <<state, up, pingOutstanding, alive, inAge, outAge, gap>>
      /\ inbox' = Append(inbox, pong) /\ up /\ alive /\ owed /\ ~owed'
  BY DEF BrokerPingResp, session
<1>2. /\ connected /\ pingOutstanding /\ NoPong /\ Len(inbox) <= MaxBacklog
      /\ inbox \in Seq(AnyPacket)
  BY <1>1 DEF Backlog
<1>3. pong \in AnyPacket /\ pong.kind = "PINGRESP"
  BY DEF AnyPacket, Plain
<1>4. /\ inbox' \in Seq(AnyPacket) /\ Len(inbox') = last /\ Len(inbox) \in Nat
      /\ inbox'[last] = pong
      /\ \A i \in 1 .. Len(inbox) : inbox'[i] = inbox[i]
  BY <1>0, <1>1, <1>2, <1>3
<1>5. last \in 1 .. Len(inbox') /\ IsPong(last)'
  BY <1>0, <1>3, <1>4 DEF IsPong
<1>6. ~NoPong' /\ OnePong'
  BY <1>0, <1>2, <1>4, <1>5 DEF NoPong, OnePong, IsPong
<1>7. Backlog'
  BY <1>0, <1>1, <1>2, <1>4, <1>6 DEF Backlog, connected
<1>8. inAge = 0 /\ outAge = 0 /\ gap = 0
  BY <1>1, <1>2 DEF Answered, InTime, NoPong
<1>9. Wait(last) <= KeepAlive /\ Wait(last) \in Nat
  <2>1. last \in Nat \ {0} /\ last <= MaxBacklog + 1 /\ MaxBacklog + 1 \in Nat \ {0}
    BY <1>0, <1>2, <1>4
  <2>2. Wait(last) <= Wait(MaxBacklog + 1)
    BY <2>1, WaitMonotone
  <2>3. Wait(last) \in Nat /\ Wait(MaxBacklog + 1) \in Nat
    BY <2>1, WaitGrows
  <2> QED
    BY <2>2, <2>3
<1>10. InTime(last)'
  BY <1>1, <1>5, <1>8, <1>9 DEF InTime, IsPong, Wait
<1>11. Answered'
  BY <1>5, <1>10 DEF Answered
<1> QED
  BY <1>7, <1>11

\* The broker or the connection fails: nothing is asked any more.
LEMMA FailsAnswers ==
  ASSUME PingInv, BrokerDies \/ ConnectionLost
  PROVE  Backlog' /\ Answered'
<1> USE DEF PingInv
<1>1. CASE BrokerDies
  <2>1. UNCHANGED <<state, up, pingOutstanding, inbox, owed>> /\ ~alive'
    BY <1>1 DEF BrokerDies, session
  <2> QED
    BY <2>1 DEF Backlog, Answered, NoPong, OnePong, IsPong, connected
<1>2. CASE ConnectionLost
  BY <1>2 DEF ConnectionLost, Backlog, Answered, NoPong, OnePong, connected
<1> QED
  BY <1>1, <1>2

\* A new connection starts with an empty inbox and, once it is accepted,
\* without a PINGREQ outstanding.
LEMMA ConnectAnswers ==
  ASSUME PingInv, connectFails \/ connectSends \/ connectAccepted
  PROVE  Backlog' /\ Answered'
<1> USE DEF PingInv
<1>1. CASE connectFails
  <2>1. ~up /\ UNCHANGED <<up, inbox, owed>>
    BY <1>1 DEF connectFails, broker
  <2> QED
    BY <2>1 DEF Backlog, Answered, NoPong, OnePong, connected
<1>2. CASE connectSends
  BY <1>2 DEF connectSends, Backlog, Answered, NoPong, OnePong, connected
<1>3. CASE connectAccepted
  <2>1. /\ pc = "connack" /\ inbox # <<>> /\ inbox' = Tail(inbox)
        /\ UNCHANGED <<up, owed>> /\ ~pingOutstanding'
    BY <1>3 DEF connectAccepted
  <2>2. up /\ ~owed /\ NoPong /\ inbox \in Seq(AnyPacket) /\ Len(inbox) <= MaxBacklog
    BY <2>1 DEF Backlog, connected
  <2>3. /\ inbox' \in Seq(AnyPacket) /\ Len(inbox') = Len(inbox) - 1
        /\ \A i \in 1 .. Len(inbox') : inbox'[i] = inbox[i + 1]
    BY <2>1, <2>2
  <2>4. NoPong'
    <3>1. Len(inbox) \in Nat
      BY <2>2
    <3>2. \A i \in 1 .. Len(inbox') : i + 1 \in 1 .. Len(inbox)
      BY <2>3, <3>1
    <3> QED
      BY <2>2, <2>3, <3>2 DEF NoPong, IsPong
  <2>5. OnePong'
    BY <2>4 DEF NoPong, OnePong
  <2> QED
    BY <2>1, <2>2, <2>3, <2>4, <2>5 DEF Backlog, Answered, connected
<1> QED
  BY <1>1, <1>2, <1>3

\* With a PINGREQ outstanding and its answer on the way, no age is over.
LEMMA NotOverdue ==
  ASSUME PingInv, connected, alive, pingOutstanding
  PROVE  ~Overdue
<1> USE DEF PingInv
<1>1. CASE owed /\ inAge = 0 /\ outAge = 0
  BY <1>1 DEF Overdue
<1>2. ASSUME NEW i \in 1 .. Len(inbox), InTime(i)
      PROVE  ~Overdue
  <2>1. i \in Nat \ {0}
    BY DEF Backlog
  <2>2. Wait(i) \in Nat /\ Wait(i) >= MaxGap
    BY <2>1, WaitGrows
  <2> QED
    BY <1>2, <2>2 DEF InTime, Overdue, Types
<1> QED
  BY <1>1, <1>2 DEF Answered

\* loop() with an empty inbox sends a PINGREQ, or has just sent one.
LEMMA IdleAnswers ==
  ASSUME PingInv, loopIdle
  PROVE  Backlog' /\ Answered'
<1> USE DEF PingInv
<1>1. /\ connected /\ inbox = <<>> /\ inbox' = <<>> /\ UNCHANGED <<state, up, alive>>
      /\ owed' = (owed \/ pingDue) /\ gap' = 0
  BY DEF loopIdle
<1>2. /\ pingDue => ~pingOutstanding /\ inAge' = 0 /\ outAge' = 0
      /\ ~pingDue => inAge' = inAge /\ outAge' = outAge
      /\ pingOutstanding' = (pingOutstanding \/ pingDue)
  BY DEF loopIdle, keepalive
<1>3. Backlog'
  <2>1. owed' => pingOutstanding'
    BY <1>1, <1>2 DEF Backlog
  <2>2. connected' /\ NoPong' /\ OnePong' /\ inbox' \in Seq(AnyPacket) /\ Len(inbox') = 0
    BY <1>1 DEF connected, NoPong, OnePong
  <2> QED
    BY <1>1, <2>1, <2>2 DEF Backlog, connected
<1>4. Answered'
  <2> SUFFICES ASSUME alive, pingOutstanding'
               PROVE  owed' /\ inAge' = 0 /\ outAge' = 0 /\ gap' = 0
    BY <1>1 DEF Answered
  <2>1. CASE pingDue
    BY <2>1, <1>1, <1>2
  <2>2. CASE ~pingDue
    <3>1. pingOutstanding
      BY <2>2, <1>2
    <3>2. owed /\ inAge = 0 /\ outAge = 0
      BY <1>1, <3>1 DEF Answered
    <3> QED
      BY <2>2, <3>2, <1>1, <1>2
  <2> QED
    BY <2>1, <2>2
<1> QED
  BY <1>3, <1>4

\* loop() reads the first packet: the others move up by one place.
LEMMA ReadAnswers ==
  ASSUME PingInv, loopRead
  PROVE  Backlog' /\ Answered'
<1> USE DEF PingInv
<1> DEFINE read == Head(inbox).kind
<1>1. /\ connected /\ inbox # <<>> /\ inbox' = Tail(inbox) /\ UNCHANGED <<state, up, alive>>
      /\ owed' = (owed \/ pingDue) /\ gap' = 0
  BY DEF loopRead
<1>2. /\ pingDue => ~pingOutstanding /\ inAge' = 0 /\ outAge' = 0
      /\ ~pingDue => inAge' \in {0, inAge} /\ outAge' = outAge
      /\ pingOutstanding' = ((pingOutstanding \/ pingDue) /\ read # "PINGRESP")
  BY DEF loopRead, keepalive
<1>3. /\ inbox \in Seq(AnyPacket) /\ Len(inbox) \in Nat \ {0} /\ Len(inbox) <= MaxBacklog + 1
      /\ Len(inbox') = Len(inbox) - 1 /\ inbox' \in Seq(AnyPacket)
      /\ \A i \in 1 .. Len(inbox') : inbox'[i] = inbox[i + 1]
      /\ Head(inbox) = inbox[1]
  BY <1>1 DEF Backlog
<1>4. read = "PINGRESP" <=> IsPong(1)
  BY <1>3 DEF IsPong
<1> HIDE DEF read
<1>5. NoPong => NoPong' /\ ~IsPong(1)
  BY <1>3 DEF NoPong, IsPong
<1>6. pingDue => ~pingOutstanding /\ ~owed /\ NoPong
  BY <1>2 DEF Backlog
<1>7. owed => pingOutstanding /\ NoPong
  BY <1>1 DEF Backlog
<1>8. owed' => pingOutstanding' /\ NoPong'
  BY <1>1, <1>2, <1>4, <1>5, <1>6, <1>7
<1>9. connected'
  BY <1>1 DEF connected
<1>10. IsPong(1) => NoPong'
  BY <1>3 DEF Backlog, NoPong, OnePong, IsPong
<1>11. ~pingOutstanding' => NoPong'
  BY <1>2, <1>4, <1>5, <1>10 DEF Backlog
<1>12. OnePong'
  <2> SUFFICES ASSUME NEW i \in 1 .. Len(inbox'), NEW j \in 1 .. Len(inbox'), IsPong(i)', IsPong(j)'
               PROVE  i = j
    BY DEF OnePong
  <2>1. IsPong(i + 1) /\ IsPong(j + 1)
    BY <1>3 DEF IsPong
  <2>2. i + 1 \in 1 .. Len(inbox) /\ j + 1 \in 1 .. Len(inbox)
    BY <1>3
  <2>3. i + 1 = j + 1
    BY <2>1, <2>2 DEF Backlog, OnePong
  <2> QED
    BY <2>3, <1>3
<1>13. NoPong' => Len(inbox') <= MaxBacklog
  BY <1>3
<1>14. Backlog'
  BY <1>1, <1>3, <1>8, <1>9, <1>11, <1>12, <1>13 DEF Backlog, connected
<1>15. Answered'
  <2> SUFFICES ASSUME alive, pingOutstanding'
               PROVE  \/ owed' /\ inAge' = 0 /\ outAge' = 0 /\ gap' = 0
                      \/ \E i \in 1 .. Len(inbox') : InTime(i)'
    BY <1>1 DEF Answered
  <2>1. CASE pingDue
    BY <2>1, <1>1, <1>2
  <2>2. CASE ~pingDue /\ owed
    <3>1. inAge = 0 /\ outAge = 0
      BY <2>2, <1>1, <1>7 DEF Answered, InTime, NoPong
    <3> QED
      BY <2>2, <3>1, <1>1, <1>2
  <2>3. CASE ~pingDue /\ ~owed
    <3>1. pingOutstanding /\ ~IsPong(1)
      BY <2>3, <1>2, <1>4
    <3>2. PICK i \in 1 .. Len(inbox) : InTime(i)
      BY <2>3, <3>1, <1>1 DEF Answered
    <3>3. i # 1 /\ IsPong(i)
      BY <3>1, <3>2 DEF InTime
    <3>4. PICK j \in 1 .. Len(inbox') : i = j + 1
      BY <3>3, <1>3
    <3>5. IsPong(j)'
      BY <3>3, <3>4, <1>3 DEF IsPong
    <3>6. i \in Nat \ {0} /\ j = i - 1
      BY <3>4, <1>3
    <3>7. Wait(i) \in Nat /\ Wait(j) \in Nat /\ Wait(i) = Wait(j) + MaxGap
      BY <3>6, WaitGrows
    <3>8. inAge' <= inAge /\ outAge' <= outAge /\ inAge' \in Nat /\ outAge' \in Nat
      BY <2>3, <1>2 DEF Types
    <3>a. gap' = 0 /\ gap \in Nat /\ gap <= MaxGap /\ inAge \in Nat /\ outAge \in Nat
      BY <1>1 DEF Types
    <3>b. inAge + Wait(i) <= KeepAlive + gap /\ outAge + Wait(i) <= KeepAlive + gap
      BY <3>2 DEF InTime
    <3>9. inAge' + Wait(j) <= KeepAlive + gap' /\ outAge' + Wait(j) <= KeepAlive + gap'
      BY <3>7, <3>8, <3>a, <3>b, OnePlaceNearer
    <3>10. InTime(j)'
      BY <3>5, <3>9 DEF InTime, Wait
    <3> QED
      BY <3>10
  <2> QED
    BY <2>1, <2>2, <2>3
<1> QED
  BY <1>14, <1>15

\* What the sketch sends makes the client's age smaller.
LEMMA SketchAnswers ==
  ASSUME PingInv, callbackReturns \/ publish \/ subscribe \/ UNCHANGED vars
  PROVE  Backlog' /\ Answered'
<1> USE DEF PingInv
<1>1. UNCHANGED <<state, up, pingOutstanding, inbox, owed, alive, inAge, gap>>
  BY DEF callbackReturns, publish, subscribe, vars, session, broker
<1>2. outAge' \in {0, outAge}
  BY DEF callbackReturns, publish, subscribe, vars
<1>3. Backlog'
  BY <1>1 DEF Backlog, NoPong, OnePong, IsPong, connected
<1>4. ASSUME NEW i \in 1 .. Len(inbox), InTime(i)
      PROVE  InTime(i)'
  <2>1. i \in Nat \ {0}
    BY DEF Backlog
  <2>2. Wait(i) \in Nat
    BY <2>1, WaitGrows
  <2>3. outAge' + Wait(i) <= KeepAlive + gap
    BY <1>2, <1>4, <2>2 DEF InTime, Types
  <2>4. IsPong(i)' /\ inAge' + Wait(i) <= KeepAlive + gap'
    BY <1>1, <1>4 DEF InTime, IsPong
  <2> QED
    BY <1>1, <2>3, <2>4 DEF InTime, Wait
<1>5. Answered'
  BY <1>1, <1>2, <1>4 DEF Answered, connected
<1> QED
  BY <1>3, <1>5

\* connect() is waiting only on a new connection.
LEMMA WaitingHolds ==
  ASSUME PingInv, Next \/ UNCHANGED vars
  PROVE  (pc = "connack" => up /\ state # "connected")'
<1> USE DEF PingInv
<1>1. CASE pc' = pc
  <2>1. CASE pc # "connack"
    BY <1>1, <2>1
  <2>2. CASE pc = "connack"
    BY <1>1, <2>2 DEF Next, Tick, BrokerPingResp, BrokerDies, ConnectionLost, BrokerSends,
       connectFails, connectSends, connectTimeout, connectAccepted, connectRefused,
       loopLost, loopTimeout, loopIdle, loopRead, loopMalformed,
       callbackReturns, publish, subscribe, disconnect, InSketch, vars, session
  <2> QED
    BY <2>1, <2>2
<1>2. CASE pc' # pc
  BY <1>2 DEF Next, Tick, BrokerPingResp, BrokerDies, ConnectionLost, BrokerSends,
     connectFails, connectSends, connectTimeout, connectAccepted, connectRefused,
     loopLost, loopTimeout, loopIdle, loopRead, loopMalformed,
     callbackReturns, publish, subscribe, disconnect, vars
<1> QED
  BY <1>1, <1>2

\* A broker that answers is not given up, through reconnections, traffic and a
\* backlog, if a backlog can be read within a keepalive interval.
THEOREM HealthyKept ==
  ASSUME (MaxBacklog + 1) * MaxGap <= KeepAlive
  PROVE  Spec => HealthyBrokerKept
<1>0. Wait(MaxBacklog + 1) <= KeepAlive
  BY DEF Wait
<1>1. Init => PingInv
  <2> SUFFICES ASSUME Init
               PROVE  PingInv
    OBVIOUS
  <2>1. Types
    BY InitHolds DEF IInv
  <2>2. owed \in BOOLEAN /\ alive \in BOOLEAN
    BY Zenon DEF Init
  <2>3. Backlog /\ Answered
    BY DEF Init, Backlog, Answered, NoPong, OnePong, connected
  <2>4. pc # "connack"
    BY DEF Init
  <2> QED
    BY <2>1, <2>2, <2>3, <2>4 DEF PingInv
<1>2. PingInv /\ [Next]_vars => PingInv'
  <2> SUFFICES ASSUME PingInv, Next \/ UNCHANGED vars
               PROVE  PingInv'
    OBVIOUS
  <2>1. Types' /\ owed' \in BOOLEAN /\ alive' \in BOOLEAN
    BY TypesHold DEF PingInv
  <2>2. (pc = "connack" => up /\ state # "connected")'
    BY WaitingHolds
  <2>3. Backlog' /\ Answered'
    BY <1>0, StopsHold, TickAnswers, SendsAnswers, PingRespAnswers, FailsAnswers, ConnectAnswers,
       IdleAnswers, ReadAnswers, SketchAnswers DEF Next
  <2> QED
    BY <2>1, <2>2, <2>3 DEF PingInv
<1>3. PingInv /\ [Next]_vars => [(state = "connected" /\ state' = "connection_timeout") => ~alive]_vars
  <2> SUFFICES ASSUME PingInv, Next, state = "connected", state' = "connection_timeout", alive
               PROVE  FALSE
    OBVIOUS
  <2>1. connectTimeout \/ loopTimeout
    BY DEF Next, Tick, BrokerPingResp, BrokerDies, ConnectionLost, BrokerSends,
       connectFails, connectSends, connectAccepted, connectRefused, loopLost, loopIdle, loopRead,
       loopMalformed, callbackReturns, publish, subscribe, disconnect, session
  <2>2. CASE connectTimeout
    BY <2>2 DEF connectTimeout, PingInv
  <2>3. CASE loopTimeout
    BY <2>3, NotOverdue DEF loopTimeout
  <2> QED
    BY <2>1, <2>2, <2>3
<1> QED
  BY <1>1, <1>2, <1>3, PTL DEF Spec, HealthyBrokerKept

------------------------------------------------------------------------------
(***************************************************************************)
(* PUBACK: while the callback runs, msgId is what loop() read from the     *)
(* packet, whatever has become of the buffer; at all other times the last  *)
(* message that asked for an acknowledgement has it.                       *)
(***************************************************************************)
AnyId == {0} \cup Ids

AckInv ==
  /\ inbox \in Seq(AnyPacket)
  /\ ack \in [sent : AnyId, of : AnyId] /\ msgId \in AnyId
  /\ IF pc = "callback" /\ msgId # 0 THEN msgId = ack.of ELSE ack.sent = ack.of

\* Only a PUBLISH has an id.
LEMMA PacketIds ==
  ASSUME NEW p \in AnyPacket
  PROVE  p.id \in AnyId /\ (p.id # 0 => p.kind = "PUBLISH")
BY DEF AnyPacket, Packets, Plain, AnyId

\* Packets that arrive are packets.
LEMMA ArrivalTyped ==
  ASSUME inbox \in Seq(AnyPacket), BrokerPingResp \/ \E p \in Packets : BrokerSends(p)
  PROVE  inbox' \in Seq(AnyPacket)
<1>1. CASE BrokerPingResp
  <2>1. Plain("PINGRESP") \in AnyPacket
    BY DEF AnyPacket
  <2> QED
    BY <1>1, <2>1 DEF BrokerPingResp
<1>2. ASSUME NEW p \in Packets, BrokerSends(p)
      PROVE  inbox' \in Seq(AnyPacket)
  BY <1>2 DEF BrokerSends, AnyPacket
<1> QED
  BY <1>1, <1>2

\* Steps that neither read a packet nor return from the callback.
LEMMA AckSame ==
  ASSUME AckInv, UNCHANGED <<ack, msgId>>, pc' = "callback" <=> pc = "callback",
         inbox' \in Seq(AnyPacket)
  PROVE  AckInv'
BY DEF AckInv

LEMMA AckRead ==
  ASSUME AckInv, loopRead
  PROVE  AckInv'
<1> DEFINE p == Head(inbox)
<1>1. /\ pc = "idle" /\ inbox # <<>> /\ inbox' = Tail(inbox) /\ msgId' = p.id
      /\ pc' = IF p.kind = "PUBLISH" THEN "callback" ELSE "idle"
      /\ ack' = IF p.id # 0 THEN [ack EXCEPT !.of = p.id] ELSE ack
  BY DEF loopRead
<1>2. p \in AnyPacket /\ inbox' \in Seq(AnyPacket)
  BY <1>1 DEF AckInv
<1>3. p.id \in AnyId /\ (p.id # 0 => p.kind = "PUBLISH")
  BY <1>2, PacketIds
<1>4. ack \in [sent : AnyId, of : AnyId] /\ ack.sent = ack.of
  BY <1>1 DEF AckInv
<1> HIDE DEF p
<1> QED
  BY <1>1, <1>2, <1>3, <1>4 DEF AckInv

LEMMA AckReturn ==
  ASSUME AckInv, callbackReturns
  PROVE  AckInv'
<1>1. /\ pc = "callback" /\ pc' = "idle" /\ msgId' = 0 /\ inbox' = inbox
      /\ ack' = IF msgId # 0 THEN [ack EXCEPT !.sent = msgId] ELSE ack
  BY DEF callbackReturns, broker
<1>2. 0 \in AnyId
  BY DEF AnyId
<1> QED
  BY <1>1, <1>2 DEF AckInv

\* By the time loop() returns, a QoS 1 message has its PUBACK with its own id,
\* for every number of ids and whatever the callback did to the buffer, its
\* subscriptions and the connection.
THEOREM AckSafe == Spec => []AckMatches
<1>1. Init => AckInv
  BY DEF Init, AckInv, AnyId, NoAck
<1>2. AckInv /\ [Next]_vars => AckInv'
  <2> SUFFICES ASSUME AckInv, Next \/ UNCHANGED vars
               PROVE  AckInv'
    OBVIOUS
  <2>1. CASE BrokerPingResp \/ \E p \in Packets : BrokerSends(p)
    <3>1. UNCHANGED <<ack, msgId, pc>>
      BY <2>1 DEF BrokerPingResp, BrokerSends
    <3>2. inbox' \in Seq(AnyPacket)
      BY <2>1, ArrivalTyped DEF AckInv
    <3> QED
      BY <3>1, <3>2, AckSame
  <2>2. CASE loopRead
    BY <2>2, AckRead
  <2>3. CASE callbackReturns
    BY <2>3, AckReturn
  <2>4. CASE Tick \/ BrokerDies \/ loopIdle \/ publish \/ subscribe \/ connectFails \/ UNCHANGED vars
    <3>1. UNCHANGED <<ack, msgId, pc, inbox>>
      BY <2>4 DEF Tick, BrokerDies, loopIdle, publish, subscribe, connectFails, broker, vars
    <3> QED
      BY <3>1, AckSame DEF AckInv
  <2>5. CASE ConnectionLost \/ connectSends \/ connectTimeout \/ connectRefused \/ loopLost
             \/ loopTimeout \/ loopMalformed \/ disconnect
    <3>1. UNCHANGED <<ack, msgId>> /\ inbox' = <<>> /\ (pc' = "callback" <=> pc = "callback")
      BY <2>5 DEF ConnectionLost, connectSends, connectTimeout, connectRefused, loopLost,
         loopTimeout, loopMalformed, disconnect, StopClient
    <3> QED
      BY <3>1, AckSame
  <2>6. CASE connectAccepted
    <3>1. /\ UNCHANGED <<ack, msgId>> /\ inbox # <<>> /\ inbox' = Tail(inbox)
          /\ pc = "connack" /\ pc' = "idle"
      BY <2>6 DEF connectAccepted
    <3>2. inbox' \in Seq(AnyPacket)
      BY <3>1 DEF AckInv
    <3> QED
      BY <3>1, <3>2, AckSame
  <2> QED
    BY <2>1, <2>2, <2>3, <2>4, <2>5, <2>6 DEF Next
<1>3. AckInv => AckMatches
  BY DEF AckInv, AckMatches
<1> QED
  BY <1>1, <1>2, <1>3, PTL DEF Spec
===============================================================================
