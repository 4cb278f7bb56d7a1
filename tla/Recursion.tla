------------------------------ MODULE Recursion ------------------------------
(***************************************************************************)
(* Induction on the natural numbers and functions defined by recursion on  *)
(* them, for sets and functions instead of operators: what follows is      *)
(* first-order, and the provers can use it for a property at hand by       *)
(* giving the set of the numbers that have it.                             *)
(***************************************************************************)
EXTENDS Integers, Sequences, WellFoundedInduction, TLAPS

\* A set of natural numbers has a least one.
LEMMA LeastNumber ==
  ASSUME NEW D \in SUBSET Nat, D # {}
  PROVE  \E f \in D : \A g \in D : f <= g
<1> DEFINE R == {ss \in Nat \X Nat : ss[1] < ss[2]}
<1>1. IsWellFoundedOn(R, Nat)
  BY NatLessThanWellFounded DEF OpToRel
<1>2. PICK f \in D : \A g \in D : ~(<<g, f>> \in R)
  <2> HIDE DEF R
  <2> QED BY <1>1, WFMin
<1>3. ASSUME NEW g \in D
      PROVE  f <= g
  <2>1. f \in Nat /\ g \in Nat /\ ~(<<g, f>> \in R)
    BY <1>2
  <2>2. ~(g < f)
    BY <2>1
  <2> QED
    BY <2>1, <2>2
<1> QED
  BY <1>3

\* A set of natural numbers that has 0, and n + 1 with every n, has them all.
LEMMA Induction ==
  ASSUME NEW T, 0 \in T, \A n \in Nat : n \in T => n + 1 \in T
  PROVE  \A n \in Nat : n \in T
<1> SUFFICES ASSUME NEW m \in Nat, m \notin T
             PROVE  FALSE
  OBVIOUS
<1> DEFINE D == Nat \ T
<1>1. PICK f \in D : \A g \in D : f <= g
  <2>1. D \in SUBSET Nat /\ D # {}
    OBVIOUS
  <2> QED BY <2>1, LeastNumber
<1>2. f # 0 /\ f \in Nat
  BY <1>1
<1>3. f - 1 \in Nat /\ f - 1 \notin D
  BY <1>1, <1>2
<1> QED
  BY <1>2, <1>3, (f - 1) + 1 = f, <1>1

\* A number has a property if it has it whenever all smaller ones have it.
LEMMA CourseOfValues ==
  ASSUME NEW T, \A n \in Nat : (\A m \in 0 .. n - 1 : m \in T) => n \in T
  PROVE  \A n \in Nat : n \in T
<1> SUFFICES ASSUME NEW m \in Nat, m \notin T
             PROVE  FALSE
  OBVIOUS
<1> DEFINE D == Nat \ T
<1>1. PICK f \in D : \A g \in D : f <= g
  <2>1. D \in SUBSET Nat /\ D # {}
    OBVIOUS
  <2> QED BY <2>1, LeastNumber
<1>2. \A k \in 0 .. f - 1 : k \in T
  BY <1>1
<1> QED
  BY <1>1, <1>2

------------------------------------------------------------------------------
\* The functions on the numbers before n.
Early(n, S) == [0 .. n - 1 -> S]

\* The first values of f.
Prior(f, n) == [m \in 0 .. n - 1 |-> f[m]]

\* G gives the value at n from n and the values before; g has its values up to n.
Obeys(g, n, G) == \A m \in 0 .. n - 1 : g[m] = G[<<m, Prior(g, m)>>]

LEMMA UpToUnique ==
  ASSUME NEW S, NEW G, NEW n \in Nat, NEW g \in Early(n, S), NEW h \in Early(n, S),
         Obeys(g, n, G), Obeys(h, n, G)
  PROVE  g = h
<1> DEFINE T == {m \in Nat : m < n => g[m] = h[m]}
<1>1. \A m \in Nat : m \in T
  <2>1. ASSUME NEW m \in Nat, \A k \in 0 .. m - 1 : k \in T
        PROVE  m \in T
    <3> SUFFICES ASSUME m < n PROVE g[m] = h[m]
      OBVIOUS
    <3>1. Prior(g, m) = Prior(h, m)
      BY <2>1 DEF Prior
    <3>2. g[m] = G[<<m, Prior(g, m)>>] /\ h[m] = G[<<m, Prior(h, m)>>]
      BY DEF Obeys
    <3> QED
      BY <3>1, <3>2
  <2> HIDE DEF T
  <2> QED
    BY <2>1, CourseOfValues
<1> QED
  BY <1>1 DEF Early

\* A recursive definition on the natural numbers defines a function.
Closed(G, S) == \A n \in Nat : \A g \in Early(n, S) : G[<<n, g>>] \in S
Recurs(f, G) == \A n \in Nat : f[n] = G[<<n, Prior(f, n)>>]

LEMMA RecursionExists ==
  ASSUME NEW S, NEW G, Closed(G, S)
  PROVE  \E f \in [Nat -> S] : Recurs(f, G)
<1> DEFINE T == {n \in Nat : \E g \in Early(n, S) : Obeys(g, n, G)}
<1>1. \A n \in Nat : n \in T
  <2>1. 0 \in T
    <3>1. [m \in 0 .. 0 - 1 |-> 0] \in Early(0, S)
      BY DEF Early
    <3> QED
      BY <3>1 DEF Obeys
  <2>2. ASSUME NEW n \in Nat, n \in T
        PROVE  n + 1 \in T
    <3>1. PICK g \in Early(n, S) : Obeys(g, n, G)
      BY <2>2
    <3> DEFINE h == [m \in 0 .. (n + 1) - 1 |-> IF m < n THEN g[m] ELSE G[<<n, g>>]]
    <3>2. h \in Early(n + 1, S)
      BY <3>1 DEF Early, Closed
    <3>3. ASSUME NEW m \in 0 .. (n + 1) - 1
          PROVE  h[m] = G[<<m, Prior(h, m)>>]
      <4>1. CASE m < n
        <5>1. Prior(h, m) = Prior(g, m)
          BY <4>1 DEF Prior
        <5> QED
          BY <4>1, <5>1, <3>1 DEF Obeys
      <4>2. CASE m = n
        <5>1. Prior(h, n) = g
          BY <3>1 DEF Prior, Early
        <5> QED
          BY <4>2, <5>1
      <4> QED
        BY <4>1, <4>2
    <3>4. Obeys(h, n + 1, G)
      <4> HIDE DEF h
      <4> QED BY <3>3 DEF Obeys
    <3> QED
      BY <3>2, <3>4, n + 1 \in Nat
  <2> HIDE DEF T
  <2> QED
    BY <2>1, <2>2, Induction
<1>2. PICK u : \A n \in Nat : u[n] \in Early(n, S) /\ Obeys(u[n], n, G)
  <2> DEFINE w == [n \in Nat |-> CHOOSE g \in Early(n, S) : Obeys(g, n, G)]
  <2>1. ASSUME NEW n \in Nat
        PROVE  w[n] \in Early(n, S) /\ Obeys(w[n], n, G)
    <3>1. \E g \in Early(n, S) : Obeys(g, n, G)
      BY <1>1
    <3> QED
      BY <3>1
  <2> HIDE DEF w
  <2> QED
    BY <2>1
<1> HIDE DEF T
<1> DEFINE f == [n \in Nat |-> u[n + 1][n]]
<1>3. ASSUME NEW n \in Nat, NEW m \in 0 .. n - 1
      PROVE  u[m + 1][m] = u[n][m]
  <2> DEFINE h == Prior(u[n], m + 1)
  <2>0. u[n] \in Early(n, S) /\ Obeys(u[n], n, G) /\ m + 1 \in Nat
    BY <1>2
  <2>1. h \in Early(m + 1, S)
    BY <2>0 DEF Prior, Early
  <2>2. Obeys(h, m + 1, G)
    <3> SUFFICES ASSUME NEW k \in 0 .. (m + 1) - 1
                 PROVE  h[k] = G[<<k, Prior(h, k)>>]
      BY DEF Obeys
    <3>1. Prior(h, k) = Prior(u[n], k)
      BY DEF Prior
    <3>2. h[k] = u[n][k]
      BY DEF Prior
    <3>3. u[n][k] = G[<<k, Prior(u[n], k)>>]
      BY <2>0 DEF Obeys
    <3> QED
      BY <3>1, <3>2, <3>3
  <2>3. u[m + 1] = h
    <3> HIDE DEF h
    <3> QED BY <2>0, <1>2, <2>1, <2>2, UpToUnique
  <2> QED
    BY <2>3 DEF Prior
<1>4. ASSUME NEW n \in Nat
      PROVE  f[n] = G[<<n, Prior(f, n)>>] /\ f[n] \in S
  <2>0. u[n + 1] \in Early(n + 1, S) /\ Obeys(u[n + 1], n + 1, G) /\ n \in 0 .. (n + 1) - 1
    BY <1>2
  <2>1. u[n + 1][n] = G[<<n, Prior(u[n + 1], n)>>]
    BY <2>0 DEF Obeys
  <2>2. u[n + 1][n] \in S
    BY <2>0 DEF Early
  <2>3. ASSUME NEW m \in 0 .. n - 1
        PROVE  u[n + 1][m] = f[m]
    BY <1>3
  <2>4. Prior(u[n + 1], n) = Prior(f, n)
    <3> HIDE DEF f
    <3> QED BY <2>3 DEF Prior
  <2> QED
    BY <2>1, <2>2, <2>4
<1>5. f \in [Nat -> S]
  BY <1>4
<1> HIDE DEF f
<1> QED
  BY <1>4, <1>5 DEF Recurs

\* The same for a definition that uses the value before only, and as far as N.
Stays(G, S, N) == \A n \in 1 .. N : \A x \in S : G[<<n, x>>] \in S
Follows(f, s0, G, N) == f[0] = s0 /\ \A n \in 1 .. N : f[n] = G[<<n, f[n - 1]>>]

LEMMA StepsExist ==
  ASSUME NEW S, NEW s0 \in S, NEW N \in Nat, NEW G, Stays(G, S, N)
  PROVE  \E f \in [0 .. N -> S] : Follows(f, s0, G, N)
<1> DEFINE V(n, g) == IF n \in 1 .. N THEN G[<<n, g[n - 1]>>] ELSE s0
           H == [d \in Nat \X UNION {Early(n, S) : n \in Nat} |-> V(d[1], d[2])]
<1>1. ASSUME NEW n \in Nat, NEW g \in Early(n, S)
      PROVE  V(n, g) \in S /\ H[<<n, g>>] = V(n, g)
  <2>1. <<n, g>> \in Nat \X UNION {Early(m, S) : m \in Nat}
    OBVIOUS
  <2>2. CASE n \in 1 .. N
    BY <2>1, <2>2 DEF Early, Stays
  <2>3. CASE n \notin 1 .. N
    BY <2>1, <2>3
  <2> QED
    BY <2>2, <2>3
<1> HIDE DEF H
<1>2. PICK f \in [Nat -> S] : \A n \in Nat : f[n] = H[<<n, Prior(f, n)>>]
  <2>1. \A n \in Nat : \A g \in Early(n, S) : H[<<n, g>>] \in S
    BY <1>1
  <2>2. \E f \in [Nat -> S] : Recurs(f, H)
    BY <2>1, RecursionExists DEF Closed
  <2> QED
    BY <2>2 DEF Recurs
<1>3. ASSUME NEW n \in Nat
      PROVE  f[n] = IF n \in 1 .. N THEN G[<<n, f[n - 1]>>] ELSE s0
  <2>1. Prior(f, n) \in Early(n, S)
    BY DEF Prior, Early
  <2>2. f[n] = V(n, Prior(f, n))
    BY <1>1, <1>2, <2>1
  <2>3. n \in 1 .. N => Prior(f, n)[n - 1] = f[n - 1]
    BY DEF Prior
  <2> QED
    BY <2>2, <2>3
<1> DEFINE h == [n \in 0 .. N |-> f[n]]
<1>4. h \in [0 .. N -> S]
  OBVIOUS
<1>5. ASSUME NEW n \in 0 .. N
      PROVE  h[n] = IF n = 0 THEN s0 ELSE G[<<n, h[n - 1]>>]
  <2>1. CASE n = 0
    <3>1. f[0] = s0
      BY <1>3, 0 \notin 1 .. N
    <3> QED
      BY <2>1, <3>1
  <2>2. CASE n \in 1 .. N
    <3>1. n - 1 \in 0 .. N /\ n \in Nat
      BY <2>2
    <3> QED
      BY <2>2, <3>1, <1>3
  <2> QED
    BY <2>1, <2>2
<1>6. Follows(h, s0, G, N)
  <2> HIDE DEF h
  <2>1. 0 \in 0 .. N
    OBVIOUS
  <2>2. \A n \in 1 .. N : n \in 0 .. N /\ n # 0
    OBVIOUS
  <2> QED BY <1>5, <2>1, <2>2 DEF Follows
<1> QED
  BY <1>4, <1>6

\* The same without an end.
GoesOn(G, S) == \A n \in Nat : \A x \in S : G[<<n + 1, x>>] \in S
Iterates(f, s0, G) == f[0] = s0 /\ \A n \in Nat : f[n + 1] = G[<<n + 1, f[n]>>]

LEMMA Iteration ==
  ASSUME NEW S, NEW s0 \in S, NEW G, GoesOn(G, S)
  PROVE  \E f \in [Nat -> S] : Iterates(f, s0, G)
<1> DEFINE V(n, g) == IF n = 0 THEN s0 ELSE G[<<n, g[n - 1]>>]
           H == [d \in Nat \X UNION {Early(n, S) : n \in Nat} |-> V(d[1], d[2])]
<1>1. ASSUME NEW n \in Nat, NEW g \in Early(n, S)
      PROVE  V(n, g) \in S /\ H[<<n, g>>] = V(n, g)
  <2>1. <<n, g>> \in Nat \X UNION {Early(m, S) : m \in Nat}
    OBVIOUS
  <2>2. CASE n = 0
    BY <2>1, <2>2
  <2>3. CASE n # 0
    <3>1. n - 1 \in Nat /\ (n - 1) + 1 = n /\ n - 1 \in 0 .. n - 1
      BY <2>3
    <3>2. g[n - 1] \in S
      BY <3>1 DEF Early
    <3>3. G[<<n, g[n - 1]>>] \in S
      BY <3>1, <3>2 DEF GoesOn
    <3> QED BY <2>1, <2>3, <3>3
  <2> QED
    BY <2>2, <2>3
<1> HIDE DEF H
<1>2. PICK f \in [Nat -> S] : \A n \in Nat : f[n] = H[<<n, Prior(f, n)>>]
  <2>1. \A n \in Nat : \A g \in Early(n, S) : H[<<n, g>>] \in S
    BY <1>1
  <2>2. \E f \in [Nat -> S] : Recurs(f, H)
    BY <2>1, RecursionExists DEF Closed
  <2> QED
    BY <2>2 DEF Recurs
<1>3. ASSUME NEW n \in Nat
      PROVE  f[n] = IF n = 0 THEN s0 ELSE G[<<n, f[n - 1]>>]
  <2>1. Prior(f, n) \in Early(n, S)
    BY DEF Prior, Early
  <2>2. f[n] = V(n, Prior(f, n))
    BY <1>1, <1>2, <2>1
  <2>3. n # 0 => Prior(f, n)[n - 1] = f[n - 1]
    BY DEF Prior
  <2> QED
    BY <2>2, <2>3
<1>4. \A n \in Nat : n + 1 \in Nat /\ n + 1 # 0 /\ (n + 1) - 1 = n
  OBVIOUS
<1>5. \A n \in Nat : f[n + 1] = G[<<n + 1, f[n]>>]
  BY <1>3, <1>4
<1>6. f[0] = s0
  BY <1>3
<1> QED
  BY <1>5, <1>6 DEF Iterates

------------------------------------------------------------------------------
\* w is s and then t.
Joined(w, s, t) ==
  /\ Len(w) = Len(s) + Len(t) /\ DOMAIN w = 1 .. Len(w)
  /\ \A a \in 1 .. Len(s) : w[a] = s[a]
  /\ \A a \in 1 .. Len(t) : w[Len(s) + a] = t[a]

LEMMA Concatenation ==
  ASSUME NEW A, NEW s \in Seq(A), NEW t \in Seq(A)
  PROVE  s \o t \in Seq(A) /\ Joined(s \o t, s, t)
<1>1. s \o t \in Seq(A) /\ Len(s \o t) = Len(s) + Len(t)
  OBVIOUS
<1>2. DOMAIN (s \o t) = 1 .. Len(s \o t)
  BY <1>1
<1>3. \A a \in 1 .. Len(s) : (s \o t)[a] = s[a]
  OBVIOUS
<1>4. \A a \in 1 .. Len(t) : (s \o t)[Len(s) + a] = t[a]
  OBVIOUS
<1> QED
  BY <1>1, <1>2, <1>3, <1>4 DEF Joined
=============================================================================
