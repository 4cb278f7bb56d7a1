--------------------------- MODULE WebsocketProofs ----------------------------
(***************************************************************************)
(* What holds of the Websocket library for every value of its constants.   *)
(***************************************************************************)
EXTENDS Websocket, Integers, Sequences, FiniteSets, WellFoundedInduction, SequenceTheorems, TLAPS

\* The sum moves as its parts do: a step of it is a step of each, or leaves it as
\* it is.
LEMMA PartsMove ==
  /\ PartsInit => W!Init
  /\ [PartsNext]_allVars => [W!Next]_W!vars
BY DEF PartsInit, PartsNext, allVars, wsVars,
       W!vars, W!tx, W!rxState

------------------------------------------------------------------------------
(***************************************************************************)
(* WebSocketClient.                                                        *)
(***************************************************************************)

FrameToken == UNION {{W!Tokens(f)[m] : m \in DOMAIN W!Tokens(f)} : f \in Frame}

\* What the connection still brings, received or not.
Coming == ws_rx \o ws_wire

\* The tokens before the payload, from what the byte with the length says.
headLen(v) == 2 + (IF v.long THEN 1 ELSE 0) + (IF v.masked THEN 1 ELSE 0)

\* What follows the opcode at place p of stream q, as far as q goes: its
\* length, its payload in the order of the mask, and then another opcode.
FrameAt(q, p) ==
  p + 1 <= Len(q) =>
    LET v == q[p + 1].v IN
    /\ q[p + 1].k = "size" /\ v.size \in Nat /\ v.long \in BOOLEAN /\ v.masked \in BOOLEAN
    /\ \A m \in Nat : /\ headLen(v) <= m /\ m < headLen(v) + v.size /\ p + m <= Len(q)
                      => q[p + m] = W!Token("data", (m - headLen(v)) % 4)
    /\ p + headLen(v) + v.size <= Len(q) => q[p + headLen(v) + v.size].k = "op"

Framed(q) == \A p \in 1 .. Len(q) : q[p].k = "op" => FrameAt(q, p)

\* The stream goes on with left bytes of a payload, and then with a frame.
Follows(q, left) ==
  /\ \A p \in 1 .. Len(q) : p <= left => q[p].k = "data"
  /\ left + 1 <= Len(q) => q[left + 1].k = "op"

\* No frame is cut off.
Whole(q, left) ==
  /\ left <= Len(q)
  /\ \A p \in 1 .. Len(q) : q[p].k = "op" =>
       p + 1 <= Len(q) /\ p + headLen(q[p + 1].v) + q[p + 1].v.size <= Len(q) + 1

\* A masked payload goes on with the byte of the mask that is next.
MaskInStep(q) ==
  \A p \in 1 .. Len(q) : p <= iRxSize => q[p].v = (iRxMaskIndex + p - 1) % 4

WsTypes ==
  /\ ws_rx \in Seq(FrameToken) /\ ws_wire \in Seq(FrameToken)
  /\ ws_conn \in BOOLEAN /\ iRxSize \in Nat /\ iRxMaskIndex \in 0 .. 3
  /\ txBuf \in Seq({"user", "ping", "junk"}) /\ accepted \in Nat /\ payload \in Nat

\* Unless the client has lost its place, iRxSize is the rest of the frame being read.
StreamStands ==
  "astray" \notin ws_excuse =>
    /\ Framed(Coming) /\ Follows(Coming, iRxSize)
    /\ ws_conn => Whole(Coming, iRxSize)
    /\ ws_pc = "idle" /\ iRxMasked /\ "short" \notin ws_excuse => MaskInStep(Coming)
    /\ ws_pc = "head" => iRxSize = 0

\* A message of the sketch holds what was written; a pong with a buffer of its
\* own holds the part of the payload that was read.
BufferStands ==
  ~overrun =>
    /\ iTxStarted /\ ws_pc # "pong" => iTxType = "text" /\ W!Only("user", accepted)
    /\ ws_pc = "pong" =>
            /\ iTxStarted
            /\ iTxType = "pong" /\ ws_excuse \cap {"starved", "astray"} = {} =>
                 W!Only("ping", payload - iRxSize)

WsInv ==
  /\ WsTypes /\ StreamStands /\ BufferStands
  /\ ws_pc # "idle" => decoded
  /\ W!MessageIntact /\ W!UnmaskedInStep

LEMMA FunIsSeq ==
  ASSUME NEW X, NEW num \in Nat, NEW g \in [1 .. num -> X]
  PROVE  g \in Seq(X) /\ Len(g) = num
OBVIOUS

\* The tokens of a frame.
LEMMA TokensFrame ==
  ASSUME W!ConstantsOK, NEW f \in Frame
  PROVE  LET q == W!Tokens(f)  z == headLen(f) IN
         /\ q \in Seq(FrameToken) /\ z \in Nat /\ f.size \in Nat /\ Len(q) = z + f.size /\ z >= 2
         /\ q[1].k = "op" /\ q[2].k = "size"
         /\ q[2].v = [long |-> f.long, masked |-> f.masked, size |-> f.size]
         /\ \A m \in 2 .. Len(q) : q[m].k # "op"
         /\ \A m \in z + 1 .. Len(q) : q[m] = W!Token("data", (m - 1 - z) % 4)
<1> DEFINE t1 == W!Token("op", [type |-> f.type, final |-> f.final])
           t2 == W!Token("size", [long |-> f.long, masked |-> f.masked, size |-> f.size])
           t3 == W!Token("long", f.size)
           t4 == W!Token("mask", 0)
           A == {t1, t2, t3, t4} \cup {W!Token("data", y) : y \in Nat}
           a == <<t1, t2>>
           b == IF f.long THEN <<t3>> ELSE <<>>
           c == IF f.masked THEN <<t4>> ELSE <<>>
           d == [x \in 1 .. f.size |-> W!Token("data", (x - 1) % 4)]
           q == W!Tokens(f)
           z == headLen(f)
           nb == IF f.long THEN 1 ELSE 0
           nc == IF f.masked THEN 1 ELSE 0
<1>1. f.size \in Nat /\ f.long \in BOOLEAN /\ f.masked \in BOOLEAN
  BY DEF W!ConstantsOK
<1>2. q = a \o b \o c \o d
  BY DEF W!Tokens
<1>3. /\ t1.k = "op" /\ t2.k = "size" /\ t3.k = "long" /\ t4.k = "mask"
      /\ t2.v = [long |-> f.long, masked |-> f.masked, size |-> f.size]
  BY DEF W!Token
<1>d. d \in Seq(A) /\ Len(d) = f.size
      /\ \A m \in 1 .. f.size : d[m] = W!Token("data", (m - 1) % 4) /\ d[m].k = "data"
  <2>1. \A m \in 1 .. f.size : d[m] = W!Token("data", (m - 1) % 4) /\ (m - 1) % 4 \in Nat
    BY <1>1
  <2>2. \A m \in 1 .. f.size : d[m] \in A /\ d[m].k = "data"
    BY <2>1 DEF W!Token
  <2> HIDE DEF A
  <2>3. d \in Seq(A) /\ Len(d) = f.size
    <3>1. DOMAIN d = 1 .. f.size /\ d = [x \in DOMAIN d |-> d[x]]
      OBVIOUS
    <3> HIDE DEF d
    <3>2. d \in [1 .. f.size -> A]
      BY <2>2, <3>1
    <3> QED
      BY <3>2, <1>1, FunIsSeq
  <2> QED
    BY <2>1, <2>2, <2>3
<1>t. t1 \in A /\ t2 \in A /\ t3 \in A /\ t4 \in A
  OBVIOUS
<1> HIDE DEF A, d, t1, t2, t3, t4
<1>a. a \in Seq(A) /\ Len(a) = 2 /\ a[1] = t1 /\ a[2] = t2
  BY <1>t
<1>b. b \in Seq(A) /\ Len(b) = nb /\ \A m \in 1 .. nb : b[m] = t3
  <2>1. CASE f.long
    BY <2>1, <1>t
  <2>2. CASE ~f.long
    BY <2>2
  <2> QED
    BY <2>1, <2>2
<1>c. c \in Seq(A) /\ Len(c) = nc /\ \A m \in 1 .. nc : c[m] = t4
  <2>1. CASE f.masked
    BY <2>1, <1>t
  <2>2. CASE ~f.masked
    BY <2>2
  <2> QED
    BY <2>1, <2>2
<1>4. nb \in 0 .. 1 /\ nc \in 0 .. 1 /\ z = 2 + nb + nc
  BY DEF headLen
<1> HIDE DEF a, b, c, nb, nc, z, q
<1>5. /\ a \o b \in Seq(A) /\ Len(a \o b) = 2 + nb
      /\ (a \o b)[1] = t1 /\ (a \o b)[2] = t2
      /\ \A m \in 3 .. 2 + nb : (a \o b)[m].k # "op"
  <2>0. /\ a \o b \in Seq(A) /\ Len(a \o b) = 2 + nb
        /\ \A m \in 1 .. 2 : (a \o b)[m] = a[m]
        /\ \A m \in 2 + 1 .. 2 + nb : (a \o b)[m] = b[m - 2]
    <3>1. a \in Seq(A) /\ b \in Seq(A) /\ Len(a) = 2 /\ Len(b) = nb /\ 2 \in Nat /\ nb \in Nat
      BY <1>a, <1>b, <1>4
    <3>2. PICK num \in Nat : num = 2
      OBVIOUS
    <3>3. /\ a \o b \in Seq(A) /\ Len(a \o b) = num + nb
          /\ \A m \in 1 .. num : (a \o b)[m] = a[m]
          /\ \A m \in num + 1 .. num + nb : (a \o b)[m] = b[m - num]
      <4>1. Len(a) = num
        BY <3>1, <3>2
      <4>a. a \in Seq(A) /\ b \in Seq(A) /\ Len(b) = nb /\ nb \in Nat /\ num \in Nat
        BY <3>1
      <4>2. a \o b \in Seq(A)
        BY <4>a
      <4>3. Len(a \o b) = num + nb
        BY <4>1, <4>a
      <4>4. \A m \in 1 .. num : (a \o b)[m] = a[m]
        BY <4>1, <4>a
      <4>5. \A m \in num + 1 .. num + nb : (a \o b)[m] = b[m - num]
        BY <4>1, <4>a
      <4> QED
        BY <4>2, <4>3, <4>4, <4>5
    <3> QED
      BY <3>2, <3>3
  <2>1. \A m \in 3 .. 2 + nb : (a \o b)[m] = b[m - 2] /\ m - 2 \in 1 .. nb
    BY <2>0, <1>4
  <2>2. \A m \in 3 .. 2 + nb : (a \o b)[m].k # "op"
    BY <2>1, <1>b, <1>3
  <2>3. 1 \in 1 .. 2 /\ 2 \in 1 .. 2
    OBVIOUS
  <2> QED
    BY <1>a, <2>0, <2>2, <2>3, Zenon
<1> DEFINE ab == a \o b
<1>6. ab \in Seq(A) /\ Len(ab) = 2 + nb
  BY <1>5
<1> HIDE DEF ab
<1>7. /\ ab \o c \in Seq(A) /\ Len(ab \o c) = z
      /\ \A m \in 1 .. 2 + nb : (ab \o c)[m] = ab[m]
      /\ \A m \in 3 + nb .. z : (ab \o c)[m].k # "op"
  <2>0. /\ ab \o c \in Seq(A) /\ Len(ab \o c) = z
        /\ \A m \in 1 .. 2 + nb : (ab \o c)[m] = ab[m]
        /\ \A m \in 2 + nb + 1 .. 2 + nb + nc : (ab \o c)[m] = c[m - (2 + nb)]
    <3>1. /\ ab \in Seq(A) /\ c \in Seq(A) /\ Len(ab) = 2 + nb /\ Len(c) = nc
          /\ 2 + nb \in Nat /\ nc \in Nat
      BY <1>6, <1>c, <1>4
    <3> QED
      BY <3>1, <1>4
  <2>1. \A m \in 3 + nb .. z : (ab \o c)[m] = c[m - (2 + nb)] /\ m - (2 + nb) \in 1 .. nc
    BY <2>0, <1>4
  <2>2. \A m \in 3 + nb .. z : (ab \o c)[m].k # "op"
    BY <2>1, <1>c, <1>3
  <2> QED
    BY <2>0, <2>2
<1> DEFINE abc == ab \o c
<1>8. /\ abc \in Seq(A) /\ Len(abc) = z /\ z \in Nat /\ z >= 2
      /\ abc[1] = t1 /\ abc[2] = t2 /\ \A m \in 3 .. z : abc[m].k # "op"
  <2>1. \A m \in 3 .. z : abc[m].k # "op"
    BY <1>4, <1>5, <1>7 DEF ab
  <2> QED
    BY <2>1, <1>4, <1>5, <1>7 DEF ab
<1>9. q = abc \o d
  BY <1>2 DEF ab
<1> HIDE DEF abc
<1>10. /\ q \in Seq(A) /\ Len(q) = z + f.size
       /\ \A m \in 1 .. z : q[m] = abc[m]
       /\ \A m \in z + 1 .. z + f.size : q[m] = d[m - z]
  <2>1. /\ abc \in Seq(A) /\ d \in Seq(A) /\ Len(abc) = z /\ Len(d) = f.size
        /\ z \in Nat /\ f.size \in Nat
    BY <1>8, <1>d, <1>1
  <2>2. /\ abc \o d \in Seq(A) /\ Len(abc \o d) = z + f.size
        /\ \A m \in 1 .. z : (abc \o d)[m] = abc[m]
        /\ \A m \in z + 1 .. z + f.size : (abc \o d)[m] = d[m - z]
    BY <2>1
  <2> QED
    BY <2>2, <1>9
<1>11. \A m \in 2 .. Len(q) : q[m].k # "op"
  <2> TAKE m \in 2 .. Len(q)
  <2>1. CASE m <= z
    BY <2>1, <1>8, <1>10, <1>3
  <2>2. CASE m > z
    <3>1. q[m] = d[m - z] /\ m - z \in 1 .. f.size
      BY <2>2, <1>1, <1>8, <1>10
    <3> QED
      BY <3>1, <1>d
  <2> QED
    BY <2>1, <2>2, <1>8
<1>12. \A m \in z + 1 .. Len(q) : q[m] = W!Token("data", (m - 1 - z) % 4)
  <2> TAKE m \in z + 1 .. Len(q)
  <2>1. m - z \in 1 .. f.size /\ (m - z) - 1 = m - 1 - z
    BY <1>1, <1>8, <1>10
  <2> QED
    BY <2>1, <1>10, <1>d, <1>1, <1>8
<1>13. q \in Seq(FrameToken)
  <2>1. \A m \in 1 .. Len(q) : q[m] \in FrameToken
    BY <1>10 DEF q, FrameToken
  <2> QED
    BY <2>1, <1>10
<1> QED
  <2>1. q[1].k = "op" /\ q[2].k = "size" /\ q[2].v = [long |-> f.long, masked |-> f.masked, size |-> f.size]
    BY <1>8, <1>10, <1>3
  <2> QED
    BY <2>1, <1>1, <1>8, <1>10, <1>11, <1>12, <1>13 DEF q, z

\* Stream t is what stream q comes to after its first c tokens.
Drops(q, c, t) == Len(t) = Len(q) - c /\ \A p \in 1 .. Len(t) : t[p] = q[p + c]

LEMMA DropFramed ==
  ASSUME NEW X, NEW q \in Seq(X), NEW t \in Seq(X), NEW c \in Nat, Drops(q, c, t), Framed(q)
  PROVE  Framed(t)
<1> SUFFICES ASSUME NEW p \in 1 .. Len(t), t[p].k = "op" PROVE FrameAt(t, p)
  BY DEF Framed
<1>1. FrameAt(q, p + c)
  BY DEF Framed, Drops
<1> SUFFICES ASSUME p + 1 <= Len(t) PROVE FrameAt(t, p)
  BY DEF FrameAt
<1>2. t[p + 1] = q[p + c + 1] /\ p + c + 1 <= Len(q)
  BY DEF Drops
<1> DEFINE v == t[p + 1].v  z == headLen(v)
<1>3. /\ t[p + 1].k = "size" /\ v.size \in Nat /\ v.long \in BOOLEAN /\ v.masked \in BOOLEAN
      /\ \A m \in Nat : z <= m /\ m < z + v.size /\ p + c + m <= Len(q)
                        => q[p + c + m] = W!Token("data", (m - z) % 4)
      /\ p + c + z + v.size <= Len(q) => q[p + c + z + v.size].k = "op"
  BY <1>1, <1>2 DEF FrameAt
<1>4. z \in Nat
  BY <1>3 DEF headLen
<1> HIDE DEF z
<1>5. \A m \in Nat : p + m <= Len(t) => p + c + m <= Len(q) /\ t[p + m] = q[p + c + m]
  BY DEF Drops
<1>6. \A m \in Nat : z <= m /\ m < z + v.size /\ p + m <= Len(t)
                     => t[p + m] = W!Token("data", (m - z) % 4)
  BY <1>3, <1>5
<1>7. p + z + v.size <= Len(t) => t[p + z + v.size].k = "op"
  <2> DEFINE s == v.size
  <2>0. s \in Nat /\ (p + c + z + s <= Len(q) => q[p + c + z + s].k = "op")
    BY <1>3
  <2> HIDE DEF v, s
  <2>1. z + s \in Nat /\ p + (z + s) = p + z + s /\ p + c + (z + s) = p + c + z + s
    BY <2>0, <1>4
  <2>2. p + z + s <= Len(t) => t[p + z + s].k = "op"
    BY <2>0, <2>1, <1>5
  <2> QED
    BY <2>2 DEF s
<1> QED
  BY <1>3, <1>6, <1>7 DEF FrameAt, z

LEMMA DropWhole ==
  ASSUME NEW X, NEW q \in Seq(X), NEW t \in Seq(X), NEW c \in Nat, Drops(q, c, t), Framed(q),
         NEW left \in Nat, NEW rest \in Nat, Whole(q, left), rest <= Len(t)
  PROVE  Whole(t, rest)
<1> SUFFICES ASSUME NEW p \in 1 .. Len(t), t[p].k = "op"
             PROVE  p + 1 <= Len(t) /\ p + headLen(t[p + 1].v) + t[p + 1].v.size <= Len(t) + 1
  BY DEF Whole
<1>1. p + c \in 1 .. Len(q) /\ q[p + c].k = "op"
  BY DEF Drops
<1>2. /\ p + c + 1 <= Len(q)
      /\ p + c + headLen(q[p + c + 1].v) + q[p + c + 1].v.size <= Len(q) + 1
  BY <1>1 DEF Whole
<1>3. t[p + 1] = q[p + c + 1] /\ p + 1 <= Len(t)
  BY <1>2 DEF Drops
<1>4. q[p + c + 1].v.size \in Nat /\ headLen(q[p + c + 1].v) \in Nat
  <2> DEFINE v == q[p + c + 1].v
  <2>1. FrameAt(q, p + c)
    BY <1>1 DEF Framed
  <2>2. v.size \in Nat /\ v.long \in BOOLEAN /\ v.masked \in BOOLEAN
    BY <2>1, <1>2 DEF FrameAt
  <2> HIDE DEF v
  <2>3. headLen(v) \in Nat
    BY DEF headLen
  <2> QED
    BY <2>2, <2>3 DEF v
<1> QED
  <2> DEFINE y == headLen(q[p + c + 1].v)
             w == q[p + c + 1].v.size
  <2>1. y \in Nat /\ w \in Nat /\ p + c + y + w <= Len(q) + 1
    BY <1>2, <1>4
  <2>2. headLen(t[p + 1].v) = y /\ t[p + 1].v.size = w
    BY <1>3
  <2> HIDE DEF y, w
  <2>3. p + y + w <= Len(t) + 1
    BY <2>1 DEF Drops
  <2> QED
    BY <2>2, <2>3, <1>3

LEMMA JoinAt ==
  ASSUME NEW X, NEW q \in Seq(X), NEW g \in Seq(X)
  PROVE  /\ q \o g \in Seq(X) /\ Len(q \o g) = Len(q) + Len(g)
         /\ \A m \in 1 .. Len(q) : (q \o g)[m] = q[m]
         /\ \A m \in 1 .. Len(g) : (q \o g)[Len(q) + m] = g[m]
<1>1. q \o g \in Seq(X) /\ Len(q \o g) = Len(q) + Len(g)
  OBVIOUS
<1>2. \A m \in 1 .. Len(q) : (q \o g)[m] = q[m]
  OBVIOUS
<1>3. ASSUME NEW m \in 1 .. Len(g) PROVE (q \o g)[Len(q) + m] = g[m]
  OBVIOUS
<1> QED
  BY <1>1, <1>2, <1>3

\* g is a frame of z tokens and sz bytes.
IsFrame(g, z, sz) ==
  /\ z \in Nat /\ sz \in Nat /\ Len(g) = z + sz /\ z >= 2
  /\ g[1].k = "op" /\ g[2].k = "size"
  /\ headLen(g[2].v) = z /\ g[2].v.size = sz
  /\ g[2].v.long \in BOOLEAN /\ g[2].v.masked \in BOOLEAN
  /\ \A m \in 2 .. z + sz : g[m].k # "op"
  /\ \A m \in z + 1 .. z + sz : g[m] = W!Token("data", (m - 1 - z) % 4)

LEMMA TokensIsFrame ==
  ASSUME W!ConstantsOK, NEW f \in Frame
  PROVE  W!Tokens(f) \in Seq(FrameToken) /\ IsFrame(W!Tokens(f), headLen(f), f.size)
<1> DEFINE q == W!Tokens(f)  z == headLen(f)
<1>1. /\ q \in Seq(FrameToken) /\ z \in Nat /\ f.size \in Nat /\ Len(q) = z + f.size /\ z >= 2
      /\ q[1].k = "op" /\ q[2].k = "size"
      /\ q[2].v = [long |-> f.long, masked |-> f.masked, size |-> f.size]
      /\ \A m \in 2 .. Len(q) : q[m].k # "op"
      /\ \A m \in z + 1 .. Len(q) : q[m] = W!Token("data", (m - 1 - z) % 4)
  BY TokensFrame
<1>2. f.long \in BOOLEAN /\ f.masked \in BOOLEAN
  BY DEF W!ConstantsOK
<1>3. /\ headLen(q[2].v) = z /\ q[2].v.size = f.size
      /\ q[2].v.long \in BOOLEAN /\ q[2].v.masked \in BOOLEAN
  BY <1>1, <1>2 DEF headLen
<1> HIDE DEF q, z
<1>4. /\ \A m \in 2 .. z + f.size : q[m].k # "op"
      /\ \A m \in z + 1 .. z + f.size : q[m] = W!Token("data", (m - 1 - z) % 4)
  BY <1>1
<1>5. q \in Seq(FrameToken) /\ IsFrame(q, z, f.size)
  BY <1>1, <1>3, <1>4 DEF IsFrame
<1> QED
  BY <1>5 DEF q, z

\* A stream goes on with a frame where it is whole.
LEMMA SendFramed ==
  ASSUME NEW X, NEW q \in Seq(X), NEW left \in Nat, NEW g \in Seq(X), NEW z, NEW sz,
         IsFrame(g, z, sz), Framed(q), Follows(q, left), Whole(q, left)
  PROVE  Framed(q \o g) /\ Follows(q \o g, left) /\ Whole(q \o g, left)
<1> DEFINE t == q \o g  num == Len(q)
<1>1. /\ z \in Nat /\ sz \in Nat /\ Len(g) = z + sz /\ z >= 2 /\ num \in Nat /\ num = Len(q)
  BY DEF IsFrame
<1>2. /\ g[1].k = "op" /\ g[2].k = "size"
      /\ headLen(g[2].v) = z /\ g[2].v.size = sz
      /\ g[2].v.long \in BOOLEAN /\ g[2].v.masked \in BOOLEAN
  BY DEF IsFrame
<1>3. /\ \A m \in 2 .. z + sz : g[m].k # "op"
      /\ \A m \in z + 1 .. z + sz : g[m] = W!Token("data", (m - 1 - z) % 4)
  BY DEF IsFrame
<1>4. /\ t \in Seq(X) /\ Len(t) = Len(q) + Len(g)
      /\ \A m \in 1 .. Len(q) : t[m] = q[m]
      /\ \A m \in 1 .. Len(g) : t[Len(q) + m] = g[m]
  BY JoinAt
<1> HIDE DEF t, num
<1>5. /\ Len(t) = num + z + sz
      /\ \A m \in 1 .. num : t[m] = q[m]
      /\ \A m \in 1 .. z + sz : t[num + m] = g[m]
  <2>1. Len(t) = num + (z + sz) /\ num + (z + sz) = num + z + sz
    BY <1>1, <1>4
  <2> QED
    BY <2>1, <1>1, <1>4, Zenon
<1>6. Len(t) \in Nat /\ num + 1 <= Len(t) /\ t[num + 1] = g[1] /\ t[num + 2] = g[2]
  <2>1. 1 \in 1 .. z + sz /\ 2 \in 1 .. z + sz
    BY <1>1
  <2> QED
    BY <2>1, <1>1, <1>5
<1>7. Follows(t, left)
  <2>1. left <= num /\ (\A p \in 1 .. num : p <= left => q[p].k = "data")
        /\ (left + 1 <= num => q[left + 1].k = "op")
    BY <1>1 DEF Follows, Whole
  <2>2. \A p \in 1 .. Len(t) : p <= left => t[p].k = "data"
    BY <2>1, <1>1, <1>5, <1>6
  <2>3. t[left + 1].k = "op"
    <3>1. CASE left + 1 <= num
      BY <3>1, <2>1, <1>1, <1>5
    <3>2. CASE left = num
      BY <3>2, <1>6, <1>2
    <3> QED
      BY <3>1, <3>2, <2>1, <1>1
  <2> QED
    BY <2>2, <2>3 DEF Follows
<1>8. ASSUME NEW p \in 1 .. num, q[p].k = "op"
      PROVE  FrameAt(t, p) /\ p + 1 <= Len(t) /\ p + headLen(t[p + 1].v) + t[p + 1].v.size <= Len(t) + 1
  <2> DEFINE v == q[p + 1].v  y == headLen(v)  w == v.size
  <2>1. FrameAt(q, p) /\ p + 1 <= num /\ p + y + w <= num + 1
    BY <1>8, <1>1 DEF Framed, Whole
  <2>2. /\ q[p + 1].k = "size" /\ w \in Nat /\ v.long \in BOOLEAN /\ v.masked \in BOOLEAN
    BY <2>1, <1>1 DEF FrameAt
  <2>3. y \in Nat /\ w \in Nat
    BY <2>2 DEF headLen
  <2>4. \A m \in Nat : y <= m /\ m < y + w /\ p + m <= num
                       => q[p + m] = W!Token("data", (m - y) % 4)
    BY <2>1, <1>1 DEF FrameAt
  <2>5. p + y + w <= num => q[p + y + w].k = "op"
    BY <2>1, <1>1 DEF FrameAt
  <2>6. t[p + 1] = q[p + 1] /\ p + 1 <= Len(t)
    BY <2>1, <1>1, <1>5, <1>6
  <2> HIDE DEF v, y, w
  <2>7. \A m \in Nat : y <= m /\ m < y + w => p + m \in 1 .. num
    BY <2>1, <2>3, <1>1
  <2>8. \A m \in Nat : y <= m /\ m < y + w => t[p + m] = W!Token("data", (m - y) % 4)
    BY <2>4, <2>7, <1>1, <1>5
  <2>9. t[p + y + w].k = "op"
    <3>1. CASE p + y + w <= num
      <4>1. p + y + w \in 1 .. num
        BY <3>1, <2>3, <1>1
      <4> QED
        BY <4>1, <3>1, <2>5, <1>5
    <3>2. CASE p + y + w = num + 1
      BY <3>2, <1>6, <1>2
    <3>3. p + y + w \in Nat /\ p + y + w <= num + 1
      BY <2>1, <2>3, <1>1
    <3>4. \A x \in Nat : x <= num + 1 => x <= num \/ x = num + 1
      BY <1>1
    <3> QED
      BY <3>1, <3>2, <3>3, <3>4
  <2>10. p + y + w <= Len(t) + 1
    BY <2>1, <2>3, <1>1, <1>6
  <2>11. headLen(t[p + 1].v) = y /\ t[p + 1].v.size = w /\ t[p + 1].v = v
    BY <2>6 DEF v, y, w
  <2> QED
    BY <2>2, <2>6, <2>8, <2>9, <2>10, <2>11 DEF FrameAt
<1>9. FrameAt(t, num + 1) /\ num + 2 <= Len(t) /\ num + 1 + headLen(t[num + 2].v) + t[num + 2].v.size <= Len(t) + 1
  <2>1. num + 2 = num + 1 + 1 /\ num + 2 <= Len(t) /\ num + 1 + z + sz = Len(t) + 1
    BY <1>1, <1>5
  <2>2. \A m \in Nat : z <= m /\ m < z + sz => t[num + 1 + m] = W!Token("data", (m - z) % 4)
    <3> SUFFICES ASSUME NEW m \in Nat, z <= m, m < z + sz
                 PROVE  t[num + 1 + m] = W!Token("data", (m - z) % 4)
      OBVIOUS
    <3>1. m + 1 \in z + 1 .. z + sz /\ m + 1 \in 1 .. z + sz /\ (m + 1) - 1 - z = m - z
          /\ num + (m + 1) = num + 1 + m
      BY <1>1
    <3> QED
      BY <3>1, <1>3, <1>5
  <2>3. ~(num + 1 + z + sz <= Len(t)) /\ sz \in Nat
    BY <2>1, <1>1, <1>6
  <2>4. /\ t[num + 2].k = "size" /\ headLen(t[num + 2].v) = z /\ t[num + 2].v.size = sz
        /\ t[num + 2].v.long \in BOOLEAN /\ t[num + 2].v.masked \in BOOLEAN
    BY <1>2, <1>6
  <2>5. FrameAt(t, num + 1)
    <3> DEFINE u == t[num + 2].v
    <3>1. /\ u.size \in Nat /\ headLen(u) = z /\ u.size = sz
      BY <2>3, <2>4
    <3> HIDE DEF u
    <3>2. t[num + 1 + 1].v = u /\ t[num + 1 + 1].k = "size"
      BY <2>1, <2>4 DEF u
    <3>3. u.long \in BOOLEAN /\ u.masked \in BOOLEAN
      BY <2>4 DEF u
    <3> QED
      BY <3>1, <3>2, <3>3, <2>2, <2>3, Zenon DEF FrameAt
  <2> QED
    BY <2>1, <2>4, <2>5
<1>10. \A p \in 1 .. Len(t) : t[p].k = "op" => (p \in 1 .. num /\ q[p].k = "op") \/ p = num + 1
  <2> SUFFICES ASSUME NEW p \in 1 .. Len(t), t[p].k = "op", p > num + 1 PROVE FALSE
    BY <1>1, <1>5, <1>6
  <2>1. p - num \in 1 .. z + sz /\ p - num \in 2 .. z + sz /\ num + (p - num) = p
    BY <1>1, <1>5
  <2> QED
    BY <2>1, <1>3, <1>5
<1>11. Framed(t)
  BY <1>8, <1>9, <1>10 DEF Framed
<1>12. Whole(t, left)
  <2>1. left <= Len(t)
    BY <1>1, <1>6 DEF Whole
  <2>2. num + 2 = num + 1 + 1
    BY <1>1
  <2> QED
    BY <2>1, <2>2, <1>8, <1>9, <1>10 DEF Whole
<1> QED
  BY <1>7, <1>11, <1>12 DEF t

\* What was received is a part of the stream by itself.
LEMMA CutFramed ==
  ASSUME NEW q \in Seq(FrameToken), NEW w \in Seq(FrameToken), NEW left \in Nat,
         Framed(q \o w), Follows(q \o w, left)
  PROVE  Framed(q) /\ Follows(q, left)
<1> DEFINE t == q \o w
<1>1. /\ Len(q) \in Nat /\ Len(t) >= Len(q) /\ Len(t) \in Nat
      /\ \A m \in 1 .. Len(q) : t[m] = q[m]
  OBVIOUS
<1>2. Framed(t) /\ Follows(t, left)
  OBVIOUS
<1> HIDE DEF t
<1>3. Follows(q, left)
  BY <1>1, <1>2 DEF Follows
<1>4. ASSUME NEW p \in 1 .. Len(q), q[p].k = "op", p + 1 <= Len(q) PROVE FrameAt(q, p)
  <2> DEFINE v == q[p + 1].v  y == headLen(v)
  <2>1. t[p] = q[p] /\ t[p + 1] = q[p + 1] /\ FrameAt(t, p)
    BY <1>1, <1>2, <1>4 DEF Framed
  <2>2. /\ q[p + 1].k = "size" /\ v.size \in Nat /\ v.long \in BOOLEAN /\ v.masked \in BOOLEAN
        /\ \A m \in Nat : y <= m /\ m < y + v.size /\ p + m <= Len(t)
                          => t[p + m] = W!Token("data", (m - y) % 4)
        /\ p + y + v.size <= Len(t) => t[p + y + v.size].k = "op"
    BY <2>1, <1>1, <1>4 DEF FrameAt
  <2>3. y \in Nat /\ v.size \in Nat
    BY <2>2 DEF headLen
  <2> HIDE DEF v, y
  <2>4. \A m \in Nat : y <= m /\ m < y + v.size /\ p + m <= Len(q)
                       => q[p + m] = W!Token("data", (m - y) % 4)
    <3> SUFFICES ASSUME NEW m \in Nat, y <= m, m < y + v.size, p + m <= Len(q)
                 PROVE  q[p + m] = W!Token("data", (m - y) % 4)
      OBVIOUS
    <3>1. p + m \in 1 .. Len(q) /\ p + m <= Len(t)
      BY <1>1
    <3> QED
      BY <3>1, <2>2, <1>1
  <2>5. p + y + v.size <= Len(q) => q[p + y + v.size].k = "op"
    BY <2>2, <2>3, <1>1
  <2> QED
    BY <2>2, <2>4, <2>5 DEF FrameAt, v, y
<1>5. \A p \in 1 .. Len(q) : ~(p + 1 <= Len(q)) => FrameAt(q, p)
  BY DEF FrameAt
<1> QED
  BY <1>3, <1>4, <1>5 DEF Framed

\* c tokens are read from what was received.
LEMMA ReadDrops ==
  ASSUME NEW q \in Seq(FrameToken), NEW w \in Seq(FrameToken), NEW c \in 0 .. Len(q)
  PROVE  LET r == SubSeq(q, c + 1, Len(q)) IN
         /\ r \in Seq(FrameToken) /\ q \o w \in Seq(FrameToken) /\ r \o w \in Seq(FrameToken)
         /\ Drops(q \o w, c, r \o w)
<1> DEFINE r == SubSeq(q, c + 1, Len(q))
<1>1. r \in Seq(FrameToken) /\ Len(r) = Len(q) - c /\ \A p \in 1 .. Len(r) : r[p] = q[p + c]
  <2>1. r \in Seq(FrameToken)
    OBVIOUS
  <2>2. Len(r) = Len(q) - c
    OBVIOUS
  <2>3. ASSUME NEW p \in 1 .. Len(q) - c PROVE r[p] = q[p + c]
    OBVIOUS
  <2> HIDE DEF r
  <2> QED
    BY <2>1, <2>2, <2>3
<1> HIDE DEF r
<1>2. /\ q \o w \in Seq(FrameToken) /\ r \o w \in Seq(FrameToken)
      /\ Len(q \o w) = Len(q) + Len(w) /\ Len(r \o w) = Len(q) - c + Len(w)
  <2>1. q \o w \in Seq(FrameToken) /\ Len(q \o w) = Len(q) + Len(w)
    BY JoinAt
  <2>2. r \o w \in Seq(FrameToken) /\ Len(r \o w) = Len(r) + Len(w)
    BY <1>1, JoinAt
  <2> QED
    BY <2>1, <2>2, <1>1
<1>3. ASSUME NEW p \in 1 .. Len(r \o w) PROVE (r \o w)[p] = (q \o w)[p + c]
  <2>1. CASE p <= Len(r)
    BY <2>1, <1>1, <1>2
  <2>2. CASE p > Len(r)
    <3>1. (r \o w)[p] = w[p - Len(r)]
      BY <2>2, <1>1, <1>2
    <3>2. (q \o w)[p + c] = w[p + c - Len(q)] /\ p + c - Len(q) = p - Len(r)
      BY <2>2, <1>1, <1>2
    <3> QED
      BY <3>1, <3>2
  <2> QED
    BY <2>1, <2>2, <1>1
<1>4. Drops(q \o w, c, r \o w)
  <2>1. Len(r \o w) = Len(q \o w) - c
    BY <1>1, <1>2
  <2> QED
    BY <2>1, <1>3 DEF Drops
<1> QED
  BY <1>1, <1>2, <1>4 DEF r

\* Steps that leave the stream alone.
LEMMA StreamSame ==
  ASSUME StreamStands, UNCHANGED <<Coming, ws_conn, iRxSize, iRxMasked, iRxMaskIndex>>,
         ws_excuse \cap {"astray", "short"} \subseteq ws_excuse',
         ws_pc' = ws_pc \/ ws_pc' \notin {"idle", "head"} \/ iRxSize = 0, iRxSize \in Nat
  PROVE  StreamStands'
<1>1. Coming' = Coming
  OBVIOUS
<1>2. iRxSize = 0 => MaskInStep(Coming)'
  BY DEF MaskInStep
<1>3. MaskInStep(Coming) => MaskInStep(Coming)'
  BY <1>1 DEF MaskInStep
<1> SUFFICES ASSUME "astray" \notin ws_excuse'
             PROVE  /\ Framed(Coming)' /\ Follows(Coming, iRxSize)'
                    /\ ws_conn' => Whole(Coming, iRxSize)'
                    /\ ws_pc' = "idle" /\ iRxMasked' /\ "short" \notin ws_excuse' => MaskInStep(Coming)'
                    /\ ws_pc' = "head" => iRxSize' = 0
  BY DEF StreamStands
<1>4. "astray" \notin ws_excuse
  OBVIOUS
<1>5. Framed(Coming)' /\ Follows(Coming, iRxSize)' /\ (ws_conn' => Whole(Coming, iRxSize)')
  BY <1>1, <1>4 DEF StreamStands, Framed, FrameAt, Follows, Whole, headLen, W!Token
<1> QED
  BY <1>2, <1>3, <1>4, <1>5 DEF StreamStands

\* Steps that end with a connection that has brought nothing, or with none.
LEMMA StreamEmpty ==
  ASSUME ws_rx' = <<>>, ws_wire' = <<>>, ws_conn' => iRxSize' = 0, ws_pc' # "head", iRxSize' \in Nat
  PROVE  StreamStands'
<1>1. Coming' = <<>> /\ Len(<<>>) = 0
  BY DEF Coming
<1>3. MaskInStep(Coming)'
  BY <1>1 DEF MaskInStep
<1>4. Framed(Coming)' /\ Follows(Coming, iRxSize)' /\ (ws_conn' => Whole(Coming, iRxSize)')
  <2>1. Framed(Coming)'
    BY <1>1 DEF Framed
  <2>2. Follows(Coming, iRxSize)'
    <3>1. Follows(<<>>, iRxSize')
      <4>1. \A l \in Nat : Follows(<<>>, l)
        BY DEF Follows
      <4> QED
        BY <4>1
    <3> QED
      BY <1>1, <3>1 DEF Follows
  <2>3. ws_conn' => Whole(Coming, iRxSize)'
    BY <1>1 DEF Whole
  <2> QED
    BY <2>1, <2>2, <2>3
<1> QED
  BY <1>3, <1>4 DEF StreamStands

\* Steps that leave the message alone.
LEMMA BufferSame ==
  ASSUME BufferStands, UNCHANGED <<iTxStarted, iTxType, txBuf, accepted, overrun>>,
         UNCHANGED <<ws_pc, payload, iRxSize, ws_excuse>> \/ (ws_pc # "pong" /\ ws_pc' # "pong")
  PROVE  BufferStands'
BY DEF BufferStands, W!Only

LEMMA WsInit == W!Init => WsInv
<1> SUFFICES ASSUME W!Init PROVE WsInv
  OBVIOUS
<1>1. WsTypes
  <2>1. <<>> \in Seq(FrameToken) /\ <<>> \in Seq({"user", "ping", "junk"})
    OBVIOUS
  <2>2. ws_rx = <<>> /\ ws_wire = <<>> /\ txBuf = <<>>
    BY DEF W!Init
  <2>3. ws_rx \in Seq(FrameToken) /\ ws_wire \in Seq(FrameToken) /\ txBuf \in Seq({"user", "ping", "junk"})
    BY <2>1, <2>2
  <2>4. iRxSize = 0 /\ iRxMaskIndex = 0 /\ accepted = 0 /\ payload = 0 /\ ws_conn \in BOOLEAN
    BY DEF W!Init
  <2> QED
    BY <2>3, <2>4 DEF WsTypes
<1>2. StreamStands
  <2>1. Coming = <<>> /\ Len(<<>>) = 0 /\ ~ws_conn /\ ws_pc = "idle" /\ iRxMasked = FALSE
    BY DEF W!Init, Coming
  <2>2. Framed(<<>>) /\ Follows(<<>>, iRxSize)
    BY <2>1 DEF Framed, Follows, W!Init
  <2> QED
    BY <2>1, <2>2 DEF StreamStands
<1> QED
  BY <1>1, <1>2 DEF W!Init, W!Nothing, WsInv, BufferStands, W!MessageIntact, W!UnmaskedInStep

------------------------------------------------------------------------------

LEMMA SendSafe == W!ConstantsOK /\ WsInv /\ W!ServerSend => WsInv'
<1> SUFFICES ASSUME W!ConstantsOK, WsInv, W!ServerSend PROVE WsInv'
  OBVIOUS
<1>1. PICK f \in Frame : ws_wire' = W!Tokens(f)
  BY DEF W!ServerSend
<1>2. /\ ws_conn /\ ws_wire = <<>>
      /\ UNCHANGED <<up, ws_conn, ws_rx, W!tx, W!rxState, ws_pc, payload, decoded, ws_excuse>>
  BY DEF W!ServerSend
<1>3. W!Tokens(f) \in Seq(FrameToken) /\ IsFrame(W!Tokens(f), headLen(f), f.size)
  BY TokensIsFrame
<1>4. WsTypes'
  BY <1>1, <1>2, <1>3 DEF WsInv, WsTypes, W!tx, W!rxState
<1>5. StreamStands'
  <2> SUFFICES ASSUME "astray" \notin ws_excuse PROVE StreamStands'
    BY <1>2 DEF StreamStands
  <2>1. Coming = ws_rx /\ ws_rx \in Seq(FrameToken) /\ Coming' = ws_rx \o W!Tokens(f) /\ iRxSize \in Nat
    BY <1>1, <1>2 DEF Coming, WsInv, WsTypes
  <2>2. Framed(ws_rx) /\ Follows(ws_rx, iRxSize) /\ Whole(ws_rx, iRxSize)
    BY <2>1, <1>2 DEF WsInv, StreamStands
  <2> DEFINE t == ws_rx \o W!Tokens(f)
  <2>3. Framed(t) /\ Follows(t, iRxSize) /\ Whole(t, iRxSize)
    BY <2>1, <2>2, <1>3, SendFramed
  <2>4. Len(ws_rx) \in Nat /\ Len(t) \in Nat /\ \A m \in 1 .. Len(ws_rx) : t[m] = ws_rx[m]
    BY <2>1, <1>3, JoinAt
  <2>5. UNCHANGED <<ws_conn, ws_pc, ws_excuse, iRxSize, iRxMasked, iRxMaskIndex>> /\ Coming' = t
    BY <1>2, <2>1 DEF W!rxState
  <2> HIDE DEF t
  <2>6. Framed(Coming)' /\ Follows(Coming, iRxSize)' /\ Whole(Coming, iRxSize)'
    BY <2>3, <2>5 DEF Framed, FrameAt, Follows, Whole, headLen, W!Token
  <2>7. MaskInStep(Coming) => MaskInStep(Coming)'
    <3> SUFFICES ASSUME MaskInStep(ws_rx), NEW p \in 1 .. Len(t), p <= iRxSize
                 PROVE  t[p].v = (iRxMaskIndex + p - 1) % 4
      BY <2>1, <2>5 DEF MaskInStep
    <3>1. p \in 1 .. Len(ws_rx)
      BY <2>1, <2>2, <2>4 DEF Whole
    <3> QED
      BY <3>1, <2>4 DEF MaskInStep
  <2> QED
    BY <2>5, <2>6, <2>7 DEF WsInv, StreamStands
<1>6. BufferStands'
  BY <1>2, BufferSame DEF WsInv, W!tx, W!rxState
<1> QED
  BY <1>2, <1>4, <1>5, <1>6 DEF WsInv, W!tx, W!MessageIntact, W!UnmaskedInStep

LEMMA DeliverSafe == WsInv /\ W!Deliver => WsInv'
<1> SUFFICES ASSUME WsInv, W!Deliver PROVE WsInv'
  OBVIOUS
<1>1. /\ ws_wire # <<>> /\ ws_rx' = Append(ws_rx, Head(ws_wire)) /\ ws_wire' = Tail(ws_wire)
      /\ UNCHANGED <<ws_conn, W!tx, W!rxState, ws_pc, payload, decoded, ws_excuse>>
  BY DEF W!Deliver
<1>2. ws_rx \in Seq(FrameToken) /\ ws_wire \in Seq(FrameToken)
  BY DEF WsInv, WsTypes
<1>3. ws_rx' \in Seq(FrameToken) /\ ws_wire' \in Seq(FrameToken) /\ ws_rx' \o ws_wire' = ws_rx \o ws_wire
  BY <1>1, <1>2
<1>4. WsTypes'
  BY <1>1, <1>3 DEF WsInv, WsTypes, W!tx, W!rxState
<1>5. StreamStands'
  <2>1. UNCHANGED <<Coming, ws_conn, iRxSize, iRxMasked, iRxMaskIndex>> /\ iRxSize \in Nat
    BY <1>1, <1>3 DEF Coming, W!rxState, WsInv, WsTypes
  <2> QED
    BY <1>1, <2>1, StreamSame DEF WsInv
<1>6. BufferStands'
  BY <1>1, BufferSame DEF WsInv, W!tx, W!rxState
<1> QED
  BY <1>1, <1>4, <1>5, <1>6 DEF WsInv, W!tx, W!MessageIntact, W!UnmaskedInStep

LEMMA LostSafe == WsInv /\ W!Lost => WsInv'
<1> SUFFICES ASSUME WsInv, W!Lost PROVE WsInv'
  OBVIOUS
<1>1. /\ ws_conn' = FALSE /\ ws_wire' = <<>>
      /\ UNCHANGED <<ws_rx, W!tx, W!rxState, ws_pc, payload, decoded, ws_excuse>>
  BY DEF W!Lost
<1>2. ws_rx \in Seq(FrameToken) /\ ws_wire \in Seq(FrameToken) /\ iRxSize \in Nat
  BY DEF WsInv, WsTypes
<1>3. WsTypes'
  <2>1. <<>> \in Seq(FrameToken)
    OBVIOUS
  <2> QED
    BY <1>1, <2>1 DEF WsInv, WsTypes, W!tx, W!rxState
<1>4. StreamStands'
  <2> SUFFICES ASSUME "astray" \notin ws_excuse PROVE StreamStands'
    BY <1>1 DEF StreamStands
  <2>1. Coming' = ws_rx /\ Coming = ws_rx \o ws_wire
    BY <1>1, <1>2 DEF Coming
  <2>2. Framed(ws_rx) /\ Follows(ws_rx, iRxSize)
    BY <2>1, <1>2, CutFramed DEF WsInv, StreamStands
  <2>3. Framed(Coming)' /\ Follows(Coming, iRxSize)'
    BY <2>1, <2>2, <1>1 DEF Framed, FrameAt, Follows, headLen, W!Token, W!rxState
  <2>4. MaskInStep(Coming) => MaskInStep(Coming)'
    <3>1. Len(ws_rx) \in Nat /\ Len(ws_rx \o ws_wire) \in Nat /\ Len(ws_rx) <= Len(ws_rx \o ws_wire)
          /\ \A m \in 1 .. Len(ws_rx) : (ws_rx \o ws_wire)[m] = ws_rx[m]
      BY <1>2, JoinAt
    <3> SUFFICES ASSUME MaskInStep(ws_rx \o ws_wire), NEW p \in 1 .. Len(ws_rx), p <= iRxSize
                 PROVE  ws_rx[p].v = (iRxMaskIndex + p - 1) % 4
      BY <2>1, <1>1 DEF MaskInStep, W!rxState
    <3> QED
      BY <3>1 DEF MaskInStep
  <2> QED
    BY <2>3, <2>4, <1>1 DEF WsInv, StreamStands, W!rxState
<1>5. BufferStands'
  BY <1>1, BufferSame DEF WsInv, W!tx, W!rxState
<1> QED
  BY <1>1, <1>3, <1>4, <1>5 DEF WsInv, W!tx, W!MessageIntact, W!UnmaskedInStep

\* Reading c bytes of the payload at hand, or c tokens of a header.
LEMMA RxDrops ==
  ASSUME WsTypes, NEW c \in 0 .. Len(ws_rx), ws_rx' = SubSeq(ws_rx, c + 1, Len(ws_rx)), UNCHANGED ws_wire
  PROVE  /\ ws_rx' \in Seq(FrameToken) /\ Coming \in Seq(FrameToken) /\ Coming' \in Seq(FrameToken)
         /\ Drops(Coming, c, Coming')
<1> DEFINE r == SubSeq(ws_rx, c + 1, Len(ws_rx))
<1>1. /\ r \in Seq(FrameToken) /\ ws_rx \o ws_wire \in Seq(FrameToken) /\ r \o ws_wire \in Seq(FrameToken)
      /\ Drops(ws_rx \o ws_wire, c, r \o ws_wire)
  BY ReadDrops DEF WsTypes
<1>2. ws_rx' = r /\ Coming' = r \o ws_wire /\ Coming = ws_rx \o ws_wire
  BY DEF Coming
<1> QED
  BY <1>1, <1>2

LEMMA BeginSafe ==
  ASSUME WsInv, NEW ok \in BOOLEAN, W!begin(ok)
  PROVE  WsInv'
<1>1. /\ ws_pc = "idle" /\ iRxSize' = 0 /\ decoded' = TRUE /\ sent' = W!Nothing
      /\ UNCHANGED <<iTxStarted, iTxType, txBuf, accepted, overrun, iRxMaskIndex, ws_pc, payload>>
  BY DEF W!begin, W!Idle, W!sizeAtBegin
<1>2. CASE ws_conn' = TRUE /\ ws_rx' = <<>> /\ ws_wire' = <<>>
  <2>1. WsTypes'
    BY <1>1, <1>2 DEF WsInv, WsTypes
  <2>2. StreamStands'
    BY <1>1, <1>2, StreamEmpty
  <2> QED
    BY <2>1, <2>2, <1>1, BufferSame DEF WsInv, W!Nothing, W!MessageIntact, W!UnmaskedInStep
<1>3. ASSUME UNCHANGED <<ws_conn, ws_wire>>, "astray" \in ws_excuse',
             NEW c \in 0 .. Len(ws_rx), ws_rx' = SubSeq(ws_rx, c + 1, Len(ws_rx))
      PROVE  WsInv'
  <2>1. ws_rx' \in Seq(FrameToken)
    BY <1>3, RxDrops DEF WsInv
  <2>2. WsTypes'
    BY <1>1, <1>3, <2>1 DEF WsInv, WsTypes
  <2>3. StreamStands'
    BY <1>3 DEF StreamStands
  <2> QED
    BY <2>2, <2>3, <1>1, BufferSame DEF WsInv, W!Nothing, W!MessageIntact, W!UnmaskedInStep
<1> QED
  BY <1>2, <1>3 DEF W!begin

LEMMA StopSafe == WsInv /\ W!stop => WsInv'
<1> SUFFICES ASSUME WsInv, W!stop PROVE WsInv'
  OBVIOUS
<1>1. /\ ws_pc = "idle" /\ ws_conn' = FALSE /\ ws_rx' = <<>> /\ ws_wire' = <<>>
      /\ UNCHANGED <<W!tx, W!rxState, ws_pc, payload, decoded, ws_excuse>>
  BY DEF W!stop, W!Idle, W!disconnect
<1>2. WsTypes'
  <2>1. <<>> \in Seq(FrameToken)
    OBVIOUS
  <2> QED
    BY <1>1, <2>1 DEF WsInv, WsTypes, W!tx, W!rxState
<1>3. StreamStands'
  BY <1>1, <1>2, StreamEmpty DEF WsTypes
<1>4. BufferStands'
  BY <1>1, BufferSame DEF WsInv, W!tx, W!rxState
<1> QED
  BY <1>1, <1>2, <1>3, <1>4 DEF WsInv, W!tx, W!MessageIntact, W!UnmaskedInStep

------------------------------------------------------------------------------

LEMMA BeginMessageSafe == WsInv /\ W!beginMessage => WsInv'
<1> SUFFICES ASSUME WsInv, W!beginMessage PROVE WsInv'
  OBVIOUS
<1>1. /\ ws_pc = "idle" /\ iTxStarted' = TRUE /\ iTxType' = "text" /\ txBuf' = <<>> /\ accepted' = 0
      /\ sent' = W!Nothing /\ ws_excuse' = ws_excuse \ {"mixed"}
      /\ UNCHANGED <<ws_conn, ws_rx, ws_wire, W!rxState, ws_pc, payload, decoded, overrun>>
  BY DEF W!beginMessage, W!Idle, W!start
<1>2. WsTypes'
  BY <1>1 DEF WsInv, WsTypes, W!rxState
<1>3. StreamStands'
  <2>1. UNCHANGED <<Coming, ws_conn, iRxSize, iRxMasked, iRxMaskIndex>> /\ iRxSize \in Nat
    BY <1>1 DEF Coming, W!rxState, WsInv, WsTypes
  <2> QED
    BY <1>1, <2>1, StreamSame DEF WsInv
<1>4. BufferStands'
  BY <1>1 DEF BufferStands, W!Only
<1> QED
  BY <1>1, <1>2, <1>3, <1>4 DEF WsInv, W!Nothing, W!MessageIntact, W!UnmaskedInStep

\* copy() adds bytes of one kind, as many as it takes.
LEMMA CopySeq ==
  ASSUME NEW by \in {"user", "ping", "junk"}, NEW k \in Nat,
         txBuf \in Seq({"user", "ping", "junk"})
  PROVE  LET b == txBuf \o [m \in 1 .. k |-> by] IN
         /\ b \in Seq({"user", "ping", "junk"}) /\ Len(b) = Len(txBuf) + k
         /\ \A w : W!Only(by, w) => \A m \in DOMAIN b : b[m] = by
<1> DEFINE K == {"user", "ping", "junk"}
           g == [m \in 1 .. k |-> by]
           b == txBuf \o g
<1>1. g \in [1 .. k -> K] /\ \A m \in 1 .. k : g[m] = by
  OBVIOUS
<1> HIDE DEF g, K
<1>2. g \in Seq(K) /\ Len(g) = k
  BY <1>1, FunIsSeq
<1>3. txBuf \in Seq(K)
  BY DEF K
<1>4. /\ b \in Seq(K) /\ Len(b) = Len(txBuf) + k
      /\ \A m \in 1 .. Len(txBuf) : b[m] = txBuf[m]
      /\ \A m \in 1 .. Len(g) : b[Len(txBuf) + m] = g[m]
  <2>1. \A q, w \in Seq(K) :
          /\ q \o w \in Seq(K) /\ Len(q \o w) = Len(q) + Len(w)
          /\ \A m \in 1 .. Len(q) : (q \o w)[m] = q[m]
          /\ \A m \in 1 .. Len(w) : (q \o w)[Len(q) + m] = w[m]
    BY JoinAt
  <2> QED
    BY <1>2, <1>3, <2>1
<1> HIDE DEF b
<1>5. ASSUME NEW w, W!Only(by, w), NEW m \in DOMAIN b PROVE b[m] = by
  <2>1. m \in 1 .. Len(txBuf) + k /\ Len(txBuf) \in Nat /\ DOMAIN txBuf = 1 .. Len(txBuf)
    BY <1>3, <1>4
  <2>2. CASE m <= Len(txBuf)
    BY <2>1, <2>2, <1>4, <1>5 DEF W!Only
  <2>3. CASE m > Len(txBuf)
    <3>1. m - Len(txBuf) \in 1 .. k /\ Len(txBuf) + (m - Len(txBuf)) = m
      BY <2>1, <2>3
    <3> QED
      BY <3>1, <1>1, <1>2, <1>4
  <2> QED
    BY <2>1, <2>2, <2>3
<1> QED
  BY <1>4, <1>5 DEF b, g, K

LEMMA WriteSafe ==
  ASSUME W!ConstantsOK, WsInv, NEW k \in WriteSize, W!write(k)
  PROVE  WsInv'
<1>1. /\ ws_pc = "idle" /\ ~overrun /\ W!copy(k, "user")
      /\ accepted' = IF iTxStarted /\ W!taken(k) >= 0 THEN accepted + W!taken(k) ELSE accepted
      /\ UNCHANGED <<ws_conn, ws_rx, ws_wire, iTxStarted, iTxType, sent, W!rxState, ws_pc, payload, decoded, ws_excuse>>
  BY DEF W!write, W!Idle
<1>2. W!taken(k) \in Int /\ txBuf \in Seq({"user", "ping", "junk"}) /\ accepted \in Nat
  BY DEF W!taken, W!ConstantsOK, WsInv, WsTypes
<1>3. StreamStands'
  <2>1. UNCHANGED <<Coming, ws_conn, iRxSize, iRxMasked, iRxMaskIndex>> /\ iRxSize \in Nat
    BY <1>1 DEF Coming, W!rxState, WsInv, WsTypes
  <2> QED
    BY <1>1, <2>1, StreamSame DEF WsInv
<1>4. WsTypes' /\ BufferStands'
  <2>1. CASE ~iTxStarted \/ W!taken(k) < 0
    <3>1. UNCHANGED <<txBuf, accepted>>
      BY <1>1, <1>2, <2>1 DEF W!copy
    <3>2. (~iTxStarted /\ UNCHANGED overrun) \/ overrun'
      BY <1>1, <2>1 DEF W!copy
    <3> QED
      BY <1>1, <3>1, <3>2 DEF WsInv, WsTypes, W!rxState, BufferStands
  <2>2. CASE iTxStarted /\ W!taken(k) >= 0
    <3> DEFINE b == txBuf \o [m \in 1 .. W!taken(k) |-> "user"]
    <3>1. txBuf' = b /\ accepted' = accepted + W!taken(k) /\ UNCHANGED overrun /\ W!taken(k) \in Nat
      BY <1>1, <1>2, <2>2 DEF W!copy
    <3>2. /\ b \in Seq({"user", "ping", "junk"}) /\ Len(b) = Len(txBuf) + W!taken(k)
          /\ \A w : W!Only("user", w) => \A m \in DOMAIN b : b[m] = "user"
      BY <3>1, <1>2, CopySeq
    <3> HIDE DEF b
    <3>3. iTxType = "text" /\ Len(txBuf) = accepted /\ W!Only("user", accepted)
      BY <1>1, <2>2 DEF WsInv, BufferStands, W!Only
    <3>4. WsTypes'
      BY <1>1, <1>2, <3>1, <3>2 DEF WsInv, WsTypes, W!rxState
    <3>5. Len(txBuf') = accepted' /\ \A m \in DOMAIN txBuf' : txBuf'[m] = "user"
      BY <3>1, <3>2, <3>3
    <3> QED
      BY <1>1, <3>3, <3>4, <3>5 DEF BufferStands, W!Only
  <2> QED
    BY <2>1, <2>2, <1>2
<1> QED
  BY <1>1, <1>3, <1>4 DEF WsInv, W!MessageIntact, W!UnmaskedInStep

\* endMessage() and ping() send a message and leave none open.
LEMMA SentSafe ==
  ASSUME WsInv, ws_pc = "idle",
         iTxStarted' = FALSE, txBuf' = <<>>, accepted' = 0,
         ws_excuse \cap {"astray", "short"} \subseteq ws_excuse', ws_excuse' \ {"mixed"} \subseteq ws_excuse,
         UNCHANGED <<ws_conn, ws_rx, ws_wire, iTxType, overrun, W!rxState, ws_pc, payload, decoded>>,
         W!MessageIntact'
  PROVE  WsInv'
<1>1. WsTypes'
  <2>1. <<>> \in Seq({"user", "ping", "junk"})
    OBVIOUS
  <2> QED
    BY <2>1 DEF WsInv, WsTypes, W!rxState
<1>2. StreamStands'
  <2>1. UNCHANGED <<Coming, ws_conn, iRxSize, iRxMasked, iRxMaskIndex>> /\ iRxSize \in Nat
    BY DEF Coming, W!rxState, WsInv, WsTypes
  <2> QED
    BY <2>1, StreamSame DEF WsInv
<1>3. BufferStands'
  BY DEF BufferStands
<1> QED
  BY <1>1, <1>2, <1>3 DEF WsInv, W!UnmaskedInStep

LEMMA EndMessageSafe == WsInv /\ W!endMessage => WsInv'
<1> SUFFICES ASSUME WsInv, W!endMessage PROVE WsInv'
  OBVIOUS
<1>1. /\ ws_pc = "idle" /\ ~overrun /\ iTxStarted
      /\ sent' = [type |-> iTxType, intact |-> W!Only("user", accepted)]
      /\ iTxStarted' = FALSE /\ txBuf' = <<>> /\ accepted' = 0
      /\ UNCHANGED <<ws_conn, ws_rx, ws_wire, iTxType, overrun, W!rxState, ws_pc, payload, decoded, ws_excuse>>
  BY DEF W!endMessage, W!Idle, W!emit
<1>2. W!MessageIntact'
  BY <1>1 DEF WsInv, BufferStands, W!MessageIntact
<1> QED
  BY <1>1, <1>2, SentSafe

LEMMA PingSafe ==
  ASSUME WsInv, NEW k, W!ping(k)
  PROVE  WsInv'
<1>1. /\ ws_pc = "idle" /\ sent'.intact = ~iTxStarted
      /\ ws_excuse' = IF iTxStarted THEN ws_excuse \cup {"mixed"} ELSE ws_excuse \ {"mixed"}
      /\ iTxStarted' = FALSE /\ txBuf' = <<>> /\ accepted' = 0
      /\ UNCHANGED <<ws_conn, ws_rx, ws_wire, iTxType, overrun, W!rxState, ws_pc, payload, decoded>>
  BY DEF W!ping, W!Idle
<1>2. W!MessageIntact'
  BY <1>1 DEF W!MessageIntact
<1> QED
  BY <1>1, <1>2, SentSafe

------------------------------------------------------------------------------

LEMMA PayloadRead ==
  ASSUME WsTypes, StreamStands, "astray" \notin ws_excuse,
         NEW c \in 1 .. Len(ws_rx), c <= iRxSize, iRxSize' = iRxSize - c,
         ws_rx' = SubSeq(ws_rx, c + 1, Len(ws_rx)), UNCHANGED <<ws_wire, ws_conn>>
  PROVE  /\ Framed(Coming') /\ Follows(Coming', iRxSize')
         /\ ws_conn => Whole(Coming', iRxSize')
         /\ Drops(Coming, c, Coming')
<1>1. /\ Coming \in Seq(FrameToken) /\ Coming' \in Seq(FrameToken) /\ Drops(Coming, c, Coming')
      /\ c \in Nat /\ iRxSize \in Nat /\ iRxSize' \in Nat
  <2>1. c \in 0 .. Len(ws_rx) /\ c \in Nat /\ iRxSize \in Nat /\ iRxSize' \in Nat
    BY DEF WsTypes
  <2> QED
    BY <2>1, RxDrops
<1>2. Framed(Coming) /\ Follows(Coming, iRxSize) /\ (ws_conn => Whole(Coming, iRxSize))
  BY DEF StreamStands
<1> DEFINE q == Coming  t == Coming'  num == iRxSize  l == iRxSize'
<1>3. /\ q \in Seq(FrameToken) /\ t \in Seq(FrameToken) /\ Drops(q, c, t)
      /\ num \in Nat /\ l \in Nat /\ l = num - c /\ Len(q) \in Nat /\ Len(t) = Len(q) - c
  BY <1>1 DEF Drops
<1>4. Framed(q) /\ Follows(q, num) /\ (ws_conn => Whole(q, num))
  BY <1>2
<1> HIDE DEF q, t, num, l
<1>5. Framed(t)
  BY <1>1, <1>3, <1>4, DropFramed
<1>6. Follows(t, l)
  <2>1. \A p \in 1 .. Len(t) : p + c \in 1 .. Len(q) /\ t[p] = q[p + c]
    BY <1>3 DEF Drops
  <2>2. \A p \in 1 .. Len(t) : p <= l => t[p].k = "data"
    <3> SUFFICES ASSUME NEW p \in 1 .. Len(t), p <= l PROVE t[p].k = "data"
      OBVIOUS
    <3>1. p + c \in 1 .. Len(q) /\ t[p] = q[p + c] /\ p + c <= num
      BY <2>1, <1>3
    <3> QED
      BY <3>1, <1>4 DEF Follows
  <2>3. l + 1 <= Len(t) => t[l + 1].k = "op"
    <3> SUFFICES ASSUME l + 1 <= Len(t) PROVE t[l + 1].k = "op"
      OBVIOUS
    <3>1. l + 1 \in 1 .. Len(t) /\ l + 1 + c = num + 1 /\ num + 1 <= Len(q)
      BY <1>3
    <3> QED
      BY <3>1, <2>1, <1>4 DEF Follows
  <2> QED
    BY <2>2, <2>3 DEF Follows
<1>7. ws_conn => Whole(t, l)
  <2> SUFFICES ASSUME ws_conn PROVE Whole(t, l)
    OBVIOUS
  <2>1. l <= Len(t)
    BY <1>3, <1>4 DEF Whole
  <2> QED
    BY <2>1, <1>1, <1>3, <1>4, DropWhole
<1> QED
  BY <1>3, <1>5, <1>6, <1>7 DEF q, t, l

LEMMA ReadSafe ==
  ASSUME W!ConstantsOK, WsInv, NEW k \in WriteSize, W!read(k)
  PROVE  WsInv'
<1> DEFINE c == IF k < Len(ws_rx) THEN k ELSE Len(ws_rx)
<1>1. /\ ws_pc = "idle" /\ c > 0
      /\ ws_rx' = SubSeq(ws_rx, c + 1, Len(ws_rx))
      /\ iRxSize' = IF c <= iRxSize THEN iRxSize - c ELSE W!Garbled
      /\ iRxMaskIndex' = IF iRxMasked THEN (iRxMaskIndex + k) % 4 ELSE iRxMaskIndex
      /\ ws_excuse' = ws_excuse \cup (IF iRxMasked /\ c < k THEN {"short"} ELSE {})
                               \cup (IF c > iRxSize THEN {"astray"} ELSE {})
      /\ UNCHANGED <<ws_conn, ws_wire, W!tx, iRxMasked, ws_pc, payload>>
  BY DEF W!read, W!Idle
<1>2. decoded' = (iRxMasked => \A m \in 1 .. c : ws_rx[m].k = "data" /\ ws_rx[m].v = (iRxMaskIndex + m - 1) % 4)
  BY DEF W!read
<1>3. /\ ws_rx \in Seq(FrameToken) /\ ws_wire \in Seq(FrameToken) /\ Len(ws_rx) \in Nat /\ k \in Nat
      /\ iRxSize \in Nat /\ iRxMaskIndex \in 0 .. 3
  BY DEF W!ConstantsOK, WsInv, WsTypes
<1>4. c \in 1 .. Len(ws_rx) /\ c <= k /\ c \in Nat
  BY <1>1, <1>3
<1> HIDE DEF c
<1>5. ws_rx' \in Seq(FrameToken) /\ iRxSize' \in Nat /\ iRxMaskIndex' \in 0 .. 3
  <2>1. ws_rx' \in Seq(FrameToken)
    <3>1. c \in 0 .. Len(ws_rx) /\ UNCHANGED ws_wire
      BY <1>1, <1>4
    <3> QED
      BY <3>1, <1>1, RxDrops DEF WsInv
  <2>2. iRxSize' \in Nat
    BY <1>1, <1>3, <1>4 DEF W!Garbled
  <2>3. iRxMaskIndex' \in 0 .. 3
    BY <1>1, <1>3
  <2> QED
    BY <2>1, <2>2, <2>3
<1>6. WsTypes'
  BY <1>1, <1>5 DEF WsInv, WsTypes, W!tx
<1>7. BufferStands'
  BY <1>1, BufferSame DEF WsInv, W!tx
<1>13. CASE c > iRxSize
  <2>1. "astray" \in ws_excuse'
    BY <1>1, <1>13
  <2>2. StreamStands'
    BY <2>1 DEF StreamStands
  <2> QED
    BY <1>1, <1>6, <1>7, <2>1, <2>2 DEF WsInv, W!tx, W!MessageIntact, W!UnmaskedInStep
<1> SUFFICES ASSUME c <= iRxSize PROVE WsInv'
  BY <1>3, <1>4, <1>13
<1>8. "astray" \notin ws_excuse =>
        /\ Framed(Coming') /\ Follows(Coming', iRxSize')
        /\ ws_conn => Whole(Coming', iRxSize')
        /\ Drops(Coming, c, Coming')
  BY <1>1, <1>4, PayloadRead DEF WsInv
<1>9. /\ Coming \in Seq(FrameToken) /\ Len(ws_rx) <= Len(Coming) /\ Len(Coming) \in Nat
      /\ \A m \in 1 .. Len(ws_rx) : Coming[m] = ws_rx[m]
  BY <1>3, JoinAt DEF Coming
<1>10. ws_excuse \cap {"astray", "short"} = {} => decoded'
  <2> SUFFICES ASSUME ws_excuse \cap {"astray", "short"} = {}, iRxMasked, NEW m \in 1 .. c
               PROVE  ws_rx[m].k = "data" /\ ws_rx[m].v = (iRxMaskIndex + m - 1) % 4
    BY <1>2
  <2>1. MaskInStep(Coming) /\ Follows(Coming, iRxSize)
    BY <1>1 DEF WsInv, StreamStands
  <2>2. m \in 1 .. Len(Coming) /\ m <= iRxSize /\ m \in 1 .. Len(ws_rx)
    BY <1>3, <1>4, <1>9
  <2> QED
    BY <2>1, <2>2, <1>9 DEF MaskInStep, Follows
<1>11. ASSUME "astray" \notin ws_excuse, iRxMasked, "short" \notin ws_excuse'
       PROVE  MaskInStep(Coming)'
  <2>1. "short" \notin ws_excuse /\ c = k
    BY <1>1, <1>3, <1>4, <1>11
  <2>2. MaskInStep(Coming) /\ Drops(Coming, c, Coming')
    BY <1>1, <1>8, <1>11, <2>1 DEF WsInv, StreamStands
  <2> SUFFICES ASSUME NEW p \in 1 .. Len(Coming'), p <= iRxSize'
               PROVE  Coming'[p].v = (iRxMaskIndex' + p - 1) % 4
    BY DEF MaskInStep
  <2>3. p + c \in 1 .. Len(Coming) /\ p + c <= iRxSize /\ Coming'[p] = Coming[p + c]
    <3>1. iRxSize' = iRxSize - c
      BY <1>1
    <3>2. Len(Coming') \in Nat /\ Len(Coming') = Len(Coming) - c /\ Coming'[p] = Coming[p + c]
      BY <2>2, <1>4, <1>9 DEF Drops
    <3> QED
      BY <3>1, <3>2, <1>3, <1>4, <1>9
  <2>4. Coming[p + c].v = (iRxMaskIndex + (p + c) - 1) % 4
    BY <2>2, <2>3 DEF MaskInStep
  <2>5. iRxMaskIndex' = (iRxMaskIndex + c) % 4
    BY <1>1, <1>11, <2>1
  <2>6. \A x \in 0 .. 3, y \in Nat, m \in Nat : (((x + y) % 4) + m - 1) % 4 = (x + (m + y) - 1) % 4
    OBVIOUS
  <2>7. p \in Nat
    BY <1>8, <1>9, <1>4, <1>11 DEF Drops
  <2> QED
    BY <2>3, <2>4, <2>5, <2>6, <2>7, <1>3, <1>4
<1>12. StreamStands'
  <2> SUFFICES ASSUME "astray" \notin ws_excuse PROVE StreamStands'
    BY <1>1 DEF StreamStands
  <2>1. Framed(Coming)' /\ Follows(Coming, iRxSize)' /\ (ws_conn => Whole(Coming, iRxSize)')
    BY <1>8 DEF Framed, FrameAt, Follows, Whole, headLen, W!Token
  <2> QED
    BY <2>1, <1>1, <1>11 DEF StreamStands
<1> QED
  BY <1>1, <1>6, <1>7, <1>10, <1>12 DEF WsInv, W!tx, W!MessageIntact, W!UnmaskedInStep

LEMMA ParseSafe == WsInv /\ (W!parseMessage \/ W!noMessage) => WsInv'
<1> SUFFICES ASSUME WsInv, W!parseMessage \/ W!noMessage PROVE WsInv'
  OBVIOUS
<1>1. /\ UNCHANGED <<ws_conn, ws_rx, ws_wire, W!tx, W!rxState, payload, ws_excuse>>
      /\ (ws_pc = "idle" /\ ws_pc' = "flush" /\ decoded') \/ (ws_pc = "head" /\ ws_pc' = "idle" /\ UNCHANGED decoded)
  BY DEF W!parseMessage, W!noMessage, W!Idle
<1>2. WsTypes'
  BY <1>1 DEF WsInv, WsTypes, W!tx, W!rxState
<1>3. StreamStands'
  <2> SUFFICES ASSUME "astray" \notin ws_excuse PROVE StreamStands'
    BY <1>1 DEF StreamStands
  <2>1. UNCHANGED <<Coming, ws_conn, iRxSize, iRxMasked, iRxMaskIndex>> /\ iRxSize \in Nat
    BY <1>1 DEF Coming, W!rxState, WsInv, WsTypes
  <2>2. ws_pc = "head" => iRxSize = 0
    BY DEF WsInv, StreamStands
  <2> QED
    BY <1>1, <2>1, <2>2, StreamSame DEF WsInv
<1>4. BufferStands'
  BY <1>1, BufferSame DEF WsInv, W!tx
<1> QED
  BY <1>1, <1>2, <1>3, <1>4 DEF WsInv, W!tx, W!MessageIntact, W!UnmaskedInStep

\* One byte of a payload that is not for the sketch.
LEMMA ByteRead ==
  ASSUME WsInv, ws_rx # <<>>, iRxSize # 0, ws_rx' = Tail(ws_rx), iRxSize' = iRxSize - 1,
         UNCHANGED <<ws_wire, ws_conn, ws_excuse>>, ws_pc' \notin {"idle", "head"}
  PROVE  StreamStands' /\ ws_rx' \in Seq(FrameToken) /\ iRxSize' \in Nat
<1>1. ws_rx \in Seq(FrameToken) /\ iRxSize \in Nat /\ 1 \in 1 .. Len(ws_rx) /\ 1 <= iRxSize
  BY DEF WsInv, WsTypes
<1>2. ws_rx' = SubSeq(ws_rx, 1 + 1, Len(ws_rx)) /\ ws_rx' \in Seq(FrameToken) /\ iRxSize' \in Nat
  BY <1>1
<1>3. "astray" \notin ws_excuse =>
        Framed(Coming') /\ Follows(Coming', iRxSize') /\ (ws_conn => Whole(Coming', iRxSize'))
  BY <1>1, <1>2, PayloadRead DEF WsInv
<1>4. "astray" \notin ws_excuse =>
        Framed(Coming)' /\ Follows(Coming, iRxSize)' /\ (ws_conn => Whole(Coming, iRxSize)')
  BY <1>3 DEF Framed, FrameAt, Follows, Whole, headLen, W!Token
<1> QED
  BY <1>2, <1>4 DEF StreamStands

LEMMA FlushSafe == WsInv /\ (W!flushOld \/ W!flushPong) => WsInv'
<1> SUFFICES ASSUME WsInv, NEW at, NEW next, W!flushByte(at, next),
                    <<at, next>> \in {<<"flush", "head">>, <<"skip", "idle">>}
             PROVE  WsInv'
  BY DEF W!flushOld, W!flushPong
<1>1. /\ ws_pc \in {"flush", "skip"}
      /\ UNCHANGED <<ws_conn, ws_wire, W!tx, iRxMasked, iRxMaskIndex, payload, decoded, ws_excuse>>
  BY DEF W!flushByte
<1>2. CASE iRxSize = 0
  <2>1. ws_pc' \in {"head", "idle"} /\ UNCHANGED <<ws_rx, iRxSize>>
    BY <1>2 DEF W!flushByte
  <2>2. WsTypes'
    BY <1>1, <2>1 DEF WsInv, WsTypes, W!tx
  <2>3. StreamStands'
    <3>1. UNCHANGED <<Coming, ws_conn, iRxSize, iRxMasked, iRxMaskIndex>> /\ iRxSize \in Nat
      BY <1>1, <2>1 DEF Coming, WsInv, WsTypes
    <3> QED
      BY <1>1, <1>2, <3>1, StreamSame DEF WsInv
  <2>4. BufferStands'
    BY <1>1, <2>1, BufferSame DEF WsInv, W!tx
  <2> QED
    BY <1>1, <2>1, <2>2, <2>3, <2>4 DEF WsInv, W!tx, W!MessageIntact, W!UnmaskedInStep
<1>3. CASE iRxSize # 0
  <2>1. ws_rx # <<>> /\ ws_rx' = Tail(ws_rx) /\ iRxSize' = iRxSize - 1 /\ UNCHANGED ws_pc
    BY <1>3 DEF W!flushByte
  <2>2. StreamStands' /\ ws_rx' \in Seq(FrameToken) /\ iRxSize' \in Nat
    BY <1>1, <1>3, <2>1, ByteRead
  <2>3. WsTypes'
    BY <1>1, <2>2 DEF WsInv, WsTypes, W!tx
  <2>4. BufferStands'
    BY <1>1, <2>1, BufferSame DEF WsInv, W!tx
  <2> QED
    BY <1>1, <2>1, <2>2, <2>3, <2>4 DEF WsInv, W!tx, W!MessageIntact, W!UnmaskedInStep
<1> QED
  BY <1>2, <1>3

LEMMA CloseSafe == WsInv /\ W!closeFrame => WsInv'
<1> SUFFICES ASSUME WsInv, W!closeFrame PROVE WsInv'
  OBVIOUS
<1>1. /\ ws_pc = "close"
      /\ UNCHANGED <<W!tx, iRxMasked, iRxMaskIndex, payload, decoded, ws_excuse>>
  BY DEF W!closeFrame
<1>2. CASE iRxSize = 0
  <2>1. ws_pc' = "idle" /\ UNCHANGED iRxSize /\ ws_conn' = FALSE /\ ws_rx' = <<>> /\ ws_wire' = <<>>
    BY <1>2 DEF W!closeFrame, W!disconnect
  <2>2. WsTypes'
    <3>1. <<>> \in Seq(FrameToken)
      OBVIOUS
    <3> QED
      BY <1>1, <2>1, <3>1 DEF WsInv, WsTypes, W!tx
  <2>3. StreamStands'
    BY <2>1, <2>2, StreamEmpty DEF WsTypes
  <2>4. BufferStands'
    BY <1>1, <2>1, BufferSame DEF WsInv, W!tx
  <2> QED
    BY <1>1, <2>1, <2>2, <2>3, <2>4 DEF WsInv, W!tx, W!MessageIntact, W!UnmaskedInStep
<1>3. CASE iRxSize # 0
  <2>1. ws_rx # <<>> /\ ws_rx' = Tail(ws_rx) /\ iRxSize' = iRxSize - 1 /\ UNCHANGED <<ws_conn, ws_wire, ws_pc>>
    BY <1>3 DEF W!closeFrame
  <2>2. StreamStands' /\ ws_rx' \in Seq(FrameToken) /\ iRxSize' \in Nat
    BY <1>1, <1>3, <2>1, ByteRead
  <2>3. WsTypes'
    BY <1>1, <2>1, <2>2 DEF WsInv, WsTypes, W!tx
  <2>4. BufferStands'
    BY <1>1, <2>1, BufferSame DEF WsInv, W!tx
  <2> QED
    BY <1>1, <2>1, <2>2, <2>3, <2>4 DEF WsInv, W!tx, W!MessageIntact, W!UnmaskedInStep
<1> QED
  BY <1>2, <1>3

LEMMA PongByteSafe == W!ConstantsOK /\ WsInv /\ W!pongByte => WsInv'
<1> SUFFICES ASSUME W!ConstantsOK, WsInv, W!pongByte PROVE WsInv'
  OBVIOUS
<1>1. /\ ws_pc = "pong" /\ iRxSize # 0 /\ ~overrun
      /\ UNCHANGED <<ws_conn, ws_wire, iTxStarted, iTxType, accepted, sent, iRxMasked, iRxMaskIndex, ws_pc,
                     payload, decoded>>
  BY DEF W!pongByte, W!echoes
<1>2. txBuf \in Seq({"user", "ping", "junk"}) /\ iRxSize \in Nat /\ payload \in Nat
  BY DEF WsInv, WsTypes
<1>3. PICK by \in {"ping", "junk"} :
        /\ W!copy(1, by)
        /\ \/ by = "junk" /\ ws_excuse' = ws_excuse \cup {"starved"} /\ UNCHANGED <<ws_rx, iRxSize>>
           \/ /\ by = "ping" /\ ws_rx # <<>> /\ ws_rx' = Tail(ws_rx) /\ iRxSize' = iRxSize - 1
              /\ UNCHANGED ws_excuse
  BY DEF W!pongByte
<1>4. StreamStands' /\ ws_rx' \in Seq(FrameToken) /\ iRxSize' \in Nat
  <2>1. CASE by = "ping"
    BY <1>1, <1>3, <2>1, ByteRead
  <2>2. CASE by = "junk"
    <3>1. UNCHANGED <<Coming, ws_conn, iRxSize, iRxMasked, iRxMaskIndex>> /\ iRxSize \in Nat
      BY <1>1, <1>2, <1>3, <2>2 DEF Coming
    <3>2. ws_rx \in Seq(FrameToken) /\ UNCHANGED ws_rx /\ ws_excuse' = ws_excuse \cup {"starved"}
      BY <1>3, <2>2 DEF WsInv, WsTypes
    <3> QED
      BY <1>1, <3>1, <3>2, StreamSame DEF WsInv
  <2> QED
    BY <2>1, <2>2
<1> DEFINE b == txBuf \o [m \in 1 .. 1 |-> by]
<1>5. /\ b \in Seq({"user", "ping", "junk"}) /\ Len(b) = Len(txBuf) + 1
      /\ \A w : W!Only(by, w) => \A m \in DOMAIN b : b[m] = by
  <2>1. by \in {"user", "ping", "junk"} /\ 1 \in Nat
    OBVIOUS
  <2> QED
    <3>1. PICK k \in Nat : k = 1
      OBVIOUS
    <3> DEFINE d == txBuf \o [m \in 1 .. k |-> by]
    <3>2. /\ d \in Seq({"user", "ping", "junk"}) /\ Len(d) = Len(txBuf) + k
          /\ \A w : W!Only(by, w) => \A m \in DOMAIN d : d[m] = by
      BY <1>2, <2>1, CopySeq
    <3>3. d = b
      BY <3>1
    <3> HIDE DEF d, b
    <3> QED
      BY <3>1, <3>2, <3>3
<1>6. UNCHANGED txBuf \/ txBuf' = b
  <2>1. W!taken(1) = 1 \/ W!taken(1) < 0
    BY <1>2 DEF W!taken, W!ConstantsOK
  <2> QED
    BY <1>3, <2>1 DEF W!copy
<1>7. overrun' \/ (UNCHANGED overrun /\ txBuf' = b)
  <2>1. W!taken(1) = 1 \/ W!taken(1) < 0
    BY <1>2 DEF W!taken, W!ConstantsOK
  <2>2. iTxStarted
    BY <1>1 DEF WsInv, BufferStands
  <2> QED
    BY <1>3, <2>1, <2>2 DEF W!copy
<1> HIDE DEF b
<1>8. WsTypes'
  BY <1>1, <1>4, <1>5, <1>6 DEF WsInv, WsTypes
<1>9. BufferStands'
  <2> SUFFICES ASSUME ~overrun'
               PROVE  /\ iTxStarted'
                      /\ iTxType' = "pong" /\ ws_excuse' \cap {"starved", "astray"} = {} =>
                           W!Only("ping", payload - iRxSize)'
    BY <1>1 DEF BufferStands
  <2>1. iTxStarted'
    BY <1>1 DEF WsInv, BufferStands
  <2>2. ASSUME iTxType' = "pong", ws_excuse' \cap {"starved", "astray"} = {}
        PROVE  W!Only("ping", payload - iRxSize)'
    <3>1. by = "ping" /\ iRxSize' = iRxSize - 1 /\ UNCHANGED ws_excuse
      BY <1>3, <2>2
    <3>2. W!Only("ping", payload - iRxSize) /\ Len(txBuf) = payload - iRxSize
      BY <1>1, <2>2, <3>1 DEF WsInv, BufferStands, W!Only
    <3>3. Len(txBuf') = payload' - iRxSize'
      BY <1>1, <1>2, <1>5, <1>7, <3>1, <3>2
    <3>4. \A m \in DOMAIN txBuf' : txBuf'[m] = "ping"
      BY <1>5, <1>7, <3>1, <3>2
    <3> QED
      BY <3>3, <3>4 DEF W!Only
  <2> QED
    BY <2>1, <2>2
<1>10. ws_excuse \subseteq ws_excuse'
  BY <1>3
<1> QED
  BY <1>1, <1>4, <1>8, <1>9, <1>10 DEF WsInv, W!MessageIntact, W!UnmaskedInStep

LEMMA PongSendSafe == WsInv /\ W!pongSend => WsInv'
<1> SUFFICES ASSUME WsInv, W!pongSend PROVE WsInv'
  OBVIOUS
<1>1. iRxSize \in Nat /\ iRxSize = 0
  BY DEF WsInv, WsTypes, W!pongSend, W!echoes
<1>2. /\ ws_pc = "pong" /\ ~overrun /\ sent'.intact = (iTxType = "pong" /\ W!Only("ping", payload))
      /\ iTxStarted' = FALSE /\ txBuf' = <<>> /\ accepted' = 0 /\ iRxSize' = 0 /\ ws_pc' = "idle"
      /\ payload' = 0 /\ ws_excuse' = (IF iTxType # "pong" THEN ws_excuse \cup {"mixed"} ELSE ws_excuse)
      /\ UNCHANGED <<ws_conn, ws_rx, ws_wire, overrun, iRxMasked, iRxMaskIndex, decoded>>
  BY DEF W!pongSend, W!emit
<1>3. WsTypes'
  <2>1. <<>> \in Seq({"user", "ping", "junk"})
    OBVIOUS
  <2> QED
    BY <1>2, <2>1 DEF WsInv, WsTypes
<1>4. StreamStands'
  <2>1. UNCHANGED <<Coming, ws_conn, iRxSize, iRxMasked, iRxMaskIndex>>
    BY <1>1, <1>2 DEF Coming
  <2> QED
    BY <1>1, <1>2, <2>1, StreamSame DEF WsInv
<1>5. BufferStands'
  BY <1>2 DEF BufferStands
<1>6. W!MessageIntact'
  <2> SUFFICES ASSUME ws_excuse' \cap {"mixed", "starved", "astray"} = {} PROVE sent'.intact
    BY DEF W!MessageIntact
  <2>1. iTxType = "pong" /\ ws_excuse \cap {"starved", "astray"} = {}
    BY <1>2
  <2>2. W!Only("ping", payload - iRxSize) /\ payload \in Nat
    BY <1>2, <2>1 DEF WsInv, WsTypes, BufferStands
  <2>3. payload - iRxSize = payload
    BY <1>1, <2>2
  <2> QED
    BY <1>2, <2>1, <2>2, <2>3
<1> QED
  BY <1>2, <1>3, <1>4, <1>5, <1>6 DEF WsInv, W!UnmaskedInStep

\* A payload of sz bytes after need tokens.
PayloadAt(q, need, sz) ==
  /\ \A m \in Nat : need <= m /\ m < need + sz /\ 1 + m <= Len(q)
                    => q[1 + m] = W!Token("data", (m - need) % 4)
  /\ 1 + need + sz <= Len(q) => q[1 + need + sz].k = "op"

\* After the tokens of a header its payload comes, and then a frame.
LEMMA PayloadNext ==
  ASSUME NEW X, NEW q \in Seq(X), NEW t \in Seq(X), NEW need \in Nat, NEW sz \in Nat,
         Drops(q, need, t), Framed(q), PayloadAt(q, need, sz)
  PROVE  /\ Follows(t, sz)
         /\ Whole(q, 0) /\ 1 + need + sz <= Len(q) + 1 => Whole(t, sz)
         /\ \A p \in 1 .. Len(t) : p <= sz => t[p].v = (p - 1) % 4
<1>1. Len(q) \in Nat /\ Len(t) \in Nat /\ Len(t) = Len(q) - need
  BY DEF Drops
<1>2. \A p \in 1 .. Len(t) : t[p] = q[p + need]
  BY DEF Drops
<1>3. ASSUME NEW p \in 1 .. Len(t), p <= sz
      PROVE  t[p] = W!Token("data", (p - 1) % 4)
  <2>1. PICK m \in Nat : m = p + need - 1
    OBVIOUS
  <2>2. need <= m /\ m < need + sz /\ 1 + m <= Len(q) /\ m - need = p - 1 /\ 1 + m = p + need
    BY <2>1, <1>1, <1>3
  <2> QED
    BY <2>2, <1>2 DEF PayloadAt
<1>4. Follows(t, sz)
  <2>1. ASSUME NEW p \in 1 .. Len(t), p <= sz PROVE t[p].k = "data"
    <3>1. t[p] = W!Token("data", (p - 1) % 4)
      BY <1>3, <2>1
    <3> QED
      BY <3>1 DEF W!Token
  <2>2. sz + 1 <= Len(t) => t[sz + 1].k = "op"
    <3> SUFFICES ASSUME sz + 1 <= Len(t) PROVE t[sz + 1].k = "op"
      OBVIOUS
    <3>1. sz + 1 \in 1 .. Len(t) /\ sz + 1 + need = 1 + need + sz /\ 1 + need + sz <= Len(q)
      BY <1>1
    <3> QED
      BY <3>1, <1>2 DEF PayloadAt
  <2> QED
    BY <2>1, <2>2 DEF Follows
<1>5. Whole(q, 0) /\ 1 + need + sz <= Len(q) + 1 => Whole(t, sz)
  <2> SUFFICES ASSUME Whole(q, 0), 1 + need + sz <= Len(q) + 1 PROVE Whole(t, sz)
    OBVIOUS
  <2>1. sz <= Len(t) /\ 0 \in Nat
    BY <1>1
  <2> QED
    BY <2>1, DropWhole
<1>6. ASSUME NEW p \in 1 .. Len(t), p <= sz PROVE t[p].v = (p - 1) % 4
  <2>1. t[p] = W!Token("data", (p - 1) % 4)
    BY <1>3, <1>6
  <2> QED
    BY <2>1 DEF W!Token
<1> QED
  BY <1>4, <1>5, <1>6

\* A header that is there is read, and its payload comes next.
LEMMA HeadRead ==
  ASSUME WsTypes, StreamStands, "astray" \notin ws_excuse, ws_pc = "head", Len(ws_rx) >= 2,
         NEW h, h = ws_rx[2].v, NEW need, need = headLen(h), Len(ws_rx) >= need,
         ws_rx' = SubSeq(ws_rx, need + 1, Len(ws_rx)), UNCHANGED <<ws_wire, ws_conn>>, iRxSize' = h.size,
         iRxMaskIndex' = 0
  PROVE  /\ Framed(Coming') /\ Follows(Coming', iRxSize')
         /\ ws_conn => Whole(Coming', iRxSize')
         /\ MaskInStep(Coming)'
<1>1. /\ ws_rx \in Seq(FrameToken) /\ ws_wire \in Seq(FrameToken) /\ Len(ws_rx) \in Nat
      /\ Framed(Coming) /\ Follows(Coming, 0) /\ (ws_conn => Whole(Coming, 0))
  BY DEF WsTypes, StreamStands
<1>2. /\ Coming \in Seq(FrameToken) /\ Len(Coming) = Len(ws_rx) + Len(ws_wire)
      /\ \A m \in 1 .. Len(ws_rx) : Coming[m] = ws_rx[m]
  BY <1>1, JoinAt DEF Coming
<1>3. Len(Coming) \in Nat /\ Len(Coming) >= 2 /\ Coming[2].v = h /\ Coming[1].k = "op"
  <2>1. Len(Coming) \in Nat /\ Len(Coming) >= 2
    BY <1>1, <1>2
  <2>2. Coming[2] = ws_rx[2]
    BY <1>1, <1>2
  <2>3. Coming[1].k = "op"
    <3>1. 0 + 1 = 1 /\ 0 + 1 <= Len(Coming)
      BY <2>1
    <3> QED
      BY <3>1, <1>1 DEF Follows
  <2> QED
    BY <2>1, <2>2, <2>3
<1>4. FrameAt(Coming, 1) /\ 1 + 1 = 2 /\ 1 + 1 <= Len(Coming)
  BY <1>1, <1>3 DEF Framed
<1>5. h.size \in Nat /\ h.long \in BOOLEAN /\ h.masked \in BOOLEAN
  BY <1>3, <1>4 DEF FrameAt
<1>6. need \in 0 .. Len(ws_rx) /\ need \in Nat
  BY <1>1, <1>5 DEF headLen
<1>7. \A m \in Nat : need <= m /\ m < need + h.size /\ 1 + m <= Len(Coming)
                     => Coming[1 + m] = W!Token("data", (m - need) % 4)
  BY <1>3, <1>4 DEF FrameAt
<1>8. 1 + need + h.size <= Len(Coming) => Coming[1 + need + h.size].k = "op"
  BY <1>3, <1>4 DEF FrameAt
<1>9. ws_conn => 1 + need + h.size <= Len(Coming) + 1
  BY <1>1, <1>3, <1>4 DEF Whole
<1> DEFINE q == Coming  t == Coming'  sz == h.size
<1>10. /\ q \in Seq(FrameToken) /\ t \in Seq(FrameToken) /\ Drops(q, need, t)
       /\ Len(q) \in Nat /\ Len(t) = Len(q) - need /\ sz \in Nat /\ iRxSize' = sz
  BY <1>2, <1>3, <1>5, <1>6, RxDrops DEF Drops
<1>11. Framed(q) /\ (ws_conn => Whole(q, 0)) /\ 0 \in Nat
  BY <1>1
<1> HIDE DEF q, t, sz
<1>a. need \in Nat /\ sz \in Nat /\ Len(q) \in Nat /\ Len(t) \in Nat /\ Len(t) = Len(q) - need
  BY <1>6, <1>10
<1>12. Framed(t)
  BY <1>6, <1>10, <1>11, DropFramed
<1>13. /\ Follows(t, sz) /\ (ws_conn => Whole(t, sz))
       /\ \A p \in 1 .. Len(t) : p <= sz => t[p].v = (p - 1) % 4
  <2>1. PayloadAt(q, need, sz)
    BY <1>7, <1>8 DEF PayloadAt, q, sz
  <2>2. ws_conn => 1 + need + sz <= Len(q) + 1
    BY <1>9 DEF q, sz
  <2>3. /\ Follows(t, sz)
        /\ Whole(q, 0) /\ 1 + need + sz <= Len(q) + 1 => Whole(t, sz)
        /\ \A p \in 1 .. Len(t) : p <= sz => t[p].v = (p - 1) % 4
    BY <2>1, <1>a, <1>10, <1>11, PayloadNext
  <2> QED
    BY <2>2, <2>3, <1>11
<1>14. \A p \in 1 .. Len(t) : p <= sz => t[p].v = (0 + p - 1) % 4
  BY <1>13, <1>a
<1> QED
  BY <1>10, <1>12, <1>13, <1>14 DEF t, MaskInStep

LEMMA HeadSafe == WsInv /\ W!readHead => WsInv'
<1> SUFFICES ASSUME WsInv, W!readHead PROVE WsInv'
  OBVIOUS
<1> DEFINE h == ws_rx[2].v
           need == headLen(h)
           whole == Len(ws_rx) >= need
<1>1. /\ ws_pc = "head" /\ Len(ws_rx) >= 2 /\ "astray" \notin ws_excuse
      /\ iRxMaskIndex' = 0
      /\ iRxSize' = (IF h.long /\ Len(ws_rx) < 3 THEN W!Garbled ELSE h.size)
      /\ ws_rx' = (IF whole THEN SubSeq(ws_rx, need + 1, Len(ws_rx)) ELSE <<>>)
      /\ ws_excuse' = (ws_excuse \ {"short", "between"}) \cup W!between(ws_rx[1].v)
                        \cup (IF whole THEN {} ELSE {"astray"})
      /\ W!between(ws_rx[1].v) \subseteq {"between"}
      /\ UNCHANGED <<ws_conn, ws_wire, overrun, decoded>>
  BY DEF W!readHead, W!headThere, W!maskAtHead, W!between, headLen
<1>2. /\ ws_pc' \in {"close", "pong", "skip", "idle"}
      /\ IF ws_pc' = "pong" THEN W!start("pong") ELSE UNCHANGED <<iTxStarted, iTxType, txBuf, accepted>>
      /\ payload' = (IF ws_pc' = "pong" THEN h.size ELSE 0) /\ sent' = W!Nothing
  BY DEF W!readHead, W!handler
<1>3. ws_rx \in Seq(FrameToken) /\ ws_wire \in Seq(FrameToken) /\ Len(ws_rx) \in Nat
  BY DEF WsInv, WsTypes
<1>4. h.size \in Nat /\ h.long \in BOOLEAN /\ h.masked \in BOOLEAN
  <2>1. Framed(Coming) /\ Follows(Coming, 0)
    BY <1>1 DEF WsInv, StreamStands
  <2>2. /\ Coming \in Seq(FrameToken) /\ Len(Coming) = Len(ws_rx) + Len(ws_wire)
        /\ \A m \in 1 .. Len(ws_rx) : Coming[m] = ws_rx[m]
    BY <1>3, JoinAt DEF Coming
  <2>3. Len(Coming) \in Nat /\ 1 + 1 <= Len(Coming) /\ 0 + 1 <= Len(Coming)
    BY <1>1, <1>3, <2>2
  <2>4. Coming[2] = ws_rx[2] /\ Coming[1].k = "op"
    <3>1. 2 \in 1 .. Len(ws_rx) /\ 0 + 1 = 1
      BY <1>1, <1>3
    <3> QED
      BY <3>1, <2>1, <2>2, <2>3 DEF Follows
  <2>5. FrameAt(Coming, 1) /\ 1 + 1 = 2
    BY <2>1, <2>3, <2>4 DEF Framed
  <2> QED
    BY <2>3, <2>4, <2>5 DEF FrameAt
<1>5. need \in Nat /\ need >= 2 /\ (h.long => need >= 3)
  BY <1>4 DEF headLen
<1> HIDE DEF need
<1>6. whole => iRxSize' = h.size
  BY <1>1, <1>3, <1>5
<1>7. ws_rx' \in Seq(FrameToken) /\ iRxSize' \in Nat
  <2>1. CASE whole
    <3>1. need \in 0 .. Len(ws_rx) /\ ws_rx' = SubSeq(ws_rx, need + 1, Len(ws_rx)) /\ UNCHANGED ws_wire
      BY <1>1, <1>3, <1>5, <2>1
    <3>2. ws_rx' \in Seq(FrameToken)
      BY <3>1, RxDrops DEF WsInv
    <3> QED
      BY <3>2, <1>4, <1>6, <2>1
  <2>2. CASE ~whole
    <3>1. ws_rx' = <<>> /\ <<>> \in Seq(FrameToken)
      BY <1>1, <2>2
    <3>2. iRxSize' \in Nat
      BY <1>1, <1>4 DEF W!Garbled
    <3> QED
      BY <3>1, <3>2
  <2> QED
    BY <2>1, <2>2
<1>8. \/ UNCHANGED <<iTxStarted, iTxType, txBuf, accepted>> /\ (ws_pc' = "pong" => iTxStarted)
      \/ ws_pc' = "pong" /\ iTxStarted' /\ iTxType' = "pong" /\ txBuf' = <<>> /\ accepted' = 0
  <2>1. CASE ws_pc' # "pong"
    BY <1>2, <2>1
  <2>2. CASE ws_pc' = "pong" /\ iTxStarted
    BY <1>2, <2>2 DEF W!start
  <2>3. CASE ws_pc' = "pong" /\ ~iTxStarted
    BY <1>2, <2>3 DEF W!start
  <2> QED
    BY <2>1, <2>2, <2>3
<1>9. WsTypes'
  <2>1. <<>> \in Seq({"user", "ping", "junk"})
    OBVIOUS
  <2>2. txBuf' \in Seq({"user", "ping", "junk"}) /\ accepted' \in Nat
    <3>1. txBuf \in Seq({"user", "ping", "junk"}) /\ accepted \in Nat
      BY DEF WsInv, WsTypes
    <3>2. UNCHANGED <<txBuf, accepted>> \/ (txBuf' = <<>> /\ accepted' = 0)
      BY <1>8
    <3>3. CASE UNCHANGED <<txBuf, accepted>>
      BY <3>1, <3>3
    <3>4. CASE txBuf' = <<>> /\ accepted' = 0
      BY <3>4, <2>1
    <3> QED
      BY <3>2, <3>3, <3>4
  <2>3. payload' \in Nat
    BY <1>2, <1>4
  <2> QED
    BY <1>1, <1>3, <1>7, <2>2, <2>3 DEF WsInv, WsTypes
<1>10. StreamStands'
  <2>1. CASE ~whole
    BY <1>1, <2>1 DEF StreamStands
  <2>2. CASE whole
    <3>1. /\ Framed(Coming') /\ Follows(Coming', iRxSize')
          /\ ws_conn => Whole(Coming', iRxSize')
          /\ MaskInStep(Coming)'
      BY <1>1, <1>6, <2>2, HeadRead DEF WsInv, need
    <3>2. Framed(Coming)' /\ Follows(Coming, iRxSize)' /\ (ws_conn => Whole(Coming, iRxSize)')
      BY <3>1 DEF Framed, FrameAt, Follows, Whole, headLen, W!Token
    <3> QED
      BY <3>1, <3>2, <1>1, <1>2 DEF StreamStands
  <2> QED
    BY <2>1, <2>2
<1>11. BufferStands'
  <2> SUFFICES ASSUME ~overrun
               PROVE  /\ iTxStarted' /\ ws_pc' # "pong" => iTxType' = "text" /\ W!Only("user", accepted)'
                      /\ ws_pc' = "pong" =>
                              /\ iTxStarted'
                              /\ iTxType' = "pong" /\ ws_excuse' \cap {"starved", "astray"} = {} =>
                                   W!Only("ping", payload - iRxSize)'
    BY <1>1 DEF BufferStands
  <2>1. iTxStarted => iTxType = "text" /\ W!Only("user", accepted)
    BY <1>1 DEF WsInv, BufferStands
  <2>2. iTxStarted' /\ ws_pc' # "pong" => iTxType' = "text" /\ W!Only("user", accepted)'
    BY <1>2, <2>1 DEF W!Only
  <2>3. ASSUME ws_pc' = "pong", iTxType' = "pong", ws_excuse' \cap {"starved", "astray"} = {}
        PROVE  W!Only("ping", payload - iRxSize)'
    <3>1. txBuf' = <<>>
      BY <1>8, <2>1, <2>3
    <3>2. whole /\ payload' = h.size /\ iRxSize' = h.size
      BY <1>1, <1>2, <1>6, <2>3
    <3>3. payload' - iRxSize' = 0
      BY <3>2, <1>4
    <3> QED
      BY <3>1, <3>3 DEF W!Only
  <2> QED
    BY <1>8, <2>2, <2>3
<1> QED
  BY <1>1, <1>2, <1>9, <1>10, <1>11 DEF WsInv, W!Nothing, W!MessageIntact, W!UnmaskedInStep

------------------------------------------------------------------------------

LEMMA WsStep == W!ConstantsOK /\ WsInv /\ [W!Next]_W!vars => WsInv'
<1> SUFFICES ASSUME W!ConstantsOK, WsInv, [W!Next]_W!vars PROVE WsInv'
  OBVIOUS
<1>1. CASE UNCHANGED W!vars
  <2>1. /\ UNCHANGED <<ws_conn, ws_rx, ws_wire, iTxStarted, iTxType, txBuf, accepted, overrun, sent, decoded>>
        /\ UNCHANGED <<iRxSize, iRxMasked, iRxMaskIndex, ws_pc, payload, ws_excuse>>
    BY <1>1 DEF W!vars, W!tx, W!rxState
  <2>2. UNCHANGED <<Coming, ws_conn, iRxSize, iRxMasked, iRxMaskIndex>> /\ iRxSize \in Nat
    BY <2>1 DEF Coming, WsInv, WsTypes
  <2>3. StreamStands'
    BY <2>1, <2>2, StreamSame DEF WsInv
  <2>4. BufferStands'
    BY <2>1, BufferSame DEF WsInv
  <2> QED
    BY <2>1, <2>3, <2>4 DEF WsInv, WsTypes, W!MessageIntact, W!UnmaskedInStep
<1>2. CASE W!User
  BY <1>2, BeginSafe, StopSafe, BeginMessageSafe, EndMessageSafe, ParseSafe, WriteSafe, PingSafe,
     ReadSafe DEF W!User
<1>3. CASE W!Step
  BY <1>3, FlushSafe, ParseSafe, HeadSafe, CloseSafe, PongByteSafe, PongSendSafe DEF W!Step
<1>4. CASE W!ServerSend \/ W!Deliver \/ W!Lost
  BY <1>4, SendSafe, DeliverSafe, LostSafe
<1> QED
  BY <1>1, <1>2, <1>3, <1>4 DEF W!Next

\* The type of a message over its fragments is an invariant of its own.
LEMMA FragmentStep == W!FragmentsKept /\ [W!Next]_W!vars => W!FragmentsKept'
<1> SUFFICES ASSUME W!FragmentsKept, [W!Next]_W!vars PROVE W!FragmentsKept'
  OBVIOUS
<1> USE DEF W!FragmentsKept
<1>1. ASSUME UNCHANGED <<iRxOp, fragment>>, ws_excuse \cap {"between", "astray"} \subseteq ws_excuse'
      PROVE  W!FragmentsKept'
  BY <1>1
<1>2. ASSUME W!readHead PROVE W!FragmentsKept'
  <2> DEFINE o == ws_rx[1].v
  <2>1. /\ W!opcode(o) /\ fragment' = W!fragmentAfter(o)
        /\ ((ws_excuse \ {"short", "between"}) \cup W!between(o)) \subseteq ws_excuse'
    BY <1>2 DEF W!readHead
  <2> HIDE DEF o
  <2>2. CASE o.type = "continuation"
    <3>1. UNCHANGED iRxOp /\ fragment' \in {"none", fragment}
          /\ ws_excuse \cap {"between", "astray"} \subseteq ws_excuse'
      BY <2>1, <2>2 DEF W!opcode, W!fragmentAfter, W!between
    <3> QED BY <3>1
  <2>3. CASE o.type = "text"
    <3>1. iRxOp' = "text" /\ fragment' \in {"none", "text"}
      BY <2>1, <2>3 DEF W!opcode, W!fragmentAfter
    <3> QED BY <3>1
  <2>4. CASE o.type \notin {"continuation", "text"}
    <3>1. fragment' = fragment /\ (fragment # "none" => "between" \in ws_excuse')
      BY <2>1, <2>4 DEF W!fragmentAfter, W!between
    <3> QED BY <3>1
  <2> QED BY <2>2, <2>3, <2>4
<1>3. ASSUME NEW ok \in BOOLEAN, W!begin(ok) PROVE W!FragmentsKept'
  BY <1>3 DEF W!begin
<1>4. CASE W!User
  <2>1. W!stop \/ W!endMessage \/ W!parseMessage => UNCHANGED <<iRxOp, fragment, ws_excuse>>
    BY DEF W!stop, W!endMessage, W!parseMessage, W!rxState
  <2>2. W!beginMessage => UNCHANGED <<iRxOp, fragment>> /\ ws_excuse' = ws_excuse \ {"mixed"}
    BY DEF W!beginMessage, W!rxState
  <2>3. ASSUME NEW k \in WriteSize, W!write(k) \/ W!ping(k) \/ W!read(k)
        PROVE  UNCHANGED <<iRxOp, fragment>> /\ (ws_excuse \ {"mixed"}) \subseteq ws_excuse'
    BY <2>3 DEF W!write, W!ping, W!read, W!rxState
  <2> QED BY <1>4, <2>1, <2>2, <2>3, <1>1, <1>3 DEF W!User
<1>5. CASE W!Step
  <2>1. W!flushOld \/ W!flushPong \/ W!noMessage \/ W!closeFrame => UNCHANGED <<iRxOp, fragment, ws_excuse>>
    BY DEF W!flushOld, W!flushPong, W!flushByte, W!noMessage, W!closeFrame, W!rxState
  <2>2. W!pongByte \/ W!pongSend => UNCHANGED <<iRxOp, fragment>> /\ ws_excuse \subseteq ws_excuse'
    BY DEF W!pongByte, W!pongSend
  <2> QED BY <1>5, <2>1, <2>2, <1>1, <1>2 DEF W!Step
<1>6. CASE W!ServerSend \/ W!Deliver \/ W!Lost \/ UNCHANGED W!vars
  <2>1. UNCHANGED <<iRxOp, fragment, ws_excuse>>
    BY <1>6 DEF W!ServerSend, W!Deliver, W!Lost, W!vars, W!rxState
  <2> QED BY <2>1, <1>1
<1> QED BY <1>4, <1>5, <1>6 DEF W!Next

LEMMA WsSafe == WsInv /\ W!FragmentsKept => W!FramesIntact
<1> SUFFICES ASSUME WsInv, W!FragmentsKept, ws_pc = "head", ws_excuse \cap {"astray"} = {}, ws_rx # <<>>
             PROVE  Head(ws_rx).k = "op"
  BY DEF WsInv, W!FramesIntact, W!FramesAligned
<1>1. ws_rx \in Seq(FrameToken) /\ ws_wire \in Seq(FrameToken) /\ Len(ws_rx) \in Nat /\ Len(ws_rx) >= 1
  BY DEF WsInv, WsTypes
<1>2. Follows(Coming, 0)
  BY DEF WsInv, StreamStands
<1>3. Len(Coming) >= 0 + 1 /\ Coming[0 + 1] = ws_rx[1]
  <2>1. /\ Len(Coming) = Len(ws_rx) + Len(ws_wire)
        /\ \A m \in 1 .. Len(ws_rx) : Coming[m] = ws_rx[m]
    BY <1>1, JoinAt DEF Coming
  <2> QED
    BY <2>1, <1>1
<1>4. Head(ws_rx) = ws_rx[1]
  BY <1>1
<1> QED
  BY <1>2, <1>3, <1>4 DEF Follows

\* For all frames and sizes, however the stream is cut into what has arrived:
\* parseMessage() starts on the header of a frame after any mix of read(),
\* skipped payloads, pings and reconnections, read() unmasks each byte with its
\* own byte of the key, endMessage() sends what write() took, a pong the payload
\* of its ping, and messageType() stays over the fragments of a message, but for
\* the excuses that the properties name: a header in pieces, a read() past the
\* end of a frame or a begin() on the connection of the frames (until the next
\* begin()), a control frame between fragments, a message mixed with a pong.
THEOREM FramesSafe ==
  PartsSpec => []FramesIntact
<1>1. WsInv /\ [W!Next]_W!vars => WsInv'
  BY WsStep, WebsocketAssumption
<1>2. WsInv /\ W!FragmentsKept => FramesIntact
  BY WsSafe DEF FramesIntact
<1>3. W!Init => W!FragmentsKept
  BY DEF W!Init, W!FragmentsKept
<1> QED
  BY <1>1, <1>2, <1>3, FragmentStep, WsInit, PartsMove, PTL DEF PartsSpec

------------------------------------------------------------------------------
(***************************************************************************)
(* HttpClient.                                                             *)
(***************************************************************************)

\* What the connection still brings, received or not.
Ahead == rx \o wire

Late == "late" \in excuse
Past(s) == s \in BodyState \cup {"statusRead", "skip"}

\* A stream, from the place after p on: c bytes of a body and then only the
\* lines that end it.
DataFrom(q, p, c) ==
  \A m \in 1 .. Len(q) - p :
    IF m <= c THEN q[p + m].k = "data" /\ q[p + m].own
    ELSE q[p + m].k \in {"empty", "size"} /\ q[p + m].v = 0

PlainFrom(q, p, c) == Len(q) <= p + c /\ DataFrom(q, p, c)

\* The rest of a body in chunks where a size comes next.
ChunkFrom(q, p, c) ==
  IF c = 0 THEN DataFrom(q, p, 0)
  ELSE /\ p < Len(q) => q[p + 1].k = "size" /\ q[p + 1].v = c
       /\ DataFrom(q, p + 1, c)

BodyFrom(q, p, r) ==
  IF r.chunked THEN ChunkFrom(q, p, r.body) ELSE PlainFrom(q, p, r.body)

\* The rest of response r from its empty line, its second header, its first.
EndFrom(q, p, r) == (p < Len(q) => q[p + 1].k = "empty") /\ BodyFrom(q, p + 1, r)

SecondFrom(q, p, r) ==
  IF r.chunked THEN (p < Len(q) => q[p + 1].k = "chunked") /\ EndFrom(q, p + 1, r)
  ELSE EndFrom(q, p, r)

HeadFrom(q, p, r) ==
  /\ p < Len(q) => IF r.len = NoContentLength THEN q[p + 1].k = "other"
                   ELSE q[p + 1].k = "length" /\ q[p + 1].v = r.len
  /\ SecondFrom(q, p + 1, r)

NoStatus(q) == \A p \in 1 .. Len(q) : q[p].k # "status"

\* The status lines of a stream: own ones, of one response.
OneResponse(q) ==
  /\ \A p \in 1 .. Len(q) : q[p].k = "status" => q[p].own
  /\ \A p, m \in 1 .. Len(q) : p < m /\ q[p].k = "status" /\ q[m].k = "status" => q[p].v < 200

\* The last status line is followed by a response with Content-Length d.
Announced(q, d) ==
  \A p \in 1 .. Len(q) : q[p].k = "status" /\ q[p].v >= 200 =>
    \E r \in Response : d = r.len /\ HeadFrom(q, p, r)

Reset == iContentLength = NoContentLength /\ ~iIsChunked /\ iChunkLength = 0

Token == [k : Line \cup {"data"}, v : Nat, own : BOOLEAN]

HttpTypes ==
  /\ rx \in Seq(Token) /\ wire \in Seq(Token) /\ asked \in Nat
  /\ got \in Nat /\ n \in Nat /\ iIsChunked \in BOOLEAN

\* Where a call has got to says what has been read.
CallStands ==
  /\ BeforeSent(iState) \/ iState = "sent" \/ Past(iState)
  /\ pc = "status" => iState = "sent"
  /\ pc # "idle" => ret = "none"
  /\ pc \in {"headers", "header", "body"} => Past(iState)
  /\ line => BeforeSent(iState) /\ ret # "text"
  /\ BeforeSent(iState) /\ "carried" \notin excuse => Reset

\* Nothing older comes unless it is known to be late.
StatusStands ==
  ~Late =>
    /\ asked \in 0 .. 1
    /\ OneResponse(Ahead)
    /\ asked = 1 => NoStatus(Ahead)
    /\ Past(iState) \/ line \/ (BeforeSent(iState) /\ "carried" \notin excuse)
         => asked = 0 /\ NoStatus(Ahead)

\* What has been read of the answer, and what is to come, while nothing spoils it.
SentStands ==
  /\ iState = "sent" /\ (asked = 1 \/ ~NoStatus(Ahead)) => Reset /\ got = 0 /\ pure
  /\ Announced(Ahead, due)

\* The headers of response r: none was read, or the first, or both.
HeadersOf(r) ==
  \/ Reset /\ HeadFrom(Ahead, 0, r)
  \/ /\ iContentLength = r.len /\ iChunkLength = 0
     /\ IF iIsChunked THEN r.chunked /\ EndFrom(Ahead, 0, r) ELSE SecondFrom(Ahead, 0, r)

HeadersStand ==
  iState = "statusRead" =>
    pure /\ got = 0 /\ \E r \in Response : due = r.len /\ HeadersOf(r)

\* The body of response r, of which got bytes were handed out.
BodyOf(r) ==
  /\ iContentLength = r.len /\ iIsChunked = r.chunked /\ got <= r.body
  /\ iState = "body" => ~r.chunked /\ PlainFrom(Ahead, 0, r.body - got)
  /\ iState = "chunkLength" =>
       r.chunked /\ iChunkLength = 0 /\ ChunkFrom(Ahead, 0, r.body - got)
  /\ iState = "bodyChunk" =>
       /\ r.chunked /\ iChunkLength = r.body - got /\ iChunkLength > 0
       /\ DataFrom(Ahead, 0, iChunkLength)

BodyStands ==
  iState \in BodyState => pure /\ \E r \in Response : due = r.len /\ BodyOf(r)

TextStands ==
  /\ iState # "skip"
  /\ pc = "headers" => n = 0
  /\ pc = "body" => iState \in BodyState /\ n <= got
  /\ ret = "text" => iState \in BodyState /\ (due > 0 => got = due)

ResponseStands == SentStands /\ HeadersStand /\ BodyStands /\ TextStands

AnswerInv ==
  /\ HttpTypes /\ CallStands /\ StatusStands
  /\ excuse = {} => ResponseStands
  /\ StatusIsOwn

------------------------------------------------------------------------------
\* After its first b tokens stream t is what stream q is after its first a, as
\* far as t goes.
Goes(t, b, q, a) ==
  \A m \in 1 .. Len(t) - b : a + m <= Len(q) /\ t[b + m] = q[a + m]

LEMMA GoesOn ==
  ASSUME NEW X, NEW t \in Seq(X), NEW q \in Seq(X), NEW a \in Nat, NEW b \in Nat, Goes(t, b, q, a),
         NEW c \in Nat
  PROVE  Goes(t, b + c, q, a + c)
<1> SUFFICES ASSUME NEW m \in 1 .. Len(t) - (b + c)
             PROVE  a + c + m <= Len(q) /\ t[b + c + m] = q[a + c + m]
  BY DEF Goes
<1>1. c + m \in 1 .. Len(t) - b /\ a + (c + m) = a + c + m /\ b + (c + m) = b + c + m
  OBVIOUS
<1> QED
  BY <1>1 DEF Goes

LEMMA DataCarries ==
  ASSUME NEW X, NEW t \in Seq(X), NEW q \in Seq(X), NEW a \in Nat, NEW b \in Nat, Goes(t, b, q, a),
         NEW c \in Nat
  PROVE  /\ DataFrom(q, a, c) => DataFrom(t, b, c)
         /\ PlainFrom(q, a, c) => PlainFrom(t, b, c)
         /\ ChunkFrom(q, a, c) => ChunkFrom(t, b, c)
<1>1. ASSUME NEW y \in Nat, NEW x \in Nat, Goes(t, y, q, x), NEW d \in Nat, DataFrom(q, x, d)
      PROVE  DataFrom(t, y, d)
  <2> SUFFICES ASSUME NEW m \in 1 .. Len(t) - y
               PROVE  IF m <= d THEN t[y + m].k = "data" /\ t[y + m].own
                      ELSE t[y + m].k \in {"empty", "size"} /\ t[y + m].v = 0
    BY DEF DataFrom
  <2>1. m \in 1 .. Len(q) - x /\ t[y + m] = q[x + m]
    BY <1>1 DEF Goes
  <2> QED
    BY <1>1, <2>1 DEF DataFrom
<1>2. ASSUME PlainFrom(q, a, c) PROVE PlainFrom(t, b, c)
  <2>1. Len(t) <= b + c
    <3> SUFFICES ASSUME Len(t) > b + c PROVE FALSE
      OBVIOUS
    <3>1. Len(t) - b \in 1 .. Len(t) - b
      OBVIOUS
    <3>2. a + (Len(t) - b) <= Len(q)
      BY <3>1 DEF Goes
    <3> QED
      BY <1>2, <3>2 DEF PlainFrom
  <2> QED
    BY <1>1, <1>2, <2>1 DEF PlainFrom
<1>3. ASSUME ChunkFrom(q, a, c) PROVE ChunkFrom(t, b, c)
  <2>1. CASE c = 0
    BY <1>1, <1>3, <2>1 DEF ChunkFrom
  <2>2. CASE c # 0
    <3>1. DataFrom(t, b + 1, c)
      BY <1>1, <1>3, <2>2, GoesOn DEF ChunkFrom
    <3>2. b < Len(t) => a < Len(q) /\ t[b + 1] = q[a + 1]
      BY DEF Goes
    <3> QED
      BY <1>3, <2>2, <3>1, <3>2 DEF ChunkFrom
  <2> QED
    BY <2>1, <2>2
<1> QED
  BY <1>1, <1>2, <1>3

LEMMA HeadCarries ==
  ASSUME ResponseAssumption, NEW r \in Response,
         NEW X, NEW t \in Seq(X), NEW q \in Seq(X), NEW a \in Nat, NEW b \in Nat, Goes(t, b, q, a)
  PROVE  /\ BodyFrom(q, a, r) => BodyFrom(t, b, r)
         /\ EndFrom(q, a, r) => EndFrom(t, b, r)
         /\ SecondFrom(q, a, r) => SecondFrom(t, b, r)
         /\ HeadFrom(q, a, r) => HeadFrom(t, b, r)
<1>0. r.body \in Nat
  BY DEF ResponseAssumption
<1>1. ASSUME NEW x \in Nat, NEW y \in Nat, Goes(t, y, q, x)
      PROVE  /\ y + 1 \in Nat /\ x + 1 \in Nat /\ Goes(t, y + 1, q, x + 1)
             /\ y < Len(t) => x < Len(q) /\ t[y + 1] = q[x + 1]
  <2>1. Goes(t, y + 1, q, x + 1)
    BY <1>1, GoesOn
  <2>2. ASSUME y < Len(t) PROVE x < Len(q) /\ t[y + 1] = q[x + 1]
    <3>1. 1 \in 1 .. Len(t) - y
      BY <2>2
    <3>2. x + 1 <= Len(q) /\ t[y + 1] = q[x + 1]
      BY <1>1, <3>1 DEF Goes
    <3> QED
      BY <3>2
  <2> QED
    BY <2>1, <2>2
<1>2. ASSUME NEW x \in Nat, NEW y \in Nat, Goes(t, y, q, x), BodyFrom(q, x, r)
      PROVE  BodyFrom(t, y, r)
  BY <1>0, <1>2, DataCarries DEF BodyFrom
<1>3. ASSUME NEW x \in Nat, NEW y \in Nat, Goes(t, y, q, x), EndFrom(q, x, r)
      PROVE  EndFrom(t, y, r)
  BY <1>1, <1>2, <1>3 DEF EndFrom
<1>4. ASSUME NEW x \in Nat, NEW y \in Nat, Goes(t, y, q, x), SecondFrom(q, x, r)
      PROVE  SecondFrom(t, y, r)
  BY <1>1, <1>3, <1>4 DEF SecondFrom
<1>5. ASSUME HeadFrom(q, a, r) PROVE HeadFrom(t, b, r)
  BY <1>1, <1>4, <1>5 DEF HeadFrom
<1> QED
  BY <1>2, <1>3, <1>4, <1>5

\* What is known of the status lines of a stream holds of what it comes to.
LEMMA StatusCarries ==
  ASSUME ResponseAssumption, NEW d,
         NEW X, NEW t \in Seq(X), NEW q \in Seq(X), NEW a \in Nat, NEW b \in Nat, Goes(t, b, q, a),
         \A p \in 1 .. b : t[p].k # "status"
  PROVE  /\ NoStatus(q) => NoStatus(t)
         /\ OneResponse(q) => OneResponse(t)
         /\ Announced(q, d) => Announced(t, d)
<1>1. ASSUME NEW p \in 1 .. Len(t), t[p].k = "status"
      PROVE  p > b /\ p - b \in Nat /\ a + (p - b) \in 1 .. Len(q) /\ t[p] = q[a + (p - b)]
  <2>1. p > b
    BY <1>1
  <2>2. p - b \in 1 .. Len(t) - b /\ b + (p - b) = p
    BY <2>1
  <2>3. a + (p - b) <= Len(q) /\ t[b + (p - b)] = q[a + (p - b)]
    BY <2>2 DEF Goes
  <2>4. a + (p - b) \in 1 .. Len(q) /\ p - b \in Nat
    BY <2>1, <2>3
  <2> QED
    BY <2>1, <2>2, <2>3, <2>4
<1>2. NoStatus(q) => NoStatus(t)
  BY <1>1 DEF NoStatus
<1>3. OneResponse(q) => OneResponse(t)
  <2> SUFFICES ASSUME OneResponse(q) PROVE OneResponse(t)
    OBVIOUS
  <2>1. \A p \in 1 .. Len(t) : t[p].k = "status" => t[p].own
    BY <1>1 DEF OneResponse
  <2>2. ASSUME NEW p \in 1 .. Len(t), NEW m \in 1 .. Len(t), p < m, t[p].k = "status", t[m].k = "status"
        PROVE  t[p].v < 200
    <3> DEFINE x == a + (p - b)
               y == a + (m - b)
    <3>1. x \in 1 .. Len(q) /\ t[p] = q[x]
      BY <1>1, <2>2
    <3>2. y \in 1 .. Len(q) /\ t[m] = q[y]
      BY <1>1, <2>2
    <3>3. x < y
      BY <2>2
    <3> HIDE DEF x, y
    <3>4. q[x].k = "status" /\ q[y].k = "status"
      BY <2>2, <3>1, <3>2
    <3>5. q[x].v < 200
      BY <3>1, <3>2, <3>3, <3>4 DEF OneResponse
    <3> QED
      BY <3>1, <3>5
  <2> QED
    BY <2>1, <2>2 DEF OneResponse
<1>4. Announced(q, d) => Announced(t, d)
  <2> SUFFICES ASSUME Announced(q, d), NEW p \in 1 .. Len(t), t[p].k = "status", t[p].v >= 200
               PROVE  \E r \in Response : d = r.len /\ HeadFrom(t, p, r)
    BY DEF Announced
  <2>1. p > b /\ p - b \in Nat /\ a + (p - b) \in 1 .. Len(q) /\ t[p] = q[a + (p - b)]
    BY <1>1
  <2>2. PICK r \in Response : d = r.len /\ HeadFrom(q, a + (p - b), r)
    BY <2>1 DEF Announced
  <2>3. Goes(t, b + (p - b), q, a + (p - b)) /\ b + (p - b) = p
    <3> DEFINE c == p - b
    <3>1. c \in Nat
      BY <2>1
    <3> HIDE DEF c
    <3>2. Goes(t, b + c, q, a + c)
      BY <3>1, GoesOn
    <3> QED
      BY <3>2 DEF c
  <2>4. HeadFrom(t, p, r)
    <3>1. a + (p - b) \in Nat /\ p \in Nat
      BY <2>1
    <3> QED
      BY <2>2, <2>3, <3>1, HeadCarries
  <2> QED
    BY <2>2, <2>4
<1> QED
  BY <1>2, <1>3, <1>4

------------------------------------------------------------------------------
LEMMA TokensSeq ==
  ASSUME NEW kind \in Line \cup {"data"}, NEW c \in Nat
  PROVE  /\ Tokens(kind, c) \in Seq(Token) /\ Len(Tokens(kind, c)) = c
         /\ \A m \in 1 .. c : Tokens(kind, c)[m] = [k |-> kind, v |-> 0, own |-> TRUE]
<1> DEFINE x == [k |-> kind, v |-> 0, own |-> TRUE]
<1>1. x \in Token
  BY DEF Token
<1> HIDE DEF x
<1>2. Tokens(kind, c) = [m \in 1 .. c |-> x]
  BY DEF Tokens, x
<1>3. Tokens(kind, c) \in [1 .. c -> Token]
  BY <1>1, <1>2
<1>4. Tokens(kind, c) \in Seq(Token) /\ Len(Tokens(kind, c)) = c
  BY <1>3, FunIsSeq
<1> QED
  BY <1>2, <1>4 DEF x

LEMMA OneToken ==
  ASSUME NEW kind \in Line \cup {"data"}
  PROVE  /\ Tokens(kind, 1) \in Seq(Token) /\ Len(Tokens(kind, 1)) = 1
         /\ Tokens(kind, 1)[1].k = kind /\ Tokens(kind, 1)[1].v = 0
<1>1. /\ Tokens(kind, 1) \in Seq(Token) /\ Len(Tokens(kind, 1)) = 1
      /\ \A m \in 1 .. 1 : Tokens(kind, 1)[m] = [k |-> kind, v |-> 0, own |-> TRUE]
  BY TokensSeq
<1>2. Tokens(kind, 1)[1] = [k |-> kind, v |-> 0, own |-> TRUE]
  BY <1>1
<1> QED
  BY <1>1, <1>2

\* A stream after what was put before it.
LEMMA JoinGoes ==
  ASSUME NEW X, NEW q \in Seq(X), NEW g \in Seq(X)
  PROVE  /\ q \o g \in Seq(X) /\ Len(q \o g) = Len(q) + Len(g)
         /\ \A m \in 1 .. Len(q) : (q \o g)[m] = q[m]
         /\ Goes(q \o g, Len(q), g, 0)
<1> DEFINE t == q \o g
<1>1. /\ t \in Seq(X) /\ Len(t) = Len(q) + Len(g)
      /\ \A m \in 1 .. Len(q) : t[m] = q[m]
      /\ \A m \in 1 .. Len(g) : t[Len(q) + m] = g[m]
  BY JoinAt
<1> HIDE DEF t
<1>2. Goes(t, Len(q), g, 0)
  <2>1. Len(t) - Len(q) = Len(g)
    BY <1>1
  <2>2. \A m \in 1 .. Len(g) : 0 + m <= Len(g) /\ 0 + m = m
    OBVIOUS
  <2> QED
    BY <1>1, <2>1, <2>2 DEF Goes
<1> QED
  BY <1>1, <1>2 DEF t

\* A token put before a stream.
LEMMA PutBefore ==
  ASSUME NEW X, NEW q \in Seq(X), Len(q) = 1, NEW g \in Seq(X)
  PROVE  /\ q \o g \in Seq(X) /\ (q \o g)[1] = q[1]
         /\ Goes(q \o g, 1, g, 0)
<1>1. /\ q \o g \in Seq(X)
      /\ \A m \in 1 .. Len(q) : (q \o g)[m] = q[m]
      /\ Goes(q \o g, Len(q), g, 0)
  BY JoinGoes
<1> QED
  BY <1>1

\* The status line before the headers of a response.
LEMMA AddFinal ==
  ASSUME ResponseAssumption, NEW r \in Response, NEW q \in Seq(Token), Len(q) = 1,
         NEW g \in Seq(Token), q[1].k = "status", q[1].own, NoStatus(g), HeadFrom(g, 0, r)
  PROVE  q \o g \in Seq(Token) /\ OneResponse(q \o g) /\ Announced(q \o g, r.len)
<1> DEFINE t == q \o g
<1>1. t \in Seq(Token) /\ t[1] = q[1] /\ Goes(t, 1, g, 0)
  BY PutBefore
<1> HIDE DEF t
<1>2. ASSUME NEW p \in 1 .. Len(t), t[p].k = "status" PROVE p = 1
  <2> SUFFICES ASSUME p # 1 PROVE FALSE
    OBVIOUS
  <2>1. p - 1 \in 1 .. Len(t) - 1 /\ 1 + (p - 1) = p /\ 0 + (p - 1) = p - 1
    BY <1>1
  <2>2. p - 1 <= Len(g) /\ t[p] = g[p - 1]
    BY <1>1, <2>1 DEF Goes
  <2> QED
    BY <1>2, <2>1, <2>2 DEF NoStatus
<1>3. OneResponse(t)
  <2>1. \A p \in 1 .. Len(t) : t[p].k = "status" => t[p].own
    BY <1>1, <1>2
  <2>2. \A p, m \in 1 .. Len(t) : ~(p < m /\ t[p].k = "status" /\ t[m].k = "status")
    BY <1>2
  <2> QED
    BY <2>1, <2>2 DEF OneResponse
<1>4. HeadFrom(t, 1, r)
  BY <1>1, HeadCarries
<1>5. Announced(t, r.len)
  BY <1>2, <1>4 DEF Announced
<1> QED
  BY <1>1, <1>3, <1>5 DEF t

\* An informational status line before a response.
LEMMA AddInfo ==
  ASSUME ResponseAssumption, NEW d, NEW q \in Seq(Token), Len(q) = 1, NEW g \in Seq(Token),
         q[1].k = "status", q[1].own, q[1].v < 200, OneResponse(g), Announced(g, d)
  PROVE  q \o g \in Seq(Token) /\ OneResponse(q \o g) /\ Announced(q \o g, d)
<1> DEFINE t == q \o g
<1>1. t \in Seq(Token) /\ t[1] = q[1] /\ Goes(t, 1, g, 0)
  BY PutBefore
<1> HIDE DEF t
<1>2. ASSUME NEW p \in 1 .. Len(t), p # 1
      PROVE  p - 1 \in 1 .. Len(g) /\ t[p] = g[p - 1] /\ Goes(t, p, g, p - 1)
  <2>1. p - 1 \in 1 .. Len(t) - 1 /\ 1 + (p - 1) = p /\ 0 + (p - 1) = p - 1
    BY <1>1, <1>2
  <2>2. p - 1 <= Len(g) /\ t[p] = g[p - 1]
    BY <1>1, <2>1 DEF Goes
  <2>3. Goes(t, 1 + (p - 1), g, 0 + (p - 1))
    <3>1. p - 1 \in Nat /\ 0 \in Nat /\ 1 \in Nat
      BY <2>1
    <3> QED
      BY <1>1, <3>1, GoesOn
  <2> QED
    BY <2>1, <2>2, <2>3
<1>3. OneResponse(t)
  <2>1. \A p \in 1 .. Len(t) : t[p].k = "status" => t[p].own
    BY <1>1, <1>2 DEF OneResponse
  <2>2. ASSUME NEW p \in 1 .. Len(t), NEW m \in 1 .. Len(t), p < m, t[p].k = "status", t[m].k = "status"
        PROVE  t[p].v < 200
    <3>1. CASE p = 1
      BY <1>1, <3>1
    <3>2. CASE p # 1
      <4>1. p - 1 \in 1 .. Len(g) /\ t[p] = g[p - 1] /\ m - 1 \in 1 .. Len(g) /\ t[m] = g[m - 1]
            /\ p - 1 < m - 1
        BY <1>2, <2>2, <3>2
      <4> QED
        BY <2>2, <4>1 DEF OneResponse
    <3> QED
      BY <3>1, <3>2
  <2> QED
    BY <2>1, <2>2 DEF OneResponse
<1>5. Announced(t, d)
  <2> SUFFICES ASSUME NEW p \in 1 .. Len(t), t[p].k = "status", t[p].v >= 200
               PROVE  \E r \in Response : d = r.len /\ HeadFrom(t, p, r)
    BY DEF Announced
  <2>1. p # 1
    <3> SUFFICES ASSUME p = 1 PROVE FALSE
      OBVIOUS
    <3>0. q[1] \in Token
      OBVIOUS
    <3>1. q[1].v \in Nat
      BY <3>0 DEF Token
    <3> QED
      BY <1>1, <3>1
  <2>2. p - 1 \in 1 .. Len(g) /\ t[p] = g[p - 1] /\ Goes(t, p, g, p - 1)
    BY <1>2, <2>1
  <2>3. PICK r \in Response : d = r.len /\ HeadFrom(g, p - 1, r)
    BY <2>2 DEF Announced
  <2>4. p - 1 \in Nat /\ p \in Nat
    BY <2>2
  <2>5. HeadFrom(t, p, r)
    BY <1>1, <2>2, <2>3, <2>4, HeadCarries
  <2> QED
    BY <2>3, <2>5
<1> QED
  BY <1>1, <1>3, <1>5 DEF t


\* The body of a response, by itself.
LEMMA BodyRead ==
  ASSUME ResponseAssumption, NEW r \in Response
  PROVE  Body(r) \in Seq(Token) /\ BodyFrom(Body(r), 0, r) /\ NoStatus(Body(r))
<1> DEFINE c == r.body
           d == Tokens("data", c)
           e == Tokens("empty", 1)
           z == Tokens("size", 1)
           sc == [k |-> "size", v |-> c, own |-> TRUE]
<1>0. c \in Nat /\ r.chunked \in BOOLEAN
  BY DEF ResponseAssumption
<1>d. /\ d \in Seq(Token) /\ Len(d) = c
      /\ \A m \in 1 .. c : d[m] = [k |-> "data", v |-> 0, own |-> TRUE]
  <2>1. "data" \in Line \cup {"data"}
    OBVIOUS
  <2> QED
    BY <1>0, <2>1, TokensSeq
<1>e. e \in Seq(Token) /\ Len(e) = 1 /\ e[1].k = "empty" /\ e[1].v = 0
  <2>1. "empty" \in Line \cup {"data"}
    BY DEF Line
  <2> QED
    BY <2>1, OneToken
<1>z. z \in Seq(Token) /\ Len(z) = 1 /\ z[1].k = "size" /\ z[1].v = 0
  <2>1. "size" \in Line \cup {"data"}
    BY DEF Line
  <2> QED
    BY <2>1, OneToken
<1>s. <<sc>> \in Seq(Token) /\ Len(<<sc>>) = 1 /\ <<sc>>[1] = sc
  <2>1. sc \in Token
    BY <1>0 DEF Token, Line
  <2> HIDE DEF sc
  <2> QED
    BY <2>1
<1>b. Body(r) = IF ~r.chunked THEN d
                ELSE (IF c = 0 THEN <<>> ELSE <<sc>> \o d \o e) \o z \o e
  BY DEF Body
<1>d2. \A m \in 1 .. c : d[m].k = "data" /\ d[m].own
  BY <1>d
<1>k. sc.k = "size" /\ sc.v = c
  OBVIOUS
<1> HIDE DEF c, d, e, z, sc
<1>1. CASE ~r.chunked
  <2>1. DataFrom(d, 0, c) /\ NoStatus(d)
    BY <1>0, <1>d, <1>d2 DEF DataFrom, NoStatus
  <2>2. BodyFrom(d, 0, r)
    BY <1>1, <1>0, <1>d, <2>1 DEF BodyFrom, PlainFrom, c
  <2> QED
    BY <1>1, <1>b, <1>d, <2>1, <2>2
<1>2. CASE r.chunked
  <2> DEFINE l == z \o e
  <2>1. l \in Seq(Token) /\ Len(l) = 2 /\ l[1] = z[1] /\ l[2] = e[1]
    <3>1. /\ l \in Seq(Token) /\ Len(l) = Len(z) + Len(e)
          /\ \A m \in 1 .. Len(z) : l[m] = z[m]
          /\ \A m \in 1 .. Len(e) : l[Len(z) + m] = e[m]
      BY <1>e, <1>z, JoinAt
    <3> HIDE DEF l
    <3> QED
      BY <1>e, <1>z, <3>1
  <2> HIDE DEF l
  <2>2. CASE c = 0
    <3>1. Body(r) = l
      <4>1. Body(r) = <<>> \o z \o e
        BY <1>2, <1>b, <2>2
      <4>2. <<>> \o z = z
        BY <1>z
      <4> QED
        BY <4>1, <4>2 DEF l
    <3>2. DataFrom(l, 0, 0) /\ NoStatus(l)
      BY <2>1, <1>e, <1>z DEF DataFrom, NoStatus
    <3> QED
      BY <1>2, <2>1, <2>2, <3>1, <3>2 DEF BodyFrom, ChunkFrom, c
  <2>3. CASE c # 0
    <3> DEFINE m3 == e \o l
               dm == d \o m3
               q == <<sc>> \o dm
    <3>1. m3 \in Seq(Token) /\ Len(m3) = 3 /\ m3[1] = e[1] /\ m3[2] = z[1] /\ m3[3] = e[1]
      <4>1. /\ m3 \in Seq(Token) /\ Len(m3) = Len(e) + Len(l)
            /\ \A m \in 1 .. Len(e) : m3[m] = e[m]
            /\ \A m \in 1 .. Len(l) : m3[Len(e) + m] = l[m]
        <5>1. e \in Seq(Token) /\ l \in Seq(Token)
          BY <1>e, <2>1
        <5> QED
          BY <5>1, JoinAt
      <4> HIDE DEF m3
      <4>2. 1 \in 1 .. Len(e) /\ 1 \in 1 .. Len(l) /\ 2 \in 1 .. Len(l)
        BY <1>e, <2>1
      <4>3. m3[1] = e[1] /\ m3[1 + 1] = l[1] /\ m3[1 + 2] = l[2]
        BY <1>e, <4>1, <4>2
      <4> QED
        BY <1>e, <2>1, <4>1, <4>3
    <3>2. Body(r) = q
      <4>1. Body(r) = (((<<sc>> \o d) \o e) \o z) \o e
        BY <1>2, <1>b, <2>3
      <4>2. (((<<sc>> \o d) \o e) \o z) \o e = ((<<sc>> \o d) \o e) \o (z \o e)
        <5>1. (<<sc>> \o d) \o e \in Seq(Token)
          BY <1>s, <1>d, <1>e
        <5> QED
          BY <5>1, <1>z, <1>e, ConcatAssociative
      <4>3. ((<<sc>> \o d) \o e) \o l = (<<sc>> \o d) \o m3
        <5>1. <<sc>> \o d \in Seq(Token)
          BY <1>s, <1>d
        <5> QED
          BY <5>1, <1>e, <2>1, ConcatAssociative
      <4>4. (<<sc>> \o d) \o m3 = q
        <5>1. <<sc>> \in Seq(Token) /\ d \in Seq(Token) /\ m3 \in Seq(Token)
          BY <1>s, <1>d, <3>1
        <5> HIDE DEF m3
        <5> QED
          BY <5>1, ConcatAssociative
      <4> QED
        BY <4>1, <4>2, <4>3, <4>4 DEF l
    <3> HIDE DEF m3
    <3>3. /\ dm \in Seq(Token) /\ Len(dm) = c + 3
          /\ \A m \in 1 .. c : dm[m] = d[m]
          /\ \A m \in 1 .. 3 : dm[c + m] = m3[m]
      <4>1. /\ d \o m3 \in Seq(Token) /\ Len(d \o m3) = Len(d) + Len(m3)
            /\ \A m \in 1 .. Len(d) : (d \o m3)[m] = d[m]
            /\ \A m \in 1 .. Len(m3) : (d \o m3)[Len(d) + m] = m3[m]
        <5>1. d \in Seq(Token) /\ m3 \in Seq(Token)
          BY <1>d, <3>1
        <5> QED
          BY <5>1, JoinAt
      <4> QED
        BY <4>1, <1>d, <3>1
    <3> HIDE DEF dm
    <3>4. /\ \A m \in 1 .. c : dm[m].k = "data" /\ dm[m].own
          /\ \A m \in c + 1 .. c + 3 : dm[m].k \in {"empty", "size"} /\ dm[m].v = 0
      <4>1. \A m \in 1 .. c : dm[m].k = "data" /\ dm[m].own
        BY <3>3, <1>d2
      <4>2. \A m \in 1 .. 3 : m3[m].k \in {"empty", "size"} /\ m3[m].v = 0
        <5>1. \A m \in 1 .. 3 : m = 1 \/ m = 2 \/ m = 3
          OBVIOUS
        <5> QED
          BY <3>1, <1>e, <1>z, <5>1
      <4>3. ASSUME NEW m \in c + 1 .. c + 3
            PROVE  dm[m].k \in {"empty", "size"} /\ dm[m].v = 0
        <5>1. m - c \in 1 .. 3 /\ c + (m - c) = m
          BY <1>0
        <5> QED
          BY <5>1, <4>2, <3>3
      <4> QED
        BY <4>1, <4>3
    <3>5. DataFrom(dm, 0, c) /\ NoStatus(dm)
      <4>1. \A m \in 1 .. Len(dm) : m <= c \/ m \in c + 1 .. c + 3
        BY <1>0, <3>3
      <4>2. \A m \in 1 .. Len(dm) : m <= c => m \in 1 .. c
        BY <1>0
      <4>3. \A m \in c + 1 .. c + 3 : ~(m <= c)
        BY <1>0
      <4>4. Len(dm) - 0 = Len(dm) /\ \A m \in 1 .. Len(dm) : 0 + m = m
        BY <3>3
      <4> QED
        BY <3>4, <4>1, <4>2, <4>3, <4>4 DEF DataFrom, NoStatus
    <3>6. q \in Seq(Token) /\ q[1] = sc /\ Goes(q, 1, dm, 0)
      BY <1>s, <3>3, PutBefore
    <3> HIDE DEF q
    <3>7. DataFrom(q, 1, c)
      BY <1>0, <3>3, <3>5, <3>6, DataCarries
    <3>8. NoStatus(q)
      <4>1. \A p \in 1 .. 1 : q[p].k # "status"
        BY <3>6, <1>k
      <4> QED
        BY <3>3, <3>5, <3>6, <4>1, StatusCarries
    <3>9. ChunkFrom(q, 0, c)
      BY <2>3, <3>6, <3>7, <1>k DEF ChunkFrom
    <3> QED
      BY <1>2, <3>2, <3>6, <3>8, <3>9 DEF BodyFrom, c
  <2> QED
    BY <2>2, <2>3
<1> QED
  BY <1>0, <1>1, <1>2

\* What the server sends is one response, and its headers announce its body.
LEMMA PiecesRead ==
  ASSUME ResponseAssumption, NEW r \in Response
  PROVE  /\ Pieces(r) \in Seq(Token) /\ OneResponse(Pieces(r))
         /\ Announced(Pieces(r), r.len)
<1> DEFINE s1 == [k |-> "status", v |-> 100, own |-> TRUE]
           s2 == [k |-> "status", v |-> 200, own |-> TRUE]
           lt == [k |-> "length", v |-> r.len, own |-> TRUE]
           e == Tokens("empty", 1)
           i == IF r.info THEN <<s1>> \o e ELSE <<>>
           f == <<s2>>
           h == IF r.len = NoContentLength THEN Tokens("other", 1) ELSE <<lt>>
           c == IF r.chunked THEN Tokens("chunked", 1) ELSE <<>>
           b == Body(r)
<1>0. r.info \in BOOLEAN /\ r.chunked \in BOOLEAN /\ r.body \in Nat /\ r.len \in {NoContentLength, r.body}
  BY DEF ResponseAssumption
<1>b. b \in Seq(Token) /\ BodyFrom(b, 0, r) /\ NoStatus(b)
  BY BodyRead
<1>e. e \in Seq(Token) /\ Len(e) = 1 /\ e[1].k = "empty"
  <2>1. "empty" \in Line \cup {"data"}
    BY DEF Line
  <2> QED
    BY <2>1, OneToken
<1>c. c \in Seq(Token) /\ (r.chunked => Len(c) = 1 /\ c[1].k = "chunked") /\ (~r.chunked => c = <<>>)
  <2>1. "chunked" \in Line \cup {"data"}
    BY DEF Line
  <2>2. Tokens("chunked", 1) \in Seq(Token) /\ Len(Tokens("chunked", 1)) = 1
        /\ Tokens("chunked", 1)[1].k = "chunked"
    BY <2>1, OneToken
  <2> QED
    BY <2>2
<1>h. /\ h \in Seq(Token) /\ Len(h) = 1 /\ h[1].k # "status"
      /\ IF r.len = NoContentLength THEN h[1].k = "other"
         ELSE h[1].k = "length" /\ h[1].v = r.len
  <2>1. CASE r.len = NoContentLength
    <3>1. "other" \in Line \cup {"data"}
      BY DEF Line
    <3>2. Tokens("other", 1) \in Seq(Token) /\ Len(Tokens("other", 1)) = 1
          /\ Tokens("other", 1)[1].k = "other"
      BY <3>1, OneToken
    <3> QED
      BY <2>1, <3>2
  <2>2. CASE r.len # NoContentLength
    <3>1. lt \in Token /\ lt.k = "length" /\ lt.v = r.len
      BY <1>0, <2>2 DEF Token, Line
    <3> HIDE DEF lt
    <3> QED
      BY <2>2, <3>1
  <2> QED
    BY <2>1, <2>2
<1>f. f \in Seq(Token) /\ Len(f) = 1 /\ f[1].k = "status" /\ f[1].own
  <2>1. s2 \in Token /\ s2.k = "status" /\ s2.own
    BY DEF Token, Line
  <2> HIDE DEF s2
  <2> QED
    BY <2>1
<1>s. <<s1>> \in Seq(Token) /\ Len(<<s1>>) = 1 /\ <<s1>>[1].k = "status" /\ <<s1>>[1].own
      /\ <<s1>>[1].v < 200
  <2>1. s1 \in Token /\ s1.k = "status" /\ s1.own /\ s1.v < 200
    BY DEF Token, Line
  <2> HIDE DEF s1
  <2> QED
    BY <2>1
<1>i. i \in Seq(Token)
  BY <1>0, <1>s, <1>e
<1>p. Pieces(r) = ((((i \o f) \o h) \o c) \o e) \o b
  BY DEF Pieces
<1> HIDE DEF s1, s2, lt, e, f, h, c, b
<1> DEFINE eb == e \o b
           ceb == c \o eb
           hceb == h \o ceb
           rest == f \o hceb
<1>1. eb \in Seq(Token) /\ NoStatus(eb) /\ EndFrom(eb, 0, r)
  <2>1. eb \in Seq(Token) /\ eb[1] = e[1] /\ Goes(eb, 1, b, 0)
    BY <1>e, <1>b, PutBefore
  <2> HIDE DEF eb
  <2>2. \A p \in 1 .. 1 : eb[p].k # "status"
    BY <2>1, <1>e
  <2>3. NoStatus(eb)
    BY <1>b, <2>1, <2>2, StatusCarries
  <2>4. BodyFrom(eb, 1, r)
    BY <1>b, <2>1, HeadCarries
  <2> QED
    BY <2>1, <2>3, <2>4, <1>e DEF EndFrom
<1> HIDE DEF eb
<1>2. ceb \in Seq(Token) /\ NoStatus(ceb) /\ SecondFrom(ceb, 0, r)
  <2>1. CASE ~r.chunked
    <3>1. ceb = eb
      BY <2>1, <1>c, <1>1
    <3> QED
      BY <2>1, <3>1, <1>1 DEF SecondFrom
  <2>2. CASE r.chunked
    <3>1. ceb \in Seq(Token) /\ ceb[1] = c[1] /\ Goes(ceb, 1, eb, 0)
      BY <2>2, <1>c, <1>1, PutBefore
    <3> HIDE DEF ceb
    <3>2. \A p \in 1 .. 1 : ceb[p].k # "status"
      BY <2>2, <3>1, <1>c
    <3>3. NoStatus(ceb)
      BY <1>1, <3>1, <3>2, StatusCarries
    <3>4. EndFrom(ceb, 1, r)
      BY <1>1, <3>1, HeadCarries
    <3> QED
      BY <2>2, <3>1, <3>3, <3>4, <1>c DEF SecondFrom
  <2> QED
    BY <1>0, <2>1, <2>2
<1> HIDE DEF ceb
<1>3. hceb \in Seq(Token) /\ NoStatus(hceb) /\ HeadFrom(hceb, 0, r)
  <2>1. hceb \in Seq(Token) /\ hceb[1] = h[1] /\ Goes(hceb, 1, ceb, 0)
    BY <1>h, <1>2, PutBefore
  <2> HIDE DEF hceb
  <2>2. \A p \in 1 .. 1 : hceb[p].k # "status"
    BY <2>1, <1>h
  <2>3. NoStatus(hceb)
    BY <1>2, <2>1, <2>2, StatusCarries
  <2>4. SecondFrom(hceb, 1, r)
    BY <1>2, <2>1, HeadCarries
  <2> QED
    BY <2>1, <2>3, <2>4, <1>h DEF HeadFrom
<1> HIDE DEF hceb
<1>4. rest \in Seq(Token) /\ OneResponse(rest) /\ Announced(rest, r.len)
  BY <1>3, <1>f, AddFinal
<1> HIDE DEF i
<1>5. Pieces(r) = i \o rest
  <2>1. ((((i \o f) \o h) \o c) \o e) \o b = (((i \o f) \o h) \o c) \o eb
    <3> DEFINE y == ((i \o f) \o h) \o c
    <3>1. y \in Seq(Token)
      BY <1>i, <1>f, <1>h, <1>c
    <3>2. e \in Seq(Token) /\ b \in Seq(Token)
      BY <1>e, <1>b
    <3> HIDE DEF y
    <3>3. (y \o e) \o b = y \o (e \o b)
      BY <3>1, <3>2, ConcatAssociative
    <3> QED
      BY <3>3 DEF y, eb
  <2>2. (((i \o f) \o h) \o c) \o eb = ((i \o f) \o h) \o ceb
    <3> DEFINE y == (i \o f) \o h
    <3>1. y \in Seq(Token)
      BY <1>i, <1>f, <1>h
    <3>2. c \in Seq(Token) /\ eb \in Seq(Token)
      BY <1>c, <1>1
    <3> HIDE DEF y
    <3>3. (y \o c) \o eb = y \o (c \o eb)
      BY <3>1, <3>2, ConcatAssociative
    <3> QED
      BY <3>3 DEF y, ceb
  <2>3. ((i \o f) \o h) \o ceb = (i \o f) \o hceb
    <3> DEFINE y == i \o f
    <3>1. y \in Seq(Token)
      BY <1>i, <1>f
    <3>2. h \in Seq(Token) /\ ceb \in Seq(Token)
      BY <1>h, <1>2
    <3> HIDE DEF y
    <3>3. (y \o h) \o ceb = y \o (h \o ceb)
      BY <3>1, <3>2, ConcatAssociative
    <3> QED
      BY <3>3 DEF y, hceb
  <2>4. (i \o f) \o hceb = i \o rest
    BY <1>i, <1>f, <1>3, ConcatAssociative
  <2> QED
    BY <1>p, <2>1, <2>2, <2>3, <2>4
<1> HIDE DEF rest
<1>6. CASE ~r.info
  <2>1. i \o rest = rest
    BY <1>6, <1>4 DEF i
  <2> QED
    BY <1>4, <1>5, <2>1
<1>7. CASE r.info
  <2> DEFINE g == e \o rest
  <2>1. Pieces(r) = <<s1>> \o g
    <3>1. (<<s1>> \o e) \o rest = <<s1>> \o g
      BY <1>s, <1>e, <1>4, ConcatAssociative
    <3> QED
      BY <1>5, <1>7, <3>1 DEF i
  <2>2. g \in Seq(Token) /\ g[1] = e[1] /\ Goes(g, 1, rest, 0)
    BY <1>e, <1>4, PutBefore
  <2> HIDE DEF g
  <2>3. \A p \in 1 .. 1 : g[p].k # "status"
    BY <2>2, <1>e
  <2>4. OneResponse(g) /\ Announced(g, r.len)
    BY <1>4, <2>2, <2>3, StatusCarries
  <2>5. /\ <<s1>> \o g \in Seq(Token) /\ OneResponse(<<s1>> \o g)
        /\ Announced(<<s1>> \o g, r.len)
    BY <1>s, <2>2, <2>4, AddInfo
  <2> QED
    BY <2>1, <2>5
<1> QED
  BY <1>0, <1>6, <1>7

------------------------------------------------------------------------------
LEMMA AheadSeq ==
  HttpTypes => /\ Ahead \in Seq(Token) /\ Len(Ahead) = Len(rx) + Len(wire)
               /\ \A m \in 1 .. Len(rx) : Ahead[m] = rx[m]
BY JoinAt DEF Ahead, HttpTypes

\* Tokens are read from the front.
LEMMA DropGoes ==
  ASSUME NEW X, NEW q \in Seq(X), NEW t \in Seq(X), NEW w \in Seq(X), NEW c \in Nat,
         Drops(q, c, t)
  PROVE  Goes(t \o w, 0, q \o w, c)
<1> DEFINE tw == t \o w
           qw == q \o w
<1>1. /\ tw \in Seq(X) /\ Len(tw) = Len(t) + Len(w)
      /\ \A m \in 1 .. Len(t) : tw[m] = t[m]
      /\ \A m \in 1 .. Len(w) : tw[Len(t) + m] = w[m]
  BY JoinAt
<1>2. /\ qw \in Seq(X) /\ Len(qw) = Len(q) + Len(w)
      /\ \A m \in 1 .. Len(q) : qw[m] = q[m]
      /\ \A m \in 1 .. Len(w) : qw[Len(q) + m] = w[m]
  BY JoinAt
<1> HIDE DEF tw, qw
<1> SUFFICES ASSUME NEW m \in 1 .. Len(tw) PROVE c + m <= Len(qw) /\ tw[m] = qw[c + m]
  <2>1. Len(tw) - 0 = Len(tw) /\ \A m \in 1 .. Len(tw) : 0 + m = m
    BY <1>1
  <2> QED
    BY <2>1 DEF Goes, tw, qw
<1>0. Len(t) = Len(q) - c /\ \A p \in 1 .. Len(t) : t[p] = q[p + c]
  BY DEF Drops
<1>3. c + m <= Len(qw)
  BY <1>0, <1>1, <1>2
<1>4. CASE m <= Len(t)
  <2>1. m \in 1 .. Len(t) /\ c + m \in 1 .. Len(q) /\ m + c = c + m
    BY <1>0, <1>4
  <2> QED
    BY <1>0, <1>1, <1>2, <1>3, <2>1
<1>5. CASE m > Len(t)
  <2>1. m - Len(t) \in 1 .. Len(w) /\ Len(t) + (m - Len(t)) = m /\ Len(q) + (m - Len(t)) = c + m
    BY <1>0, <1>1, <1>5
  <2> QED
    BY <1>1, <1>2, <1>3, <2>1
<1> QED
  BY <1>4, <1>5

LEMMA ResponseSame ==
  Ahead' = Ahead /\ UNCHANGED <<iState, fields, got, pure, due>> =>
    (HeadersStand => HeadersStand') /\ (BodyStands => BodyStands')
BY DEF fields, HeadersStand, HeadersOf, BodyStands, BodyOf, Reset

LEMMA HttpInit == Init => AnswerInv
<1> SUFFICES ASSUME Init PROVE AnswerInv
  OBVIOUS
<1>1. HttpTypes
  <2>1. <<>> \in Seq(Token) /\ 0 \in Nat /\ FALSE \in BOOLEAN
    OBVIOUS
  <2> QED
    BY <2>1, Zenon DEF Init, HttpTypes
<1>2. Ahead = <<>>
  BY DEF Init, Ahead
<1>3. OneResponse(Ahead) /\ NoStatus(Ahead) /\ Announced(Ahead, due)
  BY <1>2 DEF OneResponse, NoStatus, Announced
<1> QED
  BY <1>1, <1>3 DEF AnswerInv, Init, CallStands, StatusStands, ResponseStands, SentStands, HeadersStand,
     BodyStands, TextStands, StatusIsOwn, Past, BodyState, Reset, BeforeSent

------------------------------------------------------------------------------
(* The server and the network.                                             *)

LEMMA AnswerSent == ResponseAssumption /\ AnswerInv /\ Answer => AnswerInv'
<1> SUFFICES ASSUME ResponseAssumption, AnswerInv, Answer PROVE AnswerInv'
  OBVIOUS
<1>1. HttpTypes /\ CallStands /\ StatusStands /\ StatusIsOwn /\ ~Late
  BY DEF AnswerInv, Answer, followed, Late
<1>2. asked = 1 /\ asked' = 0
  BY <1>1 DEF StatusStands, Answer
<1>3. PICK r \in Response : wire' = wire \o Pieces(r) /\ due' = r.len
  BY <1>2 DEF Answer
<1>4. Pieces(r) \in Seq(Token) /\ OneResponse(Pieces(r)) /\ Announced(Pieces(r), r.len)
  BY PiecesRead
<1>5. Ahead \in Seq(Token) /\ rx \in Seq(Token) /\ wire \in Seq(Token)
  BY <1>1, AheadSeq DEF HttpTypes
<1>6. Ahead' = Ahead \o Pieces(r)
  <2>1. (rx \o wire) \o Pieces(r) = rx \o (wire \o Pieces(r))
    BY <1>4, <1>5, ConcatAssociative
  <2>2. rx' = rx
    BY DEF Answer
  <2> QED
    BY <1>3, <2>1, <2>2 DEF Ahead
<1>7. NoStatus(Ahead)
  BY <1>1, <1>2 DEF StatusStands
<1>8. Ahead' \in Seq(Token) /\ OneResponse(Ahead') /\ Announced(Ahead', due')
  <2> DEFINE q == Ahead
             t == q \o Pieces(r)
  <2>1. /\ t \in Seq(Token) /\ Len(t) = Len(q) + Len(Pieces(r))
        /\ \A m \in 1 .. Len(q) : t[m] = q[m]
        /\ Goes(t, Len(q), Pieces(r), 0)
    BY <1>4, <1>5, JoinGoes
  <2>2. \A p \in 1 .. Len(q) : t[p].k # "status"
    BY <2>1, <1>7 DEF NoStatus
  <2>3. Len(q) \in Nat
    BY <1>5
  <2> HIDE DEF q, t
  <2>4. OneResponse(t) /\ Announced(t, r.len)
    BY <1>4, <2>1, <2>2, <2>3, StatusCarries
  <2> QED
    BY <1>3, <1>6, <2>1, <2>4 DEF t, q
<1>9. UNCHANGED <<iState, fields, rx, line, call, excuse>>
  BY DEF Answer
<1>10. HttpTypes'
  <2>1. wire' \in Seq(Token)
    BY <1>3, <1>4, <1>5
  <2> QED
    BY <1>1, <1>2, <1>9, <2>1 DEF HttpTypes, fields, call
<1>11. ~Past(iState) /\ ~line /\ ~(BeforeSent(iState) /\ "carried" \notin excuse)
  BY <1>1, <1>2 DEF StatusStands
<1>12. CallStands' /\ StatusStands' /\ StatusIsOwn'
  BY <1>1, <1>2, <1>8, <1>9, <1>11
     DEF CallStands, StatusStands, StatusIsOwn, fields, call, Late, Reset
<1>13. ASSUME excuse' = {} PROVE ResponseStands'
  <2>1. ResponseStands
    BY <1>9, <1>13 DEF AnswerInv
  <2> QED
    BY <1>2, <1>8, <1>9, <1>11, <2>1
       DEF ResponseStands, SentStands, HeadersStand, BodyStands, TextStands, Past, fields, call, Reset
<1> QED
  BY <1>10, <1>12, <1>13 DEF AnswerInv

LEMMA AnswerDelivered == AnswerInv /\ Deliver => AnswerInv'
<1> SUFFICES ASSUME AnswerInv, Deliver PROVE AnswerInv'
  OBVIOUS
<1>0. rx \in Seq(Token) /\ wire \in Seq(Token) /\ wire # <<>>
  BY DEF AnswerInv, HttpTypes, Deliver
<1>1. rx' = Append(rx, Head(wire)) /\ wire' = Tail(wire)
  BY DEF Deliver
<1>2. rx' \in Seq(Token) /\ wire' \in Seq(Token)
  BY <1>0, <1>1
<1>3. Ahead' = Ahead
  <2>1. <<Head(wire)>> \o Tail(wire) = wire /\ <<Head(wire)>> \in Seq(Token)
    BY <1>0
  <2>2. Append(rx, Head(wire)) = rx \o <<Head(wire)>>
    BY <1>0
  <2>3. (rx \o <<Head(wire)>>) \o Tail(wire) = rx \o (<<Head(wire)>> \o Tail(wire))
    BY <1>0, <2>1, ConcatAssociative
  <2> QED
    BY <1>1, <2>1, <2>2, <2>3 DEF Ahead
<1>4. UNCHANGED <<iState, fields, asked, line, call, due, excuse>>
  BY DEF Deliver
<1>5. HttpTypes'
  BY <1>2, <1>4 DEF AnswerInv, HttpTypes, fields, call
<1>6. CallStands' /\ StatusStands' /\ StatusIsOwn'
  BY <1>3, <1>4 DEF AnswerInv, CallStands, StatusStands, StatusIsOwn, fields, call, Late, Reset
<1>7. ASSUME excuse' = {} PROVE ResponseStands'
  <2>1. ResponseStands
    BY <1>4, <1>7 DEF AnswerInv
  <2>2. HeadersStand' /\ BodyStands'
    BY <1>3, <1>4, <2>1, ResponseSame DEF ResponseStands, call
  <2> QED
    BY <1>3, <1>4, <2>1, <2>2 DEF ResponseStands, SentStands, TextStands, fields, call, Reset
<1> QED
  BY <1>5, <1>6, <1>7 DEF AnswerInv

\* Whatever was on its way is gone; what was received stays.
LEMMA AnswerLost == ResponseAssumption /\ AnswerInv /\ ServerClose => AnswerInv'
<1> SUFFICES ASSUME ResponseAssumption, AnswerInv, ServerClose PROVE AnswerInv'
  OBVIOUS
<1>0. HttpTypes /\ rx \in Seq(Token) /\ wire \in Seq(Token) /\ Ahead \in Seq(Token)
  BY AheadSeq DEF AnswerInv, HttpTypes
<1>1. UNCHANGED <<iState, fields, rx, line, call, due, excuse>> /\ wire' = <<>> /\ asked' = 0
  BY DEF ServerClose
<1>2. Ahead' = rx
  BY <1>0, <1>1 DEF Ahead
<1>3. Goes(rx, 0, Ahead, 0)
  <2>1. Len(Ahead) >= Len(rx) /\ \A m \in 1 .. Len(rx) : Ahead[m] = rx[m]
    BY <1>0, AheadSeq
  <2>2. Len(rx) - 0 = Len(rx) /\ \A m \in 1 .. Len(rx) : 0 + m = m /\ m <= Len(Ahead)
    BY <1>0, <2>1
  <2> QED
    BY <2>1, <2>2 DEF Goes
<1>4. /\ NoStatus(Ahead) => NoStatus(Ahead')
      /\ OneResponse(Ahead) => OneResponse(Ahead')
      /\ Announced(Ahead, due) => Announced(Ahead', due)
  <2>1. \A p \in 1 .. 0 : rx[p].k # "status"
    OBVIOUS
  <2> QED
    BY <1>0, <1>2, <1>3, <2>1, StatusCarries
<1>5. HttpTypes'
  <2>1. <<>> \in Seq(Token) /\ 0 \in Nat
    OBVIOUS
  <2> QED
    BY <1>0, <1>1, <2>1 DEF HttpTypes, fields, call
<1>6. CallStands' /\ StatusStands' /\ StatusIsOwn'
  BY <1>1, <1>4 DEF AnswerInv, CallStands, StatusStands, StatusIsOwn, fields, call, Late, Reset
<1>7. ASSUME excuse' = {} PROVE ResponseStands'
  <2>1. ResponseStands
    BY <1>1, <1>7 DEF AnswerInv
  <2>2. HeadersStand'
    <3> SUFFICES ASSUME iState = "statusRead" PROVE HeadersStand'
      BY <1>1 DEF HeadersStand
    <3>1. PICK r \in Response : due = r.len /\ HeadersOf(r)
      BY <2>1 DEF ResponseStands, HeadersStand
    <3>2. /\ EndFrom(Ahead, 0, r) => EndFrom(Ahead', 0, r)
          /\ SecondFrom(Ahead, 0, r) => SecondFrom(Ahead', 0, r)
          /\ HeadFrom(Ahead, 0, r) => HeadFrom(Ahead', 0, r)
      BY <1>0, <1>2, <1>3, HeadCarries
    <3>3. HeadersOf(r)'
      BY <1>1, <3>1, <3>2 DEF HeadersOf, Reset, fields
    <3> QED
      BY <1>1, <2>1, <3>1, <3>3 DEF ResponseStands, HeadersStand, call
  <2>3. BodyStands'
    <3> SUFFICES ASSUME iState \in BodyState PROVE BodyStands'
      BY <1>1 DEF BodyStands
    <3>1. PICK r \in Response : due = r.len /\ BodyOf(r)
      BY <2>1 DEF ResponseStands, BodyStands
    <3>2. r.body - got \in Nat
      <4>1. r.body \in Nat /\ got \in Nat
        BY <1>0 DEF ResponseAssumption, HttpTypes
      <4> QED
        BY <3>1, <4>1 DEF BodyOf
    <3>3. /\ DataFrom(Ahead, 0, r.body - got) => DataFrom(Ahead', 0, r.body - got)
          /\ PlainFrom(Ahead, 0, r.body - got) => PlainFrom(Ahead', 0, r.body - got)
          /\ ChunkFrom(Ahead, 0, r.body - got) => ChunkFrom(Ahead', 0, r.body - got)
      BY <1>0, <1>2, <1>3, <3>2, DataCarries
    <3>4. BodyOf(r)'
      BY <1>1, <3>1, <3>3 DEF BodyOf, fields, call
    <3> QED
      BY <1>1, <2>1, <3>1, <3>4 DEF ResponseStands, BodyStands, call
  <2> QED
    BY <1>1, <1>4, <2>1, <2>2, <2>3 DEF ResponseStands, SentStands, TextStands, fields, call, Reset
<1> QED
  BY <1>5, <1>6, <1>7 DEF AnswerInv

------------------------------------------------------------------------------
(* Requests.                                                               *)

LEMMA KeepAliveSafe == AnswerInv /\ connectionKeepAlive => AnswerInv'
<1> SUFFICES ASSUME AnswerInv, connectionKeepAlive PROVE AnswerInv'
  OBVIOUS
<1>1. UNCHANGED <<iState, fields, net, call, due, excuse>>
  BY DEF connectionKeepAlive
<1>2. Ahead' = Ahead
  BY <1>1 DEF net, Ahead
<1>3. (HeadersStand => HeadersStand') /\ (BodyStands => BodyStands')
  BY <1>1, <1>2, ResponseSame DEF call
<1> QED
  BY <1>1, <1>2, <1>3
     DEF AnswerInv, HttpTypes, CallStands, StatusStands, ResponseStands, SentStands, TextStands,
         StatusIsOwn, Late, Reset, fields, net, call

LEMMA BeginRequestSafe == AnswerInv /\ beginRequest => AnswerInv'
<1> SUFFICES ASSUME AnswerInv, beginRequest PROVE AnswerInv'
  OBVIOUS
<1>1. /\ UNCHANGED <<fields, net, call, due>> /\ pc = "idle" /\ iState' = "started"
      /\ excuse' = IF BeforeSent(iState) THEN excuse ELSE excuse \cup {"carried"}
  BY DEF beginRequest, Idle
<1>2. Ahead' = Ahead
  BY <1>1 DEF net, Ahead
<1>3. HttpTypes' /\ StatusIsOwn'
  BY <1>1 DEF AnswerInv, HttpTypes, StatusIsOwn, fields, net, call
<1>4. CallStands' /\ StatusStands'
  BY <1>1, <1>2
     DEF AnswerInv, CallStands, StatusStands, Late, Reset, BeforeSent, Past, BodyState, fields, net, call
<1>5. ASSUME excuse' = {} PROVE ResponseStands'
  <2>1. excuse = {} /\ BeforeSent(iState)
    BY <1>1, <1>5
  <2>2. ResponseStands
    BY <2>1 DEF AnswerInv
  <2> QED
    BY <1>1, <1>2, <2>1, <2>2
       DEF ResponseStands, SentStands, HeadersStand, BodyStands, TextStands, BeforeSent, BodyState, net, call
<1> QED
  BY <1>3, <1>4, <1>5 DEF AnswerInv

LEMMA OlderSeq ==
  ASSUME NEW q \in Seq(Token)
  PROVE  /\ Older(q) \in Seq(Token) /\ Len(Older(q)) = Len(q)
         /\ \A p \in 1 .. Len(q) : Older(q)[p].k = q[p].k
<1>1. DOMAIN q = 1 .. Len(q) /\ Len(q) \in Nat
  OBVIOUS
<1>2. Older(q) = [p \in 1 .. Len(q) |-> [q[p] EXCEPT !.own = FALSE]]
  BY <1>1 DEF Older
<1>3. \A p \in 1 .. Len(q) : [q[p] EXCEPT !.own = FALSE] \in Token /\ [q[p] EXCEPT !.own = FALSE].k = q[p].k
  <2> TAKE p \in 1 .. Len(q)
  <2>1. q[p] \in Token
    OBVIOUS
  <2> QED
    BY <2>1 DEF Token
<1>4. Older(q) \in [1 .. Len(q) -> Token]
  BY <1>2, <1>3
<1>5. Older(q) \in Seq(Token) /\ Len(Older(q)) = Len(q)
  BY <1>1, <1>4, FunIsSeq
<1> QED
  BY <1>2, <1>3, <1>5

\* What is left of older responses has no status line unless they are late.
LEMMA OlderAhead ==
  ASSUME NEW q \in Seq(Token), NEW w \in Seq(Token), NoStatus(q \o w)
  PROVE  NoStatus(Older(q) \o Older(w))
<1> DEFINE a == Older(q)
           b == Older(w)
           t == a \o b
           g == q \o w
<1>1. a \in Seq(Token) /\ Len(a) = Len(q) /\ \A p \in 1 .. Len(q) : a[p].k = q[p].k
  BY OlderSeq
<1>2. b \in Seq(Token) /\ Len(b) = Len(w) /\ \A p \in 1 .. Len(w) : b[p].k = w[p].k
  BY OlderSeq
<1> HIDE DEF a, b
<1>3. /\ t \in Seq(Token) /\ Len(t) = Len(q) + Len(w)
      /\ \A m \in 1 .. Len(q) : t[m] = a[m]
      /\ \A m \in 1 .. Len(w) : t[Len(q) + m] = b[m]
  <2>1. /\ t \in Seq(Token) /\ Len(t) = Len(a) + Len(b)
        /\ \A m \in 1 .. Len(a) : t[m] = a[m]
        /\ \A m \in 1 .. Len(b) : t[Len(a) + m] = b[m]
    <3>1. a \in Seq(Token) /\ b \in Seq(Token)
      BY <1>1, <1>2
    <3> QED
      BY <3>1, JoinAt
  <2> QED
    BY <2>1, <1>1, <1>2
<1>4. /\ Len(g) = Len(q) + Len(w)
      /\ \A m \in 1 .. Len(q) : g[m] = q[m]
      /\ \A m \in 1 .. Len(w) : g[Len(q) + m] = w[m]
  BY JoinAt
<1> HIDE DEF t, g
<1> SUFFICES ASSUME NEW p \in 1 .. Len(t) PROVE t[p].k # "status"
  BY DEF NoStatus, t, a, b
<1>5. t[p].k = g[p].k
  <2>1. CASE p <= Len(q)
    <3>1. p \in 1 .. Len(q)
      BY <2>1
    <3>2. t[p] = a[p] /\ g[p] = q[p] /\ a[p].k = q[p].k
      BY <3>1, <1>1, <1>3, <1>4
    <3> QED
      BY <3>2
  <2>2. CASE p > Len(q)
    <3>1. p - Len(q) \in 1 .. Len(w) /\ Len(q) + (p - Len(q)) = p
      BY <2>2, <1>3
    <3> QED
      BY <3>1, <1>2, <1>3, <1>4
  <2> QED
    BY <2>1, <2>2
<1>6. p \in 1 .. Len(g) /\ NoStatus(g)
  BY <1>3, <1>4 DEF g
<1> QED
  BY <1>5, <1>6 DEF NoStatus

LEMMA NoneAnnounced ==
  ASSUME NEW q, NEW d, NoStatus(q)
  PROVE  OneResponse(q) /\ Announced(q, d)
BY DEF NoStatus, OneResponse, Announced

\* A request is complete: its answer is the next, unless an older one is late.
LEMMA CompleteSafe ==
  ASSUME HttpTypes, NEW q \in Seq(Token), NEW w \in Seq(Token), NEW open \in BOOLEAN,
         NEW pending \in Nat, NEW why, complete(q, w, open, pending, why),
         "late" \notin why => pending = 0 /\ NoStatus(q \o w),
         "carried" \notin why => Reset',
         iIsChunked' \in BOOLEAN, ret' # "text", StatusIsOwn', pc' = "idle"
  PROVE  AnswerInv'
<1>1. /\ iState' = "sent" /\ line' = FALSE /\ rx' = Older(q) /\ wire' = Older(w)
      /\ asked' = (IF open THEN pending + 1 ELSE pending)
      /\ excuse' = why \cap {"carried", "late"}
      /\ n' = 0 /\ got' = 0 /\ pure' = TRUE
  BY DEF complete
<1>2. rx' \in Seq(Token) /\ wire' \in Seq(Token)
  BY <1>1, OlderSeq
<1>3. Ahead' = Older(q) \o Older(w)
  BY <1>1 DEF Ahead
<1>4. "late" \notin why => NoStatus(Ahead') /\ OneResponse(Ahead') /\ Announced(Ahead', due')
  <2> SUFFICES ASSUME "late" \notin why
               PROVE  NoStatus(Ahead') /\ OneResponse(Ahead') /\ Announced(Ahead', due')
    OBVIOUS
  <2>1. NoStatus(Ahead')
    BY <1>3, OlderAhead
  <2> QED
    BY <2>1, NoneAnnounced
<1>5. HttpTypes'
  BY <1>1, <1>2 DEF HttpTypes
<1>6. CallStands'
  BY <1>1 DEF CallStands, BeforeSent
<1>7. StatusStands'
  <2> SUFFICES ASSUME ~Late' PROVE StatusStands'
    BY DEF StatusStands
  <2>1. "late" \notin why
    BY <1>1 DEF Late
  <2>2. asked' \in 0 .. 1
    BY <1>1, <2>1
  <2> QED
    BY <1>1, <1>4, <2>1, <2>2 DEF StatusStands, Past, BodyState, BeforeSent
<1>8. ASSUME excuse' = {} PROVE ResponseStands'
  <2>1. "late" \notin why /\ "carried" \notin why
    BY <1>1, <1>8
  <2> QED
    BY <1>1, <1>4, <2>1 DEF ResponseStands, SentStands, HeadersStand, BodyStands, TextStands, BodyState
<1> QED
  BY <1>5, <1>6, <1>7, <1>8 DEF AnswerInv

LEMMA EndRequestSafe == AnswerInv /\ endRequest => AnswerInv'
<1> SUFFICES ASSUME AnswerInv, endRequest PROVE AnswerInv'
  OBVIOUS
<1>0. HttpTypes /\ rx \in Seq(Token) /\ wire \in Seq(Token) /\ asked \in Nat
  BY DEF AnswerInv, HttpTypes
<1>1. /\ UNCHANGED <<fields, conn, pc, then, ret, retOwn>> /\ pc = "idle" /\ BeforeSent(iState)
      /\ IF line THEN complete(rx, wire, conn = "open", asked, excuse)
         ELSE iState' = "sent" /\ UNCHANGED <<line, rx, wire, asked, excuse, due, n, got, pure>>
  BY DEF endRequest, Idle
<1>2. CASE line
  <2>1. "late" \notin excuse => asked = 0 /\ NoStatus(rx \o wire)
    BY <1>2 DEF AnswerInv, StatusStands, Late, Ahead
  <2>2. "carried" \notin excuse => Reset'
    BY <1>1 DEF AnswerInv, CallStands, Reset, fields
  <2>3. iIsChunked' \in BOOLEAN /\ ret' # "text" /\ pc' = "idle"
    BY <1>1, <1>2 DEF AnswerInv, HttpTypes, CallStands, fields
  <2>4. complete(rx, wire, conn = "open", asked, excuse)
    BY <1>1, <1>2
  <2>5. StatusIsOwn'
    BY <1>1, <2>4 DEF AnswerInv, StatusIsOwn, complete
  <2>6. (conn = "open") \in BOOLEAN
    OBVIOUS
  <2> QED
    BY <1>0, <2>1, <2>2, <2>3, <2>4, <2>5, <2>6, CompleteSafe
<1>3. CASE ~line
  <2>1. iState' = "sent" /\ UNCHANGED <<line, rx, wire, asked, excuse, due, n, got, pure>>
    BY <1>1, <1>3
  <2>2. Ahead' = Ahead
    BY <2>1 DEF Ahead
  <2>3. HttpTypes' /\ StatusIsOwn'
    BY <1>1, <2>1 DEF AnswerInv, HttpTypes, StatusIsOwn, fields
  <2>4. CallStands' /\ StatusStands'
    BY <1>1, <1>3, <2>1, <2>2
       DEF AnswerInv, CallStands, StatusStands, Late, BeforeSent, Past, BodyState
  <2>5. ASSUME excuse' = {} PROVE ResponseStands'
    <3>1. ResponseStands
      BY <2>1, <2>5 DEF AnswerInv
    <3>2. asked = 0 /\ NoStatus(Ahead)
      BY <1>1, <2>1, <2>5 DEF AnswerInv, StatusStands, Late
    <3> QED
      BY <1>1, <2>1, <2>2, <3>1, <3>2
         DEF ResponseStands, SentStands, HeadersStand, BodyStands, TextStands, BeforeSent, BodyState
  <2> QED
    BY <2>3, <2>4, <2>5 DEF AnswerInv
<1> QED
  BY <1>2, <1>3

LEMMA NoneAhead ==
  ASSUME NEW d
  PROVE  <<>> \o <<>> = <<>> /\ NoStatus(<<>>) /\ OneResponse(<<>>) /\ Announced(<<>>, d)
<1>1. <<>> \o <<>> = <<>> /\ NoStatus(<<>>)
  BY DEF NoStatus
<1> QED
  BY <1>1, NoneAnnounced

LEMMA HttpStopSafe == AnswerInv /\ stop => AnswerInv'
<1> SUFFICES ASSUME AnswerInv, stop PROVE AnswerInv'
  OBVIOUS
<1>1. /\ rx' = <<>> /\ wire' = <<>> /\ asked' = 0 /\ line' = FALSE /\ iState' = "idle"
      /\ Reset' /\ iIsChunked' = FALSE /\ n' = 0 /\ got' = 0 /\ pure' = TRUE /\ ret' = "none" /\ pc' = "idle"
  BY DEF stop, resetState, Reset, returns
<1>2. Ahead' = <<>>
  BY <1>1, NoneAhead DEF Ahead
<1>3. NoStatus(Ahead') /\ OneResponse(Ahead') /\ Announced(Ahead', due')
  BY <1>2, NoneAhead
<1>4. HttpTypes'
  <2>1. <<>> \in Seq(Token) /\ 0 \in Nat /\ FALSE \in BOOLEAN
    OBVIOUS
  <2> QED
    BY <1>1, <2>1, Zenon DEF HttpTypes
<1> QED
  BY <1>1, <1>3, <1>4
     DEF AnswerInv, CallStands, StatusStands, ResponseStands, SentStands, HeadersStand, BodyStands,
         TextStands, StatusIsOwn, BeforeSent, Past, BodyState

\* What a read leaves when the socket is flushed, or a new connection starts.
LEMMA PartAhead ==
  ASSUME NEW q \in Seq(Token), NEW w \in Seq(Token), NoStatus(q \o w)
  PROVE  NoStatus(q) /\ NoStatus(w) /\ NoStatus(<<>> \o w)
<1> DEFINE t == q \o w
<1>1. /\ Len(t) = Len(q) + Len(w)
      /\ \A m \in 1 .. Len(q) : t[m] = q[m]
      /\ \A m \in 1 .. Len(w) : t[Len(q) + m] = w[m]
  BY JoinAt
<1>2. NoStatus(t)
  OBVIOUS
<1> HIDE DEF t
<1>3. NoStatus(q)
  BY <1>1, <1>2 DEF NoStatus
<1>4. \A m \in 1 .. Len(w) : Len(q) + m \in 1 .. Len(t)
  BY <1>1
<1>5. NoStatus(w)
  BY <1>1, <1>2, <1>4 DEF NoStatus
<1>6. <<>> \o w = w
  OBVIOUS
<1> QED
  BY <1>3, <1>5, <1>6

LEMMA StartFailsSafe == AnswerInv /\ startRequestFails => AnswerInv'
<1> SUFFICES ASSUME AnswerInv, startRequestFails PROVE AnswerInv'
  OBVIOUS
<1>0. HttpTypes /\ rx \in Seq(Token) /\ wire \in Seq(Token)
  BY DEF AnswerInv, HttpTypes
<1>1. /\ UNCHANGED <<wire, asked, line, n, got, pure, due>> /\ ret' = "error" /\ pc' = "idle"
      /\ pc = "idle" /\ rx' = (IF endOfHeadersReached THEN <<>> ELSE rx)
      /\ endOfHeadersReached \/ BeforeSent(iState)
      /\ IF endOfHeadersReached THEN iState' = "idle" /\ resetState /\ excuse' = excuse \ {"carried"}
         ELSE UNCHANGED <<iState, fields, excuse>>
  BY DEF startRequestFails, returns, Idle, flushClientRx
<1>2. CASE endOfHeadersReached
  <2>1. /\ rx' = <<>> /\ iState' = "idle" /\ Reset' /\ iIsChunked' = FALSE
        /\ excuse' = excuse \ {"carried"} /\ Past(iState)
    BY <1>1, <1>2 DEF resetState, Reset, Past, endOfHeadersReached
  <2>2. HttpTypes'
    <3>1. <<>> \in Seq(Token) /\ FALSE \in BOOLEAN
      OBVIOUS
    <3> QED
      BY <1>0, <1>1, <2>1, <3>1, Zenon DEF HttpTypes
  <2>3. ~Late' => asked' = 0 /\ NoStatus(Ahead') /\ OneResponse(Ahead') /\ Announced(Ahead', due')
    <3> SUFFICES ASSUME ~Late'
                 PROVE  asked' = 0 /\ NoStatus(Ahead') /\ OneResponse(Ahead') /\ Announced(Ahead', due')
      OBVIOUS
    <3>1. asked = 0 /\ NoStatus(rx \o wire)
      BY <2>1 DEF AnswerInv, StatusStands, Late, Ahead
    <3>2. NoStatus(Ahead')
      <4>1. NoStatus(<<>> \o wire)
        BY <1>0, <3>1, PartAhead
      <4> QED
        BY <1>1, <2>1, <4>1 DEF Ahead
    <3> QED
      BY <1>1, <3>1, <3>2, NoneAnnounced
  <2>4. ~line
    BY <1>2 DEF AnswerInv, CallStands, BeforeSent, endOfHeadersReached, BodyState
  <2>5. excuse' = {} => ~Late'
    BY DEF Late
  <2> QED
    BY <1>1, <2>1, <2>2, <2>3, <2>4, <2>5
       DEF AnswerInv, CallStands, StatusStands, ResponseStands, SentStands, HeadersStand, BodyStands,
           TextStands, StatusIsOwn, BeforeSent, Past, BodyState
<1>3. CASE ~endOfHeadersReached
  <2>1. UNCHANGED <<rx, iState, fields, excuse>> /\ BeforeSent(iState)
    BY <1>1, <1>3
  <2>2. Ahead' = Ahead
    BY <1>1, <2>1 DEF Ahead
  <2>3. HttpTypes' /\ StatusIsOwn'
    BY <1>0, <1>1, <2>1 DEF HttpTypes, StatusIsOwn, fields
  <2>4. CallStands' /\ StatusStands'
    BY <1>1, <2>1, <2>2 DEF AnswerInv, CallStands, StatusStands, Late, Reset, fields
  <2>5. ASSUME excuse' = {} PROVE ResponseStands'
    <3>1. ResponseStands
      BY <2>1, <2>5 DEF AnswerInv
    <3> QED
      BY <1>1, <2>1, <2>2, <3>1
         DEF ResponseStands, SentStands, HeadersStand, BodyStands, TextStands, BeforeSent, BodyState
  <2> QED
    BY <2>3, <2>4, <2>5 DEF AnswerInv
<1> QED
  BY <1>2, <1>3

LEMMA StartRequestSafe ==
  ASSUME AnswerInv, NEW hasBody \in BOOLEAN, startRequest(hasBody)
  PROVE  AnswerInv'
<1> DEFINE reading == endOfHeadersReached
           initial == IF reading THEN "idle" ELSE iState
           q == flushClientRx(reading)
           kept == keepsConnection(q)
           unread == IF kept THEN q ELSE <<>>
           coming == IF kept THEN wire ELSE <<>>
           pending == IF kept THEN asked ELSE 0
           why == (IF reading THEN excuse \ {"carried"} ELSE excuse)
                  \ (IF kept THEN {} ELSE {"late"})
           older == ~iConnectionClose /\ (Len(coming) + pending > 0 \/ "carried" \in why)
           excuses == IF older THEN why \cup {"late"} ELSE why
           open == kept => conn = "open"
<1>0. HttpTypes /\ rx \in Seq(Token) /\ wire \in Seq(Token) /\ asked \in Nat
  BY DEF AnswerInv, HttpTypes
<1>1. /\ pc = "idle" /\ BeforeSent(initial)
      /\ IF reading THEN resetState ELSE UNCHANGED fields
      /\ ret' = "none" /\ pc' = "idle"
  BY DEF startRequest, Idle, returns
<1>2. \/ complete(unread, coming, open, pending, excuses)
      \/ /\ ~reading /\ iState' = "started" /\ line' = TRUE /\ excuse' = excuses
         /\ rx' = unread /\ wire' = coming /\ asked' = pending
         /\ UNCHANGED <<due, n, got, pure>>
  BY DEF startRequest
<1>3. q = (IF reading THEN <<>> ELSE rx) /\ (kept => ~iConnectionClose)
  BY DEF flushClientRx, keepsConnection
<1>4. ~reading => BeforeSent(iState)
  BY <1>1
<1> HIDE DEF q
<1>5. unread \in Seq(Token) /\ coming \in Seq(Token) /\ pending \in Nat /\ open \in BOOLEAN
  <2> HIDE DEF kept, reading
  <2> QED
    BY <1>0, <1>3
<1>6. "late" \notin excuses => pending = 0 /\ NoStatus(unread \o coming)
  <2> SUFFICES ASSUME "late" \notin excuses PROVE pending = 0 /\ NoStatus(unread \o coming)
    OBVIOUS
  <2> HIDE DEF kept, reading
  <2>1. CASE ~kept
    BY <2>1, NoneAhead
  <2>2. CASE kept
    <3>1. ~older /\ ~iConnectionClose /\ "late" \notin excuse /\ "carried" \notin why
      BY <1>3, <2>2
    <3>2. pending = 0 /\ coming = <<>>
      <4>1. ~(Len(coming) + pending > 0)
        BY <3>1
      <4> QED
        BY <1>5, <4>1
    <3>3. NoStatus(unread)
      <4>1. CASE reading
        BY <1>3, <2>2, <4>1, NoneAhead
      <4>2. CASE ~reading
        <5>1. "carried" \notin excuse
          BY <3>1, <2>2, <4>2
        <5>2. NoStatus(rx \o wire)
          BY <1>4, <3>1, <4>2, <5>1 DEF AnswerInv, StatusStands, Late, Ahead
        <5>3. NoStatus(rx)
          BY <1>0, <5>2, PartAhead
        <5> QED
          BY <1>3, <2>2, <4>2, <5>3
      <4> QED
        BY <4>1, <4>2
    <3>4. unread \o coming = unread
      BY <1>5, <3>2
    <3> QED
      BY <3>2, <3>3, <3>4
  <2> QED
    BY <2>1, <2>2
<1>7. "carried" \notin excuses => Reset'
  <2> SUFFICES ASSUME "carried" \notin excuses PROVE Reset'
    OBVIOUS
  <2>1. CASE reading
    BY <1>1, <2>1 DEF resetState, Reset
  <2>2. CASE ~reading
    <3>1. "carried" \notin excuse
      <4> HIDE DEF kept, reading
      <4> QED
        BY <2>2
    <3>2. Reset
      BY <1>4, <2>2, <3>1 DEF AnswerInv, CallStands
    <3> QED
      BY <1>1, <2>2, <3>2 DEF Reset, fields
  <2> QED
    BY <2>1, <2>2
<1>8. iIsChunked' \in BOOLEAN
  BY <1>0, <1>1 DEF resetState, fields, HttpTypes
<1>9. StatusIsOwn'
  BY <1>1 DEF StatusIsOwn
<1> HIDE DEF unread, coming, pending, excuses, open
<1>10. CASE complete(unread, coming, open, pending, excuses)
  BY <1>0, <1>1, <1>5, <1>6, <1>7, <1>8, <1>9, <1>10, CompleteSafe
<1>11. CASE /\ ~reading /\ iState' = "started" /\ line' = TRUE /\ excuse' = excuses
            /\ rx' = unread /\ wire' = coming /\ asked' = pending
            /\ UNCHANGED <<due, n, got, pure>>
  <2>1. HttpTypes'
    BY <1>0, <1>5, <1>8, <1>11 DEF HttpTypes
  <2>2. ~Late' => asked' = 0 /\ NoStatus(Ahead') /\ OneResponse(Ahead') /\ Announced(Ahead', due')
    <3> SUFFICES ASSUME ~Late'
                 PROVE  asked' = 0 /\ NoStatus(Ahead') /\ OneResponse(Ahead') /\ Announced(Ahead', due')
      OBVIOUS
    <3>1. asked' = 0 /\ NoStatus(Ahead')
      BY <1>6, <1>11 DEF Late, Ahead
    <3> QED
      BY <3>1, NoneAnnounced
  <2>3. CallStands'
    BY <1>1, <1>7, <1>11 DEF CallStands, BeforeSent
  <2>4. StatusStands'
    BY <2>2 DEF StatusStands
  <2>5. ASSUME excuse' = {} PROVE ResponseStands'
    <3>1. Announced(Ahead', due')
      BY <2>2, <2>5 DEF Late
    <3> QED
      BY <1>1, <1>11, <3>1 DEF ResponseStands, SentStands, HeadersStand, BodyStands, TextStands, BodyState
  <2> QED
    BY <1>9, <2>1, <2>3, <2>4, <2>5 DEF AnswerInv
<1> QED
  BY <1>2, <1>10, <1>11

------------------------------------------------------------------------------
(* The status line and the headers.                                        *)

LEMMA StatusCodeSafe == AnswerInv /\ responseStatusCode => AnswerInv'
<1> SUFFICES ASSUME AnswerInv, responseStatusCode PROVE AnswerInv'
  OBVIOUS
<1>1. /\ UNCHANGED <<fields, net, n, got, pure, due, excuse>> /\ ~BeforeSent(iState)
      /\ pc' = "status" /\ iState' = "sent" /\ ret' = "none"
  BY DEF responseStatusCode
<1>2. Ahead' = Ahead
  BY <1>1 DEF net, Ahead
<1>3. HttpTypes' /\ StatusIsOwn'
  BY <1>1 DEF AnswerInv, HttpTypes, StatusIsOwn, fields, net
<1>4. CallStands' /\ StatusStands'
  BY <1>1, <1>2 DEF AnswerInv, CallStands, StatusStands, Late, BeforeSent, Past, BodyState, net
<1>5. ASSUME excuse' = {} PROVE ResponseStands'
  <2>1. ResponseStands
    BY <1>1, <1>5 DEF AnswerInv
  <2>2. iState = "sent" \/ (asked = 0 /\ NoStatus(Ahead))
    <3>1. ~Late
      BY <1>1, <1>5 DEF Late
    <3>2. iState = "sent" \/ Past(iState)
      BY <1>1 DEF AnswerInv, CallStands
    <3> QED
      BY <3>1, <3>2 DEF AnswerInv, StatusStands
  <2> QED
    BY <1>1, <1>2, <2>1, <2>2
       DEF ResponseStands, SentStands, HeadersStand, BodyStands, TextStands, BodyState, Reset, fields, net
<1> QED
  BY <1>3, <1>4, <1>5 DEF AnswerInv

LEMMA StatusTimeoutSafe == AnswerInv /\ statusTimeout => AnswerInv'
<1> SUFFICES ASSUME AnswerInv, statusTimeout PROVE AnswerInv'
  OBVIOUS
<1>1. /\ UNCHANGED <<iState, fields, net, n, got, pure, due, excuse>>
      /\ pc' = "idle" /\ ret' = "timeout"
  BY DEF statusTimeout, returns
<1>2. Ahead' = Ahead
  BY <1>1 DEF net, Ahead
<1>3. (HeadersStand => HeadersStand') /\ (BodyStands => BodyStands')
  BY <1>1, <1>2, ResponseSame
<1> QED
  BY <1>1, <1>2, <1>3
     DEF AnswerInv, HttpTypes, CallStands, StatusStands, ResponseStands, SentStands, TextStands,
         StatusIsOwn, Late, Reset, fields, net

\* Of the stream the first token is gone, or spoilt.
LEMMA BittenGoes ==
  ASSUME HttpTypes, rx # <<>>, Head(rx).k # "status", rx' = Bitten(rx), wire' = wire
  PROVE  /\ rx' \in Seq(Token)
         /\ \E b \in Nat : /\ Goes(Ahead', b, Ahead, 1)
                           /\ \A p \in 1 .. b : Ahead'[p].k # "status"
<1>0. rx \in Seq(Token) /\ wire \in Seq(Token) /\ wire' \in Seq(Token) /\ Head(rx) = rx[1] /\ Len(rx) >= 1
  BY DEF HttpTypes
<1>1. Tail(rx) \in Seq(Token) /\ Drops(rx, 1, Tail(rx))
  BY <1>0 DEF Drops
<1>2. Goes(Tail(rx) \o wire, 0, rx \o wire, 1)
  BY <1>0, <1>1, DropGoes
<1>3. CASE Head(rx).k = "data"
  <2>1. rx' = Tail(rx)
    BY <1>3 DEF Bitten
  <2>2. Ahead' = Tail(rx) \o wire
    BY <2>1 DEF Ahead
  <2>3. 0 \in Nat /\ \A p \in 1 .. 0 : Ahead'[p].k # "status"
    OBVIOUS
  <2> QED
    BY <1>1, <1>2, <2>1, <2>2, <2>3 DEF Ahead
<1>4. CASE Head(rx).k # "data"
  <2> DEFINE x == [Head(rx) EXCEPT !.k = "rest"]
             u == Tail(rx) \o wire
             t == <<x>> \o u
  <2>1. x \in Token /\ x.k # "status"
    <3>1. Head(rx) \in Token
      BY <1>0
    <3> QED
      BY <3>1 DEF Token, Line
  <2>2. rx' = <<x>> \o Tail(rx)
    BY <1>4 DEF Bitten
  <2> HIDE DEF x
  <2>3. <<x>> \in Seq(Token) /\ Len(<<x>>) = 1 /\ <<x>>[1] = x
    BY <2>1
  <2>4. Ahead' = t
    BY <1>0, <1>1, <2>2, <2>3, ConcatAssociative DEF Ahead
  <2>5. u \in Seq(Token)
    BY <1>0, <1>1
  <2> HIDE DEF u
  <2>6. t \in Seq(Token) /\ t[1] = x /\ Goes(t, 1, u, 0)
    BY <2>3, <2>5, PutBefore
  <2> HIDE DEF t
  <2>7. Goes(t, 1, Ahead, 1)
    <3> SUFFICES ASSUME NEW m \in 1 .. Len(t) - 1
                 PROVE  1 + m <= Len(Ahead) /\ t[1 + m] = Ahead[1 + m]
      BY DEF Goes
    <3>1. 0 + m <= Len(u) /\ t[1 + m] = u[0 + m]
      BY <2>6 DEF Goes
    <3>2. m \in 1 .. Len(u) - 0 /\ 0 + m = m
      BY <2>5, <2>6, <3>1
    <3>3. 1 + m <= Len(Ahead) /\ u[0 + m] = Ahead[1 + m]
      BY <1>2, <3>2 DEF Goes, u, Ahead
    <3> QED
      BY <3>1, <3>3
  <2>8. \A p \in 1 .. 1 : t[p].k # "status"
    BY <2>1, <2>6
  <2>9. rx' \in Seq(Token)
    BY <1>1, <2>2, <2>3
  <2> QED
    BY <2>4, <2>7, <2>8, <2>9
<1> QED
  BY <1>3, <1>4

\* The stream after its first token.
LEMMA TailGoes ==
  ASSUME HttpTypes, rx # <<>>, rx' = Tail(rx), wire' = wire
  PROVE  /\ rx' \in Seq(Token) /\ Ahead \in Seq(Token) /\ Ahead' \in Seq(Token)
         /\ Goes(Ahead', 0, Ahead, 1)
         /\ Head(rx) \in Token /\ Ahead[1] = Head(rx) /\ Len(Ahead) >= 1
<1>0. rx \in Seq(Token) /\ wire \in Seq(Token) /\ Head(rx) = rx[1] /\ Len(rx) >= 1 /\ Head(rx) \in Token
  BY DEF HttpTypes
<1>1. Tail(rx) \in Seq(Token) /\ Drops(rx, 1, Tail(rx))
  BY <1>0 DEF Drops
<1>2. Goes(Tail(rx) \o wire, 0, rx \o wire, 1)
  BY <1>0, <1>1, DropGoes
<1>3. Tail(rx) \o wire \in Seq(Token)
  BY <1>0, <1>1
<1>4. Ahead \in Seq(Token) /\ Len(Ahead) >= 1 /\ Ahead[1] = Head(rx)
  BY <1>0, AheadSeq
<1>5. Ahead' = Tail(rx) \o wire
  BY DEF Ahead
<1> QED
  BY <1>0, <1>1, <1>2, <1>3, <1>4, <1>5 DEF Ahead

LEMMA ReadStatusSafe == ResponseAssumption /\ AnswerInv /\ readStatus => AnswerInv'
<1> SUFFICES ASSUME ResponseAssumption, AnswerInv, readStatus PROVE AnswerInv'
  OBVIOUS
<1>0. HttpTypes /\ CallStands /\ StatusStands /\ StatusIsOwn /\ rx # <<>> /\ iState = "sent" /\ pc = "status"
  BY DEF AnswerInv, CallStands, readStatus
<1>1. UNCHANGED <<fields, wire, asked, line, n, got, pure, due, excuse>>
  BY DEF readStatus
<1>2. Ahead \in Seq(Token)
  BY <1>0, AheadSeq
<1>3. ASSUME rx' \in Seq(Token), iState' = "sent", pc' \in {"idle", "status"}, ret' \in {"none", "invalid"},
             pc' = "status" => ret' = "none",
             NEW b \in Nat, Goes(Ahead', b, Ahead, 1), \A p \in 1 .. b : Ahead'[p].k # "status"
      PROVE  AnswerInv'
  <2>1. HttpTypes'
    BY <1>0, <1>1, <1>3 DEF HttpTypes, fields
  <2>2. Ahead' \in Seq(Token)
    BY <1>0, <1>1, <1>3 DEF Ahead, HttpTypes
  <2>3. /\ NoStatus(Ahead) => NoStatus(Ahead')
        /\ OneResponse(Ahead) => OneResponse(Ahead')
        /\ Announced(Ahead, due) => Announced(Ahead', due)
    <3> DEFINE t == Ahead'
    <3>1. t \in Seq(Token) /\ Goes(t, b, Ahead, 1) /\ \A p \in 1 .. b : t[p].k # "status"
      BY <1>3, <2>2
    <3> HIDE DEF t
    <3>2. /\ NoStatus(Ahead) => NoStatus(t)
          /\ OneResponse(Ahead) => OneResponse(t)
          /\ Announced(Ahead, due) => Announced(t, due)
      BY <1>2, <3>1, StatusCarries
    <3> QED
      BY <3>2 DEF t
  <2>4. CallStands' /\ StatusStands' /\ StatusIsOwn'
    BY <1>0, <1>1, <1>3, <2>3
       DEF CallStands, StatusStands, StatusIsOwn, Late, BeforeSent, Past, BodyState
  <2>5. ASSUME excuse' = {} PROVE ResponseStands'
    <3>1. ResponseStands
      BY <1>1, <2>5 DEF AnswerInv
    <3> QED
      BY <1>0, <1>1, <1>3, <2>3, <3>1
         DEF ResponseStands, SentStands, HeadersStand, BodyStands, TextStands, BodyState, Reset, fields
  <2> QED
    BY <2>1, <2>4, <2>5 DEF AnswerInv
<1>4. CASE Head(rx).k # "status"
  <2>1. rx' = Bitten(rx) /\ iState' = "sent" /\ pc' = "idle" /\ ret' = "invalid"
    BY <1>4 DEF readStatus, returns
  <2>2. /\ rx' \in Seq(Token)
        /\ \E b \in Nat : Goes(Ahead', b, Ahead, 1) /\ \A p \in 1 .. b : Ahead'[p].k # "status"
    BY <1>0, <1>1, <1>4, <2>1, BittenGoes
  <2> QED
    BY <1>3, <2>1, <2>2
<1>5. CASE Head(rx).k = "status"
  <2>0. rx' = Tail(rx)
    BY <1>5 DEF readStatus
  <2>1. /\ rx' \in Seq(Token) /\ Ahead \in Seq(Token) /\ Ahead' \in Seq(Token)
        /\ Goes(Ahead', 0, Ahead, 1)
        /\ Head(rx) \in Token /\ Ahead[1] = Head(rx) /\ Len(Ahead) >= 1
    BY <1>0, <1>1, <2>0, TailGoes
  <2>2. ~NoStatus(Ahead)
    BY <1>5, <2>1 DEF NoStatus
  <2>3. CASE informational
    <3>1. iState' = "sent" /\ UNCHANGED <<pc, then, ret, retOwn>>
      BY <1>5, <2>3 DEF readStatus
    <3>2. 0 \in Nat /\ \A p \in 1 .. 0 : Ahead'[p].k # "status"
      OBVIOUS
    <3>3. ret = "none"
      BY <1>0 DEF CallStands
    <3> QED
      BY <1>0, <1>3, <2>1, <3>1, <3>2, <3>3
  <2>4. CASE ~informational
    <3>1. iState' = "statusRead" /\ pc' = "idle" /\ ret' = "status" /\ retOwn' = Head(rx).own
      BY <1>5, <2>4 DEF readStatus
    <3>2. Head(rx).v >= 200
      <4>1. Head(rx).v \in Nat
        BY <2>1 DEF Token
      <4> QED
        BY <2>4, <4>1 DEF informational
    <3>3. HttpTypes'
      BY <1>0, <1>1, <2>1 DEF HttpTypes, fields
    <3>4. ASSUME ~Late
          PROVE  asked = 0 /\ NoStatus(Ahead') /\ OneResponse(Ahead') /\ Announced(Ahead', due) /\ Head(rx).own
      <4>1. OneResponse(Ahead) /\ asked = 0
        BY <1>0, <2>2, <3>4 DEF StatusStands
      <4>2. Head(rx).own
        BY <1>5, <2>1, <4>1 DEF OneResponse
      <4>3. NoStatus(Ahead')
        <5> SUFFICES ASSUME NEW p \in 1 .. Len(Ahead'), Ahead'[p].k = "status" PROVE FALSE
          BY DEF NoStatus
        <5> DEFINE t == Ahead'
        <5>1. t \in Seq(Token) /\ Goes(t, 0, Ahead, 1) /\ p \in 1 .. Len(t) /\ t[p].k = "status"
          BY <2>1
        <5> HIDE DEF t
        <5>2. p \in 1 .. Len(t) - 0 /\ 0 + p = p
          BY <5>1
        <5>3. 1 + p <= Len(Ahead) /\ t[p] = Ahead[1 + p]
          BY <5>1, <5>2 DEF Goes
        <5>4. 1 \in 1 .. Len(Ahead) /\ 1 + p \in 1 .. Len(Ahead) /\ 1 < 1 + p
          BY <2>1, <5>1, <5>3
        <5>5. Ahead[1].v < 200
          BY <1>5, <2>1, <4>1, <5>1, <5>3, <5>4 DEF OneResponse
        <5>6. Head(rx).v \in Nat
          BY <2>1 DEF Token
        <5> QED
          BY <2>1, <3>2, <5>5, <5>6
      <4> QED
        BY <4>1, <4>2, <4>3, NoneAnnounced
    <3>5. CallStands' /\ StatusStands' /\ StatusIsOwn'
      BY <1>0, <1>1, <3>1, <3>4
         DEF CallStands, StatusStands, StatusIsOwn, Late, BeforeSent, Past, BodyState
    <3>6. ASSUME excuse' = {} PROVE ResponseStands'
      <4>1. ResponseStands /\ ~Late
        BY <1>1, <3>6 DEF AnswerInv, Late
      <4>2. Reset /\ got = 0 /\ pure /\ Announced(Ahead, due)
        BY <1>0, <2>2, <4>1 DEF ResponseStands, SentStands
      <4>3. PICK r \in Response : due = r.len /\ HeadFrom(Ahead, 1, r)
        <5>1. 1 \in 1 .. Len(Ahead) /\ Ahead[1].k = "status" /\ Ahead[1].v >= 200
          BY <1>5, <2>1, <3>2
        <5> QED
          BY <4>2, <5>1 DEF Announced
      <4>4. HeadFrom(Ahead', 0, r)
        <5> DEFINE t == Ahead'
        <5>1. t \in Seq(Token) /\ Goes(t, 0, Ahead, 1)
          BY <2>1
        <5> HIDE DEF t
        <5>2. HeadFrom(t, 0, r)
          BY <1>2, <4>3, <5>1, HeadCarries
        <5> QED
          BY <5>2 DEF t
      <4>5. Reset' /\ got' = 0 /\ pure'
        BY <1>1, <4>2 DEF Reset, fields
      <4>6. HeadersStand'
        BY <1>1, <4>3, <4>4, <4>5 DEF HeadersStand, HeadersOf
      <4> QED
        BY <1>1, <3>1, <3>4, <4>1, <4>6
           DEF ResponseStands, SentStands, BodyStands, TextStands, BodyState
    <3> QED
      BY <3>3, <3>5, <3>6 DEF AnswerInv
  <2> QED
    BY <2>3, <2>4
<1> QED
  BY <1>4, <1>5

LEMMA SkipHeadersSafe ==
  ASSUME AnswerInv, NEW next \in {"return", "body"}, skipResponseHeaders(next)
  PROVE  AnswerInv'
<1>1. /\ UNCHANGED <<iState, fields, net, got, pure, due, excuse>> /\ statusKnown
      /\ pc' = "headers" /\ ret' = "none" /\ n' = 0
  BY DEF skipResponseHeaders
<1>2. Ahead' = Ahead
  BY <1>1 DEF net, Ahead
<1>3. (HeadersStand => HeadersStand') /\ (BodyStands => BodyStands')
  BY <1>1, <1>2, ResponseSame
<1>4. Past(iState)
  BY <1>1 DEF AnswerInv, CallStands, statusKnown
<1> QED
  BY <1>1, <1>2, <1>3, <1>4
     DEF AnswerInv, HttpTypes, CallStands, StatusStands, ResponseStands, SentStands, TextStands,
         StatusIsOwn, Late, Reset, fields, net

LEMMA HeaderAvailableSafe == AnswerInv /\ headerAvailable => AnswerInv'
<1> SUFFICES ASSUME AnswerInv, headerAvailable PROVE AnswerInv'
  OBVIOUS
<1>1. /\ UNCHANGED <<iState, fields, net, n, got, pure, due, excuse>> /\ statusKnown
      /\ pc' = "header" /\ ret' = "none"
  BY DEF headerAvailable
<1>2. Ahead' = Ahead
  BY <1>1 DEF net, Ahead
<1>3. (HeadersStand => HeadersStand') /\ (BodyStands => BodyStands')
  BY <1>1, <1>2, ResponseSame
<1>4. Past(iState)
  BY <1>1 DEF AnswerInv, CallStands, statusKnown
<1> QED
  BY <1>1, <1>2, <1>3, <1>4
     DEF AnswerInv, HttpTypes, CallStands, StatusStands, ResponseStands, SentStands, TextStands,
         StatusIsOwn, Late, Reset, fields, net

LEMMA HeaderDoneSafe == AnswerInv /\ headerDone => AnswerInv'
<1> SUFFICES ASSUME AnswerInv, headerDone PROVE AnswerInv'
  OBVIOUS
<1>1. /\ UNCHANGED <<iState, fields, net, n, got, pure, ret, retOwn, due, excuse>>
      /\ pc' = "idle"
  BY DEF headerDone
<1>2. Ahead' = Ahead
  BY <1>1 DEF net, Ahead
<1>3. (HeadersStand => HeadersStand') /\ (BodyStands => BodyStands')
  BY <1>1, <1>2, ResponseSame
<1> QED
  BY <1>1, <1>2, <1>3
     DEF AnswerInv, HttpTypes, CallStands, StatusStands, ResponseStands, SentStands, TextStands,
         StatusIsOwn, Late, Reset, fields, net

LEMMA HeadersEndSafe == AnswerInv /\ headersEnd => AnswerInv'
<1> SUFFICES ASSUME AnswerInv, headersEnd PROVE AnswerInv'
  OBVIOUS
<1>1. /\ UNCHANGED <<iState, fields, net, n, got, pure, due>> /\ pc = "headers"
      /\ excuse' = IF endOfHeadersReached THEN excuse ELSE excuse \cup {"noHeaders"}
      /\ \/ pc' = "body" /\ UNCHANGED <<ret, retOwn>>
         \/ pc' = "idle" /\ ret' \in {"none", "timeout"}
  BY DEF headersEnd, returns
<1>2. Ahead' = Ahead
  BY <1>1 DEF net, Ahead
<1>3. (HeadersStand => HeadersStand') /\ (BodyStands => BodyStands')
  BY <1>1, <1>2, ResponseSame
<1>4. HttpTypes' /\ StatusIsOwn'
  BY <1>1 DEF AnswerInv, HttpTypes, StatusIsOwn, fields, net
<1>5. CallStands' /\ StatusStands'
  BY <1>1, <1>2 DEF AnswerInv, CallStands, StatusStands, Late, Reset, fields, net
<1>6. ASSUME excuse' = {} PROVE ResponseStands'
  <2>1. excuse = {} /\ iState \in BodyState
    BY <1>1, <1>6 DEF endOfHeadersReached
  <2>2. ResponseStands
    BY <2>1 DEF AnswerInv
  <2>3. got \in Nat
    BY DEF AnswerInv, HttpTypes
  <2> QED
    BY <1>1, <1>2, <1>3, <2>1, <2>2, <2>3 DEF ResponseStands, SentStands, TextStands, Reset, fields, net
<1> QED
  BY <1>4, <1>5, <1>6 DEF AnswerInv

\* A header line is read.
LEMMA ReadHeaderSafe ==
  ASSUME ResponseAssumption, AnswerInv, pc \in {"headers", "header"}, ~endOfHeadersReached, rx # <<>>,
         readHeader(Head(rx)), rx' = Tail(rx), pc' \in {pc, "idle"},
         UNCHANGED <<wire, asked, line, n, got, pure, ret, retOwn, due, excuse>>
  PROVE  AnswerInv'
<1>0. HttpTypes /\ CallStands /\ StatusStands /\ StatusIsOwn
  BY DEF AnswerInv
<1>1. iState \in {"statusRead", "skip"} /\ Past(iState)
  BY <1>0 DEF CallStands, Past, endOfHeadersReached
<1>2. /\ rx' \in Seq(Token) /\ Ahead \in Seq(Token) /\ Ahead' \in Seq(Token)
      /\ Goes(Ahead', 0, Ahead, 1)
      /\ Head(rx) \in Token /\ Ahead[1] = Head(rx) /\ Len(Ahead) >= 1
  BY <1>0, TailGoes
<1> DEFINE a == Head(rx)
           t == Ahead'
<1>3. t \in Seq(Token) /\ Goes(t, 0, Ahead, 1) /\ a \in Token /\ Ahead[1] = a /\ t = Ahead' /\ a = Head(rx)
  BY <1>2
<1> HIDE DEF a, t
<1>h. /\ ~(iState = "statusRead") => (iState' = (IF a.k \in Line THEN "statusRead" ELSE iState) /\ UNCHANGED fields)
      /\ iState = "statusRead" =>
           CASE a.k = "length" ->
              /\ iContentLength' = a.v /\ iBodyLengthConsumed' = 0
              /\ UNCHANGED <<iState, iIsChunked, iChunkLength>>
         [] a.k = "chunked" ->
              /\ iIsChunked' = TRUE
              /\ UNCHANGED <<iState, iContentLength, iBodyLengthConsumed, iChunkLength>>
         [] a.k = "empty" ->
              /\ iState' = IF iIsChunked THEN "chunkLength" ELSE "body"
              /\ iChunkLength' = IF iIsChunked THEN 0 ELSE iChunkLength
              /\ UNCHANGED <<iContentLength, iBodyLengthConsumed, iIsChunked>>
         [] a.k = "data" -> iState' = "skip" /\ UNCHANGED fields
         [] OTHER -> UNCHANGED <<iState, fields>>
  BY <1>3 DEF readHeader
<1>4. Past(iState') /\ iIsChunked' \in BOOLEAN
  <2>1. iIsChunked \in BOOLEAN
    BY <1>0 DEF HttpTypes
  <2>2. CASE iState # "statusRead"
    BY <1>1, <1>h, <2>1, <2>2 DEF Past, fields
  <2>3. CASE iState = "statusRead"
    BY <1>1, <1>h, <2>1, <2>3 DEF Past, fields, BodyState
  <2> QED
    BY <2>2, <2>3
<1>5. HttpTypes'
  BY <1>0, <1>2, <1>4 DEF HttpTypes
<1>6. /\ NoStatus(Ahead) => NoStatus(Ahead')
      /\ OneResponse(Ahead) => OneResponse(Ahead')
      /\ Announced(Ahead, due) => Announced(Ahead', due)
  <2>1. \A p \in 1 .. 0 : t[p].k # "status"
    OBVIOUS
  <2>2. /\ NoStatus(Ahead) => NoStatus(t)
        /\ OneResponse(Ahead) => OneResponse(t)
        /\ Announced(Ahead, due) => Announced(t, due)
    BY <1>2, <1>3, <2>1, StatusCarries
  <2> QED
    BY <1>3, <2>2
<1>7. CallStands' /\ StatusStands' /\ StatusIsOwn'
  <2>1. ~BeforeSent(iState) /\ ~BeforeSent(iState') /\ ~line /\ asked \in Nat
    BY <1>0, <1>1, <1>4 DEF CallStands, BeforeSent, Past, BodyState, HttpTypes
  <2>2. CallStands'
    BY <1>0, <1>4, <2>1 DEF CallStands
  <2>3. StatusStands'
    BY <1>0, <1>1, <1>6, <2>1 DEF StatusStands, Late
  <2>4. StatusIsOwn'
    BY <1>0 DEF StatusIsOwn
  <2> QED
    BY <2>2, <2>3, <2>4
<1>8. ASSUME excuse' = {} PROVE ResponseStands'
  <2>1. ResponseStands
    BY <1>8 DEF AnswerInv
  <2>2. iState = "statusRead" /\ pure /\ got = 0
    BY <1>1, <2>1 DEF ResponseStands, TextStands, HeadersStand
  <2>3. PICK r \in Response : due = r.len /\ HeadersOf(r)
    BY <2>1, <2>2 DEF ResponseStands, HeadersStand
  <2>4. /\ EndFrom(Ahead, 1, r) => EndFrom(t, 0, r)
        /\ BodyFrom(Ahead, 1, r) => BodyFrom(t, 0, r)
        /\ SecondFrom(Ahead, 1, r) => SecondFrom(t, 0, r)
    BY <1>2, <1>3, HeadCarries
  <2>5. r.body \in Nat /\ r.chunked \in BOOLEAN /\ r.len \in {NoContentLength, r.body}
    BY DEF ResponseAssumption
  <2>6. Len(Ahead) > 0 /\ 0 + 1 = 1
    BY <1>2
  <2>7. \/ /\ iState' = "statusRead" /\ HeadersOf(r)'
        \/ /\ iState' = (IF r.chunked THEN "chunkLength" ELSE "body") /\ BodyFrom(t, 0, r)
           /\ iIsChunked' = r.chunked /\ iContentLength' = r.len /\ iChunkLength' = 0
    <3>1. CASE Reset /\ HeadFrom(Ahead, 0, r)
      <4>1. /\ IF r.len = NoContentLength THEN a.k = "other" ELSE a.k = "length" /\ a.v = r.len
            /\ SecondFrom(Ahead, 1, r)
        BY <1>3, <2>6, <3>1 DEF HeadFrom
      <4>2. SecondFrom(t, 0, r)
        BY <2>4, <4>1
      <4>3. /\ iState' = "statusRead" /\ iContentLength' = r.len
            /\ iIsChunked' = iIsChunked /\ iChunkLength' = iChunkLength
        <5>1. CASE r.len = NoContentLength
          BY <1>h, <2>2, <3>1, <4>1, <5>1 DEF Reset, fields
        <5>2. CASE r.len # NoContentLength
          BY <1>h, <2>2, <4>1, <5>2
        <5> QED
          BY <5>1, <5>2
      <4> QED
        BY <1>3, <3>1, <4>2, <4>3 DEF HeadersOf, Reset
    <3>2. CASE /\ iContentLength = r.len /\ iChunkLength = 0
               /\ IF iIsChunked THEN r.chunked /\ EndFrom(Ahead, 0, r) ELSE SecondFrom(Ahead, 0, r)
      <4>1. CASE EndFrom(Ahead, 0, r) /\ (iIsChunked <=> r.chunked)
        <5>1. a.k = "empty" /\ BodyFrom(t, 0, r)
          BY <1>3, <2>4, <2>6, <4>1 DEF EndFrom
        <5>2. /\ iState' = IF iIsChunked THEN "chunkLength" ELSE "body"
              /\ iChunkLength' = 0
              /\ UNCHANGED <<iContentLength, iIsChunked>>
          BY <1>h, <2>2, <3>2, <5>1
        <5>3. iIsChunked = r.chunked
          BY <1>0, <2>5, <4>1 DEF HttpTypes
        <5> QED
          BY <3>2, <5>1, <5>2, <5>3
      <4>2. CASE ~iIsChunked /\ r.chunked
        <5>1. a.k = "chunked" /\ EndFrom(Ahead, 1, r)
          BY <1>3, <2>6, <3>2, <4>2 DEF SecondFrom
        <5>2. iIsChunked' = TRUE /\ UNCHANGED <<iState, iContentLength, iChunkLength>>
          BY <1>h, <2>2, <5>1
        <5>3. EndFrom(t, 0, r)
          BY <2>4, <5>1
        <5> QED
          BY <1>3, <2>2, <3>2, <4>2, <5>2, <5>3 DEF HeadersOf
      <4> QED
        BY <2>5, <3>2, <4>1, <4>2 DEF SecondFrom
    <3> QED
      BY <2>3, <3>1, <3>2 DEF HeadersOf
  <2>8. HeadersStand' /\ BodyStands'
    <3>1. CASE iState' = "statusRead" /\ HeadersOf(r)'
      BY <2>2, <2>3, <3>1 DEF HeadersStand, BodyStands, BodyState
    <3>2. CASE /\ iState' = (IF r.chunked THEN "chunkLength" ELSE "body") /\ BodyFrom(t, 0, r)
               /\ iIsChunked' = r.chunked /\ iContentLength' = r.len /\ iChunkLength' = 0
      <4>1. r.body - got' = r.body /\ got' <= r.body
        BY <2>2, <2>5
      <4>2. BodyOf(r)'
        BY <1>3, <2>5, <3>2, <4>1 DEF BodyOf, BodyFrom
      <4> QED
        BY <2>2, <2>3, <2>5, <3>2, <4>2 DEF HeadersStand, BodyStands
    <3> QED
      BY <2>7, <3>1, <3>2
  <2>9. SentStands'
    BY <1>4, <1>6, <2>1 DEF ResponseStands, SentStands, Past, BodyState
  <2>10. TextStands'
    <3>1. iState' # "skip"
      BY <2>7
    <3>2. ret # "text"
      BY <2>1, <2>2 DEF ResponseStands, TextStands, BodyState
    <3> QED
      BY <2>1, <3>1, <3>2 DEF ResponseStands, TextStands
  <2> QED
    BY <2>8, <2>9, <2>10 DEF ResponseStands
<1> QED
  BY <1>5, <1>7, <1>8 DEF AnswerInv

LEMMA SkipHeaderSafe == ResponseAssumption /\ AnswerInv /\ skipHeader => AnswerInv'
BY ReadHeaderSafe DEF skipHeader, call

LEMMA PollHeaderSafe == ResponseAssumption /\ AnswerInv /\ pollHeader => AnswerInv'
<1> SUFFICES ASSUME ResponseAssumption, AnswerInv, pollHeader PROVE AnswerInv'
  OBVIOUS
<1>0. /\ pc = "header" /\ ~endOfHeadersReached
      /\ UNCHANGED <<wire, asked, line, n, got, pure, ret, retOwn, due>>
  BY DEF pollHeader
<1>1. CASE rx # <<>>
  <2>1. readHeader(Head(rx)) /\ rx' = Tail(rx) /\ UNCHANGED excuse /\ pc' \in {pc, "idle"}
    BY <1>1 DEF pollHeader
  <2> QED
    BY <1>0, <1>1, <2>1, ReadHeaderSafe
<1>2. CASE rx = <<>>
  <2>1. /\ iState' = "skip" /\ UNCHANGED <<fields, rx, pc>>
        /\ excuse' = IF iState = "statusRead" THEN excuse \cup {"gap"} ELSE excuse
    BY <1>2 DEF pollHeader
  <2>2. Ahead' = Ahead
    BY <1>0, <2>1 DEF Ahead
  <2>3. HttpTypes' /\ StatusIsOwn'
    BY <1>0, <2>1 DEF AnswerInv, HttpTypes, StatusIsOwn, fields
  <2>4. Past(iState) /\ iState \in {"statusRead", "skip"}
    BY <1>0 DEF AnswerInv, CallStands, Past, endOfHeadersReached
  <2>5. CallStands' /\ StatusStands'
    BY <1>0, <2>1, <2>2, <2>4
       DEF AnswerInv, CallStands, StatusStands, Late, BeforeSent, Past, BodyState
  <2>6. excuse' # {}
    <3>1. CASE iState = "statusRead"
      BY <2>1, <3>1
    <3>2. CASE iState = "skip"
      BY <2>1, <3>2 DEF AnswerInv, ResponseStands, TextStands
    <3> QED
      BY <2>4, <3>1, <3>2
  <2> QED
    BY <2>3, <2>5, <2>6 DEF AnswerInv
<1> QED
  BY <1>1, <1>2

------------------------------------------------------------------------------
(* The body.                                                               *)

LEMMA LeastOf ==
  ASSUME NEW D \in SUBSET Nat, D # {}
  PROVE  \E f \in D : \A g \in D : f <= g
<1> DEFINE R == {ss \in Nat \X Nat : ss[1] < ss[2]}
<1>1. IsWellFoundedOn(R, Nat)
  BY NatLessThanWellFounded DEF OpToRel
<1>2. PICK f \in D : \A g \in D : ~(<<g, f>> \in R)
  <2> HIDE DEF R
  <2> QED
    BY <1>1, WFMin
<1>3. ASSUME NEW g \in D
      PROVE  f <= g
  <2>1. <<g, f>> \in Nat \X Nat /\ <<g, f>>[1] = g /\ <<g, f>>[2] = f
    OBVIOUS
  <2>2. ~(g < f)
    BY <1>2, <2>1
  <2> QED
    BY <2>2
<1> QED
  BY <1>3

\* What is left when the first c tokens are gone.
LEMMA DropSeq ==
  ASSUME NEW X, NEW q \in Seq(X), NEW c \in 1 .. Len(q)
  PROVE  SubSeq(q, c + 1, Len(q)) \in Seq(X) /\ Drops(q, c, SubSeq(q, c + 1, Len(q)))
<1> DEFINE t == SubSeq(q, c + 1, Len(q))
<1>1. t \in Seq(X) /\ Len(t) = Len(q) - c
  OBVIOUS
<1>2. \A p \in 1 .. Len(q) - c : t[p] = q[p + c]
  OBVIOUS
<1> QED
  BY <1>1, <1>2 DEF Drops

LEMMA DropAll ==
  ASSUME NEW X, NEW q \in Seq(X)
  PROVE  Drops(q, 0, q) /\ Drops(q, Len(q), <<>>) /\ <<>> \in Seq(X)
BY DEF Drops

\* available() leaves a part of what was received, and the state beyond the headers.
LEMMA AvailableDrops ==
  ASSUME HttpTypes, Past(iState)
  PROVE  /\ Past(available.state) /\ available.left \in Seq(Token)
         /\ \E c \in Nat : Drops(rx, c, available.left)
         /\ available.any => available.left # <<>>
<1> DEFINE ends == {p \in DOMAIN rx : rx[p].k \in Line}
           end == CHOOSE p \in ends : \A m \in ends : p <= m
           size == IF iState = "chunkLength" /\ ends # {} /\ rx[end].k = "size"
                   THEN iChunkLength * 16 + rx[end].v ELSE iChunkLength
           reached == iState = "bodyChunk" \/ (iState = "chunkLength" /\ ends # {})
           left == IF iState # "chunkLength" THEN rx
                   ELSE IF ends = {} THEN <<>> ELSE SubSeq(rx, end + 1, Len(rx))
<1>0. rx \in Seq(Token)
  BY DEF HttpTypes
<1>1. available =
        IF iState \notin {"chunkLength", "bodyChunk"}
        THEN [state |-> iState, size |-> iChunkLength, left |-> rx, any |-> rx # <<>>]
        ELSE IF reached /\ size > 0
             THEN [state |-> "bodyChunk", size |-> size, left |-> left, any |-> left # <<>>]
             ELSE [state |-> "chunkLength", size |-> size, left |-> left, any |-> FALSE]
  BY DEF available
<1>2. ends # {} => end \in 1 .. Len(rx)
  <2> SUFFICES ASSUME ends # {} PROVE end \in 1 .. Len(rx)
    OBVIOUS
  <2>1. ends \in SUBSET Nat /\ ends \in SUBSET (1 .. Len(rx))
    BY <1>0
  <2> HIDE DEF ends
  <2>2. \E p \in ends : \A m \in ends : p <= m
    BY <2>1, LeastOf
  <2>3. end \in ends
    BY <2>2
  <2> QED
    BY <2>1, <2>3
<1> HIDE DEF ends, end
<1>3. left \in Seq(Token) /\ \E c \in Nat : Drops(rx, c, left)
  <2>1. CASE iState # "chunkLength"
    BY <1>0, <2>1, DropAll
  <2>2. CASE iState = "chunkLength" /\ ends = {}
    BY <1>0, <2>2, DropAll
  <2>3. CASE iState = "chunkLength" /\ ends # {}
    <3>1. left = SubSeq(rx, end + 1, Len(rx)) /\ end \in 1 .. Len(rx)
      BY <1>2, <2>3
    <3>2. left \in Seq(Token) /\ Drops(rx, end, left)
      BY <1>0, <3>1, DropSeq
    <3>3. end \in Nat
      BY <3>1
    <3> QED
      BY <3>2, <3>3
  <2> QED
    BY <2>1, <2>2, <2>3
<1>4. rx \in Seq(Token) /\ \E c \in Nat : Drops(rx, c, rx)
  BY <1>0, DropAll
<1> HIDE DEF left, size, reached
<1>5. CASE iState \notin {"chunkLength", "bodyChunk"}
  <2>1. available = [state |-> iState, size |-> iChunkLength, left |-> rx, any |-> rx # <<>>]
    BY <1>1, <1>5
  <2>2. available.state = iState /\ available.left = rx /\ available.any = (rx # <<>>)
    BY <2>1
  <2> QED
    BY <1>4, <2>2
<1>6. CASE iState \in {"chunkLength", "bodyChunk"}
  <2>1. available.left = left /\ available.state \in {"bodyChunk", "chunkLength"}
        /\ (available.any => left # <<>>)
    BY <1>1, <1>6
  <2> QED
    BY <1>3, <2>1 DEF Past, BodyState
<1> QED
  BY <1>5, <1>6

\* available() where the size of a chunk comes first.
LEMMA AvailableSize ==
  ASSUME HttpTypes, rx # <<>>, rx[1].k \in Line, iState = "chunkLength", iChunkLength = 0,
         NEW c \in Nat, c = (IF rx[1].k = "size" THEN rx[1].v ELSE 0)
  PROVE  /\ available.left \in Seq(Token) /\ Drops(rx, 1, available.left) /\ available.size = c
         /\ available.state = (IF c > 0 THEN "bodyChunk" ELSE "chunkLength")
         /\ available.any <=> c > 0 /\ available.left # <<>>
<1> DEFINE ends == {p \in DOMAIN rx : rx[p].k \in Line}
           end == CHOOSE p \in ends : \A m \in ends : p <= m
           size == IF iState = "chunkLength" /\ ends # {} /\ rx[end].k = "size"
                   THEN iChunkLength * 16 + rx[end].v ELSE iChunkLength
           reached == iState = "bodyChunk" \/ (iState = "chunkLength" /\ ends # {})
           left == IF iState # "chunkLength" THEN rx
                   ELSE IF ends = {} THEN <<>> ELSE SubSeq(rx, end + 1, Len(rx))
<1>0. rx \in Seq(Token) /\ 1 \in 1 .. Len(rx) /\ DOMAIN rx = 1 .. Len(rx)
  BY DEF HttpTypes
<1>1. available =
        IF iState \notin {"chunkLength", "bodyChunk"}
        THEN [state |-> iState, size |-> iChunkLength, left |-> rx, any |-> rx # <<>>]
        ELSE IF reached /\ size > 0
             THEN [state |-> "bodyChunk", size |-> size, left |-> left, any |-> left # <<>>]
             ELSE [state |-> "chunkLength", size |-> size, left |-> left, any |-> FALSE]
  BY DEF available
<1>2. end = 1 /\ ends # {}
  <2>1. 1 \in ends /\ \A m \in ends : m \in Nat /\ 1 <= m
    BY <1>0
  <2> HIDE DEF ends
  <2>2. end \in ends /\ \A m \in ends : end <= m
    BY <2>1
  <2> QED
    BY <2>1, <2>2
<1>3. left = SubSeq(rx, 1 + 1, Len(rx)) /\ reached
  BY <1>2
<1>4. size = c
  <2>1. rx[1] \in Token
    BY <1>0
  <2>2. rx[1].v \in Nat
    BY <2>1 DEF Token
  <2> HIDE DEF ends, end
  <2> QED
    BY <1>2, <2>2
<1>5. left \in Seq(Token) /\ Drops(rx, 1, left)
  BY <1>0, <1>3, DropSeq
<1> HIDE DEF ends, end, left, size, reached
<1>6. CASE c > 0
  <2>1. available = [state |-> "bodyChunk", size |-> c, left |-> left, any |-> left # <<>>]
    BY <1>1, <1>3, <1>4, <1>6
  <2>2. available.state = "bodyChunk" /\ available.size = c /\ available.left = left
        /\ available.any = (left # <<>>)
    BY <2>1
  <2> QED
    BY <1>5, <1>6, <2>2
<1>7. CASE ~(c > 0)
  <2>1. available = [state |-> "chunkLength", size |-> c, left |-> left, any |-> FALSE]
    BY <1>1, <1>3, <1>4, <1>7
  <2>2. available.state = "chunkLength" /\ available.size = c /\ available.left = left
        /\ available.any = FALSE
    BY <2>1
  <2> QED
    BY <1>5, <1>7, <2>2
<1> QED
  BY <1>6, <1>7

\* available() within a chunk.
LEMMA AvailableChunk ==
  ASSUME iState = "bodyChunk", iChunkLength > 0
  PROVE  /\ available.left = rx /\ available.size = iChunkLength /\ available.state = "bodyChunk"
         /\ available.any <=> rx # <<>>
<1>1. available = [state |-> "bodyChunk", size |-> iChunkLength, left |-> rx, any |-> rx # <<>>]
  BY DEF available
<1> QED
  BY <1>1

\* The first byte of a body is handed out.
LEMMA DataNext ==
  ASSUME NEW X, NEW t \in Seq(X), NEW q \in Seq(X), NEW p \in Nat, NEW c \in Nat, c > 0,
         DataFrom(q, p, c), Goes(t, 0, q, p + 1), p + 1 <= Len(q)
  PROVE  q[p + 1].k = "data" /\ q[p + 1].own /\ DataFrom(t, 0, c - 1)
<1>1. 1 \in 1 .. Len(q) - p /\ 1 <= c
  OBVIOUS
<1>2. q[p + 1].k = "data" /\ q[p + 1].own
  <2>1. IF 1 <= c THEN q[p + 1].k = "data" /\ q[p + 1].own
        ELSE q[p + 1].k \in {"empty", "size"} /\ q[p + 1].v = 0
    BY <1>1 DEF DataFrom
  <2> QED
    BY <1>1, <2>1
<1> SUFFICES ASSUME NEW m \in 1 .. Len(t) - 0
             PROVE  IF m <= c - 1 THEN t[0 + m].k = "data" /\ t[0 + m].own
                    ELSE t[0 + m].k \in {"empty", "size"} /\ t[0 + m].v = 0
  BY <1>2 DEF DataFrom
<1>3. p + 1 + m <= Len(q) /\ t[0 + m] = q[p + 1 + m]
  BY DEF Goes
<1>4. m + 1 \in 1 .. Len(q) - p /\ p + 1 + m = p + (m + 1) /\ (m + 1 <= c <=> m <= c - 1)
  BY <1>3
<1>5. IF m + 1 <= c THEN q[p + (m + 1)].k = "data" /\ q[p + (m + 1)].own
      ELSE q[p + (m + 1)].k \in {"empty", "size"} /\ q[p + (m + 1)].v = 0
  BY <1>4 DEF DataFrom
<1> QED
  BY <1>3, <1>4, <1>5

\* A read takes tokens from the front of the stream.
LEMMA ReadGoes ==
  ASSUME HttpTypes, NEW c \in Nat, NEW left \in Seq(Token), Drops(rx, c, left), wire' = wire
  PROVE  /\ rx' = left => Ahead' \in Seq(Token) /\ Goes(Ahead', 0, Ahead, c)
         /\ left # <<>> /\ rx' = Tail(left) =>
              /\ rx' \in Seq(Token) /\ Ahead' \in Seq(Token) /\ Goes(Ahead', 0, Ahead, c + 1)
              /\ Head(left) = Ahead[c + 1] /\ c + 1 <= Len(Ahead)
<1>0. rx \in Seq(Token) /\ wire \in Seq(Token) /\ Ahead = rx \o wire
  BY DEF HttpTypes, Ahead
<1>1. ASSUME rx' = left PROVE Ahead' \in Seq(Token) /\ Goes(Ahead', 0, Ahead, c)
  <2>1. Ahead' = left \o wire
    BY <1>1 DEF Ahead
  <2>2. left \o wire \in Seq(Token)
    BY <1>0
  <2>3. Goes(left \o wire, 0, rx \o wire, c)
    BY <1>0, DropGoes
  <2> QED
    BY <1>0, <2>1, <2>2, <2>3
<1>2. ASSUME left # <<>>, rx' = Tail(left)
      PROVE  /\ rx' \in Seq(Token) /\ Ahead' \in Seq(Token) /\ Goes(Ahead', 0, Ahead, c + 1)
             /\ Head(left) = Ahead[c + 1] /\ c + 1 <= Len(Ahead)
  <2>1. Len(left) = Len(rx) - c /\ \A p \in 1 .. Len(left) : left[p] = rx[p + c]
    BY DEF Drops
  <2>2. /\ Len(left) >= 1 /\ Tail(left) \in Seq(Token) /\ Len(Tail(left)) = Len(left) - 1
        /\ \A p \in 1 .. Len(left) - 1 : Tail(left)[p] = left[p + 1]
        /\ Head(left) = left[1]
    BY <1>2
  <2>3. Drops(rx, c + 1, Tail(left))
    <3>1. Len(Tail(left)) = Len(rx) - (c + 1)
      BY <1>0, <2>1, <2>2
    <3>2. ASSUME NEW p \in 1 .. Len(Tail(left)) PROVE Tail(left)[p] = rx[p + (c + 1)]
      <4>1. p \in 1 .. Len(left) - 1 /\ p + 1 \in 1 .. Len(left) /\ p + 1 + c = p + (c + 1)
        BY <2>2
      <4> QED
        BY <2>1, <2>2, <4>1
    <3> QED
      BY <3>1, <3>2 DEF Drops
  <2>4. Goes(Tail(left) \o wire, 0, rx \o wire, c + 1)
    <3> DEFINE t == Tail(left)
    <3>1. t \in Seq(Token) /\ c + 1 \in Nat /\ Drops(rx, c + 1, t)
      BY <2>2, <2>3
    <3> HIDE DEF t
    <3>2. Goes(t \o wire, 0, rx \o wire, c + 1)
      BY <1>0, <3>1, DropGoes
    <3> QED
      BY <3>2 DEF t
  <2>5. Ahead' = Tail(left) \o wire
    BY <1>2 DEF Ahead
  <2>6. Tail(left) \o wire \in Seq(Token)
    BY <1>0, <2>2
  <2>7. Head(left) = rx[1 + c] /\ c + 1 \in 1 .. Len(rx) /\ 1 + c = c + 1
    <3>1. 1 \in 1 .. Len(left)
      BY <2>2
    <3> QED
      BY <1>0, <2>1, <2>2, <3>1
  <2>8. Ahead[c + 1] = rx[c + 1] /\ Len(rx) <= Len(Ahead)
    BY <1>0, <2>7, AheadSeq
  <2> QED
    BY <1>0, <1>2, <2>2, <2>4, <2>5, <2>6, <2>7, <2>8
<1> QED
  BY <1>1, <1>2

\* read() of one byte: what is left, and what is known of it whatever was read.
LEMMA ReadAny ==
  ASSUME HttpTypes, Past(iState), read \/ readSize, wire' = wire
  PROVE  /\ rx' \in Seq(Token) /\ Ahead' \in Seq(Token) /\ Past(iState')
         /\ iIsChunked' = iIsChunked /\ iContentLength' = iContentLength /\ got' \in Nat
         /\ \E c \in Nat : Goes(Ahead', 0, Ahead, c)
<1>0. rx \in Seq(Token) /\ got \in Nat
  BY DEF HttpTypes
<1>1. /\ Past(available.state) /\ available.left \in Seq(Token)
      /\ \E c \in Nat : Drops(rx, c, available.left)
      /\ available.any => available.left # <<>>
  BY AvailableDrops
<1>2. CASE readSize
  <2>1. rx' = available.left /\ iState' = available.state
        /\ UNCHANGED <<iContentLength, iIsChunked, got>>
    BY <1>2 DEF readSize
  <2>2. PICK c \in Nat : Drops(rx, c, available.left)
    BY <1>1
  <2>3. Ahead' \in Seq(Token) /\ Goes(Ahead', 0, Ahead, c)
    BY <1>1, <2>1, <2>2, ReadGoes
  <2> QED
    BY <1>0, <1>1, <2>1, <2>3
<1>3. CASE read
  <2> DEFINE a == IF iIsChunked THEN available
                  ELSE [state |-> iState, size |-> iChunkLength, left |-> rx, any |-> rx # <<>>]
  <2>1. /\ a.any /\ rx' = Tail(a.left) /\ handOut(<<Head(a.left)>>)
        /\ iState' = afterRead(a)[1] /\ UNCHANGED <<iContentLength, iIsChunked>>
    BY <1>3 DEF read
  <2>2. /\ Past(a.state) /\ a.left \in Seq(Token) /\ (a.any => a.left # <<>>)
        /\ \E c \in Nat : Drops(rx, c, a.left)
    <3>1. CASE iIsChunked
      BY <1>1, <3>1
    <3>2. CASE ~iIsChunked
      <4>1. a.state = iState /\ a.left = rx /\ a.any = (rx # <<>>)
        BY <3>2
      <4>2. \E c \in Nat : Drops(rx, c, rx)
        BY <1>0, DropAll
      <4> QED
        BY <1>0, <4>1, <4>2
    <3> QED
      BY <3>1, <3>2
  <2> HIDE DEF a
  <2>3. PICK c \in Nat : Drops(rx, c, a.left)
    BY <2>2
  <2>4. rx' \in Seq(Token) /\ Ahead' \in Seq(Token) /\ Goes(Ahead', 0, Ahead, c + 1)
    BY <2>1, <2>2, <2>3, ReadGoes
  <2>5. Past(iState')
    BY <2>1, <2>2 DEF afterRead, Past, BodyState
  <2>6. got' \in Nat
    <3>1. Len(<<Head(a.left)>>) = 1
      OBVIOUS
    <3> QED
      BY <1>0, <2>1, <3>1 DEF handOut
  <2>7. c + 1 \in Nat
    OBVIOUS
  <2> QED
    BY <2>1, <2>4, <2>5, <2>6, <2>7
<1> QED
  BY <1>2, <1>3

\* A byte that read() hands out, or none, while nothing spoils the response.
LEMMA ReadExact ==
  ASSUME ResponseAssumption, HttpTypes, excuse = {}, iState \in BodyState, pure,
         NEW r \in Response, BodyOf(r), read \/ readSize, wire' = wire
  PROVE  /\ iState' \in BodyState /\ pure' /\ BodyOf(r)'
         /\ \/ read /\ got' = got + 1
            \/ readSize /\ got' = got
<1>0. rx \in Seq(Token) /\ got \in Nat /\ Ahead \in Seq(Token)
  BY AheadSeq DEF HttpTypes
<1>1. r.body \in Nat /\ r.chunked \in BOOLEAN
  BY DEF ResponseAssumption
<1> DEFINE c == r.body - got
<1>2. c \in Nat /\ got <= r.body /\ iContentLength = r.len /\ iIsChunked = r.chunked
  BY <1>0, <1>1 DEF BodyOf
<1>3. iContentLength' = iContentLength /\ iIsChunked' = iIsChunked /\ Past(iState)
  BY DEF read, readSize, Past
\* A byte of the body is next in what available() leaves.
<1>4. ASSUME read, NEW left \in Seq(Token), NEW b \in Nat, Drops(rx, b, left), left # <<>>,
             rx' = Tail(left), handOut(<<Head(left)>>), c > 0, DataFrom(Ahead, b, c)
      PROVE  /\ pure' /\ got' = got + 1 /\ got' <= r.body /\ r.body - got' = c - 1
             /\ DataFrom(Ahead', 0, c - 1) /\ Goes(Ahead', 0, Ahead, b + 1)
             /\ b + 1 <= Len(Ahead) /\ Ahead' \in Seq(Token)
  <2>1. /\ rx' \in Seq(Token) /\ Ahead' \in Seq(Token) /\ Goes(Ahead', 0, Ahead, b + 1)
        /\ Head(left) = Ahead[b + 1] /\ b + 1 <= Len(Ahead)
    BY <1>4, ReadGoes
  <2>2. Ahead[b + 1].k = "data" /\ Ahead[b + 1].own /\ DataFrom(Ahead', 0, c - 1)
    <3> DEFINE t == Ahead'
    <3>1. t \in Seq(Token) /\ Goes(t, 0, Ahead, b + 1)
      BY <2>1
    <3> HIDE DEF t, c
    <3>2. Ahead[b + 1].k = "data" /\ Ahead[b + 1].own /\ DataFrom(t, 0, c - 1)
      BY <1>0, <1>2, <1>4, <2>1, <3>1, DataNext
    <3> QED
      BY <3>2 DEF t
  <2>3. got' = got + 1 /\ pure'
    <3> DEFINE x == Head(left)
    <3>1. x.k = "data" /\ x.own
      BY <2>1, <2>2
    <3>2. handOut(<<x>>)
      BY <1>4
    <3> HIDE DEF x
    <3>3. Len(<<x>>) = 1 /\ DOMAIN <<x>> = {1} /\ <<x>>[1] = x
      OBVIOUS
    <3>4. got' = got + Len(<<x>>) /\ pure' = (pure /\ \A i \in DOMAIN <<x>> : <<x>>[i].k = "data" /\ <<x>>[i].own)
      BY <3>2 DEF handOut
    <3> QED
      BY <3>1, <3>3, <3>4
  <2> QED
    BY <1>0, <1>1, <1>2, <1>4, <2>1, <2>2, <2>3
<1>5. CASE iState = "body"
  <2>1. ~r.chunked /\ PlainFrom(Ahead, 0, c)
    BY <1>5 DEF BodyOf
  <2> DEFINE a == [state |-> iState, size |-> iChunkLength, left |-> rx, any |-> rx # <<>>]
  <2>2. /\ read /\ a.any /\ rx' = Tail(a.left) /\ handOut(<<Head(a.left)>>)
        /\ iState' = afterRead(a)[1]
    BY <1>2, <2>1 DEF read, readSize
  <2>3. a.state = "body" /\ a.left = rx /\ a.any = (rx # <<>>)
    BY <1>5
  <2> HIDE DEF a
  <2>4. rx # <<>> /\ rx' = Tail(rx) /\ handOut(<<Head(rx)>>) /\ iState' = "body"
    BY <2>2, <2>3 DEF afterRead
  <2>5. Drops(rx, 0, rx) /\ DataFrom(Ahead, 0, c) /\ Len(Ahead) <= 0 + c
    BY <1>0, <2>1, DropAll DEF PlainFrom
  <2>6. Len(Ahead) >= 1
    BY <1>0, <2>4, AheadSeq DEF HttpTypes
  <2>7. c > 0
    BY <1>0, <1>2, <2>5, <2>6
  <2>8. /\ pure' /\ got' = got + 1 /\ got' <= r.body /\ r.body - got' = c - 1
        /\ DataFrom(Ahead', 0, c - 1) /\ Goes(Ahead', 0, Ahead, 0 + 1) /\ Ahead' \in Seq(Token)
    BY <1>0, <1>4, <2>2, <2>4, <2>5, <2>7
  <2>9. PlainFrom(Ahead', 0, c - 1)
    <3> DEFINE t == Ahead'
    <3>1. t \in Seq(Token) /\ Goes(t, 0, Ahead, 0 + 1)
      BY <2>8
    <3> HIDE DEF t
    <3>2. Len(t) <= 0 + (c - 1)
      <4> SUFFICES ASSUME Len(t) > 0 PROVE Len(t) <= 0 + (c - 1)
        BY <1>2, <2>7, <3>1
      <4>1. Len(t) \in 1 .. Len(t) - 0
        BY <3>1
      <4>2. 0 + 1 + Len(t) <= Len(Ahead)
        BY <3>1, <4>1 DEF Goes
      <4> QED
        BY <1>0, <1>2, <2>5, <3>1, <4>2
    <3> QED
      BY <2>8, <3>2 DEF t, PlainFrom
  <2>10. BodyOf(r)'
    BY <1>2, <1>3, <2>1, <2>4, <2>8, <2>9 DEF BodyOf
  <2> QED
    BY <2>2, <2>4, <2>8, <2>10 DEF BodyState
<1>6. CASE iState = "bodyChunk"
  <2>1. r.chunked /\ iChunkLength = c /\ c > 0 /\ DataFrom(Ahead, 0, c)
    BY <1>6 DEF BodyOf
  <2>2. /\ available.left = rx /\ available.size = c /\ available.state = "bodyChunk"
        /\ available.any <=> rx # <<>>
    BY <1>6, <2>1, AvailableChunk
  <2>3. ~readSize
    BY <2>2 DEF readSize
  <2>4. /\ read /\ available.any /\ rx' = Tail(available.left) /\ handOut(<<Head(available.left)>>)
        /\ iState' = afterRead(available)[1] /\ iChunkLength' = afterRead(available)[2]
    BY <1>2, <2>1, <2>3 DEF read
  <2>5. /\ rx # <<>> /\ rx' = Tail(rx) /\ handOut(<<Head(rx)>>)
        /\ iState' = (IF c = 1 THEN "chunkLength" ELSE "bodyChunk") /\ iChunkLength' = c - 1
    BY <2>2, <2>4 DEF afterRead
  <2>6. Drops(rx, 0, rx)
    BY <1>0, DropAll
  <2>7. /\ pure' /\ got' = got + 1 /\ got' <= r.body /\ r.body - got' = c - 1
        /\ DataFrom(Ahead', 0, c - 1)
    BY <1>0, <1>4, <2>1, <2>4, <2>5, <2>6
  <2>8. BodyOf(r)'
    <3>1. CASE c = 1
      BY <1>2, <1>3, <2>1, <2>5, <2>7, <3>1 DEF BodyOf, ChunkFrom
    <3>2. CASE c # 1
      BY <1>2, <1>3, <2>1, <2>5, <2>7, <3>2 DEF BodyOf
    <3> QED
      BY <3>1, <3>2
  <2> QED
    BY <2>4, <2>5, <2>7, <2>8 DEF BodyState
<1>7. CASE iState = "chunkLength"
  <2>1. r.chunked /\ iChunkLength = 0 /\ ChunkFrom(Ahead, 0, c)
    BY <1>7 DEF BodyOf
  <2>2. rx # <<>>
    <3>1. CASE readSize
      BY <3>1 DEF readSize
    <3>2. CASE read
      <4>1. available.any
        BY <1>2, <2>1, <3>2 DEF read
      <4>2. available.left # <<>> /\ \E b \in Nat : Drops(rx, b, available.left)
        BY <1>3, <4>1, AvailableDrops
      <4>3. available.left \in Seq(Token)
        BY <1>3, AvailableDrops
      <4> SUFFICES ASSUME rx = <<>> PROVE FALSE
        OBVIOUS
      <4>4. PICK b \in Nat : Len(available.left) = Len(rx) - b
        BY <4>2 DEF Drops
      <4>5. Len(rx) = 0 /\ Len(available.left) > 0
        BY <4>2, <4>3
      <4> QED
        BY <4>4, <4>5
    <3> QED
      BY <3>1, <3>2
  <2>3. Ahead[1] = rx[1] /\ Len(Ahead) > 0 /\ rx[1] \in Token
    BY <1>0, <2>2, AheadSeq
  <2>4. rx[1].k \in Line /\ c = (IF rx[1].k = "size" THEN rx[1].v ELSE 0)
    <3>1. CASE c = 0
      <4>1. DataFrom(Ahead, 0, 0)
        BY <2>1, <3>1 DEF ChunkFrom
      <4>2. 1 \in 1 .. Len(Ahead) - 0 /\ 0 + 1 = 1 /\ ~(1 <= 0)
        BY <1>0, <2>3
      <4>3. Ahead[1].k \in {"empty", "size"} /\ Ahead[1].v = 0
        BY <4>1, <4>2 DEF DataFrom
      <4> QED
        BY <2>3, <3>1, <4>3 DEF Line
    <3>2. CASE c # 0
      <4>1. Ahead[1].k = "size" /\ Ahead[1].v = c
        BY <2>1, <2>3, <3>2 DEF ChunkFrom
      <4> QED
        BY <2>3, <4>1 DEF Line
    <3> QED
      BY <3>1, <3>2
  <2>5. /\ available.left \in Seq(Token) /\ Drops(rx, 1, available.left) /\ available.size = c
        /\ available.state = (IF c > 0 THEN "bodyChunk" ELSE "chunkLength")
        /\ available.any <=> c > 0 /\ available.left # <<>>
    <3> HIDE DEF c
    <3> QED
      BY <1>2, <1>7, <2>1, <2>2, <2>4, AvailableSize
  <2>6. CASE readSize
    <3>1. rx' = available.left /\ iState' = available.state /\ iChunkLength' = c
          /\ got' = got /\ pure' = pure
      BY <2>5, <2>6 DEF readSize
    <3>2. Ahead' \in Seq(Token) /\ Goes(Ahead', 0, Ahead, 1)
      BY <2>5, <3>1, ReadGoes
    <3> DEFINE t == Ahead'
    <3>3. t \in Seq(Token) /\ Goes(t, 0, Ahead, 1) /\ t = Ahead'
      BY <3>2
    <3> HIDE DEF t
    <3>4. CASE c = 0
      <4>1. DataFrom(Ahead, 0, 0)
        BY <2>1, <3>4 DEF ChunkFrom
      <4>2. DataFrom(t, 0, 0)
        <5> SUFFICES ASSUME NEW m \in 1 .. Len(t) - 0
                     PROVE  t[0 + m].k \in {"empty", "size"} /\ t[0 + m].v = 0
          BY DEF DataFrom
        <5>1. 1 + m <= Len(Ahead) /\ t[0 + m] = Ahead[1 + m]
          BY <3>3 DEF Goes
        <5>2. 1 + m \in 1 .. Len(Ahead) - 0 /\ 0 + (1 + m) = 1 + m /\ ~(1 + m <= 0)
          BY <1>0, <3>3, <5>1
        <5>3. Ahead[1 + m].k \in {"empty", "size"} /\ Ahead[1 + m].v = 0
          BY <4>1, <5>2 DEF DataFrom
        <5> QED
          BY <5>1, <5>3
      <4>3. BodyOf(r)'
        BY <1>2, <1>3, <2>1, <2>5, <3>1, <3>3, <3>4, <4>2 DEF BodyOf, ChunkFrom
      <4> QED
        BY <2>5, <2>6, <3>1, <3>4, <4>3 DEF BodyState
    <3>5. CASE c # 0
      <4>1. DataFrom(Ahead, 0 + 1, c)
        BY <2>1, <3>5 DEF ChunkFrom
      <4>2. DataFrom(t, 0, c)
        <5> HIDE DEF c
        <5> QED
          BY <1>0, <1>2, <3>3, <4>1, DataCarries
      <4>3. c > 0
        BY <1>2, <3>5
      <4>4. BodyOf(r)'
        BY <1>2, <1>3, <2>1, <2>5, <3>1, <3>3, <4>2, <4>3 DEF BodyOf
      <4> QED
        BY <2>5, <2>6, <3>1, <4>3, <4>4 DEF BodyState
    <3> QED
      BY <3>4, <3>5
  <2>7. CASE read
    <3>1. /\ available.any /\ rx' = Tail(available.left) /\ handOut(<<Head(available.left)>>)
          /\ iState' = afterRead(available)[1] /\ iChunkLength' = afterRead(available)[2]
      BY <1>2, <2>1, <2>7 DEF read
    <3>2. c > 0 /\ available.left # <<>>
      BY <2>5, <3>1
    <3>3. DataFrom(Ahead, 1, c)
      <4>1. DataFrom(Ahead, 0 + 1, c)
        BY <1>2, <2>1, <3>2 DEF ChunkFrom
      <4> QED
        BY <4>1
    <3>4. /\ iState' = (IF c = 1 THEN "chunkLength" ELSE "bodyChunk") /\ iChunkLength' = c - 1
      BY <2>5, <3>1, <3>2 DEF afterRead
    <3>5. /\ pure' /\ got' = got + 1 /\ got' <= r.body /\ r.body - got' = c - 1
          /\ DataFrom(Ahead', 0, c - 1)
      BY <1>4, <2>5, <2>7, <3>1, <3>2, <3>3
    <3>6. BodyOf(r)'
      <4>1. CASE c = 1
        BY <1>2, <1>3, <2>1, <3>4, <3>5, <4>1 DEF BodyOf, ChunkFrom
      <4>2. CASE c # 1
        BY <1>2, <1>3, <2>1, <3>2, <3>4, <3>5, <4>2 DEF BodyOf
      <4> QED
        BY <4>1, <4>2
    <3> QED
      BY <2>7, <3>4, <3>5, <3>6 DEF BodyState
  <2> QED
    BY <2>6, <2>7
<1> QED
  BY <1>5, <1>6, <1>7 DEF BodyState

LEMMA ReadSafely ==
  ASSUME ResponseAssumption, AnswerInv, Past(iState), pc = "body" \/ (pc = "idle" /\ iState \in BodyState),
         \/ read /\ n' \in {n, n + 1}
         \/ readSize /\ n' = n,
         pc' = pc, ret' = "none", UNCHANGED <<wire, asked, line, due, excuse>>
  PROVE  AnswerInv'
<1>0. HttpTypes /\ CallStands /\ StatusStands /\ Ahead \in Seq(Token) /\ n \in Nat /\ got \in Nat
  BY AheadSeq DEF AnswerInv, HttpTypes
<1>1. /\ rx' \in Seq(Token) /\ Ahead' \in Seq(Token) /\ Past(iState')
      /\ iIsChunked' = iIsChunked /\ iContentLength' = iContentLength /\ got' \in Nat
      /\ \E c \in Nat : Goes(Ahead', 0, Ahead, c)
  BY <1>0, ReadAny
<1>2. HttpTypes'
  BY <1>0, <1>1 DEF HttpTypes
<1>3. /\ NoStatus(Ahead) => NoStatus(Ahead')
      /\ OneResponse(Ahead) => OneResponse(Ahead')
      /\ Announced(Ahead, due) => Announced(Ahead', due)
  <2> DEFINE t == Ahead'
  <2>1. PICK c \in Nat : Goes(t, 0, Ahead, c)
    BY <1>1
  <2>2. t \in Seq(Token) /\ \A p \in 1 .. 0 : t[p].k # "status"
    BY <1>1
  <2> HIDE DEF t
  <2>3. /\ NoStatus(Ahead) => NoStatus(t)
        /\ OneResponse(Ahead) => OneResponse(t)
        /\ Announced(Ahead, due) => Announced(t, due)
    BY <1>0, <2>1, <2>2, StatusCarries
  <2> QED
    BY <2>3 DEF t
<1>4. ~BeforeSent(iState') /\ iState' # "sent"
  BY <1>1 DEF Past, BodyState, BeforeSent
<1>5. ~line
  BY <1>0 DEF CallStands, BeforeSent, Past, BodyState
<1>6. CallStands' /\ StatusStands' /\ StatusIsOwn'
  <2>1. CallStands'
    BY <1>0, <1>1, <1>4, <1>5 DEF CallStands
  <2>2. StatusStands'
    BY <1>0, <1>3, <1>4, <1>5 DEF StatusStands, Late
  <2> QED
    BY <2>1, <2>2 DEF StatusIsOwn
<1>7. ASSUME excuse' = {} PROVE ResponseStands'
  <2>1. excuse = {} /\ ResponseStands
    BY <1>7 DEF AnswerInv
  <2>2. iState \in BodyState
    BY <2>1 DEF ResponseStands, TextStands
  <2>3. pure /\ \E r \in Response : due = r.len /\ BodyOf(r)
    BY <2>1, <2>2 DEF ResponseStands, BodyStands
  <2>4. PICK r \in Response : due = r.len /\ BodyOf(r)
    BY <2>3
  <2>5. /\ iState' \in BodyState /\ pure' /\ BodyOf(r)'
        /\ \/ read /\ got' = got + 1
           \/ readSize /\ got' = got
    BY <1>0, <2>1, <2>2, <2>3, <2>4, ReadExact
  <2>6. ~(read /\ readSize)
    BY DEF read, readSize
  <2>7. pc = "body" => n' <= got'
    <3> SUFFICES ASSUME pc = "body" PROVE n' <= got'
      OBVIOUS
    <3>1. n <= got
      BY <2>1 DEF ResponseStands, TextStands
    <3> QED
      BY <1>0, <2>5, <2>6, <3>1
  <2>8. BodyStands' /\ HeadersStand'
    BY <2>4, <2>5 DEF BodyStands, HeadersStand, BodyState
  <2>9. SentStands'
    BY <1>3, <1>4, <2>1 DEF ResponseStands, SentStands
  <2>10. TextStands'
    BY <2>5, <2>7 DEF TextStands, BodyState
  <2> QED
    BY <2>8, <2>9, <2>10 DEF ResponseStands
<1> QED
  BY <1>2, <1>6, <1>7 DEF AnswerInv

LEMMA ReadByteSafe == ResponseAssumption /\ AnswerInv /\ readByte => AnswerInv'
<1> SUFFICES ASSUME ResponseAssumption, AnswerInv, readByte PROVE AnswerInv'
  OBVIOUS
<1>1. /\ pc = "idle" /\ iState \in BodyState /\ (read \/ readSize) /\ ret' = "none"
      /\ UNCHANGED <<wire, asked, line, pc, n, due, excuse>>
  BY DEF readByte, Idle, endOfHeadersReached
<1>2. Past(iState)
  BY <1>1 DEF Past
<1> QED
  BY <1>1, <1>2, ReadSafely

LEMMA BodyReadSafe == ResponseAssumption /\ AnswerInv /\ bodyRead => AnswerInv'
<1> SUFFICES ASSUME ResponseAssumption, AnswerInv, bodyRead PROVE AnswerInv'
  OBVIOUS
<1>1. /\ pc = "body" /\ UNCHANGED <<wire, asked, line, pc, ret, due, excuse>>
      /\ (read /\ n' = n + 1) \/ (readSize /\ UNCHANGED n)
  BY DEF bodyRead
<1>2. Past(iState) /\ ret = "none"
  BY <1>1 DEF AnswerInv, CallStands
<1> QED
  BY <1>1, <1>2, ReadSafely

LEMMA ReadBufSafe == ResponseAssumption /\ AnswerInv /\ readBuf => AnswerInv'
<1> SUFFICES ASSUME ResponseAssumption, AnswerInv, readBuf PROVE AnswerInv'
  OBVIOUS
<1>0. /\ HttpTypes /\ CallStands /\ StatusStands /\ Ahead \in Seq(Token) /\ rx \in Seq(Token)
      /\ wire \in Seq(Token) /\ got \in Nat
  BY AheadSeq DEF AnswerInv, HttpTypes
<1>1. /\ pc = "idle" /\ iState \in BodyState /\ handOut(rx) /\ rx' = <<>> /\ ret' = "none"
      /\ excuse' = (IF iIsChunked THEN excuse \cup {"raw"} ELSE excuse)
      /\ UNCHANGED <<iState, iContentLength, iIsChunked, iChunkLength, wire, asked, line, pc, n, due>>
  BY DEF readBuf, Idle, endOfHeadersReached
<1>2. Past(iState) /\ ~BeforeSent(iState) /\ iState # "sent"
  BY <1>1 DEF Past, BodyState, BeforeSent
<1>3. Drops(rx, Len(rx), <<>>) /\ <<>> \in Seq(Token) /\ Len(rx) \in Nat
  BY <1>0, DropAll
<1>4. Ahead' \in Seq(Token) /\ Goes(Ahead', 0, Ahead, Len(rx))
  BY <1>0, <1>1, <1>3, ReadGoes
<1> DEFINE t == Ahead'
<1>5. t \in Seq(Token) /\ Goes(t, 0, Ahead, Len(rx)) /\ t = Ahead'
  BY <1>4
<1> HIDE DEF t
<1>6. /\ NoStatus(Ahead) => NoStatus(t)
      /\ OneResponse(Ahead) => OneResponse(t)
      /\ Announced(Ahead, due) => Announced(t, due)
  <2>1. \A p \in 1 .. 0 : t[p].k # "status"
    OBVIOUS
  <2> QED
    BY <1>0, <1>3, <1>5, <2>1, StatusCarries
<1>7. HttpTypes'
  <2>1. got' \in Nat
    BY <1>0, <1>1 DEF handOut
  <2> QED
    BY <1>0, <1>1, <1>3, <2>1 DEF HttpTypes
<1>8. CallStands' /\ StatusStands' /\ StatusIsOwn'
  <2>1. CallStands'
    BY <1>0, <1>1, <1>2 DEF CallStands
  <2>2. StatusStands'
    BY <1>0, <1>1, <1>2, <1>5, <1>6 DEF StatusStands, Late
  <2> QED
    BY <1>1, <2>1, <2>2 DEF StatusIsOwn
<1>9. ASSUME excuse' = {} PROVE ResponseStands'
  <2>1. excuse = {} /\ ~iIsChunked
    BY <1>1, <1>9
  <2>2. ResponseStands
    BY <2>1 DEF AnswerInv
  <2>3. pure /\ \E r \in Response : due = r.len /\ BodyOf(r)
    BY <1>1, <2>2 DEF ResponseStands, BodyStands
  <2>4. PICK r \in Response : due = r.len /\ BodyOf(r)
    BY <2>3
  <2> DEFINE c == r.body - got
             len == Len(rx)
  <2>5. ~r.chunked /\ iState = "body" /\ PlainFrom(Ahead, 0, c) /\ c \in Nat /\ r.body \in Nat
    <3>1. r.body \in Nat
      BY DEF ResponseAssumption
    <3> QED
      BY <1>0, <1>1, <2>1, <2>4, <3>1 DEF BodyOf, BodyState
  <2>6. Len(Ahead) <= c /\ DataFrom(Ahead, 0, c) /\ len <= Len(Ahead) /\ len \in Nat
        /\ \A m \in 1 .. len : Ahead[m] = rx[m]
    BY <1>0, <1>3, <2>5, AheadSeq DEF PlainFrom
  <2>7. \A m \in 1 .. Len(Ahead) : Ahead[m].k = "data" /\ Ahead[m].own
    <3> TAKE m \in 1 .. Len(Ahead)
    <3>1. m \in 1 .. Len(Ahead) - 0 /\ m <= c /\ 0 + m = m
      BY <1>0, <2>5, <2>6
    <3> QED
      BY <2>6, <3>1 DEF DataFrom
  <2>8. got' = got + len /\ pure'
    <3>1. DOMAIN rx = 1 .. len
      BY <1>0
    <3>2. \A m \in 1 .. len : rx[m].k = "data" /\ rx[m].own
      <4> TAKE m \in 1 .. len
      <4>1. m \in 1 .. Len(Ahead) /\ Ahead[m] = rx[m]
        BY <1>0, <2>6
      <4> QED
        BY <2>7, <4>1
    <3> QED
      BY <1>1, <2>1, <2>3, <3>1, <3>2 DEF handOut
  <2>9. PlainFrom(t, 0, c - len)
    <3> HIDE DEF c, len
    <3>1. \A m \in 1 .. Len(t) : len + m \in 1 .. Len(Ahead) /\ t[m] = Ahead[len + m]
      <4> TAKE m \in 1 .. Len(t)
      <4>1. m \in 1 .. Len(t) - 0 /\ 0 + m = m
        BY <1>5
      <4>2. len + m <= Len(Ahead) /\ t[m] = Ahead[len + m]
        BY <1>5, <4>1 DEF Goes, len
      <4> QED
        BY <1>5, <2>6, <4>2
    <3>2. Len(t) <= 0 + (c - len)
      <4>1. CASE Len(t) = 0
        BY <1>5, <2>5, <2>6, <4>1
      <4>2. CASE Len(t) # 0
        <5>1. Len(t) \in 1 .. Len(t)
          BY <1>5, <4>2
        <5>2. len + Len(t) <= Len(Ahead)
          BY <1>0, <3>1, <5>1
        <5> QED
          BY <1>0, <1>5, <2>5, <2>6, <5>2
      <4> QED
        BY <4>1, <4>2
    <3>3. DataFrom(t, 0, c - len)
      <4> SUFFICES ASSUME NEW m \in 1 .. Len(t) - 0
                   PROVE  m <= c - len /\ t[0 + m].k = "data" /\ t[0 + m].own
        BY DEF DataFrom
      <4>1. m \in 1 .. Len(t) /\ 0 + m = m
        BY <1>5
      <4> QED
        BY <1>5, <2>5, <2>6, <2>7, <3>1, <3>2, <4>1
    <3> QED
      BY <3>2, <3>3 DEF PlainFrom
  <2>10. BodyOf(r)'
    <3>1. got' <= r.body /\ r.body - got' = c - len
      BY <1>0, <2>5, <2>6, <2>8
    <3> QED
      BY <1>1, <1>5, <2>4, <2>5, <2>9, <3>1 DEF BodyOf
  <2>11. BodyStands' /\ HeadersStand'
    BY <1>1, <2>4, <2>5, <2>8, <2>10 DEF BodyStands, HeadersStand
  <2>12. SentStands'
    BY <1>1, <1>2, <1>5, <1>6, <2>2 DEF ResponseStands, SentStands
  <2> QED
    BY <1>1, <2>5, <2>11, <2>12 DEF ResponseStands, TextStands
<1> QED
  BY <1>5, <1>7, <1>8, <1>9 DEF AnswerInv

LEMMA BodyEndSafe == ResponseAssumption /\ AnswerInv /\ bodyEnd => AnswerInv'
<1> SUFFICES ASSUME ResponseAssumption, AnswerInv, bodyEnd PROVE AnswerInv'
  OBVIOUS
<1>1. /\ UNCHANGED <<iState, fields, net, n, got, pure, due, excuse>> /\ pc = "body" /\ pc' = "idle"
      /\ ret' = (IF short THEN "null" ELSE "text")
  BY DEF bodyEnd, returns
<1>2. Ahead' = Ahead
  BY <1>1 DEF net, Ahead
<1>3. (HeadersStand => HeadersStand') /\ (BodyStands => BodyStands')
  BY <1>1, <1>2, ResponseSame
<1>4. HttpTypes' /\ StatusIsOwn'
  BY <1>1 DEF AnswerInv, HttpTypes, StatusIsOwn, fields, net
<1>5. ~line
  BY <1>1 DEF AnswerInv, CallStands, BeforeSent, Past, BodyState
<1>6. CallStands' /\ StatusStands'
  BY <1>1, <1>2, <1>5 DEF AnswerInv, CallStands, StatusStands, Late, Reset, fields, net
<1>7. ASSUME excuse' = {} PROVE ResponseStands'
  <2>1. ResponseStands
    BY <1>1, <1>7 DEF AnswerInv
  <2>2. iState \in BodyState /\ n <= got /\ iState # "skip"
    BY <1>1, <2>1 DEF ResponseStands, TextStands
  <2>3. PICK r \in Response : due = r.len /\ BodyOf(r)
    BY <2>1, <2>2 DEF ResponseStands, BodyStands
  <2>4. ASSUME ret' = "text", due > 0 PROVE got = due
    <3>1. ~short
      BY <1>1, <2>4
    <3>2. iContentLength = due /\ got <= r.body
      BY <2>3 DEF BodyOf
    <3>3. n = due
      BY <2>4, <3>1, <3>2 DEF short
    <3>4. due = r.body /\ r.body \in Nat
      BY <2>3, <2>4 DEF ResponseAssumption, NoContentLength
    <3>5. n \in Nat /\ got \in Nat
      BY DEF AnswerInv, HttpTypes
    <3> QED
      BY <2>2, <3>2, <3>3, <3>4, <3>5
  <2>5. TextStands'
    BY <1>1, <2>2, <2>4 DEF TextStands
  <2>6. SentStands'
    BY <1>1, <1>2, <2>1 DEF ResponseStands, SentStands, Reset, fields, net
  <2> QED
    BY <1>3, <2>1, <2>5, <2>6 DEF ResponseStands
<1> QED
  BY <1>4, <1>6, <1>7 DEF AnswerInv

------------------------------------------------------------------------------
LEMMA HttpStep == ResponseAssumption /\ AnswerInv /\ [Next]_vars => AnswerInv'
<1> SUFFICES ASSUME ResponseAssumption, AnswerInv, [Next]_vars PROVE AnswerInv'
  OBVIOUS
<1>1. CASE User
  <2>1. CASE connectionKeepAlive
    BY <2>1, KeepAliveSafe
  <2>2. CASE beginRequest
    BY <2>2, BeginRequestSafe
  <2>3. CASE endRequest
    BY <2>3, EndRequestSafe
  <2>4. CASE stop
    BY <2>4, HttpStopSafe
  <2>5. CASE \E hasBody \in BOOLEAN : startRequest(hasBody)
    BY <2>5, StartRequestSafe
  <2>6. CASE startRequestFails
    BY <2>6, StartFailsSafe
  <2>7. CASE responseStatusCode
    BY <2>7, StatusCodeSafe
  <2>8. CASE headerAvailable
    BY <2>8, HeaderAvailableSafe
  <2>9. CASE \E next \in {"return", "body"} : skipResponseHeaders(next)
    BY <2>9, SkipHeadersSafe
  <2>10. CASE readByte
    BY <2>10, ReadByteSafe
  <2>11. CASE readBuf
    BY <2>11, ReadBufSafe
  <2> QED
    BY <1>1, <2>1, <2>2, <2>3, <2>4, <2>5, <2>6, <2>7, <2>8, <2>9, <2>10, <2>11 DEF User
<1>2. CASE Step
  <2>1. CASE readStatus
    BY <2>1, ReadStatusSafe
  <2>2. CASE statusTimeout
    BY <2>2, StatusTimeoutSafe
  <2>3. CASE skipHeader
    BY <2>3, SkipHeaderSafe
  <2>4. CASE headersEnd
    BY <2>4, HeadersEndSafe
  <2>5. CASE bodyRead
    BY <2>5, BodyReadSafe
  <2>6. CASE bodyEnd
    BY <2>6, BodyEndSafe
  <2> QED
    BY <1>2, <2>1, <2>2, <2>3, <2>4, <2>5, <2>6 DEF Step
<1>3. CASE Poll
  BY <1>3, PollHeaderSafe, HeaderDoneSafe DEF Poll
<1>4. CASE Network
  BY <1>4, AnswerSent, AnswerDelivered, AnswerLost DEF Network
<1>5. CASE UNCHANGED vars
  <2>1. UNCHANGED <<iState, fields, net, call, due, excuse>>
    BY <1>5 DEF vars
  <2>2. Ahead' = Ahead
    BY <2>1 DEF net, Ahead
  <2>3. (HeadersStand => HeadersStand') /\ (BodyStands => BodyStands')
    BY <2>1, <2>2, ResponseSame DEF call
  <2> QED
    BY <2>1, <2>2, <2>3
       DEF AnswerInv, HttpTypes, CallStands, StatusStands, ResponseStands, SentStands, TextStands,
           StatusIsOwn, Late, Reset, fields, net, call
<1> QED
  BY <1>1, <1>2, <1>3, <1>4, <1>5 DEF Next

LEMMA HttpMove ==
  /\ PartsInit => Init
  /\ [PartsNext]_allVars => [Next]_vars
BY DEF PartsInit, PartsNext, allVars

LEMMA AnswerHolds == AnswerInv => StatusIsOwn /\ BodyIsServers
<1> SUFFICES ASSUME AnswerInv, ret = "text", excuse = {} PROVE pure /\ (due > 0 => got = due)
  BY DEF AnswerInv, BodyIsServers
<1>1. ResponseStands
  BY DEF AnswerInv
<1>2. iState \in BodyState /\ (due > 0 => got = due)
  BY <1>1 DEF ResponseStands, TextStands
<1> QED
  BY <1>1, <1>2 DEF ResponseStands, BodyStands

\* For every set of responses and any number of requests: what
\* responseStatusCode() and responseBody() return is the server's answer to the
\* last request, and all of the body if its length was announced, but for the
\* excuses that the properties name.
THEOREM AnswerSafe ==
  PartsSpec => []AnswerIsServers
<1>1. PartsInit => AnswerInv
  BY HttpInit, HttpMove
<1>2. AnswerInv /\ [PartsNext]_allVars => AnswerInv'
  BY HttpStep, HttpMove, ResponseAssumption
<1>3. AnswerInv => AnswerIsServers
  BY AnswerHolds DEF AnswerIsServers
<1> QED
  BY <1>1, <1>2, <1>3, PTL DEF PartsSpec
===============================================================================
