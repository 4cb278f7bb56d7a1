------------------------------ MODULE CoreProofs ------------------------------
(***************************************************************************)
(* What holds of the core's receive ring for every ring size, every bound  *)
(* and every scheduling of the interrupt handler, and that the ring        *)
(* implements BoundedFifo when the handler never runs inside a call of the *)
(* task; and what holds of the core's text handling - String, the parsers  *)
(* of Stream, the numbers of print(), the names of DNSServer - for every   *)
(* text, every target, every number and every width.                       *)
(***************************************************************************)
EXTENDS SerialRx, Parsing, SequenceTheorems, FiniteSetTheorems, Recursion, TLAPS

(***************************************************************************)
(* nextIndex() stays inside the buffer.                                    *)
(***************************************************************************)
LEMMA NextIndexInRange ==
  ASSUME NEW i \in Index PROVE nextIndex(i) \in Index
  BY NAssumption DEF Index, nextIndex

(***************************************************************************)
(* The remainder that nextIndex() takes is what one wrap-around leaves.    *)
(***************************************************************************)
LEMMA WrapAround ==
  ASSUME NEW x \in 0 .. 2 * N - 1
  PROVE  x % N = IF x < N THEN x ELSE x - N
  BY NAssumption

------------------------------------------------------------------------------
(***************************************************************************)
(* read_char() only decrements a count that it found positive: from its    *)
(* test of _numElems to its store, the handler can only have raised it.    *)
(***************************************************************************)
CountPositive ==
  /\ pc \in {"value", "load"} => num >= 1
  /\ pc = "store" => tmp >= 1 /\ tmp <= num

Inv1 == TypeOK /\ CountPositive

\* The invariant holds at the start,
LEMMA Inv1Init == Init => Inv1
<1> SUFFICES ASSUME Init PROVE Inv1
  OBVIOUS
<1>1. fifo \in Seq(Byte) /\ stored \in Seq(Byte) /\ taken \in Seq(Nat)
  BY DEF Init
<1>2. buf \in [Index -> Nat] /\ 0 \in Index
  BY NAssumption DEF Init, Index
<1> QED
  BY <1>1, <1>2, NAssumption DEF Init, Inv1, TypeOK, CountPositive, PC, NoData

\* and every step keeps it.
LEMMA Inv1Next == Inv1 /\ [Next]_vars => Inv1'
<1> SUFFICES ASSUME Inv1, [Next]_vars PROVE Inv1'
  OBVIOUS
<1> USE NAssumption, BoundAssumption DEF Inv1, CountPositive, PC
<1>1. CASE Arrive
  BY <1>1 DEF Arrive, TypeOK, ring, task, Byte
<1>2. CASE RxIsr
  <2>1. Head(fifo) \in Byte /\ Tail(fifo) \in Seq(Byte)
    BY <1>2 DEF RxIsr, TypeOK
  <2>2. nextIndex(head) \in Index
    BY NextIndexInRange DEF TypeOK
  <2>3. CASE isFull \/ ~ (availableForStore > 0)
    BY <1>2, <2>1, <2>3 DEF RxIsr, storeRxChar, store_char, TypeOK, task
  <2>4. CASE ~ isFull /\ availableForStore > 0
    <3>1. /\ buf' = [buf EXCEPT ![head] = Head(fifo)]
          /\ head' = nextIndex(head)
          /\ num' = num + 1
          /\ stored' = Append(stored, Head(fifo))
      BY <1>2, <2>4 DEF RxIsr, storeRxChar, store_char
    <3>2. buf' \in [Index -> Nat]
      BY <3>1, <2>1 DEF TypeOK, Byte
    <3>3. stored' \in Seq(Byte)
      BY <3>1, <2>1 DEF TypeOK
    <3>4. num' \in 0 .. N
      BY <3>1, <2>4 DEF TypeOK, isFull
    <3> QED BY <1>2, <2>1, <2>2, <3>1, <3>2, <3>3, <3>4 DEF RxIsr, TypeOK, task
  <2> QED BY <2>3, <2>4
<1>3. CASE ReadEmpty
  BY <1>3 DEF ReadEmpty, TypeOK, ring, task
<1>4. CASE ReadTest
  BY <1>4 DEF ReadTest, TypeOK, ring, isEmpty
<1>5. CASE ReadValue
  BY <1>5, NextIndexInRange DEF ReadValue, TypeOK
<1>6. CASE ReadLoad
  BY <1>6 DEF ReadLoad, TypeOK, ring
<1>7. CASE ReadStore
  BY <1>7 DEF ReadStore, TypeOK
<1>8. CASE PeekTest
  BY <1>8 DEF PeekTest, TypeOK, ring
<1>9. CASE PeekValue
  BY <1>9 DEF PeekValue, TypeOK, ring
<1>10. CASE Begin \/ Write
  BY <1>10 DEF Begin, Write, TypeOK, ring
<1>11. CASE End
  BY <1>11 DEF End, TypeOK, ring
<1>12. CASE EndDetach
  <2>1. fifo' = fifo \/ fifo' = <<>>
    BY <1>12 DEF EndDetach
  <2>2. fifo \in Seq(Byte) /\ << >> \in Seq(Byte)
    BY DEF TypeOK
  <2>3. fifo' \in Seq(Byte)
    BY <2>1, <2>2, Zenon
  <2> QED BY <1>12, <2>3 DEF EndDetach, TypeOK, ring
<1>13. CASE ClearHead
  BY <1>13 DEF ClearHead, TypeOK, Index
<1>14. CASE ClearTail
  BY <1>14 DEF ClearTail, TypeOK, Index
<1>15. CASE ClearNum
  BY <1>15 DEF ClearNum, TypeOK
<1>16. CASE Finish
  BY <1>16 DEF Finish, TypeOK, ring
<1>17. CASE UNCHANGED vars
  BY <1>17 DEF vars, TypeOK
<1> QED
  BY <1>1, <1>2, <1>3, <1>4, <1>5, <1>6, <1>7, <1>8, <1>9, <1>10, <1>11, <1>12,
     <1>13, <1>14, <1>15, <1>16, <1>17 DEF Next

(***************************************************************************)
(* Type correctness: in particular the indices never leave the buffer and  *)
(* 0 <= _numElems <= N, however the handler interrupts the task.           *)
(***************************************************************************)
THEOREM TypeCorrect == Spec => []TypeOK
<1>1. Spec => []Inv1
  BY Inv1Init, Inv1Next, PTL DEF Spec
<1>2. Inv1 => TypeOK
  BY DEF Inv1
<1> QED BY <1>1, <1>2, PTL

------------------------------------------------------------------------------
(***************************************************************************)
(* The count against the bytes.  While clear() is at work the count means  *)
(* nothing; when its last store is made, everything read has been          *)
(* forgotten, so 0 is at most what the handler has stored meanwhile.       *)
(***************************************************************************)
Inv2 ==
  /\ Inv1
  /\ CountNeverAhead
  /\ pc = "clearNum" => taken = <<>>

\* The invariant holds at the start,
LEMMA Inv2Init == Init => Inv2
<1> SUFFICES ASSUME Init PROVE Inv2
  OBVIOUS
<1>1. Inv1
  BY Inv1Init
<1>2. Len(stored) = 0 /\ Len(taken) = 0
  BY DEF Init
<1> QED BY <1>1, <1>2 DEF Init, Inv2, CountNeverAhead, unread, clearing, reading

\* and every step keeps it.
LEMMA Inv2Next == Inv2 /\ [Next]_vars => Inv2'
<1> SUFFICES ASSUME Inv2, [Next]_vars PROVE Inv2'
  OBVIOUS
<1>0. Inv1'
  BY Inv1Next DEF Inv2
<1>a. /\ Len(stored) \in Nat /\ Len(taken) \in Nat
      /\ Len(stored') \in Nat /\ Len(taken') \in Nat
      /\ num \in Nat /\ tmp \in Nat
      /\ N \in Nat
  <2>1. /\ stored \in Seq(Byte) /\ stored' \in Seq(Byte)
        /\ taken \in Seq(Nat) /\ taken' \in Seq(Nat)
        /\ num \in 0 .. N /\ tmp \in 0 .. N
    BY <1>0, Zenon DEF Inv2, Inv1, TypeOK
  <2> QED BY <2>1, NAssumption
<1> USE <1>0, <1>a DEF Inv2, CountNeverAhead, unread, clearing, reading
<1>1. CASE Arrive
  BY <1>1 DEF Arrive, ring, task
<1>2. CASE RxIsr
  <2>1. CASE isFull \/ ~ (availableForStore > 0)
    BY <1>2, <2>1 DEF RxIsr, storeRxChar, store_char, task
  <2>2. CASE ~ isFull /\ availableForStore > 0
    <3>1. num' = num + 1 /\ Len(stored') = Len(stored) + 1
      BY <1>2, <2>2 DEF RxIsr, storeRxChar, store_char, Inv1, TypeOK
    <3> QED BY <1>2, <3>1 DEF RxIsr, task
  <2> QED BY <2>1, <2>2
<1>3. CASE ReadEmpty
  BY <1>3 DEF ReadEmpty, ring, task
<1>4. CASE ReadTest
  BY <1>4 DEF ReadTest, ring
<1>5. CASE ReadValue
  <2>1. Len(taken') = Len(taken) + 1
    BY <1>5 DEF ReadValue, Inv1, TypeOK
  <2> QED BY <1>5, <2>1 DEF ReadValue
<1>6. CASE ReadLoad
  BY <1>6 DEF ReadLoad, ring
<1>7. CASE ReadStore
  BY <1>7 DEF ReadStore
<1>8. CASE PeekTest \/ PeekValue
  BY <1>8 DEF PeekTest, PeekValue, ring
<1>9. CASE Begin \/ Write \/ End
  BY <1>9 DEF Begin, Write, End, ring
<1>10. CASE EndDetach
  BY <1>10 DEF EndDetach, ring
<1>11. CASE ClearHead
  BY <1>11 DEF ClearHead
<1>12. CASE ClearTail
  BY <1>12 DEF ClearTail
<1>13. CASE ClearNum
  <2>1. num' = 0 /\ Len(taken') = 0
    BY <1>13 DEF ClearNum
  <2> QED BY <1>13, <2>1 DEF ClearNum
<1>14. CASE Finish
  BY <1>14 DEF Finish, ring
<1>15. CASE UNCHANGED vars
  BY <1>15 DEF vars
<1> QED
  BY <1>1, <1>2, <1>3, <1>4, <1>5, <1>6, <1>7, <1>8, <1>9, <1>10, <1>11, <1>12,
     <1>13, <1>14, <1>15 DEF Next

(***************************************************************************)
(* However the handler interrupts read_char() and clear(), available()     *)
(* never promises a byte that has not been received.                       *)
(***************************************************************************)
THEOREM CountSafe == Spec => []CountNeverAhead
<1>1. Spec => []Inv2
  BY Inv2Init, Inv2Next, PTL DEF Spec
<1>2. Inv2 => CountNeverAhead
  BY DEF Inv2
<1> QED BY <1>1, <1>2, PTL

------------------------------------------------------------------------------
(***************************************************************************)
(* The handler sees the object only while the port is started, and end()   *)
(* has hidden it before it touches the ring.  While it is hidden nobody    *)
(* but the task changes the ring, so the three stores of clear() leave it  *)
(* empty.                                                                  *)
(***************************************************************************)
Attachment ==
  /\ pc \in {"idle", "value", "load", "store", "peek", "detach"} => attached = started
  /\ pc \in {"value", "load", "store", "peek", "detach"} => started
  /\ pc \in {"clearHead", "clearTail", "clearNum", "finish"} =>
       IF op = "end" THEN ~ attached ELSE attached = started
  /\ pc = "detach" => op = "end"

HiddenRing ==
  ~ attached =>
    /\ pc \in {"clearTail", "clearNum", "finish"} => head = 0 /\ stored = <<>>
    /\ pc \in {"clearNum", "finish"} => tail = 0 /\ taken = <<>>
    /\ pc = "finish" => num = 0

Inv3 == Inv1 /\ Attachment /\ HiddenRing /\ StoppedIsEmpty

\* The invariant holds at the start,
LEMMA Inv3Init == Init => Inv3
  BY Inv1Init DEF Init, Inv3, Attachment, HiddenRing, StoppedIsEmpty

\* and every step keeps it.
LEMMA Inv3Next == Inv3 /\ [Next]_vars => Inv3'
<1> SUFFICES ASSUME Inv3, [Next]_vars PROVE Inv3'
  OBVIOUS
<1>0. Inv1'
  BY Inv1Next DEF Inv3
<1>a. pc \in PC /\ started \in BOOLEAN /\ attached \in BOOLEAN /\ op \in {"begin", "end"}
  BY DEF Inv3, Inv1, TypeOK
<1> USE <1>0, <1>a DEF Inv3, PC, Attachment, HiddenRing, StoppedIsEmpty
<1>1. CASE Arrive
  BY <1>1 DEF Arrive, ring, task
<1>2. CASE RxIsr
  BY <1>2 DEF RxIsr, task
<1>3. CASE ReadEmpty
  BY <1>3 DEF ReadEmpty, ring, task
<1>4. CASE ReadTest \/ PeekTest
  BY <1>4 DEF ReadTest, PeekTest, ring
<1>5. CASE ReadValue
  BY <1>5 DEF ReadValue
<1>6. CASE ReadLoad
  BY <1>6 DEF ReadLoad, ring
<1>7. CASE ReadStore
  BY <1>7 DEF ReadStore
<1>8. CASE PeekValue
  BY <1>8 DEF PeekValue, ring
<1>9. CASE Begin \/ Write
  BY <1>9 DEF Begin, Write, ring
<1>10. CASE End
  BY <1>10 DEF End, ring
<1>11. CASE EndDetach
  <2>1. /\ pc = "detach" /\ pc' = "clearHead" /\ attached' = FALSE /\ op' = op
        /\ UNCHANGED <<started, head, tail, num, stored, taken>>
    BY <1>11, Zenon DEF EndDetach, ring
  <2> QED BY <2>1
<1>12. CASE ClearHead
  BY <1>12 DEF ClearHead
<1>13. CASE ClearTail
  BY <1>13 DEF ClearTail
<1>14. CASE ClearNum
  BY <1>14 DEF ClearNum
<1>15. CASE Finish
  BY <1>15 DEF Finish, ring
<1>16. CASE UNCHANGED vars
  BY <1>16 DEF vars
<1> QED
  BY <1>1, <1>2, <1>3, <1>4, <1>5, <1>6, <1>7, <1>8, <1>9, <1>10, <1>11, <1>12,
     <1>13, <1>14, <1>15, <1>16 DEF Next

(***************************************************************************)
(* A port that is not started holds nothing, whatever the handler was      *)
(* doing while end() ran.                                                  *)
(***************************************************************************)
THEOREM StopEmpties == Spec => []StoppedIsEmpty
<1>1. Spec => []Inv3
  BY Inv3Init, Inv3Next, PTL DEF Spec
<1>2. Inv3 => StoppedIsEmpty
  BY DEF Inv3
<1> QED BY <1>1, <1>2, PTL

------------------------------------------------------------------------------
(***************************************************************************)
(* Windows of the ring.                                                    *)
(***************************************************************************)

\* The k bytes of b from index t on.
Bytes(b, t, k) == [i \in 1 .. k |-> b[(t + i - 1) % N]]

\* Offsets of less than two turns wrap around once.
LEMMA Wraps ==
  ASSUME NEW t \in Index, NEW k \in 0 .. N
  PROVE  (t + k) % N = (IF t + k < N THEN t + k ELSE t + k - N) /\ (t + k) % N \in Index
BY NAssumption DEF Index

\* The bytes of the ring are a sequence of bytes.
LEMMA BytesSeq ==
  ASSUME NEW b \in [Index -> Nat], NEW t \in Index, NEW k \in 0 .. N
  PROVE  /\ Bytes(b, t, k) \in Seq(Nat) /\ Len(Bytes(b, t, k)) = k
         /\ \A i \in 1 .. k : Bytes(b, t, k)[i] = b[(t + i - 1) % N]
<1>1. \A i \in 1 .. k : (t + i - 1) % N \in Index
  BY NAssumption DEF Index
<1>2. \A i \in 1 .. k : b[(t + i - 1) % N] \in Nat
  BY <1>1
<1>3. k \in Nat
  BY NAssumption
<1>4. Bytes(b, t, k) \in Seq(Nat) /\ Len(Bytes(b, t, k)) = k
  BY <1>2, <1>3 DEF Bytes
<1> QED
  BY <1>4 DEF Bytes

\* Different offsets within one turn are different places.
LEMMA PlacesDiffer ==
  ASSUME NEW t \in Index, NEW a \in 0 .. N - 1, NEW k \in 0 .. N - 1, a < k
  PROVE  (t + a) % N # (t + k) % N
<1>1. a \in 0 .. N /\ k \in 0 .. N /\ N \in Nat /\ t \in 0 .. N - 1
  BY NAssumption DEF Index
<1>2. (t + a) % N = IF t + a < N THEN t + a ELSE t + a - N
  BY <1>1, Wraps
<1>3. (t + k) % N = IF t + k < N THEN t + k ELSE t + k - N
  BY <1>1, Wraps
<1>4. CASE t + a < N
  <2>1. (t + a) % N = t + a
    BY <1>2, <1>4
  <2> QED
    BY <2>1, <1>1, <1>3
<1>5. CASE ~(t + a < N)
  <2>1. (t + a) % N = t + a - N /\ (t + k) % N = t + k - N
    BY <1>1, <1>2, <1>3, <1>5
  <2> QED
    BY <2>1, <1>1
<1> QED
  BY <1>4, <1>5

\* store_char() writes behind the last byte.
LEMMA StoreAppends ==
  ASSUME NEW b \in [Index -> Nat], NEW t \in Index, NEW k \in 0 .. N - 1, NEW c \in Nat
  PROVE  Bytes([b EXCEPT ![(t + k) % N] = c], t, k + 1) = Append(Bytes(b, t, k), c)
<1> DEFINE b2 == [b EXCEPT ![(t + k) % N] = c]
           old == Bytes(b, t, k)
           new == Bytes(b2, t, k + 1)
<1>1. k \in 0 .. N /\ k + 1 \in 0 .. N /\ N \in Nat /\ k \in Nat
  BY NAssumption
<1>2. (t + k) % N \in Index
  BY <1>1, Wraps
<1>3. b2 \in [Index -> Nat]
  BY <1>2
<1>4. old \in Seq(Nat) /\ Len(old) = k /\ \A i \in 1 .. k : old[i] = b[(t + i - 1) % N]
  BY <1>1, BytesSeq
<1>5. /\ new \in Seq(Nat) /\ Len(new) = k + 1
      /\ \A i \in 1 .. k + 1 : new[i] = b2[(t + i - 1) % N]
  BY <1>1, <1>3, BytesSeq
<1>6. /\ Append(old, c) \in Seq(Nat) /\ Len(Append(old, c)) = k + 1
      /\ \A i \in 1 .. k : Append(old, c)[i] = old[i]
      /\ Append(old, c)[k + 1] = c
  BY <1>4, AppendProperties
<1>7. ASSUME NEW i \in 1 .. k
      PROVE  new[i] = Append(old, c)[i]
  <2>1. i - 1 \in 0 .. N - 1 /\ i - 1 < k /\ t + (i - 1) = t + i - 1 /\ i - 1 \in 0 .. N
    BY <1>1 DEF Index
  <2>2. (t + i - 1) % N # (t + k) % N /\ (t + i - 1) % N \in Index
    BY <2>1, PlacesDiffer, Wraps
  <2>3. b2[(t + i - 1) % N] = b[(t + i - 1) % N]
    BY <2>2
  <2>4. i \in 1 .. k + 1
    BY <1>1
  <2> QED
    BY <2>3, <2>4, <1>4, <1>5, <1>6
<1>8. new[k + 1] = c
  <2>1. t + (k + 1) - 1 = t + k /\ k + 1 \in 1 .. k + 1
    BY <1>1 DEF Index
  <2>2. b2[(t + k) % N] = c
    BY <1>2
  <2> QED
    BY <2>1, <2>2, <1>5
<1>9. \A i \in 1 .. k + 1 : new[i] = Append(old, c)[i]
  <2> TAKE i \in 1 .. k + 1
  <2>1. i \in 1 .. k \/ i = k + 1
    BY <1>1
  <2> QED
    BY <2>1, <1>6, <1>7, <1>8
<1> HIDE DEF old, new
<1>10. new = Append(old, c)
  BY <1>5, <1>6, <1>9, SeqEqual
<1> QED
  BY <1>10 DEF old, new

\* read_char() takes the first byte.
LEMMA ReadTakesHead ==
  ASSUME NEW b \in [Index -> Nat], NEW t \in Index, NEW k \in 1 .. N
  PROVE  /\ Bytes(b, t, k) # <<>>
         /\ Head(Bytes(b, t, k)) = b[t]
         /\ Bytes(b, nextIndex(t), k - 1) = Tail(Bytes(b, t, k))
<1> DEFINE old == Bytes(b, t, k)
           new == Bytes(b, nextIndex(t), k - 1)
<1>1. k \in 0 .. N /\ k - 1 \in 0 .. N /\ N \in Nat \ {0} /\ k \in Nat \ {0} /\ t \in 0 .. N - 1
  BY NAssumption DEF Index
<1>2. nextIndex(t) \in Index
  BY NextIndexInRange
<1>3. old \in Seq(Nat) /\ Len(old) = k /\ \A i \in 1 .. k : old[i] = b[(t + i - 1) % N]
  BY <1>1, BytesSeq
<1>4. /\ new \in Seq(Nat) /\ Len(new) = k - 1
      /\ \A i \in 1 .. k - 1 : new[i] = b[(nextIndex(t) + i - 1) % N]
  BY <1>1, <1>2, BytesSeq
<1>5. old # <<>>
  BY <1>1, <1>3
<1>6. /\ Tail(old) \in Seq(Nat) /\ Len(Tail(old)) = k - 1
      /\ \A i \in 1 .. k - 1 : Tail(old)[i] = old[i + 1]
  BY <1>3, <1>5, HeadTailProperties
<1>7. Head(old) = b[t]
  <2>1. t + 1 - 1 = t + 0 /\ 0 \in 0 .. N /\ 1 \in 1 .. k /\ t + 0 = t /\ t < N
    BY <1>1
  <2>2. (t + 0) % N = t
    BY <2>1, Wraps
  <2>3. old[1] = b[t]
    BY <2>1, <2>2, <1>3
  <2>4. Head(old) = old[1]
    BY <1>3, <1>5
  <2> QED
    BY <2>3, <2>4
<1>8. \A i \in 1 .. k - 1 : new[i] = Tail(old)[i]
  <2> TAKE i \in 1 .. k - 1
  <2>1. /\ i + 1 \in 1 .. k /\ i \in 0 .. N /\ i - 1 \in 0 .. N /\ t + (i + 1) - 1 = t + i
        /\ nextIndex(t) + (i - 1) = nextIndex(t) + i - 1 /\ nextIndex(t) \in 0 .. N - 1
    BY <1>1, <1>2 DEF Index
  <2>2. (t + i) % N = IF t + i < N THEN t + i ELSE t + i - N
    BY <2>1, Wraps
  <2>3. nextIndex(t) = IF t + 1 < N THEN t + 1 ELSE t + 1 - N
    <3>1. 1 \in 0 .. N
      BY <1>1
    <3> QED
      BY <3>1, Wraps DEF nextIndex
  <2>4. (nextIndex(t) + i - 1) % N =
          IF nextIndex(t) + i - 1 < N THEN nextIndex(t) + i - 1 ELSE nextIndex(t) + i - 1 - N
    BY <2>1, <1>2, Wraps
  <2>5. (nextIndex(t) + i - 1) % N = (t + i) % N
    <3> HIDE DEF nextIndex
    <3>1. i \in Nat /\ i < N
      BY <1>1
    <3>2. CASE t + 1 < N
      <4>1. nextIndex(t) = t + 1
        BY <2>3, <3>2
      <4> QED
        BY <4>1, <2>2, <2>4, <3>1, <1>1
    <3>3. CASE ~(t + 1 < N)
      <4>1. nextIndex(t) = 0 /\ t = N - 1
        BY <2>3, <3>3, <1>1
      <4> QED
        BY <4>1, <2>2, <2>4, <3>1, <1>1
    <3> QED
      BY <3>2, <3>3
  <2>6. Tail(old)[i] = b[(t + i) % N]
    BY <2>1, <1>3, <1>6
  <2>7. new[i] = b[(nextIndex(t) + i - 1) % N]
    BY <1>4
  <2> QED
    BY <2>5, <2>6, <2>7
<1> HIDE DEF old, new
<1>9. new = Tail(old)
  BY <1>4, <1>6, <1>8, SeqEqual
<1> QED
  BY <1>5, <1>7, <1>9 DEF old, new

------------------------------------------------------------------------------
(***************************************************************************)
(* Without preemption the count is exact: the head is num bytes after the  *)
(* tail, one less once read_char() has moved the tail, and clear() is not  *)
(* disturbed.                                                              *)
(***************************************************************************)
Whole == {"idle", "value", "peek", "detach", "clearHead", "finish"}

ExactCount ==
  /\ pc \in Whole => head = (tail + num) % N
  /\ pc \in {"load", "store"} => head = (tail + (num - 1)) % N
  /\ pc = "store" => tmp = num
  /\ pc = "peek" => num >= 1
  /\ pc \in {"clearTail", "clearNum"} => head = 0
  /\ pc = "clearNum" => tail = 0

ExactInv == Inv3 /\ ExactCount

\* An empty ring holds the empty queue.
LEMMA ExactInit == Init => ExactInv
<1> SUFFICES ASSUME Init
             PROVE  ExactInv
  OBVIOUS
<1>1. Inv3
  BY Inv3Init
<1>2. pc = "idle" /\ head = 0 /\ tail = 0 /\ num = 0 /\ 0 % N = 0
  BY NAssumption DEF Init
<1> QED
  BY <1>1, <1>2 DEF ExactInv, ExactCount

\* The steps that move an index or the count.
LEMMA ExactRing ==
  ASSUME ExactInv, ~IsrPreempts, RxIsr \/ ReadValue \/ ReadStore
  PROVE  ExactCount'
<1>1. /\ head \in Index /\ tail \in Index /\ num \in 0 .. N /\ N \in Nat \ {0}
      /\ CountPositive /\ ExactCount
  BY NAssumption DEF ExactInv, Inv3, Inv1, TypeOK
<1>2. CASE RxIsr
  <2>1. pc = "idle" /\ pc' = "idle" /\ tail' = tail /\ storeRxChar(Head(fifo))
    BY <1>2 DEF RxIsr, task
  <2>2. CASE head' = head /\ num' = num
    BY <2>1, <2>2, <1>1 DEF ExactCount, Whole
  <2>3. CASE ~isFull /\ head' = nextIndex(head) /\ num' = num + 1
    <3>1. head = (tail + num) % N /\ num + 1 \in 0 .. N /\ num \in 0 .. N - 1
      BY <2>1, <2>3, <1>1 DEF ExactCount, Whole, isFull
    <3>2. (tail + num) % N = IF tail + num < N THEN tail + num ELSE tail + num - N
      BY <1>1, Wraps
    <3>3. (tail + (num + 1)) % N = IF tail + (num + 1) < N THEN tail + (num + 1) ELSE tail + (num + 1) - N
      BY <1>1, <3>1, Wraps
    <3>4. (head + 1) % N = IF head + 1 < N THEN head + 1 ELSE head + 1 - N
      <4>1. 1 \in 0 .. N
        BY <1>1
      <4> QED
        BY <1>1, <4>1, Wraps
    <3>5. tail \in 0 .. N - 1
      BY <1>1 DEF Index
    <3>6. (head + 1) % N = (tail + (num + 1)) % N
      <4>1. CASE tail + num < N
        <5>1. head = tail + num
          BY <3>1, <3>2, <4>1
        <5> QED
          BY <5>1, <3>1, <3>3, <3>4, <3>5, <1>1
      <4>2. CASE ~(tail + num < N)
        <5>1. head = tail + num - N
          BY <3>1, <3>2, <4>2
        <5> QED
          BY <5>1, <4>2, <3>1, <3>3, <3>4, <3>5, <1>1
      <4> QED
        BY <4>1, <4>2
    <3> QED
      BY <2>1, <2>3, <3>6 DEF ExactCount, Whole, nextIndex
  <2> QED
    BY <2>1, <2>2, <2>3 DEF storeRxChar, store_char
<1>3. CASE ReadValue
  <2>1. pc = "value" /\ pc' = "load" /\ head' = head /\ num' = num /\ tail' = nextIndex(tail)
    BY <1>3 DEF ReadValue
  <2>2. head = (tail + num) % N /\ num >= 1
    BY <2>1, <1>1 DEF ExactCount, Whole, CountPositive
  <2>3. nextIndex(tail) \in Index /\ num - 1 \in 0 .. N /\ 1 \in 0 .. N /\ tail \in 0 .. N - 1
    BY <2>2, <1>1, NextIndexInRange DEF Index
  <2>4. (tail + num) % N = IF tail + num < N THEN tail + num ELSE tail + num - N
    BY <1>1, Wraps
  <2>5. nextIndex(tail) = IF tail + 1 < N THEN tail + 1 ELSE tail + 1 - N
    BY <1>1, <2>3, Wraps DEF nextIndex
  <2>6. (nextIndex(tail) + (num - 1)) % N =
          IF nextIndex(tail) + (num - 1) < N THEN nextIndex(tail) + (num - 1)
          ELSE nextIndex(tail) + (num - 1) - N
    BY <2>3, Wraps
  <2>7. (nextIndex(tail) + (num - 1)) % N = (tail + num) % N
    <3>1. CASE tail + 1 < N
      <4>1. nextIndex(tail) = tail + 1
        BY <2>5, <3>1
      <4> QED
        BY <4>1, <2>4, <2>6, <2>3, <1>1
    <3>2. CASE ~(tail + 1 < N)
      <4>1. nextIndex(tail) = 0 /\ tail = N - 1
        BY <2>5, <3>2, <2>3, <1>1
      <4> QED
        BY <4>1, <2>2, <2>4, <2>6, <1>1
    <3> QED
      BY <3>1, <3>2
  <2> QED
    BY <2>1, <2>2, <2>7 DEF ExactCount, Whole
<1>4. CASE ReadStore
  <2>1. pc = "store" /\ pc' = "idle" /\ head' = head /\ tail' = tail /\ num' = tmp - 1
    BY <1>4 DEF ReadStore
  <2> QED
    BY <2>1, <1>1 DEF ExactCount, Whole
<1> QED
  BY <1>2, <1>3, <1>4

\* The others.
LEMMA ExactNext ==
  ASSUME ExactInv, ~IsrPreempts, [Next]_vars
  PROVE  ExactInv'
<1>1. Inv3'
  BY Inv3Next DEF ExactInv
<1>2. /\ num \in 0 .. N /\ N \in Nat \ {0} /\ ExactCount /\ pc \in PC
      /\ 0 % N = 0
  BY NAssumption DEF ExactInv, Inv3, Inv1, TypeOK
<1>3. CASE RxIsr \/ ReadValue \/ ReadStore
  BY <1>1, <1>3, ExactRing DEF ExactInv
<1>4. CASE Arrive \/ ReadEmpty \/ PeekValue \/ UNCHANGED vars
  <2>1. UNCHANGED <<head, tail, num, tmp>> /\ (pc' = pc \/ (pc = "peek" /\ pc' = "idle"))
    BY <1>4 DEF Arrive, ReadEmpty, PeekValue, ring, task, vars
  <2> QED
    BY <1>1, <1>2, <2>1 DEF ExactInv, ExactCount, Whole
<1>5. CASE ReadTest \/ PeekTest
  <2>1. UNCHANGED <<head, tail, num, tmp>> /\ pc = "idle" /\ pc' \in {"value", "peek"} /\ num # 0
    BY <1>5 DEF ReadTest, PeekTest, ring, isEmpty
  <2> QED
    BY <1>1, <1>2, <2>1 DEF ExactInv, ExactCount, Whole
<1>6. CASE ReadLoad
  <2>1. UNCHANGED <<head, tail, num>> /\ pc = "load" /\ pc' = "store" /\ tmp' = num
    BY <1>6 DEF ReadLoad, ring
  <2> QED
    BY <1>1, <1>2, <2>1 DEF ExactInv, ExactCount, Whole
<1>7. CASE Begin \/ Write \/ End \/ EndDetach
  <2>1. /\ UNCHANGED <<head, tail, num, tmp>> /\ pc \in {"idle", "detach"}
        /\ pc' \in {"clearHead", "detach"}
    BY <1>7 DEF Begin, Write, End, EndDetach, ring
  <2> QED
    BY <1>1, <1>2, <2>1 DEF ExactInv, ExactCount, Whole
<1>8. CASE ClearHead \/ ClearTail \/ ClearNum \/ Finish
  <2>1. CASE ClearHead
    BY <1>1, <1>2, <2>1 DEF ClearHead, ExactInv, ExactCount, Whole
  <2>2. CASE ClearTail
    BY <1>1, <1>2, <2>2 DEF ClearTail, ExactInv, ExactCount, Whole
  <2>3. CASE ClearNum
    <3>1. head' = 0 /\ tail' = 0 /\ num' = 0 /\ pc' = "finish"
      BY <2>3, <1>2 DEF ClearNum, ExactCount
    <3> QED
      BY <1>1, <1>2, <3>1 DEF ExactInv, ExactCount, Whole
  <2>4. CASE Finish
    BY <1>1, <1>2, <2>4 DEF Finish, ring, ExactInv, ExactCount, Whole
  <2> QED
    BY <1>8, <2>1, <2>2, <2>3, <2>4
<1> QED
  BY <1>3, <1>4, <1>5, <1>6, <1>7, <1>8 DEF Next

------------------------------------------------------------------------------
(***************************************************************************)
(* Every step is a step of BoundedFifo or changes neither queue nor        *)
(* answer.                                                                 *)
(***************************************************************************)
LEMMA QueueIsBytes ==
  queue = IF clearing THEN <<>> ELSE Bytes(buf, tail, IF reading THEN num - 1 ELSE num)
BY DEF queue, Window, Bytes

\* Steps that leave the bytes of the queue where they are.
LEMMA Stutters ==
  ASSUME ExactInv,
         \/ Arrive \/ ReadTest \/ PeekTest \/ ReadLoad \/ ReadStore
         \/ Begin \/ Write \/ End \/ EndDetach \/ ClearTail \/ ClearNum \/ Finish
         \/ UNCHANGED vars
  PROVE  queue' = queue /\ answer' = answer
<1>1. num \in 0 .. N /\ ExactCount /\ pc \in PC
  BY DEF ExactInv, Inv3, Inv1, TypeOK
<1>2. CASE \/ Arrive \/ ReadTest \/ PeekTest \/ ReadLoad \/ Begin \/ Write \/ End \/ EndDetach
           \/ Finish \/ UNCHANGED vars
  <2>1. UNCHANGED <<buf, tail, num, answer>>
    BY <1>2 DEF Arrive, ReadTest, PeekTest, ReadLoad, Begin, Write, End, EndDetach, Finish, ring, vars
  <2>2. (reading' <=> reading) /\ (clearing' <=> clearing)
    BY <1>2 DEF Arrive, ReadTest, PeekTest, ReadLoad, Begin, Write, End, EndDetach, Finish, task,
                vars, reading, clearing
  <2> QED
    BY <2>1, <2>2, QueueIsBytes DEF queue, Window
<1>3. CASE ReadStore
  <2>1. /\ UNCHANGED <<buf, tail, answer>> /\ pc = "store" /\ pc' = "idle" /\ num' = num - 1
    BY <1>1, <1>3 DEF ReadStore, ExactCount
  <2> QED
    BY <2>1 DEF queue, Window, reading, clearing
<1>4. CASE ClearTail
  BY <1>4 DEF ClearTail, queue, clearing
<1>5. CASE ClearNum
  <2>1. pc = "clearNum" /\ pc' = "finish" /\ num' = 0 /\ answer' = answer
    BY <1>5 DEF ClearNum
  <2>2. queue = <<>>
    BY <2>1 DEF queue, clearing
  <2>3. queue' = [i \in 1 .. 0 |-> buf'[(tail' + i - 1) % N]]
    BY <2>1 DEF queue, Window, clearing, reading
  <2>4. queue' = <<>>
    BY <2>3
  <2> QED
    BY <2>1, <2>2, <2>4
<1> QED
  BY <1>2, <1>3, <1>4, <1>5

\* The handler puts a byte, or drops it when the ring is full.
LEMMA IsrPuts ==
  ASSUME ExactInv, ~IsrPreempts, RxIsr
  PROVE  \E c \in Byte : Fifo!Put(c)
<1>1. /\ buf \in [Index -> Nat] /\ tail \in Index /\ num \in 0 .. N /\ N \in Nat \ {0}
      /\ fifo \in Seq(Byte) /\ ExactCount
  BY NAssumption DEF ExactInv, Inv3, Inv1, TypeOK
<1>2. /\ pc = "idle" /\ pc' = "idle" /\ tail' = tail /\ fifo # <<>> /\ answer' = answer
      /\ storeRxChar(Head(fifo))
  BY DEF RxIsr, task
<1> DEFINE c == Head(fifo)
<1>3. c \in Byte
  BY <1>1, <1>2, HeadTailProperties
<1>4. c \in Nat
  BY <1>3, BoundAssumption DEF Byte
<1>5. queue = Bytes(buf, tail, num) /\ queue' = Bytes(buf', tail, num') /\ Len(queue) = num
  <2>1. queue = Bytes(buf, tail, num)
    BY <1>2 DEF queue, Window, Bytes, reading, clearing
  <2>2. queue' = Bytes(buf', tail, num')
    BY <1>2 DEF queue, Window, Bytes, reading, clearing
  <2>3. Len(Bytes(buf, tail, num)) = num
    BY <1>1, BytesSeq
  <2> QED
    BY <2>1, <2>2, <2>3
<1> HIDE DEF c
<1>6. CASE num = N
  <2>1. buf' = buf /\ num' = num
    BY <1>1, <1>2, <1>6 DEF storeRxChar, store_char, isFull
  <2> QED
    BY <1>1, <1>2, <1>3, <1>5, <1>6, <2>1 DEF Fifo!Put
<1>7. CASE num # N
  <2>1. buf' = [buf EXCEPT ![head] = c] /\ num' = num + 1
    BY <1>1, <1>2, <1>7 DEF storeRxChar, store_char, isFull, availableForStore, c
  <2>2. head = (tail + num) % N /\ num \in 0 .. N - 1
    BY <1>1, <1>2, <1>7 DEF ExactCount, Whole
  <2>3. queue' = Append(queue, c)
    BY <1>1, <1>4, <1>5, <2>1, <2>2, StoreAppends
  <2>4. Len(queue) < N
    BY <1>5, <2>2, <1>1
  <2> QED
    BY <1>2, <1>3, <2>3, <2>4 DEF Fifo!Put
<1> QED
  BY <1>6, <1>7

\* read() and peek().
LEMMA ReadsGet ==
  ASSUME ExactInv, ReadEmpty \/ ReadValue \/ PeekValue
  PROVE  Fifo!Get \/ Fifo!Look
<1>1. /\ buf \in [Index -> Nat] /\ tail \in Index /\ num \in 0 .. N /\ N \in Nat \ {0}
      /\ ExactCount /\ CountPositive /\ StoppedIsEmpty
  BY NAssumption DEF ExactInv, Inv3, Inv1, TypeOK
<1>2. CASE ReadEmpty
  <2>1. pc = "idle" /\ num = 0 /\ answer' = NoData /\ UNCHANGED <<buf, tail, num, pc>>
    BY <1>1, <1>2 DEF ReadEmpty, isEmpty, StoppedIsEmpty, ring, task
  <2>2. queue = [i \in 1 .. 0 |-> buf[(tail + i - 1) % N]]
    BY <2>1 DEF queue, Window, clearing, reading
  <2>3. queue = <<>>
    BY <2>2
  <2>4. queue' = queue
    BY <2>1 DEF queue, Window, clearing, reading
  <2> QED
    BY <2>1, <2>3, <2>4 DEF Fifo!Look
<1>3. CASE ReadValue
  <2>1. /\ pc = "value" /\ pc' = "load" /\ answer' = buf[tail] /\ tail' = nextIndex(tail)
        /\ UNCHANGED <<buf, num>> /\ num \in 1 .. N
    BY <1>1, <1>3 DEF ReadValue, CountPositive
  <2>2. queue = Bytes(buf, tail, num)
    BY <2>1 DEF queue, Window, Bytes, clearing, reading
  <2>3. queue' = Bytes(buf, nextIndex(tail), num - 1)
    BY <2>1 DEF queue, Window, Bytes, clearing, reading
  <2>4. queue # <<>> /\ Head(queue) = buf[tail] /\ queue' = Tail(queue)
    BY <1>1, <2>1, <2>2, <2>3, ReadTakesHead
  <2> QED
    BY <2>1, <2>4 DEF Fifo!Get
<1>4. CASE PeekValue
  <2>1. /\ pc = "peek" /\ pc' = "idle" /\ answer' = buf[tail] /\ UNCHANGED <<buf, tail, num>>
        /\ num \in 1 .. N
    BY <1>1, <1>4 DEF PeekValue, ExactCount, ring
  <2>2. queue = Bytes(buf, tail, num)
    BY <2>1 DEF queue, Window, Bytes, clearing, reading
  <2>3. queue' = queue
    BY <2>1 DEF queue, Window, clearing, reading
  <2>4. queue # <<>> /\ Head(queue) = buf[tail]
    BY <1>1, <2>1, <2>2, ReadTakesHead
  <2> QED
    BY <2>1, <2>3, <2>4 DEF Fifo!Look
<1> QED
  BY <1>2, <1>3, <1>4

(***************************************************************************)
(* Seen from the sketch, the receive side of HardwareSerial is a bounded   *)
(* FIFO, for every ring size, as long as the handler never runs inside a   *)
(* call: no byte is lost, repeated, reordered or invented.                 *)
(***************************************************************************)
THEOREM FifoImplemented ==
  ASSUME ~IsrPreempts
  PROVE  Spec => ImplementsFifo
<1>1. Init => Fifo!Init
  <2> SUFFICES ASSUME Init
               PROVE  Fifo!Init
    OBVIOUS
  <2>1. pc = "idle" /\ num = 0 /\ answer = NoData
    BY DEF Init
  <2>2. queue = [i \in 1 .. 0 |-> buf[(tail + i - 1) % N]]
    BY <2>1 DEF queue, Window, clearing, reading
  <2>3. queue = <<>>
    BY <2>2
  <2> QED
    BY <2>1, <2>3 DEF Fifo!Init
<1>2. ExactInv /\ [Next]_vars => [Fifo!Next]_(Fifo!vars)
  <2> SUFFICES ASSUME ExactInv, Next \/ UNCHANGED vars
               PROVE  Fifo!Next \/ UNCHANGED Fifo!vars
    OBVIOUS
  <2>1. CASE RxIsr
    BY <2>1, IsrPuts DEF Fifo!Next
  <2>2. CASE ReadEmpty \/ ReadValue \/ PeekValue
    BY <2>2, ReadsGet DEF Fifo!Next
  <2>3. CASE ClearHead
    <3>1. pc' = "clearTail" /\ answer' = answer
      BY <2>3 DEF ClearHead
    <3>2. queue' = <<>>
      BY <3>1 DEF queue, clearing
    <3> QED
      BY <3>1, <3>2 DEF Fifo!Next, Fifo!Reset
  <2>4. CASE \/ Arrive \/ ReadTest \/ PeekTest \/ ReadLoad \/ ReadStore
             \/ Begin \/ Write \/ End \/ EndDetach \/ ClearTail \/ ClearNum \/ Finish
             \/ UNCHANGED vars
    <3>1. queue' = queue /\ answer' = answer
      BY <2>4, Stutters
    <3> QED
      BY <3>1 DEF Fifo!vars
  <2> QED
    BY <2>1, <2>2, <2>3, <2>4 DEF Next
<1>3. ExactInv /\ [Next]_vars => ExactInv'
  BY ExactNext
<1> QED
  BY <1>1, <1>2, <1>3, ExactInit, PTL DEF Spec, ImplementsFifo, Fifo!Spec

------------------------------------------------------------------------------
(* Parts of sequences.                                                     *)

\* One more element of a part of a sequence.
LEMMA Longer ==
  ASSUME NEW C, NEW m \in Seq(C), NEW a \in Nat, NEW i \in Nat, 1 <= a, a <= i + 1, i + 1 <= Len(m)
  PROVE  SubSeq(m, a, i) \in Seq(C) /\ Append(SubSeq(m, a, i), m[i + 1]) = SubSeq(m, a, i + 1)
<1>1. SubSeq(m, a, i) \in Seq(C) /\ Len(SubSeq(m, a, i)) = i + 1 - a
  OBVIOUS
<1>2. SubSeq(m, a, i + 1) \in Seq(C) /\ Len(SubSeq(m, a, i + 1)) = i + 2 - a
  OBVIOUS
<1>3. m[i + 1] \in C
  OBVIOUS
<1> DEFINE l == Append(SubSeq(m, a, i), m[i + 1])
           r == SubSeq(m, a, i + 1)
<1>4. l \in Seq(C) /\ Len(l) = i + 2 - a
  BY <1>1, <1>3
<1>5. ASSUME NEW k \in 1 .. i + 2 - a PROVE l[k] = r[k]
  <2>1. r[k] = m[a + k - 1]
    BY <1>2
  <2>2. CASE k <= i + 1 - a
    <3>1. SubSeq(m, a, i)[k] = m[a + k - 1]
      BY <2>2
    <3> QED BY <2>1, <2>2, <3>1, <1>1
  <2>3. CASE k = i + 2 - a
    <3>1. l[k] = m[i + 1]
      BY <2>3, <1>1
    <3>2. a + k - 1 = i + 1
      BY <2>3
    <3> QED BY <2>1, <3>1, <3>2
  <2> QED BY <2>2, <2>3
<1> HIDE DEF l, r
<1>6. l = r
  <2>1. r \in Seq(C) /\ Len(r) = i + 2 - a
    BY <1>2 DEF r
  <2> QED BY <1>4, <1>5, <2>1
<1> QED BY <1>1, <1>6 DEF l, r

\* The elements of a part of a sequence.
LEMMA Piece ==
  ASSUME NEW C, NEW m \in Seq(C), NEW a \in Nat, NEW z \in Nat, 1 <= a, a <= z + 1, z <= Len(m)
  PROVE  /\ SubSeq(m, a, z) \in Seq(C) /\ Len(SubSeq(m, a, z)) = z + 1 - a
         /\ \A i \in 1 .. z + 1 - a : SubSeq(m, a, z)[i] = m[a + i - 1]
OBVIOUS

\* Sequences with the same elements are the same.
LEMMA SameSeq ==
  ASSUME NEW C, NEW l \in Seq(C), NEW r \in Seq(C), Len(l) = Len(r), \A i \in 1 .. Len(r) : l[i] = r[i]
  PROVE  l = r
OBVIOUS

\* A function on 1 .. n is a sequence.
LEMMA SeqOf ==
  ASSUME NEW C, NEW n \in Nat, NEW f \in [1 .. n -> C]
  PROVE  f \in Seq(C) /\ Len(f) = n
OBVIOUS

------------------------------------------------------------------------------
(* DNSServer.                                                              *)

\* A name as the sketch or a client writes it.
Words == STRING \cup {"www", "site"}
Names == Seq(Words)

\* The places of a name that are removed, and what is left of its beginnings.
Gone(m) == {i \in DOMAIN m : D!wwwAt(m, i) \/ D!wwwAt(m, i - 1)}
Kept(m) == CHOOSE k : k = [i \in Nat |-> IF i = 0 THEN <<>>
                                         ELSE IF i \in Gone(m) THEN k[i - 1] ELSE Append(k[i - 1], m[i])]

\* The recursive definition defines them.
LEMMA KeptStep ==
  ASSUME NEW m
  PROVE  /\ Kept(m)[0] = <<>>
         /\ \A i \in Nat : Kept(m)[i + 1] = IF i + 1 \in Gone(m) THEN Kept(m)[i] ELSE Append(Kept(m)[i], m[i + 1])
<1> DEFINE C == {m[i] : i \in Nat}
           V(i, x) == IF i \in Gone(m) THEN x ELSE Append(x, m[i])
           G == [d \in Nat \X Seq(C) |-> V(d[1], d[2])]
           Q(k) == [i \in Nat |-> IF i = 0 THEN <<>>
                                  ELSE IF i \in Gone(m) THEN k[i - 1] ELSE Append(k[i - 1], m[i])]
<1>1. ASSUME NEW i \in Nat, NEW x \in Seq(C)
      PROVE  G[<<i, x>>] = V(i, x) /\ V(i, x) \in Seq(C)
  <2>1. m[i] \in C
    OBVIOUS
  <2> HIDE DEF C
  <2> QED BY <2>1
<1>2. <<>> \in Seq(C)
  OBVIOUS
<1> HIDE DEF G, C, V
<1>3. \A i \in Nat : \A x \in Seq(C) : G[<<i + 1, x>>] \in Seq(C)
  BY <1>1, \A i \in Nat : i + 1 \in Nat
<1>4. PICK f \in [Nat -> Seq(C)] : f[0] = <<>> /\ \A i \in Nat : f[i + 1] = G[<<i + 1, f[i]>>]
  <2> DEFINE CC == Seq(C)
  <2>1. <<>> \in CC /\ GoesOn(G, CC)
    BY <1>2, <1>3 DEF GoesOn
  <2> HIDE DEF CC
  <2>2. \E f \in [Nat -> CC] : Iterates(f, <<>>, G)
    BY <2>1, Iteration
  <2> QED BY <2>2 DEF CC, Iterates
<1>5. f = Q(f)
  <2>1. ASSUME NEW i \in Nat PROVE f[i] = IF i = 0 THEN <<>> ELSE V(i, f[i - 1])
    <3>1. CASE i = 0
      BY <3>1, <1>4
    <3>2. CASE i # 0
      <4>1. i - 1 \in Nat /\ (i - 1) + 1 = i
        BY <3>2
      <4>2. f[i] = G[<<i, f[i - 1]>>] /\ f[i - 1] \in Seq(C)
        BY <4>1, <1>4
      <4> QED BY <3>2, <4>2, <1>1
    <3> QED BY <3>1, <3>2
  <2> QED BY <1>4, <2>1 DEF V
<1>6. Kept(m) = CHOOSE k : k = Q(k)
  BY DEF Kept
<1> HIDE DEF Q
<1>7. Kept(m) = Q(Kept(m))
  BY <1>5, <1>6
<1> DEFINE p == Kept(m)
<1> HIDE DEF p
<1>8. p = Q(p)
  BY <1>7 DEF p
<1>9. \A i \in Nat : p[i] = IF i = 0 THEN <<>> ELSE V(i, p[i - 1])
  <2>1. \A i \in Nat : Q(p)[i] = IF i = 0 THEN <<>> ELSE V(i, p[i - 1])
    BY DEF Q, V
  <2> QED BY <1>8, <2>1
<1>10. \A i \in Nat : i + 1 \in Nat /\ i + 1 # 0 /\ (i + 1) - 1 = i
  OBVIOUS
<1> QED
  BY <1>9, <1>10 DEF p, V

\* Which they are in downcaseAndRemoveWwwPrefix().
LEMMA RemovedIsKept ==
  ASSUME NEW n
  PROVE  D!downcaseAndRemoveWwwPrefix(n) = Kept(D!downcase(n))[Len(D!downcase(n))]
BY DEF D!downcaseAndRemoveWwwPrefix, Kept, Gone

\* A name in lower case stays as it is, and keeps its length and its dots.
LEMMA LowerTwice ==
  ASSUME NEW w \in Words
  PROVE  D!lower(w) \in Words /\ D!lower(D!lower(w)) = D!lower(w) /\ (D!lower(w) = "." <=> w = ".")
BY DEF D!lower, Words

\* toLowerCase() changes no length and every word to its lower case.
LEMMA Downcased ==
  ASSUME NEW n \in Names
  PROVE  /\ D!downcase(n) \in Names /\ Len(D!downcase(n)) = Len(n) /\ DOMAIN D!downcase(n) = 1 .. Len(n)
         /\ \A i \in 1 .. Len(n) : D!downcase(n)[i] = D!lower(n[i])
<1>1. \A i \in 1 .. Len(n) : D!lower(n[i]) \in Words
  BY LowerTwice DEF Names
<1>2. DOMAIN n = 1 .. Len(n) /\ Len(n) \in Nat
  BY DEF Names
<1> QED
  BY <1>1, <1>2 DEF D!downcase, Names

\* A name with "www." nowhere but in front loses just that.
LEMMA RemovedInFront ==
  ASSUME NEW n \in Names, ~D!InnerWww(n)
  PROVE  D!downcaseAndRemoveWwwPrefix(n) = D!Spelled(n)
<1> DEFINE m == D!downcase(n)
           p == Kept(m)
<1>1. m \in Names /\ Len(m) = Len(n) /\ DOMAIN m = 1 .. Len(m)
  BY Downcased
<1>2. D!Spelled(n) = D!Bare(m)
  BY DEF D!Spelled, D!downcase
<1>3. \A i \in 2 .. Len(m) : ~D!wwwAt(m, i)
  BY <1>1 DEF D!InnerWww, D!downcase
<1>4. p[0] = <<>> /\ \A i \in Nat : p[i + 1] = IF i + 1 \in Gone(m) THEN p[i] ELSE Append(p[i], m[i + 1])
  BY KeptStep
<1>5. D!downcaseAndRemoveWwwPrefix(n) = p[Len(m)]
  BY RemovedIsKept
<1> HIDE DEF m, p
<1>6. CASE D!wwwAt(m, 1)
  <2>1. Len(m) >= 2
    BY <1>6, <1>1 DEF D!wwwAt, Names
  <2>2. \A i \in 1 .. Len(m) : i \in Gone(m) <=> i <= 2
    <3> SUFFICES ASSUME NEW i \in 1 .. Len(m) PROVE i \in Gone(m) <=> i <= 2
      OBVIOUS
    <3>1. CASE i = 1
      BY <3>1, <1>6, <1>1 DEF Gone
    <3>2. CASE i = 2
      BY <3>2, <1>6, <1>1 DEF Gone
    <3>3. CASE i > 2
      <4>1. i - 1 \in 2 .. Len(m)
        BY <3>3, <1>1 DEF Names
      <4> QED BY <3>3, <4>1, <1>1, <1>3 DEF Gone
    <3> QED BY <3>1, <3>2, <3>3
  <2> DEFINE T == {i \in Nat : i <= Len(m) => p[i] = IF i < 2 THEN <<>> ELSE SubSeq(m, 3, i)}
  <2>3. 0 \in T
    BY <1>4
  <2>4. ASSUME NEW i \in Nat, i \in T PROVE i + 1 \in T
    <3> SUFFICES ASSUME i + 1 <= Len(m) PROVE p[i + 1] = IF i + 1 < 2 THEN <<>> ELSE SubSeq(m, 3, i + 1)
      OBVIOUS
    <3>0. p[i] = (IF i < 2 THEN <<>> ELSE SubSeq(m, 3, i)) /\ i + 1 \in 1 .. Len(m)
      BY <2>4, <1>1 DEF Names
    <3>1. CASE i + 1 < 2
      BY <3>0, <3>1, <2>2, <1>4, SMTT(40)
    <3>2. CASE i + 1 = 2
      <4>1. p[i + 1] = <<>>
        BY <3>0, <3>2, <2>2, <1>4, SMTT(40)
      <4>2. SubSeq(m, 3, 2) = <<>>
        BY <1>1 DEF Names
      <4> QED BY <3>2, <4>1, <4>2
    <3>3. CASE i + 1 > 2
      <4>1. p[i + 1] = Append(SubSeq(m, 3, i), m[i + 1])
        <5>1. p[i] = SubSeq(m, 3, i)
          <6>1. ~(i < 2)
            BY <3>3
          <6> QED BY <6>1, <3>0
        <5>2. i + 1 \notin Gone(m)
          <6>1. ~(i + 1 <= 2)
            BY <3>3
          <6> QED BY <6>1, <3>0, <2>2
        <5> QED BY <5>1, <5>2, <1>4
      <4>2. Append(SubSeq(m, 3, i), m[i + 1]) = SubSeq(m, 3, i + 1)
        BY <3>3, <1>1, Longer DEF Names
      <4> QED BY <3>3, <4>1, <4>2
    <3> QED BY <3>1, <3>2, <3>3
  <2>5. \A i \in Nat : i \in T
    <3> HIDE DEF T
    <3> QED BY <2>3, <2>4, Induction
  <2>6. p[Len(m)] = SubSeq(m, 3, Len(m))
    <3>1. Len(m) \in T
      BY <2>5, <1>1 DEF Names
    <3>2. Len(m) \in Nat /\ Len(m) <= Len(m) /\ ~(Len(m) < 2)
      BY <2>1, <1>1 DEF Names
    <3>3. Len(m) <= Len(m) => p[Len(m)] = IF Len(m) < 2 THEN <<>> ELSE SubSeq(m, 3, Len(m))
      BY <3>1
    <3> HIDE DEF T
    <3> QED BY <3>2, <3>3
  <2> QED BY <1>2, <1>5, <1>6, <2>6 DEF D!Bare
<1>7. CASE ~D!wwwAt(m, 1)
  <2>1. \A i \in 1 .. Len(m) : i \notin Gone(m)
    <3> SUFFICES ASSUME NEW i \in 1 .. Len(m) PROVE ~D!wwwAt(m, i) /\ ~D!wwwAt(m, i - 1)
      BY DEF Gone
    <3>1. ~D!wwwAt(m, 0)
      BY <1>1 DEF D!wwwAt, Names
    <3>2. i = 1 \/ i \in 2 .. Len(m)
      BY <1>1 DEF Names
    <3>3. i = 1 \/ i - 1 = 1 \/ i - 1 \in 2 .. Len(m)
      BY <1>1 DEF Names
    <3> QED BY <3>1, <3>2, <3>3, <1>3, <1>7
  <2> DEFINE T == {i \in Nat : i <= Len(m) => p[i] = SubSeq(m, 1, i)}
  <2>3. 0 \in T
    <3>1. SubSeq(m, 1, 0) = <<>>
      BY <1>1 DEF Names
    <3> QED BY <3>1, <1>4
  <2>4. ASSUME NEW i \in Nat, i \in T PROVE i + 1 \in T
    <3> SUFFICES ASSUME i + 1 <= Len(m) PROVE p[i + 1] = SubSeq(m, 1, i + 1)
      OBVIOUS
    <3>0. p[i] = SubSeq(m, 1, i) /\ i + 1 \in 1 .. Len(m)
      BY <2>4, <1>1 DEF Names
    <3>1. p[i + 1] = Append(SubSeq(m, 1, i), m[i + 1])
      BY <3>0, <2>1, <1>4
    <3>2. Append(SubSeq(m, 1, i), m[i + 1]) = SubSeq(m, 1, i + 1)
      BY <1>1, Longer DEF Names
    <3> QED BY <3>1, <3>2
  <2>5. \A i \in Nat : i \in T
    <3> HIDE DEF T
    <3> QED BY <2>3, <2>4, Induction
  <2>6. p[Len(m)] = SubSeq(m, 1, Len(m)) /\ SubSeq(m, 1, Len(m)) = m
    <3>1. Len(m) \in T
      BY <2>5, <1>1 DEF Names
    <3> QED BY <3>1, <1>1 DEF Names
  <2> QED BY <1>2, <1>5, <1>7, <2>6 DEF D!Bare
<1> QED BY <1>6, <1>7

\* A domain as start() keeps it: in lower case, and with "www." nowhere.
Clean(r) == r \in Names /\ \A j \in 1 .. Len(r) : D!lower(r[j]) = r[j] /\ ~D!wwwAt(r, j)

\* What is left has no "www." and no upper case.
LEMMA RemovedIsClean ==
  ASSUME NEW d \in Names, D!IsName(d)
  PROVE  Clean(D!downcaseAndRemoveWwwPrefix(d))
<1> DEFINE m == D!downcase(d)
           p == Kept(m)
<1>1. m \in Names /\ Len(m) = Len(d) /\ DOMAIN m = 1 .. Len(m) /\ Len(m) \in Nat
  BY Downcased DEF Names
<1>2. \A i \in 1 .. Len(m) : m[i] \in Words /\ D!lower(m[i]) = m[i] /\ (m[i] = "." <=> i % 2 = 0)
  <2> SUFFICES ASSUME NEW i \in 1 .. Len(d) PROVE m[i] \in Words /\ D!lower(m[i]) = m[i] /\ (m[i] = "." <=> i % 2 = 0)
    BY <1>1
  <2>1. m[i] = D!lower(d[i]) /\ d[i] \in Words
    BY Downcased DEF Names
  <2>2. d[i] = "." <=> i % 2 = 0
    BY DEF D!IsName, Names
  <2> HIDE DEF m
  <2> QED BY <2>1, <2>2, LowerTwice
<1>4. p[0] = <<>> /\ \A i \in Nat : p[i + 1] = IF i + 1 \in Gone(m) THEN p[i] ELSE Append(p[i], m[i + 1])
  BY KeptStep
<1>5. D!downcaseAndRemoveWwwPrefix(d) = p[Len(m)]
  BY RemovedIsKept
<1> HIDE DEF m, p
<1> DEFINE Open(r) == r = <<>> \/ r[Len(r)] = "."
           T == {i \in Nat : i <= Len(m) =>
                  /\ Clean(p[i])
                  /\ (i = 0 \/ i % 2 = 0 \/ i \in Gone(m)) => Open(p[i])
                  /\ (i % 2 = 1 /\ i \notin Gone(m)) => p[i] # <<>> /\ p[i][Len(p[i])] = m[i]}
<1>6. 0 \in T
  <2>1. <<>> \in Names /\ Len(<<>>) = 0
    BY DEF Names
  <2>2. Clean(<<>>)
    BY <2>1 DEF Clean
  <2>3. p[0] = <<>> /\ 0 % 2 # 1
    BY <1>4
  <2> QED BY <2>2, <2>3
<1>7. ASSUME NEW i \in Nat, i \in T PROVE i + 1 \in T
  <2> DEFINE r == p[i]
             c == m[i + 1]
             q == p[i + 1]
  <2> SUFFICES ASSUME i + 1 <= Len(m)
               PROVE  /\ Clean(q)
                      /\ ((i + 1) % 2 = 0 \/ i + 1 \in Gone(m)) => Open(q)
                      /\ ((i + 1) % 2 = 1 /\ i + 1 \notin Gone(m)) => q # <<>> /\ q[Len(q)] = c
    OBVIOUS
  <2>1. /\ Clean(r)
        /\ (i = 0 \/ i % 2 = 0 \/ i \in Gone(m)) => Open(r)
        /\ (i % 2 = 1 /\ i \notin Gone(m)) => r # <<>> /\ r[Len(r)] = m[i]
    BY <1>7
  <2>2. q = IF i + 1 \in Gone(m) THEN r ELSE Append(r, c)
    BY <1>4
  <2>3. i + 1 \in 1 .. Len(m) /\ c \in Words /\ D!lower(c) = c /\ (c = "." <=> (i + 1) % 2 = 0)
    BY <1>1, <1>2
  <2>4. i + 1 \in Gone(m) <=> D!wwwAt(m, i + 1) \/ D!wwwAt(m, i)
    BY <2>3, <1>1 DEF Gone
  <2>5. i \in Gone(m) <=> (i > 0 /\ (D!wwwAt(m, i) \/ D!wwwAt(m, i - 1)))
    BY <2>3, <1>1 DEF Gone
  <2>6. \A j \in Int : D!wwwAt(m, j) => j \in 1 .. Len(m) - 1 /\ m[j] = "www" /\ m[j + 1] = "." /\ j % 2 = 1
    <3> SUFFICES ASSUME NEW j \in Int, D!wwwAt(m, j)
                 PROVE j \in 1 .. Len(m) - 1 /\ m[j] = "www" /\ m[j + 1] = "." /\ j % 2 = 1
      OBVIOUS
    <3>1. j \in 1 .. Len(m) - 1 /\ m[j] = "www" /\ m[j + 1] = "."
      BY DEF D!wwwAt
    <3>2. j % 2 # 0
      BY <3>1, <1>1, <1>2
    <3> QED BY <3>1, <3>2
  <2> HIDE DEF r, c, q
  <2>7. CASE i + 1 \in Gone(m)
    <3>1. Open(r)
      <4>1. CASE D!wwwAt(m, i + 1)
        <5>1. i % 2 = 0
          BY <4>1, <2>6
        <5> QED BY <5>1, <2>1
      <4>2. CASE D!wwwAt(m, i)
        BY <4>2, <2>1, <2>5, <2>6
      <4> QED BY <2>7, <2>4, <4>1, <4>2
    <3> QED BY <2>7, <3>1, <2>1, <2>2
  <2>8. CASE i + 1 \notin Gone(m)
    <3>0. r \in Seq(Words) /\ Len(r) \in Nat
      BY <2>1 DEF Clean, Names
    <3>1. /\ q \in Seq(Words) /\ Len(q) = Len(r) + 1 /\ q[Len(q)] = c /\ q # <<>>
          /\ \A j \in 1 .. Len(r) : q[j] = r[j]
      BY <3>0, <2>2, <2>3, <2>8
    <3>2. ~(Len(r) > 0 /\ r[Len(r)] = "www" /\ c = ".")
      <4> SUFFICES ASSUME Len(r) > 0, r[Len(r)] = "www", c = "." PROVE FALSE
        OBVIOUS
      <4>1. (i + 1) % 2 = 0 /\ i % 2 = 1
        BY <2>3
      <4>2. ~D!wwwAt(m, i)
        BY <2>8, <2>4
      <4>3. i \notin Gone(m)
        <5>1. ~D!wwwAt(m, i - 1)
          <6>1. (i - 1) % 2 # 1
            BY <4>1
          <6> QED BY <6>1, <2>6
        <5> QED BY <5>1, <4>2, <2>5
      <4>4. r[Len(r)] = m[i]
        BY <4>1, <4>3, <2>1
      <4>5. m[i] = "www" /\ m[i + 1] = "."
        BY <4>4 DEF c
      <4> QED BY <4>2, <4>5, <2>3, <4>1, <1>1 DEF D!wwwAt
    <3>3. ASSUME NEW j \in 1 .. Len(q) PROVE D!lower(q[j]) = q[j] /\ ~D!wwwAt(q, j)
      <4>1. CASE j = Len(q)
        BY <4>1, <3>0, <3>1, <2>3 DEF D!wwwAt
      <4>2. CASE j = Len(r)
        <5>1. D!lower(q[j]) = q[j]
          BY <4>2, <3>0, <3>1, <2>1, <3>3 DEF Clean
        <5>2. ~D!wwwAt(q, j)
          BY <4>2, <3>0, <3>1, <3>2, <3>3 DEF D!wwwAt
        <5> QED BY <5>1, <5>2
      <4>3. CASE j < Len(r)
        <5>1. D!lower(r[j]) = r[j] /\ ~D!wwwAt(r, j) /\ q[j] = r[j] /\ q[j + 1] = r[j + 1]
          BY <4>3, <3>0, <3>1, <2>1 DEF Clean
        <5>2. j \in 1 .. Len(r) - 1
          BY <4>3, <3>0
        <5> QED BY <5>1, <5>2 DEF D!wwwAt
      <4> QED BY <4>1, <4>2, <4>3, <3>0, <3>1
    <3>4. Clean(q)
      BY <3>1, <3>3 DEF Clean, Names
    <3>5. (i + 1) % 2 = 0 => Open(q)
      BY <3>1, <2>3
    <3> QED BY <2>8, <3>1, <3>4, <3>5
  <2> QED BY <2>7, <2>8
<1>8. \A i \in Nat : i \in T
  <2> HIDE DEF T
  <2> QED BY <1>6, <1>7, Induction
<1>9. Clean(p[Len(m)])
  <2>1. Len(m) \in T
    BY <1>8, <1>1
  <2> QED BY <2>1, <1>1
<1> QED BY <1>5, <1>9

\* Such a domain is spelled as it is.
LEMMA CleanIsSpelled ==
  ASSUME NEW r, Clean(r)
  PROVE  D!Spelled(r) = r
<1>1. r \in Seq(Words) /\ DOMAIN r = 1 .. Len(r)
  BY DEF Clean, Names
<1>2. [j \in DOMAIN r |-> D!lower(r[j])] = r
  BY <1>1 DEF Clean
<1>3. ~D!wwwAt(r, 1)
  <2>1. CASE 1 \in 1 .. Len(r)
    BY <2>1 DEF Clean
  <2>2. CASE ~(1 \in 1 .. Len(r))
    BY <2>2, <1>1 DEF D!wwwAt
  <2> QED BY <2>1, <2>2
<1> QED BY <1>2, <1>3 DEF D!Spelled, D!Bare

\* What is proved of the server: the domain is clean, what waits are packets,
\* and the last reply is right.
DnsInv ==
  /\ datagrams \in Seq(Packet)
  /\ Clean(domain)
  /\ code # D!IP
  /\ D!AnswersItsDomain /\ D!NoReplyToReply

\* A packet's name, and the reply to it as a record.
LEMMA PacketNamed ==
  ASSUME NEW p \in Packet PROVE p.name \in Names
<1>1. p.name \in Seq(STRING)
  BY ParsingAssumption DEF D!ConstantsOK
<1> QED BY <1>1 DEF Names, Words

\* The domain of a server is a name.
LEMMA DomainNamed ==
  ASSUME NEW d \in Domain PROVE d \in Names /\ D!IsName(d)
<1>1. d \in Seq(STRING) /\ D!IsName(d)
  BY ParsingAssumption DEF D!ConstantsOK
<1> QED BY <1>1 DEF Names, Words

\* What the parser sees of a packet has a name too: its own, another packet's
\* or the domain.
LEMMA SeenIsNamed ==
  ASSUME DnsInv, NEW h \in Packet, NEW p \in D!asSeen(h) PROVE p.name \in Names
<1>1. CASE h.form = "short"
  <2>1. PICK q \in Packet : p = [q EXCEPT !.from = h.from, !.form = "short"]
    BY <1>1 DEF D!asSeen
  <2>2. p.name = q.name
    BY <2>1, ParsingAssumption DEF D!ConstantsOK
  <2> QED BY <2>2, PacketNamed
<1>2. CASE h.form = "unterminated"
  <2>1. PICK n \in {q.name : q \in Packet} \cup {domain} : p = [h EXCEPT !.name = n]
    BY <1>2 DEF D!asSeen
  <2>2. n \in Names
    BY <2>1, PacketNamed DEF DnsInv, Clean
  <2>3. p.name = n
    BY <2>1, ParsingAssumption DEF D!ConstantsOK
  <2> QED BY <2>2, <2>3
<1>3. CASE h.form \notin {"short", "unterminated"}
  <2>1. p = h
    BY <1>3 DEF D!asSeen
  <2> QED BY <2>1, PacketNamed
<1> QED BY <1>1, <1>2, <1>3

\* A server without a reply has not answered wrongly.
LEMMA NoReplyIsRight ==
  reply' = D!None => (D!AnswersItsDomain /\ D!NoReplyToReply)'
BY DEF D!None, D!AnswersItsDomain, D!NoReplyToReply, D!Replied

\* A server that was not started has answered nothing.
LEMMA DnsStart == D!Init => DnsInv
<1> SUFFICES ASSUME D!Init PROVE DnsInv
  OBVIOUS
<1>1. datagrams = <<>> /\ domain = <<>> /\ reply.answer = "none"
  BY DEF D!Init, D!None
<1>2. <<>> \in Names /\ Len(<<>>) = 0 /\ <<>> \in Seq(Packet)
  BY DEF Names
<1>3. Clean(domain)
  BY <1>1, <1>2 DEF Clean
<1>4. code # D!IP
  BY DEF D!Init, D!NonExistentDomain, D!IP
<1> QED BY <1>1, <1>2, <1>3, <1>4 DEF DnsInv, D!AnswersItsDomain, D!NoReplyToReply, D!Replied

\* The reply to a packet, at the domain, code and time to live of the moment.
LEMMA ReplyIsRight ==
  ASSUME DnsInv, NEW p, p.name \in Names, reply' = D!answerTo(p),
         UNCHANGED <<domain, code, ttl>>
  PROVE  (D!AnswersItsDomain /\ D!NoReplyToReply)'
<1>1. D!InnerWww(p.name) \/ (D!getDomainNameWithoutWwwPrefix(p) = domain <=> D!SameSite(p.name, domain))
  <2> SUFFICES ASSUME ~D!InnerWww(p.name)
               PROVE  D!getDomainNameWithoutWwwPrefix(p) = domain <=> D!SameSite(p.name, domain)
    OBVIOUS
  <2>1. D!getDomainNameWithoutWwwPrefix(p) = D!Spelled(p.name)
    BY RemovedInFront DEF D!getDomainNameWithoutWwwPrefix
  <2>2. D!Spelled(domain) = domain
    BY CleanIsSpelled DEF DnsInv
  <2> QED BY <2>1, <2>2 DEF D!SameSite
<1> DEFINE plain == p.OPCode = 0 /\ p.QD = 1 /\ p.AN = 0 /\ p.AR = 0
           own == domain = D!Star \/ D!SameSite(p.name, domain)
<1>2. D!hijacked(p) => p.QR = 0 /\ plain /\ (D!InnerWww(p.name) \/ own)
  BY <1>1 DEF D!hijacked, D!requestIncludesOnlyOneQuestion
<1>3. ~D!InnerWww(p.name) /\ p.QR = 0 /\ plain /\ own => D!hijacked(p)
  BY <1>1 DEF D!hijacked, D!requestIncludesOnlyOneQuestion
<1> HIDE DEF plain, own
<1>4. CASE D!hijacked(p)
  <2>1. D!answerTo(p) = D!replyWithIP(p)
    BY <1>4 DEF D!answerTo
  <2>2. /\ reply'.request = p /\ reply'.to = p.from /\ reply'.ID = p.ID
        /\ reply'.answer = D!IP /\ reply'.ttl = ttl
    BY <2>1 DEF D!replyWithIP
  <2>3. D!InnerWww(p.name) \/ (plain /\ own)
    BY <1>2, <1>4
  <2> QED BY <1>2, <1>4, <2>2, <2>3 DEF D!AnswersItsDomain, D!NoReplyToReply, plain, own
<1>5. CASE ~D!hijacked(p) /\ p.QR = 0
  <2>1. D!answerTo(p) = D!replyWithCustomCode(p)
    BY <1>5 DEF D!answerTo, D!rejected
  <2>2. /\ reply'.request = p /\ reply'.to = p.from /\ reply'.ID = p.ID
        /\ reply'.answer = code
    BY <2>1 DEF D!replyWithCustomCode
  <2>3. D!InnerWww(p.name) \/ ~(plain /\ own)
    BY <1>3, <1>5
  <2>4. reply'.answer # D!IP
    BY <2>2 DEF DnsInv
  <2> QED BY <1>5, <2>2, <2>3, <2>4 DEF D!AnswersItsDomain, D!NoReplyToReply, plain, own
<1>6. CASE ~D!hijacked(p) /\ p.QR # 0
  <2>1. D!answerTo(p) = D!None
    BY <1>6 DEF D!answerTo, D!rejected
  <2>2. reply'.answer = "none"
    BY <2>1 DEF D!None
  <2> QED BY <2>2 DEF D!AnswersItsDomain, D!NoReplyToReply, D!Replied
<1> QED BY <1>4, <1>5, <1>6

\* Every step of DNSServer keeps the invariant.
LEMMA DnsStep == DnsInv /\ [D!Next]_dnsVars => DnsInv'
<1> SUFFICES ASSUME DnsInv, [D!Next]_dnsVars PROVE DnsInv'
  OBVIOUS
<1> USE DEF DnsInv
<1>1. CASE D!leftUnread
  <2>1. datagrams' \in Seq(Packet)
    BY <1>1 DEF D!leftUnread, D!parsed
  <2> QED BY <1>1, <2>1, NoReplyIsRight DEF D!leftUnread
<1>2. CASE D!processPacket
  <2>1. datagrams' \in Seq(Packet) /\ Head(datagrams) \in Packet
    BY <1>2 DEF D!processPacket, D!parsed
  <2>2. UNCHANGED <<domain, code, ttl>>
    BY <1>2 DEF D!processPacket
  <2>3. PICK p \in D!asSeen(Head(datagrams)) : reply' \in {D!answerTo(p), D!None}
    BY <1>2 DEF D!processPacket
  <2>4. p.name \in Names
    BY <2>1, SeenIsNamed
  <2> QED BY <2>1, <2>2, <2>3, <2>4, NoReplyIsRight, ReplyIsRight
<1>3. CASE D!stop
  BY <1>3, NoReplyIsRight DEF D!stop
<1>4. ASSUME NEW p \in Packet, D!Send(p) PROVE DnsInv'
  <2>1. datagrams' \in Seq(Packet) /\ UNCHANGED <<domain, code, ttl, reply>>
    BY <1>4 DEF D!Send
  <2> QED BY <2>1 DEF D!AnswersItsDomain, D!NoReplyToReply, D!Replied
<1>5. ASSUME NEW d \in Domain, D!start(d) PROVE DnsInv'
  <2>1. datagrams' = <<>> /\ reply' = D!None /\ UNCHANGED code /\ domain' = D!downcaseAndRemoveWwwPrefix(d)
    BY <1>5 DEF D!start
  <2> QED BY <2>1, NoReplyIsRight, DomainNamed, RemovedIsClean
<1>6. ASSUME NEW c \in ReplyCode, D!setErrorReplyCode(c) PROVE DnsInv'
  <2>1. c # D!IP
    BY ParsingAssumption DEF D!ConstantsOK
  <2> QED BY <1>6, <2>1, NoReplyIsRight DEF D!setErrorReplyCode
<1>7. ASSUME NEW t \in TTL, D!setTTL(t) PROVE DnsInv'
  BY <1>7, NoReplyIsRight DEF D!setTTL
<1>8. CASE UNCHANGED dnsVars
  BY <1>8 DEF dnsVars, D!AnswersItsDomain, D!NoReplyToReply, D!Replied
<1> QED BY <1>1, <1>2, <1>3, <1>4, <1>5, <1>6, <1>7, <1>8 DEF D!Next, D!processNextRequest

------------------------------------------------------------------------------
(* Print.                                                                  *)

\* The bases that numbers are written in.
Bases == {2, 8, 10, 16}

\* Division by a base: the quotient and the digit give the number back.
LEMMA Divided ==
  ASSUME NEW b \in Bases, NEW x \in Nat
  PROVE  /\ x \div b \in Nat /\ x % b \in 0 .. b - 1 /\ x = (x \div b) * b + (x % b)
         /\ x >= b => x \div b >= 1 /\ x \div b < x
         /\ \A y \in Nat : x < y * b => x \div b < y
<1>1. CASE b = 2
  BY <1>1
<1>2. CASE b = 10
  BY <1>2
<1>3. CASE b = 16
  BY <1>3
<1>4. CASE b = 8
  BY <1>4
<1> QED BY <1>1, <1>2, <1>3, <1>4 DEF Bases

\* A number that is not a digit has a smaller, positive quotient.
LEMMA Quotient ==
  ASSUME NEW b \in Bases, NEW x \in Nat, ~(x < b)
  PROVE  /\ x \div b \in 0 .. x - 1 /\ x \div b \in Nat /\ x \div b > 0
         /\ x % b \in 0 .. b - 1 /\ x % b \in Nat
<1>1. CASE b = 2
  BY <1>1
<1>2. CASE b = 10
  BY <1>2
<1>3. CASE b = 16
  BY <1>3
<1>4. CASE b = 8
  BY <1>4
<1> QED BY <1>1, <1>2, <1>3, <1>4 DEF Bases

\* The same for a chunk.
LEMMA DividedByChunk ==
  ASSUME NEW t \in Nat, t >= 2, NEW x \in Nat, x > t
  PROVE  /\ x \div t \in Nat /\ x % t \in 0 .. t - 1 /\ x = (x \div t) * t + (x % t)
         /\ x \div t >= 1 /\ x \div t < x
<1> DEFINE q == x \div t
           r == x % t
<1>1. q \in Int /\ r \in 0 .. t - 1 /\ x = q * t + r
  OBVIOUS
<1> HIDE DEF q, r
<1>2. q >= 1
  <2> SUFFICES ASSUME q <= 0 PROVE FALSE
    BY <1>1
  <2>1. q * t <= 0
    BY <1>1
  <2>2. q * t \in Int
    BY <1>1
  <2> QED BY <1>1, <2>1, <2>2
<1>3. q < x
  <2>1. q * t >= q * 2
    BY <1>1, <1>2
  <2>2. q * t \in Int
    BY <1>1
  <2> QED BY <1>1, <1>2, <2>1, <2>2
<1> QED BY <1>1, <1>2, <1>3 DEF q, r

------------------------------------------------------------------------------
(* Powers.                                                                 *)

PowersOf(b) == CHOOSE p : p = [i \in Nat |-> IF i = 0 THEN 1 ELSE p[i - 1] * b]

\* A power is the one before, times the base.
LEMMA PowerStep ==
  ASSUME NEW b \in Nat \ {0}
  PROVE  P!power(b, 0) = 1 /\ \A k \in Nat : P!power(b, k) \in Nat \ {0} /\ P!power(b, k + 1) = P!power(b, k) * b
<1> DEFINE G == [d \in Nat \X (Nat \ {0}) |-> d[2] * b]
           Q(p) == [i \in Nat |-> IF i = 0 THEN 1 ELSE p[i - 1] * b]
           NN == Nat \ {0}
<1>1. ASSUME NEW i \in Nat, NEW x \in NN PROVE G[<<i, x>>] = x * b /\ x * b \in NN
  OBVIOUS
<1>2. GoesOn(G, NN) /\ 1 \in NN
  BY <1>1 DEF GoesOn
<1> HIDE DEF G
<1>3. PICK f \in [Nat -> NN] : Iterates(f, 1, G)
  <2> HIDE DEF NN
  <2> QED BY <1>2, Iteration
<1>4. \A i \in Nat : f[i + 1] = f[i] * b /\ f[i] \in NN
  <2> SUFFICES ASSUME NEW i \in Nat PROVE f[i + 1] = f[i] * b /\ f[i] \in NN
    OBVIOUS
  <2>1. f[i] \in NN /\ i + 1 \in Nat
    BY <1>3
  <2>2. f[i + 1] = G[<<i + 1, f[i]>>]
    BY <1>3 DEF Iterates
  <2> QED BY <1>1, <2>1, <2>2
<1>5. f = Q(f)
  <2>1. ASSUME NEW i \in Nat PROVE f[i] = IF i = 0 THEN 1 ELSE f[i - 1] * b
    <3>1. CASE i = 0
      BY <3>1, <1>3 DEF Iterates
    <3>2. CASE i # 0
      <4>1. i - 1 \in Nat /\ (i - 1) + 1 = i
        BY <3>2
      <4> QED BY <3>2, <4>1, <1>4
    <3> QED BY <3>1, <3>2
  <2> QED BY <1>3, <2>1
<1>6. PowersOf(b) = CHOOSE p : p = Q(p)
  BY DEF PowersOf
<1> HIDE DEF Q
<1>7. PowersOf(b) = Q(PowersOf(b))
  BY <1>5, <1>6
<1> DEFINE p == PowersOf(b)
<1> HIDE DEF p
<1>8. p = Q(p)
  BY <1>7 DEF p
<1>9. \A i \in Nat : p[i] = IF i = 0 THEN 1 ELSE p[i - 1] * b
  <2>1. \A i \in Nat : Q(p)[i] = IF i = 0 THEN 1 ELSE p[i - 1] * b
    BY DEF Q
  <2> QED BY <1>8, <2>1
<1>10. \A i \in Nat : i + 1 \in Nat /\ i + 1 # 0 /\ (i + 1) - 1 = i
  OBVIOUS
<1>11. p[0] = 1 /\ \A i \in Nat : p[i + 1] = p[i] * b
  BY <1>9, <1>10
<1> DEFINE T == {i \in Nat : p[i] \in NN}
<1>12. \A i \in Nat : i \in T
  <2>1. 0 \in T
    BY <1>11
  <2>2. ASSUME NEW i \in Nat, i \in T PROVE i + 1 \in T
    <3>1. p[i] \in NN /\ p[i + 1] = p[i] * b
      BY <2>2, <1>11
    <3>2. p[i] * b \in NN
      BY <3>1
    <3> QED BY <3>1, <3>2
  <2> HIDE DEF T
  <2> QED BY <2>1, <2>2, Induction
<1>13. \A k \in Nat : P!power(b, k) = p[k]
  BY DEF P!power, PowersOf, p
<1> QED BY <1>10, <1>11, <1>12, <1>13

\* The same for base 2.
LEMMA PowerOfTwo ==
  P!power(2, 0) = 1 /\ \A k \in Nat : P!power(2, k) \in Nat /\ P!power(2, k + 1) = P!power(2, k) * 2
<1>1. 2 \in Nat \ {0}
  OBVIOUS
<1> QED BY <1>1, PowerStep

\* Powers of two grow.
LEMMA PowersGrow ==
  ASSUME NEW j \in Nat, NEW k \in Nat, j <= k
  PROVE  P!power(2, j) <= P!power(2, k)
<1> DEFINE T == {i \in Nat : P!power(2, j) <= P!power(2, j + i)}
<1>1. 0 \in T
  <2>1. j + 0 = j /\ P!power(2, j) \in Nat
    BY PowerStep
  <2> QED BY <2>1
<1>2. ASSUME NEW i \in Nat, i \in T PROVE i + 1 \in T
  <2>1. j + (i + 1) = (j + i) + 1 /\ j + i \in Nat
    OBVIOUS
  <2>2. P!power(2, (j + i) + 1) = P!power(2, j + i) * 2 /\ P!power(2, j + i) \in Nat
    BY <2>1, PowerStep
  <2>3. P!power(2, j) \in Nat /\ P!power(2, j) <= P!power(2, j + i)
    BY <1>2, PowerStep
  <2> QED BY <2>1, <2>2, <2>3
<1>3. \A i \in Nat : i \in T
  <2> HIDE DEF T
  <2> QED BY <1>1, <1>2, Induction
<1>4. k - j \in Nat /\ j + (k - j) = k
  OBVIOUS
<1>5. P!power(2, j) <= P!power(2, j + (k - j))
  BY <1>3, <1>4
<1> QED BY <1>4, <1>5

------------------------------------------------------------------------------
(* The value of a text.                                                    *)

\* The values of the beginnings of s.
Values(s1, b) == CHOOSE v : v = [i \in 0 .. Len(s1) |-> IF i = 0 THEN 0 ELSE v[i - 1] * b + s1[i]]

\* The value of a beginning of a text: the value before, times the base, plus the digit.
LEMMA ValuesStep ==
  ASSUME NEW b \in Nat, NEW t \in Seq(Nat)
  PROVE  /\ Values(t, b)[0] = 0 /\ P!ValueIn(t, b) = Values(t, b)[Len(t)]
         /\ \A i \in 0 .. Len(t) : Values(t, b)[i] \in Nat
         /\ \A i \in 1 .. Len(t) : Values(t, b)[i] = Values(t, b)[i - 1] * b + t[i]
<1> DEFINE n == Len(t)
           G == [d \in (1 .. n) \X Nat |-> d[2] * b + t[d[1]]]
           Q(v) == [i \in 0 .. n |-> IF i = 0 THEN 0 ELSE v[i - 1] * b + t[i]]
<1>0. n \in Nat /\ \A i \in 1 .. n : t[i] \in Nat
  OBVIOUS
<1>1. ASSUME NEW i \in 1 .. n, NEW x \in Nat PROVE G[<<i, x>>] = x * b + t[i] /\ x * b + t[i] \in Nat
  <2>1. x * b \in Nat
    OBVIOUS
  <2> QED BY <2>1, <1>0
<1> HIDE DEF G
<1>2. Stays(G, Nat, n)
  BY <1>1 DEF Stays
<1>3. PICK f \in [0 .. n -> Nat] : Follows(f, 0, G, n)
  <2> HIDE DEF n
  <2> QED BY <1>0, <1>2, StepsExist
<1>4. ASSUME NEW i \in 0 .. n PROVE f[i] = IF i = 0 THEN 0 ELSE f[i - 1] * b + t[i]
  <2>1. CASE i = 0
    BY <2>1, <1>3 DEF Follows
  <2>2. CASE i # 0
    <3>1. i \in 1 .. n /\ i - 1 \in 0 .. n
      BY <2>2
    <3>2. f[i - 1] \in Nat /\ f[i] = G[<<i, f[i - 1]>>]
      BY <3>1, <1>3 DEF Follows
    <3> QED BY <2>2, <3>1, <3>2, <1>1
  <2> QED BY <2>1, <2>2
<1>5. f = Q(f)
  BY <1>3, <1>4
<1>6. Values(t, b) = CHOOSE v : v = Q(v)
  BY DEF Values
<1> HIDE DEF Q
<1>7. Values(t, b) = Q(Values(t, b))
  BY <1>5, <1>6
<1> DEFINE v == Values(t, b)
<1> HIDE DEF v
<1>8. v = Q(v)
  BY <1>7 DEF v
<1>9. \A i \in 0 .. n : v[i] = IF i = 0 THEN 0 ELSE v[i - 1] * b + t[i]
  <2>1. \A i \in 0 .. n : Q(v)[i] = IF i = 0 THEN 0 ELSE v[i - 1] * b + t[i]
    BY DEF Q
  <2> QED BY <1>8, <2>1
<1>10. v[0] = 0 /\ \A i \in 1 .. n : v[i] = v[i - 1] * b + t[i]
  BY <1>0, <1>9
<1> DEFINE T == {i \in Nat : i <= n => v[i] \in Nat}
<1>11. \A i \in Nat : i \in T
  <2>1. 0 \in T
    BY <1>10
  <2>2. ASSUME NEW i \in Nat, i \in T PROVE i + 1 \in T
    <3> SUFFICES ASSUME i + 1 <= n PROVE v[i + 1] \in Nat
      OBVIOUS
    <3>1. i + 1 \in 1 .. n /\ (i + 1) - 1 = i /\ v[i] \in Nat
      BY <2>2, <1>0
    <3>2. v[i + 1] = v[i] * b + t[i + 1] /\ t[i + 1] \in Nat
      BY <3>1, <1>0, <1>10
    <3>3. v[i] * b \in Nat
      BY <3>1
    <3> QED BY <3>2, <3>3
  <2> HIDE DEF T
  <2> QED BY <2>1, <2>2, Induction
<1>12. P!ValueIn(t, b) = v[n]
  BY DEF P!ValueIn, Values, v
<1>13. \A i \in 0 .. n : i \in Nat /\ i <= n
  BY <1>0
<1> QED BY <1>10, <1>11, <1>12, <1>13 DEF v

\* One more digit.
LEMMA ValueAppend ==
  ASSUME NEW b \in Nat, NEW t \in Seq(Nat), NEW c \in Nat
  PROVE  P!ValueIn(t, b) \in Nat /\ P!ValueIn(Append(t, c), b) = P!ValueIn(t, b) * b + c
<1> DEFINE u == Append(t, c)
           v == Values(t, b)
           w == Values(u, b)
<1>1. u \in Seq(Nat) /\ Len(u) = Len(t) + 1 /\ Len(t) \in Nat /\ u[Len(t) + 1] = c /\ \A i \in 1 .. Len(t) : u[i] = t[i]
  OBVIOUS
<1> HIDE DEF u
<1>2. /\ v[0] = 0 /\ P!ValueIn(t, b) = v[Len(t)]
      /\ \A i \in 0 .. Len(t) : v[i] \in Nat
      /\ \A i \in 1 .. Len(t) : v[i] = v[i - 1] * b + t[i]
  BY ValuesStep
<1>3. /\ w[0] = 0 /\ P!ValueIn(u, b) = w[Len(t) + 1]
      /\ \A i \in 1 .. Len(t) + 1 : w[i] = w[i - 1] * b + u[i]
  BY ValuesStep, <1>1, ZenonT(60)
<1> HIDE DEF v, w
<1> DEFINE T == {i \in Nat : i <= Len(t) => v[i] = w[i]}
<1>4. \A i \in Nat : i \in T
  <2>1. 0 \in T
    BY <1>2, <1>3
  <2>2. ASSUME NEW i \in Nat, i \in T PROVE i + 1 \in T
    <3> SUFFICES ASSUME i + 1 <= Len(t) PROVE v[i + 1] = w[i + 1]
      OBVIOUS
    <3>0. i <= Len(t)
      BY <1>1
    <3>1. i + 1 \in 1 .. Len(t) /\ i + 1 \in 1 .. Len(t) + 1 /\ (i + 1) - 1 = i
      BY <1>1
    <3>4. v[i] = w[i]
      BY <2>2, <3>0
    <3>2. v[i + 1] = v[i] * b + t[i + 1] /\ w[i + 1] = w[i] * b + u[i + 1] /\ u[i + 1] = t[i + 1]
      BY <3>1, <1>1, <1>2, <1>3
    <3> QED BY <3>2, <3>4
  <2> HIDE DEF T
  <2> QED BY <2>1, <2>2, Induction
<1>5. v[Len(t)] = w[Len(t)]
  BY <1>1, <1>4
<1>6. w[Len(t) + 1] = w[Len(t)] * b + c
  <2>1. Len(t) + 1 \in 1 .. Len(t) + 1 /\ (Len(t) + 1) - 1 = Len(t)
    BY <1>1
  <2> QED BY <2>1, <1>1, <1>3
<1>7. v[Len(t)] \in Nat
  BY <1>1, <1>2
<1> QED BY <1>2, <1>3, <1>5, <1>6, <1>7 DEF u

\* A number written with one more digit at least doubles.
LEMMA Doubled ==
  ASSUME NEW b \in Bases, NEW x \in Nat, NEW y \in Nat, x <= y, NEW c \in Nat
  PROVE  x * 2 <= y * b + c
<1>1. CASE b = 2
  BY <1>1
<1>2. CASE b = 10
  BY <1>2
<1>3. CASE b = 16
  BY <1>3
<1>4. CASE b = 8
  BY <1>4
<1> QED BY <1>1, <1>2, <1>3, <1>4 DEF Bases

\* A text that does not begin with 0 is at least a power of two.
LEMMA ValueLarge ==
  ASSUME NEW b \in Bases, NEW t \in Seq(Nat), t # <<>>, t[1] # 0
  PROVE  P!power(2, Len(t) - 1) <= P!ValueIn(t, b)
<1> DEFINE v == Values(t, b)
<1>0. b \in Nat /\ b >= 2 /\ Len(t) \in Nat /\ Len(t) >= 1
  BY DEF Bases
<1>1. /\ v[0] = 0 /\ P!ValueIn(t, b) = v[Len(t)]
      /\ \A i \in 0 .. Len(t) : v[i] \in Nat
      /\ \A i \in 1 .. Len(t) : v[i] = v[i - 1] * b + t[i]
  BY ValuesStep, <1>0
<1> HIDE DEF v
<1> DEFINE T == {i \in Nat : i + 1 <= Len(t) => P!power(2, i) <= v[i + 1]}
<1>2. 0 \in T
  <2>1. 1 \in 1 .. Len(t) /\ t[1] \in Nat
    BY <1>0
  <2>2. v[1] = v[1 - 1] * b + t[1]
    BY <2>1, <1>1
  <2>3. v[1] = t[1]
    BY <2>1, <2>2, <1>0, <1>1
  <2>4. P!power(2, 0) = 1 /\ 0 + 1 = 1
    BY PowerStep
  <2>5. P!power(2, 0) <= v[0 + 1]
    BY <2>1, <2>3, <2>4
  <2> QED BY <2>5
<1>3. ASSUME NEW i \in Nat, i \in T PROVE i + 1 \in T
  <2> SUFFICES ASSUME (i + 1) + 1 <= Len(t) PROVE P!power(2, i + 1) <= v[(i + 1) + 1]
    OBVIOUS
  <2> DEFINE k == i + 1
  <2>1. k + 1 \in 1 .. Len(t) /\ k \in 0 .. Len(t) /\ (k + 1) - 1 = k /\ k <= Len(t)
    BY <1>0
  <2>2. P!power(2, i) <= v[k]
    BY <2>1, <1>3
  <2>3. P!power(2, k) = P!power(2, i) * 2 /\ P!power(2, i) \in Nat
    BY PowerOfTwo
  <2> HIDE DEF k, T
  <2>4. v[k + 1] = v[k] * b + t[k + 1] /\ t[k + 1] \in Nat /\ v[k] \in Nat
    BY <2>1, <1>1
  <2>5. P!power(2, k) <= v[k + 1]
    BY <2>2, <2>3, <2>4, Doubled
  <2> QED BY <2>5 DEF k
<1>4. \A i \in Nat : i \in T
  <2> HIDE DEF T
  <2> QED BY <1>2, <1>3, Induction
<1>5. Len(t) - 1 \in Nat /\ (Len(t) - 1) + 1 = Len(t)
  BY <1>0
<1>6. P!power(2, Len(t) - 1) <= v[(Len(t) - 1) + 1]
  BY <1>0, <1>4, <1>5
<1> QED BY <1>1, <1>5, <1>6

------------------------------------------------------------------------------
(* Digits.                                                                 *)

DigitSeq(b) == Seq(0 .. b - 1)

\* t is how n is written in base b.
Spells(t, n, b) ==
  /\ t \in DigitSeq(b) /\ t # <<>>
  /\ P!ValueIn(t, b) = n
  /\ n > 0 => t[1] # 0

\* A digit is written as itself.
LEMMA SpellsOne ==
  ASSUME NEW b \in Bases, NEW n \in 0 .. b - 1
  PROVE  Spells(<<n>>, n, b)
<1>1. b \in Nat /\ n \in Nat
  BY DEF Bases
<1>2. <<>> \in Seq(Nat) /\ Append(<<>>, n) = <<n>>
  OBVIOUS
<1>3. P!ValueIn(<<>>, b) = 0
  BY <1>1, <1>2, ValuesStep
<1>4. P!ValueIn(<<n>>, b) = n
  <2>1. P!ValueIn(<<n>>, b) = P!ValueIn(<<>>, b) * b + n
    BY <1>1, <1>2, ValueAppend
  <2> QED BY <2>1, <1>1, <1>3
<1>5. <<n>> \in DigitSeq(b) /\ <<n>> # <<>> /\ <<n>>[1] = n
  BY DEF DigitSeq
<1> QED BY <1>1, <1>4, <1>5 DEF Spells

\* Digits are numbers.
LEMMA DigitsAreNat ==
  ASSUME NEW b \in Bases, NEW t \in DigitSeq(b)
  PROVE  t \in Seq(Nat)
BY DEF DigitSeq, Bases

\* One more digit writes the number times the base, plus the digit.
LEMMA SpellsMore ==
  ASSUME NEW b \in Bases, NEW n \in Nat, n > 0, NEW t, Spells(t, n, b), NEW c \in 0 .. b - 1
  PROVE  Spells(Append(t, c), n * b + c, b)
<1>1. b \in Nat /\ c \in Nat /\ t \in Seq(Nat) /\ t \in DigitSeq(b)
  BY DigitsAreNat DEF Bases, Spells
<1>2. P!ValueIn(Append(t, c), b) = n * b + c
  <2>1. P!ValueIn(Append(t, c), b) = P!ValueIn(t, b) * b + c
    BY <1>1, ValueAppend
  <2> QED BY <2>1 DEF Spells
<1>3. t[1] # 0 /\ t # <<>>
  BY DEF Spells
<1>4. Append(t, c) \in DigitSeq(b) /\ Append(t, c) # <<>> /\ Append(t, c)[1] = t[1]
  BY <1>1, <1>3 DEF DigitSeq
<1> QED BY <1>2, <1>3, <1>4 DEF Spells

Numerals(b) == CHOOSE d : d = [m \in Nat |-> IF m < b THEN <<m>> ELSE Append(d[m \div b], m % b)]

\* The recursion of printNumber() computes what it says.
LEMMA NumeralsStep ==
  ASSUME NEW b \in Bases, NEW n \in Nat
  PROVE  Numerals(b)[n] = IF n < b THEN <<n>> ELSE Append(Numerals(b)[n \div b], n % b)
<1> DEFINE NN == Seq(Nat)
           V(n1, g) == IF n1 < b THEN <<n1>> ELSE Append(g[n1 \div b], n1 % b)
           H == [d \in Nat \X UNION {Early(m, NN) : m \in Nat} |-> V(d[1], d[2])]
           Q(d) == [m \in Nat |-> V(m, d)]
<1>0. b \in Nat
  BY DEF Bases
<1>1. ASSUME NEW m \in Nat, NEW g \in Early(m, NN)
      PROVE  H[<<m, g>>] = V(m, g) /\ V(m, g) \in NN
  <2>1. <<m, g>> \in Nat \X UNION {Early(k, NN) : k \in Nat}
    OBVIOUS
  <2>2. CASE m < b
    BY <2>1, <2>2
  <2>3. CASE ~(m < b)
    <3>1. m \div b \in 0 .. m - 1 /\ m % b \in Nat
      BY <2>3, Quotient
    <3>2. g[m \div b] \in NN
      BY <3>1 DEF Early
    <3>3. Append(g[m \div b], m % b) \in NN
      BY <3>1, <3>2
    <3> QED BY <2>1, <2>3, <3>3
  <2> QED BY <2>2, <2>3
<1> HIDE DEF H, NN
<1>2. PICK f \in [Nat -> NN] : Recurs(f, H)
  <2>1. Closed(H, NN)
    BY <1>1 DEF Closed
  <2> QED BY <2>1, RecursionExists
<1>3. ASSUME NEW m \in Nat PROVE f[m] = V(m, f)
  <2>1. Prior(f, m) \in Early(m, NN)
    BY DEF Prior, Early
  <2>2. f[m] = V(m, Prior(f, m))
    BY <1>1, <1>2, <2>1 DEF Recurs
  <2>3. CASE m < b
    BY <2>2, <2>3
  <2>4. CASE ~(m < b)
    <3>1. m \div b \in 0 .. m - 1
      BY <2>4, Quotient
    <3>2. Prior(f, m)[m \div b] = f[m \div b]
      BY <3>1 DEF Prior
    <3> QED BY <2>2, <2>4, <3>2
  <2> QED BY <2>3, <2>4
<1>4. f = Q(f)
  BY <1>2, <1>3
<1>5. Numerals(b) = CHOOSE d : d = Q(d)
  BY DEF Numerals
<1> HIDE DEF Q
<1>6. Numerals(b) = Q(Numerals(b))
  BY <1>4, <1>5
<1> DEFINE p == Numerals(b)
<1> HIDE DEF p
<1>7. p = Q(p)
  BY <1>6 DEF p
<1>8. p[n] = V(n, p)
  <2>1. Q(p)[n] = V(n, p)
    BY DEF Q
  <2> QED BY <1>7, <2>1
<1> QED BY <1>8 DEF p

\* The digits that a loop of divisions gives.
LEMMA DigitsSpell ==
  ASSUME NEW b \in Bases, NEW n \in Nat
  PROVE  Spells(P!digits(n, b), n, b)
<1> DEFINE T == {m \in Nat : Spells(Numerals(b)[m], m, b)}
<1>0. b \in Nat
  BY DEF Bases
<1>1. ASSUME NEW m \in Nat, \A k \in 0 .. m - 1 : k \in T PROVE m \in T
  <2>1. CASE m < b
    <3>1. Numerals(b)[m] = <<m>>
      BY <2>1, NumeralsStep
    <3>2. m \in 0 .. b - 1
      BY <2>1, <1>0
    <3>3. Spells(<<m>>, m, b)
      BY <3>2, SpellsOne
    <3> QED BY <3>1, <3>3
  <2>2. CASE ~(m < b)
    <3>1. m \div b \in 0 .. m - 1 /\ m \div b \in Nat /\ m \div b > 0 /\ m % b \in 0 .. b - 1
      BY <2>2, Quotient
    <3>2. m = (m \div b) * b + (m % b)
      BY Divided
    <3>3. Numerals(b)[m] = Append(Numerals(b)[m \div b], m % b)
      BY <2>2, NumeralsStep
    <3>4. Spells(Numerals(b)[m \div b], m \div b, b)
      BY <3>1, <1>1
    <3>5. Spells(Numerals(b)[m], (m \div b) * b + (m % b), b)
      BY <3>1, <3>3, <3>4, SpellsMore
    <3> QED BY <3>2, <3>5
  <2> QED BY <2>1, <2>2
<1>2. \A m \in Nat : m \in T
  <2> HIDE DEF T
  <2> QED BY <1>1, CourseOfValues
<1>3. P!digits(n, b) = Numerals(b)[n]
  BY DEF P!digits, Numerals
<1> QED BY <1>2, <1>3

------------------------------------------------------------------------------
(* Chunks.                                                                 *)

\* What is left of r after some divisions.
Rests(r, b) == CHOOSE f : f = [k \in Nat |-> IF k = 0 THEN r ELSE f[k - 1] \div b]

\* The rounds of the inner loop: each divides once more.
LEMMA RestsStep ==
  ASSUME NEW b \in Bases, NEW r \in Nat
  PROVE  /\ Rests(r, b)[0] = r
         /\ \A k \in Nat : Rests(r, b)[k] \in Nat /\ Rests(r, b)[k + 1] = Rests(r, b)[k] \div b
         /\ \A n \in Nat : P!lowest(r, n, b) = [i \in 1 .. n |-> Rests(r, b)[n - i] % b]
<1> DEFINE G == [d \in Nat \X Nat |-> d[2] \div b]
           Q(p) == [i \in Nat |-> IF i = 0 THEN r ELSE p[i - 1] \div b]
<1>1. ASSUME NEW i \in Nat, NEW x \in Nat PROVE G[<<i, x>>] = x \div b /\ x \div b \in Nat
  BY Divided
<1>2. GoesOn(G, Nat)
  BY <1>1 DEF GoesOn
<1> HIDE DEF G
<1>3. PICK f \in [Nat -> Nat] : Iterates(f, r, G)
  BY <1>2, Iteration
<1>4. ASSUME NEW i \in Nat PROVE f[i + 1] = f[i] \div b
  <2>1. f[i] \in Nat /\ i + 1 \in Nat
    BY <1>3
  <2>2. f[i + 1] = G[<<i + 1, f[i]>>]
    BY <1>3 DEF Iterates
  <2> QED BY <1>1, <2>1, <2>2
<1>5. f = Q(f)
  <2>1. ASSUME NEW i \in Nat PROVE f[i] = IF i = 0 THEN r ELSE f[i - 1] \div b
    <3>1. CASE i = 0
      BY <3>1, <1>3 DEF Iterates
    <3>2. CASE i # 0
      <4>1. i - 1 \in Nat /\ (i - 1) + 1 = i
        BY <3>2
      <4> QED BY <3>2, <4>1, <1>4
    <3> QED BY <3>1, <3>2
  <2> QED BY <1>3, <2>1
<1>6. Rests(r, b) = CHOOSE p : p = Q(p)
  BY DEF Rests
<1> HIDE DEF Q
<1>7. Rests(r, b) = Q(Rests(r, b))
  BY <1>5, <1>6
<1> DEFINE p == Rests(r, b)
<1> HIDE DEF p
<1>8. p = Q(p)
  BY <1>7 DEF p
<1>9. \A i \in Nat : p[i] = IF i = 0 THEN r ELSE p[i - 1] \div b
  <2>1. \A i \in Nat : Q(p)[i] = IF i = 0 THEN r ELSE p[i - 1] \div b
    BY DEF Q
  <2> QED BY <1>8, <2>1
<1>10. \A i \in Nat : i + 1 \in Nat /\ i + 1 # 0 /\ (i + 1) - 1 = i
  OBVIOUS
<1>11. p[0] = r /\ \A i \in Nat : p[i + 1] = p[i] \div b
  BY <1>9, <1>10
<1> DEFINE T == {i \in Nat : p[i] \in Nat}
<1>12. \A i \in Nat : i \in T
  <2>1. 0 \in T
    BY <1>11
  <2>2. ASSUME NEW i \in Nat, i \in T PROVE i + 1 \in T
    <3>1. p[i] \in Nat /\ p[i + 1] = p[i] \div b
      BY <2>2, <1>11
    <3>2. p[i] \div b \in Nat
      BY <3>1, Divided
    <3> QED BY <3>1, <3>2
  <2> HIDE DEF T
  <2> QED BY <2>1, <2>2, Induction
<1>13. \A n \in Nat : P!lowest(r, n, b) = [i \in 1 .. n |-> p[n - i] % b]
  BY DEF P!lowest, Rests, p
<1> QED BY <1>11, <1>12, <1>13 DEF p

\* A number below the power of the base is used up.
LEMMA RestsEnd ==
  ASSUME NEW b \in Bases, NEW r \in Nat, NEW n \in Nat, r < P!power(b, n)
  PROVE  Rests(r, b)[n] = 0
<1> DEFINE p == Rests(r, b)
<1>0. b \in Nat \ {0} /\ b \in Nat
  BY DEF Bases
<1>1. p[0] = r /\ \A k \in Nat : p[k] \in Nat /\ p[k + 1] = p[k] \div b
  BY RestsStep
<1> HIDE DEF p
<1> DEFINE T == {k \in Nat : k <= n => p[k] < P!power(b, n - k)}
<1>2. 0 \in T
  <2>1. n - 0 = n
    OBVIOUS
  <2> QED BY <2>1, <1>1
<1>3. ASSUME NEW k \in Nat, k \in T PROVE k + 1 \in T
  <2> SUFFICES ASSUME k + 1 <= n PROVE p[k + 1] < P!power(b, n - (k + 1))
    OBVIOUS
  <2> DEFINE j == n - (k + 1)
  <2>1. j \in Nat /\ n - k = j + 1 /\ k <= n
    OBVIOUS
  <2>2. p[k] < P!power(b, n - k)
    BY <2>1, <1>3
  <2>3. P!power(b, j + 1) = P!power(b, j) * b /\ P!power(b, j) \in Nat
    BY <1>0, <2>1, PowerStep
  <2> HIDE DEF j, T
  <2>4. p[k] < P!power(b, j) * b
    BY <2>1, <2>2, <2>3
  <2>5. p[k] \div b < P!power(b, j)
    BY <1>1, <2>3, <2>4, Divided
  <2> QED BY <1>1, <2>5 DEF j
<1>4. \A k \in Nat : k \in T
  <2> HIDE DEF T
  <2> QED BY <1>2, <1>3, Induction
<1>5. p[n] < P!power(b, n - n) /\ n - n = 0
  BY <1>4
<1>6. p[n] < 1 /\ p[n] \in Nat
  BY <1>0, <1>1, <1>5, PowerStep
<1> QED BY <1>6 DEF p

\* A chunk after the digits of q.
LEMMA ChunkSpells ==
  ASSUME NEW b \in Bases, NEW q \in Nat, q > 0, NEW t, Spells(t, q, b),
         NEW n \in Nat, NEW r \in Nat, r < P!power(b, n)
  PROVE  Spells(t \o P!lowest(r, n, b), q * P!power(b, n) + r, b)
<1> DEFINE p == Rests(r, b)
           low == P!lowest(r, n, b)
           u(k) == t \o SubSeq(low, 1, k)
<1>0. b \in Nat \ {0} /\ b \in Nat
  BY DEF Bases
<1>1. p[0] = r /\ p[n] = 0 /\ \A k \in Nat : p[k] \in Nat /\ p[k + 1] = p[k] \div b
  BY RestsStep, RestsEnd
<1>2. low = [i \in 1 .. n |-> p[n - i] % b]
  BY RestsStep
<1> HIDE DEF p, low
<1>3. low \in DigitSeq(b) /\ Len(low) = n /\ \A i \in 1 .. n : low[i] = p[n - i] % b
  <2>1. ASSUME NEW i \in 1 .. n PROVE p[n - i] % b \in 0 .. b - 1
    <3>1. n - i \in Nat
      OBVIOUS
    <3> QED BY <3>1, <1>1, Divided
  <2> QED BY <1>2, <2>1 DEF DigitSeq
<1>4. t \in DigitSeq(b)
  BY DEF Spells
<1> DEFINE T == {k \in Nat : k <= n => Spells(u(k), q * P!power(b, k) + p[n - k], b)}
<1>5. 0 \in T
  <2>1. u(0) = t
    BY <1>3, <1>4 DEF DigitSeq
  <2>2. q * P!power(b, 0) + p[n - 0] = q
    <3>1. P!power(b, 0) = 1 /\ n - 0 = n
      BY <1>0, PowerStep
    <3> QED BY <3>1, <1>1
  <2>3. Spells(u(0), q * P!power(b, 0) + p[n - 0], b)
    BY <2>1, <2>2
  <2> QED BY <2>3
<1>6. ASSUME NEW k \in Nat, k \in T PROVE k + 1 \in T
  <2> SUFFICES ASSUME k + 1 <= n PROVE Spells(u(k + 1), q * P!power(b, k + 1) + p[n - (k + 1)], b)
    OBVIOUS
  <2> DEFINE x == p[n - (k + 1)]
             y == q * P!power(b, k) + p[n - k]
             c == low[k + 1]
  <2>1. n - (k + 1) \in Nat /\ (n - (k + 1)) + 1 = n - k /\ k + 1 \in 1 .. n /\ k <= n /\ n - k \in Nat
    OBVIOUS
  <2>2. x \in Nat /\ p[n - k] = x \div b /\ c = x % b
    BY <2>1, <1>1, <1>3
  <2>3. x = (x \div b) * b + (x % b) /\ x % b \in 0 .. b - 1 /\ x \div b \in Nat
    BY <2>2, Divided
  <2>4. Spells(u(k), y, b)
    BY <1>6, <2>1
  <2>5. y \in Nat /\ y > 0
    <3>1. P!power(b, k) \in Nat /\ P!power(b, k) # 0 /\ p[n - k] \in Nat
      BY <1>0, <1>1, <2>1, PowerStep
    <3>2. q * P!power(b, k) \in Nat /\ q * P!power(b, k) > 0
      BY <3>1
    <3> QED BY <3>1, <3>2
  <2>6. u(k + 1) = Append(u(k), c)
    <3>1. SubSeq(low, 1, k + 1) = Append(SubSeq(low, 1, k), c) /\ SubSeq(low, 1, k) \in Seq(0 .. b - 1)
      <4> DEFINE CC == 0 .. b - 1
      <4>1. low \in Seq(CC) /\ 1 \in Nat /\ 1 <= k + 1 /\ k + 1 <= Len(low) /\ 1 <= 1
        BY <1>3, <2>1 DEF DigitSeq
      <4> HIDE DEF CC
      <4>2. SubSeq(low, 1, k) \in Seq(CC) /\ Append(SubSeq(low, 1, k), low[k + 1]) = SubSeq(low, 1, k + 1)
        BY <4>1, Longer
      <4> QED BY <4>2 DEF CC
    <3>2. SubSeq(low, 1, k) \in Seq(0 .. b - 1) /\ t \in Seq(0 .. b - 1) /\ c \in 0 .. b - 1
      <4>1. t \in Seq(0 .. b - 1)
        BY <1>4 DEF DigitSeq
      <4>2. c \in 0 .. b - 1
        BY <2>2, <2>3
      <4> QED BY <3>1, <4>1, <4>2
    <3> HIDE DEF c
    <3>3. t \o Append(SubSeq(low, 1, k), c) = Append(t \o SubSeq(low, 1, k), c)
      BY <3>2
    <3> QED BY <3>1, <3>3
  <2> HIDE DEF x, y, c, u, T
  <2>7. Spells(Append(u(k), c), y * b + c, b)
    BY <2>2, <2>3, <2>4, <2>5, SpellsMore
  <2>8. y * b + c = q * P!power(b, k + 1) + x
    <3> DEFINE w == P!power(b, k)
    <3>1. w \in Nat /\ P!power(b, k + 1) = w * b
      BY <1>0, PowerStep
    <3> HIDE DEF w
    <3>2. y = q * w + (x \div b)
      BY <2>2 DEF y, w
    <3>3. (q * w) * b = q * (w * b) /\ q * w \in Nat
      BY <3>1, <1>0
    <3>4. y * b = (q * w) * b + (x \div b) * b
      BY <3>2, <3>3, <2>3, <1>0
    <3>5. (q * w) * b \in Nat /\ (x \div b) * b \in Nat /\ c \in Nat
      BY <3>3, <2>2, <2>3, <1>0
    <3> QED BY <3>1, <3>3, <3>4, <3>5, <2>2, <2>3
  <2>9. Spells(u(k + 1), q * P!power(b, k + 1) + x, b)
    BY <2>6, <2>7, <2>8
  <2> QED BY <2>9 DEF x
<1>7. \A k \in Nat : k \in T
  <2> HIDE DEF T
  <2> QED BY <1>5, <1>6, Induction
<1>8. Spells(u(n), q * P!power(b, n) + p[n - n], b) /\ n - n = 0
  BY <1>7
<1>9. u(n) = t \o low
  <2>1. SubSeq(low, 1, n) = low
    BY <1>3 DEF DigitSeq
  <2> QED BY <2>1
<1> HIDE DEF u
<1> QED BY <1>1, <1>8, <1>9 DEF low

\* The powers of a base grow beyond every number.
LEMMA PowerBeyond ==
  ASSUME NEW b \in Bases, NEW k \in Nat
  PROVE  P!power(b, k) >= k + 1
<1> DEFINE T == {i \in Nat : P!power(b, i) >= i + 1}
<1>0. b \in Nat \ {0}
  BY DEF Bases
<1>1. 0 \in T
  BY <1>0, PowerStep
<1>2. ASSUME NEW i \in Nat, i \in T PROVE i + 1 \in T
  <2>1. P!power(b, i) \in Nat /\ P!power(b, i + 1) = P!power(b, i) * b /\ P!power(b, i) >= i + 1
    BY <1>0, <1>2, PowerStep
  <2>2. (i + 1) * 2 <= P!power(b, i) * b + 0
    BY <2>1, Doubled
  <2>3. P!power(b, i) * b \in Nat
    BY <2>1, <1>0
  <2> QED BY <2>1, <2>2, <2>3
<1>3. \A i \in Nat : i \in T
  <2> HIDE DEF T
  <2> QED BY <1>1, <1>2, Induction
<1> QED BY <1>3

\* The size of a chunk.
LEMMA ChunkSize ==
  ASSUME NEW b \in Bases
  PROVE  /\ P!innerLoops(b) \in Nat /\ P!th16(b) = P!power(b, P!innerLoops(b))
         /\ P!th16(b) \in Nat /\ P!th16(b) >= 2
<1> DEFINE t == P!top(b)
           E == {k \in 0 .. Word : P!power(b, k) >= t}
           Small(k) == P!power(b, k) >= t /\ \A j \in 0 .. k - 1 : P!power(b, j) < t
<1>0. b \in Nat \ {0} /\ Word \in Nat /\ Word >= 32
  BY ParsingAssumption DEF Bases, P!ConstantsOK
<1>1. t \in Nat /\ t >= 2 /\ t <= Word
  <2>1. CASE b = 2
    BY <2>1, <1>0 DEF P!top
  <2>2. CASE b = 10
    BY <2>2, <1>0 DEF P!top
  <2>3. CASE b = 16
    BY <2>3, <1>0 DEF P!top
  <2>4. CASE b = 8
    BY <2>4, <1>0 DEF P!top
  <2> QED BY <2>1, <2>2, <2>3, <2>4 DEF Bases
<1> HIDE DEF t
<1>2. \A k \in Nat : P!power(b, k) \in Nat
  BY <1>0, PowerStep
<1>3. Word \in E
  <2>1. P!power(b, Word) >= Word + 1
    BY <1>0, PowerBeyond
  <2> QED BY <2>1, <1>0, <1>1, <1>2
<1>4. PICK k \in E : \A j \in E : k <= j
  <2>1. E \in SUBSET Nat /\ E # {}
    BY <1>3, <1>0
  <2> HIDE DEF E
  <2> QED BY <2>1, LeastNumber
<1>5. k \in 0 .. Word /\ Small(k)
  <2>1. k \in 0 .. Word /\ P!power(b, k) >= t
    BY <1>4
  <2>2. ASSUME NEW j \in 0 .. k - 1 PROVE P!power(b, j) < t
    <3>1. j \in 0 .. Word /\ j \in Nat /\ ~(k <= j)
      BY <2>1, <1>0
    <3>2. j \notin E
      BY <3>1, <1>4
    <3> QED BY <3>1, <3>2, <1>1, <1>2
  <2> QED BY <2>1, <2>2
<1>6. P!grown(b) = CHOOSE i \in 0 .. Word : Small(i)
  BY DEF P!grown, t
<1> HIDE DEF Small
<1>7. P!grown(b) \in 0 .. Word /\ Small(P!grown(b))
  BY <1>5, <1>6
<1>8. P!power(b, P!grown(b)) >= t /\ P!grown(b) \in Nat
  BY <1>7, <1>0 DEF Small
<1>9. P!power(b, P!grown(b)) \in Nat
  BY <1>2, <1>8
<1> QED BY <1>1, <1>8, <1>9 DEF P!innerLoops, P!th16

\* What printULLNumber() puts together.
Chunked(b) ==
  CHOOSE c : c = [m \in Nat |-> IF m > P!th16(b) THEN c[m \div P!th16(b)] \o P!lowest(m % P!th16(b), P!innerLoops(b), b)
                                ELSE P!digits(m, b)]

\* The recursion of printULLNumber() computes what it says.
LEMMA ChunkedStep ==
  ASSUME NEW b \in Bases, NEW n \in Nat
  PROVE  Chunked(b)[n] = IF n > P!th16(b)
                         THEN Chunked(b)[n \div P!th16(b)] \o P!lowest(n % P!th16(b), P!innerLoops(b), b)
                         ELSE P!digits(n, b)
<1> DEFINE th == P!th16(b)
           L == P!innerLoops(b)
           NN == DigitSeq(b)
           V(n1, g) == IF n1 > th THEN g[n1 \div th] \o P!lowest(n1 % th, L, b) ELSE P!digits(n1, b)
           H == [d \in Nat \X UNION {Early(m, NN) : m \in Nat} |-> V(d[1], d[2])]
           Q(d) == [m \in Nat |-> V(m, d)]
<1>0. th \in Nat /\ th >= 2 /\ L \in Nat
  BY ChunkSize
<1>a. ASSUME NEW m \in Nat PROVE P!digits(m, b) \in NN
  BY DigitsSpell DEF Spells
<1>b. ASSUME NEW m \in Nat, m > th PROVE P!lowest(m % th, L, b) \in NN /\ m \div th \in 0 .. m - 1
  <2>0. m % th \in Nat /\ m \div th \in Nat /\ m \div th < m
    BY <1>0, <1>b, DividedByChunk
  <2> DEFINE r == m % th
             p == Rests(r, b)
  <2>1. P!lowest(r, L, b) = [i \in 1 .. L |-> p[L - i] % b] /\ \A k \in Nat : p[k] \in Nat
    <3>1. r \in Nat /\ L \in Nat
      BY <1>0, <2>0
    <3> HIDE DEF r, L
    <3> QED BY <3>1, RestsStep
  <2> HIDE DEF p
  <2>2. ASSUME NEW i \in 1 .. L PROVE p[L - i] % b \in 0 .. b - 1
    <3>1. L - i \in Nat
      BY <1>0
    <3> QED BY <3>1, <2>1, Divided
  <2> HIDE DEF L, th
  <2>3. [i \in 1 .. L |-> p[L - i] % b] \in Seq(0 .. b - 1)
    BY <2>2, <1>0
  <2> QED BY <2>0, <2>1, <2>3 DEF DigitSeq
<1> HIDE DEF th, L, NN
<1>1. ASSUME NEW m \in Nat, NEW g \in Early(m, NN)
      PROVE  H[<<m, g>>] = V(m, g) /\ V(m, g) \in NN
  <2>1. <<m, g>> \in Nat \X UNION {Early(k, NN) : k \in Nat}
    OBVIOUS
  <2>2. CASE ~(m > th)
    BY <2>1, <2>2, <1>a
  <2>3. CASE m > th
    <3>1. m \div th \in 0 .. m - 1 /\ P!lowest(m % th, L, b) \in NN
      BY <2>3, <1>b
    <3>2. g[m \div th] \in NN
      BY <3>1 DEF Early
    <3>3. g[m \div th] \o P!lowest(m % th, L, b) \in NN
      BY <3>1, <3>2 DEF NN, DigitSeq
    <3> QED BY <2>1, <2>3, <3>3
  <2> QED BY <2>2, <2>3
<1> HIDE DEF H
<1>2. PICK f \in [Nat -> NN] : Recurs(f, H)
  <2>1. Closed(H, NN)
    BY <1>1 DEF Closed
  <2> QED BY <2>1, RecursionExists
<1>3. ASSUME NEW m \in Nat PROVE f[m] = V(m, f)
  <2>1. Prior(f, m) \in Early(m, NN)
    BY DEF Prior, Early
  <2>2. f[m] = V(m, Prior(f, m))
    BY <1>1, <1>2, <2>1 DEF Recurs
  <2>3. CASE ~(m > th)
    BY <2>2, <2>3
  <2>4. CASE m > th
    <3>1. m \div th \in 0 .. m - 1
      BY <2>4, <1>b
    <3>2. Prior(f, m)[m \div th] = f[m \div th]
      BY <3>1 DEF Prior
    <3> QED BY <2>2, <2>4, <3>2
  <2> QED BY <2>3, <2>4
<1>4. f = Q(f)
  BY <1>2, <1>3
<1>5. Chunked(b) = CHOOSE d : d = Q(d)
  BY DEF Chunked, th, L
<1> HIDE DEF Q
<1>6. Chunked(b) = Q(Chunked(b))
  BY <1>4, <1>5
<1> DEFINE p == Chunked(b)
<1> HIDE DEF p
<1>7. p = Q(p)
  BY <1>6 DEF p
<1>8. p[n] = V(n, p)
  <2>1. Q(p)[n] = V(n, p)
    BY DEF Q
  <2> QED BY <1>7, <2>1
<1> QED BY <1>8 DEF p, th, L

\* printULLNumber() writes the number.
LEMMA ChunksSpell ==
  ASSUME NEW b \in Bases, NEW n \in Nat
  PROVE  Spells(P!chunks(n, b), n, b)
<1> DEFINE T == {m \in Nat : Spells(Chunked(b)[m], m, b)}
           th == P!th16(b)
           L == P!innerLoops(b)
<1>0. th \in Nat /\ th >= 2 /\ L \in Nat /\ th = P!power(b, L)
  BY ChunkSize
<1>1. ASSUME NEW m \in Nat, \A k \in 0 .. m - 1 : k \in T PROVE m \in T
  <2>1. CASE ~(m > th)
    <3>1. Chunked(b)[m] = P!digits(m, b)
      BY <2>1, ChunkedStep
    <3> QED BY <3>1, DigitsSpell
  <2>2. CASE m > th
    <3> DEFINE q == m \div th
               r == m % th
    <3>1. q \in Nat /\ r \in 0 .. th - 1 /\ m = q * th + r /\ q >= 1 /\ q < m
      BY <2>2, <1>0, DividedByChunk
    <3>2. Chunked(b)[m] = Chunked(b)[q] \o P!lowest(r, L, b)
      BY <2>2, ChunkedStep
    <3> HIDE DEF q, r, th, L
    <3>3. q \in 0 .. m - 1
      BY <3>1
    <3>4. Spells(Chunked(b)[q], q, b)
      BY <3>3, <1>1
    <3>5. q > 0 /\ r \in Nat /\ r < P!power(b, L)
      BY <3>1, <1>0
    <3>6. Spells(Chunked(b)[q] \o P!lowest(r, L, b), q * P!power(b, L) + r, b)
      BY <3>1, <3>4, <3>5, <1>0, ChunkSpells
    <3>7. Spells(Chunked(b)[m], m, b)
      BY <3>1, <3>2, <3>6, <1>0
    <3> QED BY <3>7
  <2> QED BY <2>1, <2>2
<1>2. \A m \in Nat : m \in T
  <2> HIDE DEF T
  <2> QED BY <1>1, CourseOfValues
<1>3. P!chunks(n, b) = Chunked(b)[n]
  BY DEF P!chunks, Chunked
<1> QED BY <1>2, <1>3

------------------------------------------------------------------------------
(* What print() writes.                                                    *)

\* t is what a number n below the limit of unsigned long long is printed as.
Printed(t, n, b) ==
  /\ t \in DigitSeq(b) /\ t # <<>> /\ P!ValueIn(t, b) = n
  /\ P!Plain(t) /\ Len(t) <= LongLongBits

\* A number below 2^LongLongBits fits into a buffer of LongLongBits digits.
LEMMA SpelledIsPrinted ==
  ASSUME NEW b \in Bases, NEW n \in Nat, n < P!power(2, LongLongBits), NEW t, Spells(t, n, b), n = 0 => t = << 0 >>
  PROVE  Printed(t, n, b)
<1>0. LongLongBits \in Nat /\ LongLongBits >= 1
  BY ParsingAssumption DEF P!ConstantsOK
<1>1. t \in DigitSeq(b) /\ t # <<>> /\ P!ValueIn(t, b) = n /\ t \in Seq(Nat)
  BY DigitsAreNat DEF Spells
<1>2. CASE n = 0
  <2>1. t = <<0>> /\ Len(t) = 1
    BY <1>2
  <2> QED BY <1>0, <1>1, <2>1 DEF Printed, P!Plain
<1>3. CASE n > 0
  <2>1. t[1] # 0
    BY <1>3 DEF Spells
  <2>2. P!power(2, Len(t) - 1) <= n
    BY <1>1, <2>1, ValueLarge
  <2>3. Len(t) \in Nat /\ Len(t) - 1 \in Nat
    BY <1>1
  <2>4. Len(t) <= LongLongBits
    <3> SUFFICES ASSUME LongLongBits <= Len(t) - 1 PROVE FALSE
      BY <1>0, <2>3
    <3>1. P!power(2, LongLongBits) <= P!power(2, Len(t) - 1)
      BY <1>0, <2>3, PowersGrow
    <3>2. P!power(2, LongLongBits) \in Nat /\ P!power(2, Len(t) - 1) \in Nat
      BY <1>0, <2>3, PowerOfTwo
    <3> QED BY <2>2, <3>1, <3>2
  <2> QED BY <1>1, <2>1, <2>4 DEF Printed, P!Plain
<1> QED BY <1>2, <1>3

\* Both functions write the number.
LEMMA NumberIsPrinted ==
  ASSUME NEW base \in P!Base, NEW n \in Nat, n < P!power(2, LongLongBits)
  PROVE  /\ P!baseOf(base) \in Bases
         /\ Printed(P!printNumber(n, base), n, P!baseOf(base))
         /\ Printed(P!printULLNumber(n, base), n, P!baseOf(base))
<1> DEFINE b == P!baseOf(base)
<1>1. b \in Bases
  BY DEF P!baseOf, P!Base, Bases
<1> HIDE DEF b
<1>2. n = 0 => P!digits(n, b) = <<0>>
  <2>1. P!digits(n, b) = Numerals(b)[n]
    BY DEF P!digits, Numerals
  <2>2. 0 < b
    BY <1>1 DEF Bases
  <2> QED BY <1>1, <2>1, <2>2, NumeralsStep
<1>3. Printed(P!digits(n, b), n, b)
  BY <1>1, <1>2, DigitsSpell, SpelledIsPrinted
<1>4. n = 0 => Printed(<<0>>, n, b)
  BY <1>2, <1>3
<1>5. n # 0 => Printed(P!chunks(n, b), n, b)
  BY <1>1, ChunksSpell, SpelledIsPrinted
<1>6. P!printNumber(n, base) = P!digits(n, b) /\ P!printULLNumber(n, base) = IF n = 0 THEN <<0>> ELSE P!chunks(n, b)
  BY DEF P!printNumber, P!printULLNumber, b
<1> QED BY <1>1, <1>3, <1>4, <1>5, <1>6 DEF b

\* A number that is printed fits into unsigned long long.
LEMMA UnsignedFits ==
  ASSUME NEW n \in Number, NEW base \in P!Base
  PROVE  /\ P!unsigned(n, base) \in Nat /\ P!unsigned(n, base) < P!power(2, LongLongBits)
         /\ n \in Int /\ Long \in Nat
<1> DEFINE m == P!power(2, LongLongBits)
<1>0. m \in Nat /\ m # 0
  <2>1. LongLongBits \in Nat /\ 2 \in Nat \ {0}
    BY ParsingAssumption DEF P!ConstantsOK
  <2> QED BY <2>1, PowerStep
<1>1. Long \in 1 .. m /\ n \in (-(Long \div 2)) .. m - 1
  BY ParsingAssumption DEF P!ConstantsOK
<1> HIDE DEF m
<1>2. Long \in Nat /\ n \in Int /\ n < m /\ Long <= m /\ n >= -(Long \div 2) /\ Long >= 1
  BY <1>0, <1>1
<1>3. Long \div 2 \in Nat /\ Long \div 2 < Long
  BY <1>2
<1>4. CASE n >= 0
  BY <1>2, <1>4 DEF P!unsigned, m
<1>5. CASE n < 0
  <2>1. -n \in Nat /\ -n < m /\ n + Long \in Nat /\ n + Long < m
    BY <1>0, <1>2, <1>3, <1>5
  <2> QED BY <1>2, <1>5, <2>1 DEF P!unsigned, m
<1> QED BY <1>2, <1>4, <1>5

\* The text between the sign and the end of the line.
LEMMA TextInside ==
  ASSUME NEW h \in Seq(Int), NEW t \in Seq(Int), NEW e \in Seq(Int)
  PROVE  /\ SubSeq(h \o t \o e, Len(h) + 1, Len(h) + Len(t)) = t
         /\ Len(h \o t \o e) = Len(h) + Len(t) + Len(e)
         /\ h = <<>> /\ t # <<>> => (h \o t \o e)[1] = t[1]
         /\ h # <<>> => (h \o t \o e)[1] = h[1]
<1> DEFINE w == h \o t \o e
<1>1. Len(h) \in Nat /\ Len(t) \in Nat /\ Len(e) \in Nat
  OBVIOUS
<1>2. h \o t \in Seq(Int) /\ Joined(h \o t, h, t)
  BY Concatenation
<1>3. w \in Seq(Int) /\ Joined(w, h \o t, e)
  BY <1>2, Concatenation
<1> DEFINE x == SubSeq(w, Len(h) + 1, Len(h) + Len(t))
<1>4. Len(w) = Len(h) + Len(t) + Len(e) /\ Len(h \o t) = Len(h) + Len(t)
  BY <1>1, <1>2, <1>3 DEF Joined
<1>5. \A i \in 1 .. Len(t) : w[Len(h) + i] = t[i]
  <2> SUFFICES ASSUME NEW i \in 1 .. Len(t) PROVE w[Len(h) + i] = t[i]
    OBVIOUS
  <2>1. Len(h) + i \in 1 .. Len(h) + Len(t)
    BY <1>1
  <2>2. w[Len(h) + i] = (h \o t)[Len(h) + i]
    BY <2>1, <1>3, <1>4 DEF Joined
  <2> QED BY <2>2, <1>2 DEF Joined
<1>6. \A i \in 1 .. Len(h) : w[i] = h[i]
  <2> SUFFICES ASSUME NEW i \in 1 .. Len(h) PROVE w[i] = h[i]
    OBVIOUS
  <2>1. i \in 1 .. Len(h) + Len(t)
    BY <1>1
  <2>2. w[i] = (h \o t)[i]
    BY <2>1, <1>3, <1>4 DEF Joined
  <2> QED BY <2>2, <1>2 DEF Joined
<1> HIDE DEF w
<1>7. x \in Seq(Int) /\ Len(x) = Len(t) /\ \A i \in 1 .. Len(t) : x[i] = w[Len(h) + i]
  <2> DEFINE a == Len(h) + 1
             z == Len(h) + Len(t)
  <2>1. a \in Nat /\ z \in Nat /\ 1 <= a /\ z <= Len(w) /\ z - a + 1 = Len(t)
    BY <1>1, <1>4
  <2>2. \A i \in 1 .. Len(t) : a + i - 1 = Len(h) + i
    BY <1>1
  <2> HIDE DEF a, z
  <2>3. a <= z + 1
    BY <2>1, <1>1
  <2>4. /\ SubSeq(w, a, z) \in Seq(Int) /\ Len(SubSeq(w, a, z)) = z + 1 - a
        /\ \A i \in 1 .. z + 1 - a : SubSeq(w, a, z)[i] = w[a + i - 1]
    BY <2>1, <2>3, <1>3, Piece
  <2>5. z + 1 - a = Len(t)
    BY <2>1
  <2> QED BY <2>2, <2>4, <2>5 DEF a, z
<1> HIDE DEF x
<1>8. x = t
  <2>1. \A i \in 1 .. Len(t) : x[i] = t[i]
    BY <1>5, <1>7
  <2> QED BY <2>1, <1>7, SameSeq
<1>9. h = <<>> /\ t # <<>> => w[1] = t[1]
  <2> SUFFICES ASSUME h = <<>>, t # <<>> PROVE w[1] = t[1]
    OBVIOUS
  <2>1. Len(h) = 0 /\ 1 \in 1 .. Len(t) /\ Len(h) + 1 = 1
    OBVIOUS
  <2> QED BY <2>1, <1>5
<1>10. h # <<>> => w[1] = h[1]
  <2> SUFFICES ASSUME h # <<>> PROVE w[1] = h[1]
    OBVIOUS
  <2>1. 1 \in 1 .. Len(h)
    OBVIOUS
  <2> QED BY <2>1, <1>6
<1> QED BY <1>4, <1>8, <1>9, <1>10 DEF w, x

\* What one call leaves behind.
PrintInv == arg = P!NoArg \/ P!TextIsNumber

\* The sign and the end of the line leave the text of the number in between.
LEMMA WritesItsNumber ==
  ASSUME NEW n \in Number, NEW base \in P!Base, NEW line \in BOOLEAN, NEW txt, NEW kind,
         Printed(txt, P!unsigned(n, base), P!baseOf(base)), P!writes(txt, kind, n, base, line)
  PROVE  P!TextIsNumber'
<1> DEFINE b == P!baseOf(base)
           u == P!unsigned(n, base)
           h == P!sign(n, base)
           e == P!newline(line)
<1>0. b \in Bases /\ u \in Nat /\ n \in Int /\ Long \in Nat
  BY UnsignedFits, NumberIsPrinted
<1>1. base # 0 /\ out' = h \o txt \o e /\ print_ret' = Len(h) + Len(txt) + Len(e) /\ arg' = [type |-> kind, n |-> n, base |-> base, line |-> line]
  BY DEF P!writes
<1>2. txt \in DigitSeq(b) /\ txt # <<>> /\ P!ValueIn(txt, b) = u /\ P!Plain(txt) /\ Len(txt) <= LongLongBits
  BY DEF Printed
<1>3. txt \in Seq(Int) /\ \A i \in DOMAIN txt : txt[i] \in 0 .. b - 1
  BY <1>0, <1>2, SMTT(40) DEF DigitSeq, Bases
<1>4. h \in Seq(Int) /\ e \in Seq(Int) /\ Len(e) = (IF line THEN 2 ELSE 0) /\ Len(txt) \in Nat
  <2>1. h \in Seq(Int)
    BY DEF P!sign, P!Minus
  <2>2. e \in Seq(Int) /\ Len(e) = IF line THEN 2 ELSE 0
    BY DEF P!newline, P!CR, P!LF
  <2> QED BY <2>1, <2>2, <1>3
<1>5. arg'.n = n /\ arg'.base = base /\ arg'.line = line
  BY <1>1
<1>6. /\ SubSeq(out', Len(h) + 1, Len(h) + Len(txt)) = txt
      /\ Len(out') = Len(h) + Len(txt) + Len(e)
      /\ h = <<>> => out'[1] = txt[1]
      /\ h # <<>> => out'[1] = h[1]
  <2> HIDE DEF h, e
  <2>1. h \in Seq(Int) /\ txt \in Seq(Int) /\ e \in Seq(Int)
    BY <1>3, <1>4
  <2>2. /\ SubSeq(h \o txt \o e, Len(h) + 1, Len(h) + Len(txt)) = txt
        /\ Len(h \o txt \o e) = Len(h) + Len(txt) + Len(e)
        /\ h = <<>> /\ txt # <<>> => (h \o txt \o e)[1] = txt[1]
        /\ h # <<>> => (h \o txt \o e)[1] = h[1]
    BY <2>1, TextInside, ZenonT(60)
  <2>3. out' = h \o txt \o e /\ txt # <<>>
    BY <1>1, <1>2
  <2> DEFINE w == h \o txt \o e
  <2> HIDE DEF w
  <2> QED BY <2>2, <2>3, Zenon DEF w
<1>7. Len(out') - (IF line THEN 2 ELSE 0) = Len(h) + Len(txt) /\ print_ret' = Len(out')
  <2>1. Len(h) \in Nat
    BY <1>4
  <2> QED BY <2>1, <1>1, <1>4, <1>6
<1>8. txt[1] # -1
  <2>1. 1 \in DOMAIN txt
    BY <1>2, <1>3
  <2>2. txt[1] \in 0 .. b - 1
    BY <2>1, <1>3
  <2> QED BY <1>0, <2>2 DEF Bases
<1> DEFINE negative == out'[1] = P!Minus
           text1 == SubSeq(out', IF negative THEN 2 ELSE 1, Len(out') - IF line THEN 2 ELSE 0)
           value1 == (IF negative THEN -1 ELSE 1) * P!ValueIn(text1, b)
<1>9. text1 = txt /\ value1 = (IF n < 0 /\ base = 10 THEN -1 ELSE 1) * u
  <2>1. CASE n < 0 /\ base = 10
    <3>1. h = <<-1>> /\ Len(h) = 1 /\ h[1] = -1 /\ h # <<>>
      BY <2>1 DEF P!sign, P!Minus
    <3>2. negative
      BY <3>1, <1>6 DEF P!Minus
    <3>3. text1 = txt
      BY <3>1, <3>2, <1>6, <1>7
    <3> HIDE DEF text1, negative
    <3> QED BY <2>1, <3>2, <3>3, <1>2
  <2>2. CASE ~(n < 0 /\ base = 10)
    <3>1. h = <<>> /\ Len(h) = 0
      BY <2>2 DEF P!sign
    <3>2. ~negative
      BY <3>1, <1>6, <1>8 DEF P!Minus
    <3>3. text1 = txt
      BY <3>1, <3>2, <1>6, <1>7
    <3> HIDE DEF text1, negative
    <3> QED BY <2>2, <3>2, <3>3, <1>2
  <2> QED BY <2>1, <2>2
<1>10. value1 = n \/ (n < 0 /\ base # 10 /\ value1 = n + Long)
  <2> HIDE DEF value1
  <2>1. u = IF n >= 0 THEN n ELSE IF base = 10 THEN -n ELSE n + Long
    BY DEF P!unsigned
  <2> HIDE DEF u
  <2> QED BY <2>1, <1>0, <1>9
<1>11. P!TextIsNumber' = (arg'.type # "none" =>
         /\ value1 = n \/ (n < 0 /\ base # 10 /\ value1 = n + Long)
         /\ P!Plain(text1) /\ \A i \in DOMAIN text1 : text1[i] \in 0 .. b - 1
         /\ Len(text1) <= LongLongBits
         /\ print_ret' = Len(out'))
  BY <1>5 DEF P!TextIsNumber
<1> HIDE DEF text1, value1
<1> QED BY <1>2, <1>3, <1>7, <1>9, <1>10, <1>11

\* Nothing has been printed.
LEMMA PrintStart == P!Init => PrintInv
BY DEF P!Init, PrintInv

\* Every call of print() keeps the invariant.
LEMMA PrintStep ==
  PrintInv /\ [P!Next]_printVars => PrintInv'
<1> SUFFICES ASSUME PrintInv, [P!Next]_printVars PROVE PrintInv'
  OBVIOUS
<1>1. CASE P!Next
  <2>1. PICK n \in Number, base \in P!Base, line \in BOOLEAN : P!printLong(n, base, line) \/ P!printLongLong(n, base, line)
    BY <1>1 DEF P!Next
  <2> DEFINE u == P!unsigned(n, base)
  <2>2. u \in Nat /\ u < P!power(2, LongLongBits)
    BY UnsignedFits
  <2>3. Printed(P!printNumber(u, base), u, P!baseOf(base)) /\ Printed(P!printULLNumber(u, base), u, P!baseOf(base))
    BY <2>2, NumberIsPrinted
  <2>4. CASE P!printLong(n, base, line)
    <3>1. P!writes(P!printNumber(u, base), "long", n, base, line)
      BY <2>4 DEF P!printLong
    <3> HIDE DEF u
    <3>2. P!TextIsNumber'
      BY <2>3, <3>1, WritesItsNumber DEF u
    <3> QED BY <3>2 DEF PrintInv
  <2>5. CASE P!printLongLong(n, base, line)
    <3>1. P!writes(P!printULLNumber(u, base), "long long", n, base, line)
      BY <2>5 DEF P!printLongLong
    <3>2. P!TextIsNumber'
      BY <2>3, <3>1, WritesItsNumber
    <3> QED BY <3>2 DEF PrintInv
  <2> QED BY <2>1, <2>4, <2>5
<1>2. CASE UNCHANGED printVars
  BY <1>2 DEF printVars, PrintInv, P!TextIsNumber
<1> QED BY <1>1, <1>2

\* The invariant says what the property does.
LEMMA PrintEnd == PrintInv => P!TextIsNumber
<1>1. P!NoArg.type = "none"
  BY DEF P!NoArg
<1>2. arg = P!NoArg => P!TextIsNumber
  BY <1>1 DEF P!TextIsNumber
<1> QED BY <1>2 DEF PrintInv

------------------------------------------------------------------------------
(* Stream.                                                                 *)

\* The largest and the smallest of some natural numbers below a bound.
LEMMA MaxExists ==
  ASSUME NEW E, NEW n \in Nat, E \subseteq 0 .. n, E # {}
  PROVE  I!Max(E) \in E /\ \A k \in E : k <= I!Max(E)
<1> DEFINE T == {n - k : k \in E}
<1>1. T \in SUBSET Nat /\ T # {}
  <2>1. \A k \in E : n - k \in Nat
    OBVIOUS
  <2>2. PICK k \in E : TRUE
    OBVIOUS
  <2>3. n - k \in T
    OBVIOUS
  <2> QED BY <2>1, <2>3
<1>2. PICK f \in T : \A g \in T : f <= g
  <2> HIDE DEF T
  <2> QED BY <1>1, LeastNumber
<1>3. PICK m \in E : f = n - m
  BY <1>2
<1>4. ASSUME NEW k \in E PROVE m >= k
  <2>1. n - k \in T
    OBVIOUS
  <2>2. n - m <= n - k
    BY <1>2, <1>3, <2>1
  <2>3. k \in Nat /\ m \in Nat
    BY <1>3
  <2> QED BY <2>2, <2>3
<1>5. I!Max(E) = CHOOSE x \in E : \A y \in E : x >= y
  BY DEF I!Max
<1>6. I!Max(E) \in E /\ \A y \in E : I!Max(E) >= y
  BY <1>3, <1>4, <1>5
<1>7. \A y \in E : y \in Nat
  OBVIOUS
<1> QED BY <1>6, <1>7

\* The same for the smallest.
LEMMA MinExists ==
  ASSUME NEW E, E \subseteq Nat, E # {}
  PROVE  I!Min(E) \in E
<1>1. PICK f \in E : \A g \in E : f <= g
  BY LeastNumber
<1>2. I!Min(E) = CHOOSE x \in E : \A y \in E : x <= y
  BY DEF I!Min
<1> QED BY <1>1, <1>2

------------------------------------------------------------------------------
(* find().                                                                 *)

\* The last k of the first n bytes of q are the first k of str.
EndsAt(q, n, str, k) == k <= n /\ \A i \in 1 .. k : q[n - k + i] = str[i]

\* EndsWith() of two beginnings, byte by byte.
LEMMA EndsHere ==
  ASSUME NEW C, NEW q \in Seq(C), NEW str \in Seq(C), NEW n \in 0 .. Len(q), NEW k \in 0 .. Len(str)
  PROVE  I!EndsWith(I!Prefix(q, n), I!Prefix(str, k)) <=> EndsAt(q, n, str, k)
<1> DEFINE p == SubSeq(q, 1, n)
           t == SubSeq(str, 1, k)
<1>1. p \in Seq(C) /\ Len(p) = n /\ \A i \in 1 .. n : p[i] = q[i]
  OBVIOUS
<1>2. t \in Seq(C) /\ Len(t) = k /\ \A i \in 1 .. k : t[i] = str[i]
  OBVIOUS
<1>3. I!EndsWith(I!Prefix(q, n), I!Prefix(str, k)) <=> Len(t) <= Len(p) /\ SubSeq(p, Len(p) - Len(t) + 1, Len(p)) = t
  BY DEF I!EndsWith, I!Prefix
<1> HIDE DEF p, t
<1>4. CASE ~(k <= n)
  BY <1>1, <1>2, <1>3, <1>4 DEF EndsAt
<1>5. CASE k <= n
  <2> DEFINE a == n - k + 1
             u == SubSeq(p, a, n)
  <2>1. a \in Nat /\ 1 <= a /\ a <= n + 1 /\ n + 1 - a = k /\ k \in Nat /\ n \in Nat
    BY <1>5
  <2>2. u \in Seq(C) /\ Len(u) = n + 1 - a /\ \A i \in 1 .. n + 1 - a : u[i] = p[a + i - 1]
    BY <1>1, <2>1, Piece
  <2>3. \A i \in 1 .. k : u[i] = q[n - k + i]
    <3> SUFFICES ASSUME NEW i \in 1 .. k PROVE u[i] = q[n - k + i]
      OBVIOUS
    <3>1. a + i - 1 = n - k + i /\ n - k + i \in 1 .. n
      BY <2>1, <1>5
    <3> QED BY <2>1, <2>2, <3>1, <1>1
  <2>4. Len(u) = k
    BY <2>1, <2>2
  <2> HIDE DEF u
  <2>5. u = t <=> \A i \in 1 .. k : u[i] = t[i]
    <3>1. u = t => \A i \in 1 .. k : u[i] = t[i]
      OBVIOUS
    <3>2. ASSUME \A i \in 1 .. k : u[i] = t[i] PROVE u = t
      BY <3>2, <2>2, <2>4, <1>2, SameSeq
    <3> QED BY <3>1, <3>2
  <2>6. u = t <=> \A i \in 1 .. k : q[n - k + i] = str[i]
    BY <2>3, <2>5, <1>2
  <2>7. Len(t) <= Len(p) /\ SubSeq(p, Len(p) - Len(t) + 1, Len(p)) = u
    BY <1>1, <1>2, <1>5 DEF u
  <2> QED BY <1>3, <1>5, <2>6, <2>7 DEF EndsAt
<1> QED BY <1>4, <1>5

\* m is the longest beginning of str that the first n bytes end with.
Longest(q, n, str, m) ==
  /\ m \in 0 .. Len(str) /\ EndsAt(q, n, str, m)
  /\ \A k \in m + 1 .. Len(str) : ~EndsAt(q, n, str, k)

\* One more byte extends a match by itself.
LEMMA EndsMore ==
  ASSUME NEW C, NEW q \in Seq(C), NEW c \in C, NEW str \in Seq(C), NEW k \in 0 .. Len(str) - 1
  PROVE  EndsAt(Append(q, c), Len(q) + 1, str, k + 1) <=> EndsAt(q, Len(q), str, k) /\ str[k + 1] = c
<1> DEFINE w == Append(q, c)
           n == Len(q)
<1>1. n \in Nat /\ w[n + 1] = c /\ \A i \in 1 .. n : w[i] = q[i]
  OBVIOUS
<1> HIDE DEF w, n
<1>2. k \in Nat /\ (k + 1 <= n + 1 <=> k <= n)
  BY <1>1
<1>3. \A i \in 1 .. k + 1 : (n + 1) - (k + 1) + i = n - k + i
  BY <1>1, <1>2
<1>4. n - k + (k + 1) = n + 1
  BY <1>1, <1>2
<1>5. CASE k <= n
  <2>1. \A i \in 1 .. k : n - k + i \in 1 .. n
    BY <1>1, <1>2, <1>5
  <2>2. \A i \in 1 .. k : w[n - k + i] = q[n - k + i]
    BY <1>1, <2>1
  <2>3. EndsAt(w, n + 1, str, k + 1) <=> \A i \in 1 .. k + 1 : w[n - k + i] = str[i]
    BY <1>2, <1>3, <1>5 DEF EndsAt
  <2>4. (\A i \in 1 .. k + 1 : w[n - k + i] = str[i]) <=> (\A i \in 1 .. k : w[n - k + i] = str[i]) /\ w[n - k + (k + 1)] = str[k + 1]
    <3>1. \A i : i \in 1 .. k + 1 <=> i \in 1 .. k \/ i = k + 1
      BY <1>2
    <3> QED BY <3>1
  <2>5. EndsAt(q, n, str, k) <=> \A i \in 1 .. k : q[n - k + i] = str[i]
    BY <1>5 DEF EndsAt
  <2> QED BY <1>1, <1>4, <2>2, <2>3, <2>4, <2>5 DEF w, n
<1>6. CASE ~(k <= n)
  BY <1>2, <1>6 DEF EndsAt, w, n
<1> QED BY <1>5, <1>6

\* What the walk back compares.
LEMMA EndsInside ==
  ASSUME NEW C, NEW q \in Seq(C), NEW str \in Seq(C), NEW m \in 0 .. Len(str), EndsAt(q, Len(q), str, m),
         NEW k \in 0 .. m
  PROVE  EndsAt(q, Len(q), str, k) <=> \A i \in 1 .. k : str[i] = str[i + m - k]
<1> DEFINE n == Len(q)
<1>1. n \in Nat /\ m \in Nat /\ k \in Nat /\ m <= n /\ k <= n
  BY DEF EndsAt
<1>2. \A i \in 1 .. m : q[n - m + i] = str[i]
  BY DEF EndsAt
<1> HIDE DEF n
<1>3. ASSUME NEW i \in 1 .. k PROVE q[n - k + i] = str[i + m - k]
  <2>1. i + m - k \in 1 .. m /\ n - m + (i + m - k) = n - k + i
    BY <1>1
  <2> QED BY <1>2, <2>1
<1> QED BY <1>1, <1>3 DEF EndsAt, n

\* The walk back of findMulti() finds the longest match that the byte extends.
LEMMA NextIndex ==
  ASSUME NEW C, NEW q \in Seq(C), NEW c \in C, NEW str \in Seq(C), NEW m \in 0 .. Len(str) - 1,
         Longest(q, Len(q), str, m)
  PROVE  Longest(Append(q, c), Len(q) + 1, str, I!nextIndex(str, m, c))
<1> DEFINE w == Append(q, c)
           n == Len(q)
           r == I!nextIndex(str, m, c)
           good == {i \in 0 .. m - 1 : I!continues(str, m, c, i)}
<1>1. n \in Nat /\ Len(str) \in Nat /\ m \in Nat /\ m + 1 <= Len(str) /\ m \in 0 .. Len(str)
  OBVIOUS
<1>2. EndsAt(q, n, str, m) /\ \A k \in m + 1 .. Len(str) : ~EndsAt(q, n, str, k)
  BY DEF Longest
<1>3. \A k \in 0 .. Len(str) - 1 : EndsAt(w, n + 1, str, k + 1) <=> EndsAt(q, n, str, k) /\ str[k + 1] = c
  BY EndsMore
<1>4. \A k \in 0 .. m : EndsAt(q, n, str, k) <=> \A i \in 1 .. k : str[i] = str[i + m - k]
  BY <1>1, <1>2, EndsInside
<1>5. EndsAt(w, n + 1, str, 0)
  BY <1>1 DEF EndsAt
<1>6. \A k \in 0 .. m - 1 : k \in good <=> EndsAt(w, n + 1, str, k + 1)
  <2> SUFFICES ASSUME NEW k \in 0 .. m - 1 PROVE k \in good <=> EndsAt(w, n + 1, str, k + 1)
    OBVIOUS
  <2>1. k \in 0 .. Len(str) - 1 /\ k \in 0 .. m
    BY <1>1
  <2>2. k \in good <=> str[k + 1] = c /\ \A i \in 1 .. k : str[i] = str[i + m - k]
    BY DEF I!continues
  <2> QED BY <2>1, <2>2, <1>3, <1>4
<1>7. ASSUME NEW k \in m + 2 .. Len(str) PROVE ~EndsAt(w, n + 1, str, k)
  <2>1. k - 1 \in m + 1 .. Len(str) /\ k - 1 \in 0 .. Len(str) - 1 /\ (k - 1) + 1 = k
    BY <1>1
  <2> QED BY <2>1, <1>2, <1>3
<1> HIDE DEF w, n, good
<1>8. CASE str[m + 1] = c
  <2>1. r = m + 1
    BY <1>8 DEF I!nextIndex
  <2>2. EndsAt(w, n + 1, str, m + 1)
    BY <1>2, <1>3, <1>8, <1>1
  <2> HIDE DEF r
  <2> QED BY <1>1, <1>7, <2>1, <2>2 DEF Longest, w, n, r
<1>9. CASE str[m + 1] # c
  <2>1. r = IF good = {} THEN 0 ELSE I!Max(good) + 1
    BY <1>9 DEF I!nextIndex, I!walkBack, good
  <2> HIDE DEF r
  <2>2. ~EndsAt(w, n + 1, str, m + 1)
    BY <1>3, <1>9, <1>1
  <2>3. CASE good = {}
    <3>1. ASSUME NEW k \in 1 .. Len(str) PROVE ~EndsAt(w, n + 1, str, k)
      <4>1. CASE k <= m
        <5>1. k - 1 \in 0 .. m - 1 /\ (k - 1) + 1 = k
          BY <4>1, <1>1
        <5> QED BY <5>1, <1>6, <2>3
      <4> QED BY <4>1, <1>1, <1>7, <2>2
    <3>2. r = 0
      BY <2>1, <2>3
    <3> QED BY <3>1, <3>2, <1>1, <1>5 DEF Longest, w, n, r
  <2>4. CASE good # {}
    <3> DEFINE g == I!Max(good)
    <3>1. good \subseteq 0 .. m
      BY <1>1 DEF good
    <3>2. g \in good /\ \A k \in good : k <= g
      BY <3>1, <2>4, <1>1, MaxExists
    <3> HIDE DEF g
    <3>3. g \in 0 .. m - 1 /\ r = g + 1
      BY <3>2, <2>1, <2>4 DEF good, g
    <3>4. EndsAt(w, n + 1, str, r)
      BY <3>2, <3>3, <1>6
    <3>5. ASSUME NEW k \in r + 1 .. Len(str) PROVE ~EndsAt(w, n + 1, str, k)
      <4>1. CASE k <= m
        <5>1. k - 1 \in 0 .. m - 1 /\ (k - 1) + 1 = k /\ ~(k - 1 <= g)
          BY <4>1, <3>3, <1>1
        <5> QED BY <5>1, <3>2, <1>6
      <4> QED BY <4>1, <3>3, <1>1, <1>7, <2>2
    <3>6. r \in 0 .. Len(str)
      BY <3>3, <1>1
    <3> QED BY <3>4, <3>5, <3>6 DEF Longest, w, n, r
  <2> QED BY <2>3, <2>4
<1> QED BY <1>8, <1>9

\* The first n bytes end with str.
LEMMA EndsWhole ==
  ASSUME NEW C, NEW q \in Seq(C), NEW str \in Seq(C), NEW n \in 0 .. Len(q)
  PROVE  I!EndsWith(I!Prefix(q, n), str) <=> EndsAt(q, n, str, Len(str))
<1>1. I!Prefix(str, Len(str)) = str
  BY DEF I!Prefix
<1>2. Len(str) \in 0 .. Len(str)
  OBVIOUS
<1> QED BY <1>1, <1>2, EndsHere

\* The longest beginning, if it is not the whole of str, is Matched().
LEMMA LongestIsMatched ==
  ASSUME NEW C, NEW q \in Seq(C), NEW str \in Seq(C), NEW m \in 0 .. Len(str) - 1, Longest(q, Len(q), str, m)
  PROVE  I!Matched(q, str) = m
<1> DEFINE E == {n \in 0 .. Len(str) - 1 : I!EndsWith(q, I!Prefix(str, n))}
<1>0. Len(str) \in Nat /\ m \in Nat /\ Len(q) \in Nat /\ Len(str) - 1 \in Nat
  OBVIOUS
<1>1. \A n \in 0 .. Len(str) - 1 : n \in E <=> EndsAt(q, Len(q), str, n)
  <2> SUFFICES ASSUME NEW n \in 0 .. Len(str) - 1 PROVE I!EndsWith(q, I!Prefix(str, n)) <=> EndsAt(q, Len(q), str, n)
    OBVIOUS
  <2>1. I!Prefix(q, Len(q)) = q /\ Len(q) \in 0 .. Len(q) /\ n \in 0 .. Len(str)
    BY <1>0 DEF I!Prefix
  <2> QED BY <2>1, EndsHere
<1>2. m \in E
  BY <1>1 DEF Longest
<1>3. ASSUME NEW k \in E PROVE k <= m
  <2>1. k \in 0 .. Len(str) - 1 /\ EndsAt(q, Len(q), str, k)
    BY <1>1
  <2>2. k \in m + 1 .. Len(str) => FALSE
    BY <2>1 DEF Longest
  <2> QED BY <2>1, <2>2, <1>0
<1>4. I!Matched(q, str) = I!Max(E)
  BY DEF I!Matched
<1>5. E \subseteq 0 .. Len(str) - 1
  OBVIOUS
<1> HIDE DEF E
<1>6. I!Max(E) \in E /\ \A k \in E : k <= I!Max(E)
  BY <1>0, <1>2, <1>5, MaxExists
<1> DEFINE g == I!Max(E)
<1> HIDE DEF g
<1>7. g \in E /\ m <= g
  BY <1>2, <1>6 DEF g
<1>8. g \in 0 .. Len(str) - 1 /\ g <= m
  BY <1>3, <1>5, <1>7
<1> QED BY <1>0, <1>4, <1>7, <1>8 DEF g

\* The targets that the first n bytes end with.
Ends(q, strs, n) == {t \in DOMAIN strs : I!EndsWith(I!Prefix(q, n), strs[t])}

\* What holds of the targets while findMulti() runs.
Searching(q, strs, index) ==
  /\ \A n \in 0 .. Len(q) : Ends(q, strs, n) = {}
  /\ \A t \in DOMAIN strs : index[t] \in 0 .. Len(strs[t]) - 1 /\ Longest(q, Len(q), strs[t], index[t])

TargetList(strs) == DOMAIN strs \subseteq 1 .. 2 /\ \A t \in DOMAIN strs : strs[t] \in Seq(SentByte)

\* A byte changes nothing about the ends before it.
LEMMA EndsBefore ==
  ASSUME NEW C, NEW q \in Seq(C), NEW c \in C, NEW strs, NEW n \in 0 .. Len(q)
  PROVE  Ends(Append(q, c), strs, n) = Ends(q, strs, n)
<1>1. SubSeq(Append(q, c), 1, n) = SubSeq(q, 1, n)
  <2> DEFINE l == SubSeq(Append(q, c), 1, n)
             r == SubSeq(q, 1, n)
  <2>1. n \in Nat /\ 1 \in Nat /\ 1 <= n + 1 /\ n <= Len(q) /\ n + 1 - 1 = n /\ \A i \in 1 .. n : 1 + i - 1 = i
    OBVIOUS
  <2>2. r \in Seq(C) /\ Len(r) = n /\ \A i \in 1 .. n : r[i] = q[i]
    OBVIOUS
  <2>3. Append(q, c) \in Seq(C) /\ n <= Len(Append(q, c)) /\ \A i \in 1 .. n : Append(q, c)[i] = q[i]
    OBVIOUS
  <2>4. l \in Seq(C) /\ Len(l) = n /\ \A i \in 1 .. n : l[i] = q[i]
    <3> DEFINE w == Append(q, c)
    <3>1. w \in Seq(C) /\ n <= Len(w) /\ \A i \in 1 .. n : w[i] = q[i]
      BY <2>3
    <3> HIDE DEF w
    <3>2. SubSeq(w, 1, n) \in Seq(C) /\ Len(SubSeq(w, 1, n)) = n /\ \A i \in 1 .. n : SubSeq(w, 1, n)[i] = w[i]
      BY <3>1, <2>1
    <3> QED BY <3>1, <3>2 DEF w
  <2> HIDE DEF l, r
  <2>5. l = r
    BY <2>2, <2>4, SameSeq
  <2> QED BY <2>5 DEF l, r
<1> QED BY <1>1 DEF Ends, I!Prefix

\* The indices after a byte, and the targets that are complete.
Indices(strs, index, c) == [t \in DOMAIN strs |-> I!nextIndex(strs[t], index[t], c)]
Hits(strs, index) == {t \in DOMAIN strs : index[t] = Len(strs[t])}

\* What findMulti() does with a byte.
LEMMA SearchStep ==
  ASSUME NEW q \in Seq(SentByte), NEW c \in SentByte, NEW strs, NEW index, TargetList(strs), Searching(q, strs, index)
  PROVE  /\ Hits(strs, Indices(strs, index, c)) = Ends(Append(q, c), strs, Len(Append(q, c)))
         /\ \A n \in 0 .. Len(Append(q, c)) - 1 : Ends(Append(q, c), strs, n) = {}
         /\ Hits(strs, Indices(strs, index, c)) = {} => Searching(Append(q, c), strs, Indices(strs, index, c))
<1> DEFINE w == Append(q, c)
           next == Indices(strs, index, c)
           hits == Hits(strs, next)
<1>1. w \in Seq(SentByte) /\ Len(w) = Len(q) + 1 /\ Len(q) \in Nat
  OBVIOUS
<1>2. \A n \in 0 .. Len(w) - 1 : Ends(w, strs, n) = {}
  <2>1. \A n \in 0 .. Len(q) : Ends(w, strs, n) = Ends(q, strs, n)
    BY EndsBefore
  <2> HIDE DEF w
  <2> QED BY <1>1, <2>1 DEF Searching
<1>3. ASSUME NEW t \in DOMAIN strs PROVE Longest(w, Len(w), strs[t], next[t]) /\ Len(strs[t]) \in Nat
  <2>1. strs[t] \in Seq(SentByte) /\ index[t] \in 0 .. Len(strs[t]) - 1 /\ Longest(q, Len(q), strs[t], index[t])
    BY DEF TargetList, Searching
  <2>2. Longest(Append(q, c), Len(q) + 1, strs[t], I!nextIndex(strs[t], index[t], c))
    BY <2>1, NextIndex
  <2>3. next[t] = I!nextIndex(strs[t], index[t], c)
    BY DEF Indices
  <2> HIDE DEF next
  <2> QED BY <1>1, <2>1, <2>2, <2>3
<1> HIDE DEF next, w
<1>4. ASSUME NEW t \in DOMAIN strs PROVE t \in hits <=> I!EndsWith(I!Prefix(w, Len(w)), strs[t])
  <2> DEFINE str == strs[t]
             k == next[t]
  <2>1. str \in Seq(SentByte) /\ Len(w) \in 0 .. Len(w) /\ Len(str) \in Nat
    BY <1>1 DEF TargetList
  <2>2. k \in 0 .. Len(str) /\ EndsAt(w, Len(w), str, k) /\ \A j \in k + 1 .. Len(str) : ~EndsAt(w, Len(w), str, j)
    BY <1>3 DEF Longest
  <2>3. I!EndsWith(I!Prefix(w, Len(w)), str) <=> EndsAt(w, Len(w), str, Len(str))
    BY <2>1, <1>1, EndsWhole
  <2> HIDE DEF str, k
  <2>4. k = Len(str) <=> EndsAt(w, Len(w), str, Len(str))
    <3>1. k # Len(str) => Len(str) \in k + 1 .. Len(str)
      BY <2>1, <2>2
    <3> QED BY <2>2, <3>1
  <2> QED BY <2>3, <2>4 DEF str, k, Hits
<1>5. hits = Ends(w, strs, Len(w))
  <2>1. hits \subseteq DOMAIN strs
    BY DEF Hits
  <2> QED BY <2>1, <1>4 DEF Ends
<1>6. ASSUME hits = {} PROVE Searching(w, strs, next)
  <2>1. ASSUME NEW n \in 0 .. Len(w) PROVE Ends(w, strs, n) = {}
    <3>1. CASE n = Len(w)
      BY <3>1, <1>5, <1>6
    <3>2. CASE n # Len(w)
      <4>1. n \in 0 .. Len(w) - 1
        BY <3>2, <1>1
      <4> QED BY <4>1, <1>2
    <3> QED BY <3>1, <3>2
  <2>2. ASSUME NEW t \in DOMAIN strs PROVE next[t] \in 0 .. Len(strs[t]) - 1 /\ Longest(w, Len(w), strs[t], next[t])
    <3>1. next[t] # Len(strs[t])
      BY <1>6 DEF Hits
    <3>2. next[t] \in 0 .. Len(strs[t])
      BY <1>3 DEF Longest
    <3> QED BY <3>1, <3>2, <1>3
  <2> QED BY <2>1, <2>2 DEF Searching
<1> QED BY <1>2, <1>5, <1>6 DEF w, next

------------------------------------------------------------------------------
(* parseInt(), parseFloat().                                               *)

\* The sets of ParseIsExact, for a call k that has taken q.
Starts(k, c) == I!IsDigit(c) \/ c = "-" \/ (k.op = "parseFloat" /\ c = ".")
Begins(k, q) == {i \in DOMAIN q : Starts(k, q[i])}
Figures(k, q) == {i \in DOMAIN q : \E b \in Begins(k, q) : b <= i}
PlainAt(k, q) == {i \in Figures(k, q) : q[i] # k.ignore}
NumeralsAt(k, q) == {i \in PlainAt(k, q) : I!IsDigit(q[i])}
DecimalsAt(k, q) == {i \in NumeralsAt(k, q) : \E p \in PlainAt(k, q) : p < i /\ q[p] = "."}
MinusAt(k, q) == {i \in PlainAt(k, q) : q[i] = "-"}
Point(k, q) == \E p \in PlainAt(k, q) : q[p] = "."

Skipping(k, q) ==
  /\ k.lookahead = "SKIP_NONE" => DOMAIN q \ Figures(k, q) = {}
  /\ k.lookahead = "SKIP_WHITESPACE" => \A i \in DOMAIN q \ Figures(k, q) : q[i] \in I!Space
SignFirst(k, q) == \A i \in MinusAt(k, q), j \in PlainAt(k, q) : i <= j

\* The number that a call k has made of q.
Counted == [m : Nat, places : Nat, isNegative : BOOLEAN, isFraction : BOOLEAN]
Tally(k, q, n) ==
  /\ n \in Counted
  /\ n.m = I!ValueOf(q, NumeralsAt(k, q))
  /\ IsFiniteSet(DecimalsAt(k, q)) /\ n.places = Cardinality(DecimalsAt(k, q))
  /\ n.isNegative <=> MinusAt(k, q) # {}
  /\ n.isFraction <=> Point(k, q)
  /\ SignFirst(k, q) /\ Skipping(k, q)

\* A digit has a value, and neither the sign nor the point is one.
LEMMA DigitValues ==
  /\ \A c : I!IsDigit(c) => I!Value[c] \in Nat
  /\ ~I!IsDigit("-") /\ ~I!IsDigit(".")
<1> DEFINE R == {I!Numeral[i] : i \in 1 .. 10}
<1>1. \A c : I!IsDigit(c) <=> c \in R
  BY DEF I!IsDigit, I!Value
<1>2. ASSUME NEW c, c \in R PROVE I!Value[c] \in Nat
  <2> DEFINE x == CHOOSE i \in 1 .. 10 : I!Numeral[i] = c
  <2>1. \E i \in 1 .. 10 : I!Numeral[i] = c
    BY <1>2
  <2>2. x \in 1 .. 10
    BY <2>1
  <2>3. I!Value[c] = x - 1
    BY <1>2 DEF I!Value
  <2> HIDE DEF x
  <2> QED BY <2>2, <2>3
<1>3. "-" \notin R /\ "." \notin R
  BY DEF I!Numeral
<1> QED BY <1>1, <1>2, <1>3

\* The values of the beginnings of q.
Sums(q, places) ==
  CHOOSE v : v = [i \in 0 .. Len(q) |-> IF i = 0 THEN 0 ELSE IF i \in places THEN v[i - 1] * 10 + I!Value[q[i]] ELSE v[i - 1]]

\* The value of a beginning, over the places of the digits.
LEMMA SumsStep ==
  ASSUME NEW C, NEW q \in Seq(C), NEW places, \A i \in places : i \in DOMAIN q => I!IsDigit(q[i])
  PROVE  /\ Sums(q, places)[0] = 0 /\ I!ValueOf(q, places) = Sums(q, places)[Len(q)]
         /\ I!ValueOf(q, places) \in Nat
         /\ \A i \in 1 .. Len(q) : Sums(q, places)[i] = IF i \in places THEN Sums(q, places)[i - 1] * 10 + I!Value[q[i]] ELSE Sums(q, places)[i - 1]
<1> DEFINE n == Len(q)
           G == [d \in (1 .. n) \X Nat |-> IF d[1] \in places THEN d[2] * 10 + I!Value[q[d[1]]] ELSE d[2]]
           Q(v) == [i \in 0 .. n |-> IF i = 0 THEN 0 ELSE IF i \in places THEN v[i - 1] * 10 + I!Value[q[i]] ELSE v[i - 1]]
<1>0. n \in Nat /\ DOMAIN q = 1 .. n
  OBVIOUS
<1>1. ASSUME NEW i \in 1 .. n, NEW x \in Nat
      PROVE  LET y == IF i \in places THEN x * 10 + I!Value[q[i]] ELSE x IN G[<<i, x>>] = y /\ y \in Nat
  <2>1. i \in places => I!Value[q[i]] \in Nat
    BY <1>0, DigitValues
  <2> QED BY <2>1
<1> HIDE DEF G
<1>2. Stays(G, Nat, n)
  BY <1>1 DEF Stays
<1>3. PICK f \in [0 .. n -> Nat] : Follows(f, 0, G, n)
  <2> HIDE DEF n
  <2> QED BY <1>0, <1>2, StepsExist
<1>4. ASSUME NEW i \in 0 .. n PROVE f[i] = IF i = 0 THEN 0 ELSE IF i \in places THEN f[i - 1] * 10 + I!Value[q[i]] ELSE f[i - 1]
  <2>1. CASE i = 0
    BY <2>1, <1>3 DEF Follows
  <2>2. CASE i # 0
    <3>1. i \in 1 .. n /\ i - 1 \in 0 .. n
      BY <2>2
    <3>2. f[i - 1] \in Nat /\ f[i] = G[<<i, f[i - 1]>>]
      BY <3>1, <1>3 DEF Follows
    <3> QED BY <2>2, <3>1, <3>2, <1>1
  <2> QED BY <2>1, <2>2
<1>5. f = Q(f)
  BY <1>3, <1>4
<1>6. Sums(q, places) = CHOOSE v : v = Q(v)
  BY DEF Sums
<1> HIDE DEF Q
<1>7. Sums(q, places) = Q(Sums(q, places))
  BY <1>5, <1>6
<1> DEFINE v == Sums(q, places)
<1> HIDE DEF v
<1>8. v = Q(v)
  BY <1>7 DEF v
<1>9. \A i \in 0 .. n : v[i] = IF i = 0 THEN 0 ELSE IF i \in places THEN v[i - 1] * 10 + I!Value[q[i]] ELSE v[i - 1]
  <2>1. \A i \in 0 .. n : Q(v)[i] = IF i = 0 THEN 0 ELSE IF i \in places THEN v[i - 1] * 10 + I!Value[q[i]] ELSE v[i - 1]
    BY DEF Q
  <2> QED BY <1>8, <2>1
<1>10. v[0] = 0 /\ \A i \in 1 .. n : v[i] = IF i \in places THEN v[i - 1] * 10 + I!Value[q[i]] ELSE v[i - 1]
  BY <1>0, <1>9
<1> DEFINE T == {i \in Nat : i <= n => v[i] \in Nat}
<1>11. \A i \in Nat : i \in T
  <2>1. 0 \in T
    BY <1>10
  <2>2. ASSUME NEW i \in Nat, i \in T PROVE i + 1 \in T
    <3> SUFFICES ASSUME i + 1 <= n PROVE v[i + 1] \in Nat
      OBVIOUS
    <3>1. i + 1 \in 1 .. n /\ (i + 1) - 1 = i /\ v[i] \in Nat
      BY <2>2, <1>0
    <3>2. i + 1 \in places => I!Value[q[i + 1]] \in Nat
      BY <3>1, <1>0, DigitValues
    <3>3. v[i + 1] = IF i + 1 \in places THEN v[i] * 10 + I!Value[q[i + 1]] ELSE v[i]
      BY <3>1, <1>10
    <3> QED BY <3>1, <3>2, <3>3
  <2> HIDE DEF T
  <2> QED BY <2>1, <2>2, Induction
<1>12. I!ValueOf(q, places) = v[n]
  BY DEF I!ValueOf, Sums, v
<1>13. v[n] \in Nat
  BY <1>0, <1>11
<1> QED BY <1>10, <1>12, <1>13 DEF v

\* One more character.
LEMMA SumAppend ==
  ASSUME NEW C, NEW q \in Seq(C), NEW c \in C, NEW places, NEW more,
         places \subseteq DOMAIN q, \A i \in places : I!IsDigit(q[i]),
         more = places \/ (more = places \cup {Len(q) + 1} /\ I!IsDigit(c))
  PROVE  I!ValueOf(Append(q, c), more) = IF more = places THEN I!ValueOf(q, places) ELSE I!ValueOf(q, places) * 10 + I!Value[c]
<1> DEFINE u == Append(q, c)
           v == Sums(q, places)
           w == Sums(u, more)
           n == Len(q)
<1>0. n \in Nat /\ DOMAIN q = 1 .. n
  OBVIOUS
<1>1. u \in Seq(C) /\ Len(u) = n + 1 /\ u[n + 1] = c /\ \A i \in 1 .. n : u[i] = q[i]
  OBVIOUS
<1> HIDE DEF u, n
<1>2. \A i \in 1 .. n : i \in more <=> i \in places
  BY <1>0
<1>3. n + 1 \in more <=> more # places
  <2>1. n + 1 \notin places
    BY <1>0
  <2> QED BY <2>1 DEF n
<1>4. \A i \in more : i \in DOMAIN u => I!IsDigit(u[i])
  <2> SUFFICES ASSUME NEW i \in more PROVE I!IsDigit(u[i])
    OBVIOUS
  <2>1. CASE i \in places
    BY <2>1, <1>0, <1>1
  <2>2. CASE i = n + 1 /\ I!IsDigit(c)
    BY <2>2, <1>1
  <2> QED BY <2>1, <2>2 DEF n
<1>5. /\ v[0] = 0 /\ I!ValueOf(q, places) = v[n]
      /\ \A i \in 1 .. n : v[i] = IF i \in places THEN v[i - 1] * 10 + I!Value[q[i]] ELSE v[i - 1]
  BY SumsStep DEF n
<1>6. /\ w[0] = 0 /\ I!ValueOf(u, more) = w[n + 1]
      /\ \A i \in 1 .. n + 1 : w[i] = IF i \in more THEN w[i - 1] * 10 + I!Value[u[i]] ELSE w[i - 1]
  BY <1>1, <1>4, SumsStep
<1> HIDE DEF v, w
<1> DEFINE T == {i \in Nat : i <= n => v[i] = w[i]}
<1>7. \A i \in Nat : i \in T
  <2>1. 0 \in T
    BY <1>5, <1>6
  <2>2. ASSUME NEW i \in Nat, i \in T PROVE i + 1 \in T
    <3> SUFFICES ASSUME i + 1 <= n PROVE v[i + 1] = w[i + 1]
      OBVIOUS
    <3>1. i + 1 \in 1 .. n /\ i + 1 \in 1 .. n + 1 /\ (i + 1) - 1 = i /\ i <= n
      BY <1>0
    <3>2. v[i] = w[i]
      BY <2>2, <3>1
    <3>3. v[i + 1] = IF i + 1 \in places THEN v[i] * 10 + I!Value[q[i + 1]] ELSE v[i]
      BY <3>1, <1>5
    <3>4. w[i + 1] = IF i + 1 \in more THEN w[i] * 10 + I!Value[u[i + 1]] ELSE w[i]
      BY <3>1, <1>6
    <3>5. u[i + 1] = q[i + 1] /\ (i + 1 \in more <=> i + 1 \in places)
      BY <3>1, <1>1, <1>2
    <3> QED BY <3>2, <3>3, <3>4, <3>5
  <2> HIDE DEF T
  <2> QED BY <2>1, <2>2, Induction
<1>8. v[n] = w[n]
  BY <1>0, <1>7
<1>9. w[n + 1] = IF n + 1 \in more THEN w[n] * 10 + I!Value[c] ELSE w[n]
  <2>1. n + 1 \in 1 .. n + 1 /\ (n + 1) - 1 = n
    BY <1>0
  <2> QED BY <2>1, <1>1, <1>6
<1> QED BY <1>3, <1>5, <1>6, <1>8, <1>9 DEF u

\* Before the number begins.
LEMMA NothingYet ==
  ASSUME NEW q \in Seq(SentByte), NEW k, Begins(k, q) = {}, Skipping(k, q)
  PROVE  Tally(k, q, I!Zero)
<1>1. Figures(k, q) = {} /\ PlainAt(k, q) = {} /\ NumeralsAt(k, q) = {} /\ DecimalsAt(k, q) = {} /\ MinusAt(k, q) = {}
  BY DEF Figures, PlainAt, NumeralsAt, DecimalsAt, MinusAt
<1>2. I!ValueOf(q, {}) = 0
  <2> DEFINE v == Sums(q, {})
  <2>1. v[0] = 0 /\ I!ValueOf(q, {}) = v[Len(q)] /\ \A i \in 1 .. Len(q) : v[i] = IF i \in {} THEN v[i - 1] * 10 + I!Value[q[i]] ELSE v[i - 1]
    BY SumsStep
  <2> HIDE DEF v
  <2> DEFINE T == {i \in Nat : i <= Len(q) => v[i] = 0}
  <2>2. 0 \in T
    BY <2>1
  <2>3. ASSUME NEW i \in Nat, i \in T PROVE i + 1 \in T
    <3> SUFFICES ASSUME i + 1 <= Len(q) PROVE v[i + 1] = 0
      OBVIOUS
    <3>1. i + 1 \in 1 .. Len(q) /\ (i + 1) - 1 = i /\ i <= Len(q)
      OBVIOUS
    <3>2. v[i] = 0
      BY <2>3, <3>1
    <3> QED BY <2>1, <3>1, <3>2
  <2>4. \A i \in Nat : i \in T
    <3> HIDE DEF T
    <3> QED BY <2>2, <2>3, Induction
  <2>5. v[Len(q)] = 0
    BY <2>4
  <2> QED BY <2>1, <2>5
<1>3. IsFiniteSet({}) /\ Cardinality({}) = 0
  BY FS_EmptySet
<1>4. I!Zero \in Counted /\ I!Zero.m = 0 /\ I!Zero.places = 0 /\ I!Zero.isNegative = FALSE /\ I!Zero.isFraction = FALSE
  BY DEF I!Zero, Counted
<1>5. SignFirst(k, q) /\ ~Point(k, q)
  BY <1>1 DEF SignFirst, Point
<1> QED BY <1>1, <1>2, <1>3, <1>4, <1>5 DEF Tally

\* What a character of the number adds to the sets.
LEMMA SetsGrow ==
  ASSUME NEW q \in Seq(SentByte), NEW c \in SentByte, NEW k, Begins(k, q) # {} \/ Starts(k, c)
  PROVE  LET u == Append(q, c)
             z == Len(q) + 1 IN
         /\ Begins(k, u) # {}
         /\ \A i : i \in Figures(k, u) <=> i \in Figures(k, q) \/ i = z
         /\ \A i : i \in PlainAt(k, u) <=> i \in PlainAt(k, q) \/ (i = z /\ c # k.ignore)
         /\ \A i : i \in NumeralsAt(k, u) <=> i \in NumeralsAt(k, q) \/ (i = z /\ c # k.ignore /\ I!IsDigit(c))
         /\ \A i : i \in DecimalsAt(k, u) <=> i \in DecimalsAt(k, q) \/ (i = z /\ c # k.ignore /\ I!IsDigit(c) /\ Point(k, q))
         /\ \A i : i \in MinusAt(k, u) <=> i \in MinusAt(k, q) \/ (i = z /\ c # k.ignore /\ c = "-")
         /\ Point(k, u) <=> Point(k, q) \/ (c # k.ignore /\ c = ".")
<1> DEFINE u == Append(q, c)
           n == Len(q)
           z == n + 1
<1>1. n \in Nat /\ DOMAIN q = 1 .. n /\ DOMAIN u = 1 .. z /\ u[z] = c /\ \A i \in 1 .. n : u[i] = q[i]
  OBVIOUS
<1> HIDE DEF u, n
<1>2. (\A i : i \in DOMAIN u <=> i \in DOMAIN q \/ i = z) /\ z \notin DOMAIN q /\ z \in Nat /\ \A i \in DOMAIN q : i < z /\ u[i] = q[i] /\ i \in Nat
  BY <1>1
<1> HIDE DEF z
<1>3. \A i : i \in Begins(k, u) <=> i \in Begins(k, q) \/ (i = z /\ Starts(k, c))
  BY <1>1, <1>2 DEF Begins
<1>4. Begins(k, u) # {} /\ Begins(k, q) \subseteq DOMAIN q
  BY <1>3 DEF Begins
<1>5. \A i : i \in Figures(k, u) <=> i \in Figures(k, q) \/ i = z
  <2>1. ASSUME NEW i \in DOMAIN q PROVE i \in Figures(k, u) <=> i \in Figures(k, q)
    <3>1. ~(z <= i) /\ i \in DOMAIN u
      BY <1>2
    <3>2. (\E b \in Begins(k, u) : b <= i) <=> \E b \in Begins(k, q) : b <= i
      BY <3>1, <1>3
    <3> QED BY <3>1, <3>2 DEF Figures
  <2>2. z \in Figures(k, u)
    <3>1. \A b \in Begins(k, u) : b <= z
      BY <1>2, <1>3, <1>4
    <3> QED BY <3>1, <1>2, <1>4 DEF Figures
  <2>3. Figures(k, u) \subseteq DOMAIN u /\ Figures(k, q) \subseteq DOMAIN q
    BY DEF Figures
  <2> QED BY <1>2, <2>1, <2>2, <2>3
<1>a. Figures(k, q) \subseteq DOMAIN q
  BY DEF Figures
<1>6. \A i : i \in PlainAt(k, u) <=> i \in PlainAt(k, q) \/ (i = z /\ c # k.ignore)
  <2>1. \A i \in Figures(k, q) : u[i] = q[i]
    BY <1>a, <1>2
  <2> QED BY <2>1, <1>1, <1>5 DEF PlainAt
<1>b. PlainAt(k, q) \subseteq DOMAIN q
  BY <1>a DEF PlainAt
<1>c. \A i \in PlainAt(k, q) : u[i] = q[i] /\ i < z
  BY <1>b, <1>2
<1>7. \A i : i \in NumeralsAt(k, u) <=> i \in NumeralsAt(k, q) \/ (i = z /\ c # k.ignore /\ I!IsDigit(c))
  BY <1>1, <1>6, <1>c DEF NumeralsAt
<1>8. \A i : i \in MinusAt(k, u) <=> i \in MinusAt(k, q) \/ (i = z /\ c # k.ignore /\ c = "-")
  BY <1>1, <1>6, <1>c DEF MinusAt
<1>9. Point(k, u) <=> Point(k, q) \/ (c # k.ignore /\ c = ".")
  BY <1>1, <1>6, <1>c DEF Point
<1>10. \A i : i \in DecimalsAt(k, u) <=> i \in DecimalsAt(k, q) \/ (i = z /\ c # k.ignore /\ I!IsDigit(c) /\ Point(k, q))
  <2>1. NumeralsAt(k, q) \subseteq DOMAIN q /\ DecimalsAt(k, q) \subseteq NumeralsAt(k, q) /\ DecimalsAt(k, u) \subseteq NumeralsAt(k, u)
    BY <1>b DEF NumeralsAt, DecimalsAt
  <2>2. ASSUME NEW i \in NumeralsAt(k, q) PROVE i \in DecimalsAt(k, u) <=> i \in DecimalsAt(k, q)
    <3>1. i \in NumeralsAt(k, u) /\ ~(z < i)
      BY <1>2, <1>7, <2>1
    <3>2. (\E p \in PlainAt(k, u) : p < i /\ u[p] = ".") <=> \E p \in PlainAt(k, q) : p < i /\ q[p] = "."
      BY <3>1, <1>6, <1>c
    <3> QED BY <3>1, <3>2 DEF DecimalsAt
  <2>3. ASSUME z \in NumeralsAt(k, u) PROVE z \in DecimalsAt(k, u) <=> Point(k, q)
    <3>1. ~(z < z)
      BY <1>2
    <3>2. (\E p \in PlainAt(k, u) : p < z /\ u[p] = ".") <=> Point(k, q)
      BY <3>1, <1>6, <1>c DEF Point
    <3> QED BY <2>3, <3>2 DEF DecimalsAt
  <2>4. z \notin NumeralsAt(k, q)
    BY <2>1, <1>2
  <2> QED BY <1>7, <2>1, <2>2, <2>3, <2>4
<1> QED BY <1>4, <1>5, <1>6, <1>7, <1>8, <1>9, <1>10 DEF u, z, n

\* I!taken, and the condition of the loop, for a call k.
Taken(k, n, c) ==
  IF c = k.ignore THEN n
  ELSE IF c = "-" THEN [n EXCEPT !.isNegative = TRUE]
  ELSE IF c = "." THEN [n EXCEPT !.isFraction = TRUE]
  ELSE [n EXCEPT !.m = @ * 10 + I!Value[c], !.places = IF n.isFraction THEN @ + 1 ELSE @]
Follow(k, n, c) == I!IsDigit(c) \/ c = k.ignore \/ (k.op = "parseFloat" /\ c = "." /\ ~n.isFraction)

\* What parseInt() and parseFloat() do with a character keeps the tally.
LEMMA TallyStep ==
  ASSUME NEW q \in Seq(SentByte), NEW c \in SentByte, NEW k, NEW n, Tally(k, q, n),
         (Begins(k, q) = {} /\ Starts(k, c)) \/ (Begins(k, q) # {} /\ Follow(k, n, c))
  PROVE  Begins(k, Append(q, c)) # {} /\ Tally(k, Append(q, c), Taken(k, n, c))
<1> DEFINE u == Append(q, c)
           z == Len(q) + 1
           r == Taken(k, n, c)
<1>1. /\ Begins(k, u) # {}
      /\ \A i : i \in Figures(k, u) <=> i \in Figures(k, q) \/ i = z
      /\ \A i : i \in PlainAt(k, u) <=> i \in PlainAt(k, q) \/ (i = z /\ c # k.ignore)
      /\ \A i : i \in NumeralsAt(k, u) <=> i \in NumeralsAt(k, q) \/ (i = z /\ c # k.ignore /\ I!IsDigit(c))
      /\ \A i : i \in DecimalsAt(k, u) <=> i \in DecimalsAt(k, q) \/ (i = z /\ c # k.ignore /\ I!IsDigit(c) /\ Point(k, q))
      /\ \A i : i \in MinusAt(k, u) <=> i \in MinusAt(k, q) \/ (i = z /\ c # k.ignore /\ c = "-")
      /\ Point(k, u) <=> Point(k, q) \/ (c # k.ignore /\ c = ".")
  <2>1. Begins(k, q) # {} \/ Starts(k, c)
    OBVIOUS
  <2> QED BY <2>1, SetsGrow
<1>2. Len(q) \in Nat /\ DOMAIN q = 1 .. Len(q) /\ DOMAIN u = 1 .. z /\ z \notin DOMAIN q /\ \A i \in DOMAIN q : u[i] = q[i] /\ i \in DOMAIN u /\ i < z
  OBVIOUS
<1>3. /\ PlainAt(k, q) \subseteq Figures(k, q) /\ Figures(k, q) \subseteq DOMAIN q /\ NumeralsAt(k, q) \subseteq PlainAt(k, q)
      /\ DecimalsAt(k, q) \subseteq NumeralsAt(k, q) /\ MinusAt(k, q) \subseteq PlainAt(k, q)
      /\ \A i \in NumeralsAt(k, q) : I!IsDigit(q[i])
  BY DEF PlainAt, Figures, NumeralsAt, DecimalsAt, MinusAt
<1>4. /\ n \in Counted /\ n.m = I!ValueOf(q, NumeralsAt(k, q))
      /\ IsFiniteSet(DecimalsAt(k, q)) /\ n.places = Cardinality(DecimalsAt(k, q))
      /\ n.isNegative <=> MinusAt(k, q) # {}
      /\ n.isFraction <=> Point(k, q)
      /\ SignFirst(k, q) /\ Skipping(k, q)
  BY DEF Tally
<1>5. n.m \in Nat /\ n.places \in Nat /\ n.isNegative \in BOOLEAN /\ n.isFraction \in BOOLEAN
  BY <1>4 DEF Counted
<1>6. c = k.ignore \/ c = "." \/ I!IsDigit(c) \/ (c = "-" /\ Begins(k, q) = {})
  BY DigitValues DEF Starts, Follow
<1>7. Skipping(k, u)
  <2>1. \A i : i \in DOMAIN u \ Figures(k, u) <=> i \in DOMAIN q \ Figures(k, q)
    <3>1. \A i : i \in DOMAIN u <=> i \in DOMAIN q \/ i = z
      BY <1>2
    <3> HIDE DEF u, z
    <3> QED BY <1>1, <1>2, <3>1
  <2>2. DOMAIN u \ Figures(k, u) = DOMAIN q \ Figures(k, q)
    BY <2>1
  <2>3. \A i \in DOMAIN q : u[i] = q[i]
    BY <1>2
  <2> HIDE DEF u
  <2> QED BY <2>2, <2>3, <1>4 DEF Skipping
<1>8. SignFirst(k, u)
  <2> SUFFICES ASSUME NEW i \in MinusAt(k, u), NEW j \in PlainAt(k, u) PROVE i <= j
    BY DEF SignFirst
  <2>0. z \in Nat
    BY <1>2
  <2> HIDE DEF u, z
  <2>1. CASE i \in MinusAt(k, q)
    <3>1. CASE j \in PlainAt(k, q)
      BY <2>1, <3>1, <1>4 DEF SignFirst
    <3>2. CASE j = z
      BY <2>1, <3>2, <1>2, <1>3, <2>0
    <3> QED BY <3>1, <3>2, <1>1
  <2>2. CASE i = z /\ c # k.ignore /\ c = "-"
    <3>1. Begins(k, q) = {}
      BY <2>2, <1>6, DigitValues
    <3>2. PlainAt(k, q) = {}
      BY <3>1 DEF PlainAt, Figures
    <3>3. j = z
      BY <3>2, <1>1
    <3> QED BY <2>2, <3>3, <2>0
  <2> QED BY <2>1, <2>2, <1>1
<1> HIDE DEF u, z
<1>9. CASE c = k.ignore
  <2>1. r = n
    BY <1>9 DEF Taken
  <2>2. NumeralsAt(k, u) = NumeralsAt(k, q) /\ DecimalsAt(k, u) = DecimalsAt(k, q) /\ MinusAt(k, u) = MinusAt(k, q) /\ (Point(k, u) <=> Point(k, q))
    BY <1>1, <1>9
  <2>3. I!ValueOf(u, NumeralsAt(k, u)) = I!ValueOf(q, NumeralsAt(k, q))
    BY <2>2, <1>3, SumAppend DEF u
  <2> HIDE DEF r
  <2> QED BY <1>1, <1>4, <1>7, <1>8, <2>1, <2>2, <2>3 DEF Tally, u, r
<1>10. CASE c # k.ignore /\ c = "-"
  <2>1. r = [n EXCEPT !.isNegative = TRUE]
    BY <1>10 DEF Taken
  <2>2. NumeralsAt(k, u) = NumeralsAt(k, q) /\ DecimalsAt(k, u) = DecimalsAt(k, q) /\ MinusAt(k, u) # {} /\ (Point(k, u) <=> Point(k, q))
    BY <1>1, <1>10, DigitValues
  <2>3. I!ValueOf(u, NumeralsAt(k, u)) = I!ValueOf(q, NumeralsAt(k, q))
    BY <2>2, <1>3, SumAppend DEF u
  <2>4. r \in Counted /\ r.m = n.m /\ r.places = n.places /\ r.isNegative = TRUE /\ r.isFraction = n.isFraction
    BY <2>1, <1>4 DEF Counted
  <2> HIDE DEF r
  <2> QED BY <1>1, <1>4, <1>7, <1>8, <2>4, <2>2, <2>3 DEF Tally, u, r
<1>11. CASE c # k.ignore /\ c = "."
  <2>1. r = [n EXCEPT !.isFraction = TRUE]
    BY <1>11 DEF Taken
  <2>2. NumeralsAt(k, u) = NumeralsAt(k, q) /\ DecimalsAt(k, u) = DecimalsAt(k, q) /\ MinusAt(k, u) = MinusAt(k, q) /\ Point(k, u)
    BY <1>1, <1>11, DigitValues
  <2>3. I!ValueOf(u, NumeralsAt(k, u)) = I!ValueOf(q, NumeralsAt(k, q))
    BY <2>2, <1>3, SumAppend DEF u
  <2>4. r \in Counted /\ r.m = n.m /\ r.places = n.places /\ r.isNegative = n.isNegative /\ r.isFraction = TRUE
    BY <2>1, <1>4 DEF Counted
  <2> HIDE DEF r
  <2> QED BY <1>1, <1>4, <1>7, <1>8, <2>4, <2>2, <2>3 DEF Tally, u, r
<1>12. CASE c # k.ignore /\ I!IsDigit(c)
  <2>0. c # "-" /\ c # "." /\ I!Value[c] \in Nat
    BY <1>12, DigitValues
  <2>1. r = [n EXCEPT !.m = @ * 10 + I!Value[c], !.places = IF n.isFraction THEN @ + 1 ELSE @]
    BY <1>12, <2>0 DEF Taken
  <2>2. NumeralsAt(k, u) = NumeralsAt(k, q) \cup {z} /\ MinusAt(k, u) = MinusAt(k, q) /\ (Point(k, u) <=> Point(k, q))
    BY <1>1, <1>12, <2>0
  <2>3. I!ValueOf(u, NumeralsAt(k, u)) = n.m * 10 + I!Value[c]
    <3>1. z \notin NumeralsAt(k, q)
      BY <1>2, <1>3
    <3>2. NumeralsAt(k, u) # NumeralsAt(k, q)
      BY <2>2, <3>1
    <3> QED BY <2>2, <3>2, <1>3, <1>4, <1>12, SumAppend DEF u, z
  <2>4. IsFiniteSet(DecimalsAt(k, u)) /\ Cardinality(DecimalsAt(k, u)) = IF n.isFraction THEN n.places + 1 ELSE n.places
    <3>1. CASE n.isFraction
      <4>1. DecimalsAt(k, u) = DecimalsAt(k, q) \cup {z} /\ z \notin DecimalsAt(k, q)
        BY <3>1, <1>1, <1>2, <1>3, <1>4, <1>12
      <4> QED BY <3>1, <4>1, <1>4, FS_AddElement
    <3>2. CASE ~n.isFraction
      <4>1. DecimalsAt(k, u) = DecimalsAt(k, q)
        BY <3>2, <1>1, <1>4
      <4> QED BY <3>2, <4>1, <1>4
    <3> QED BY <3>1, <3>2
  <2>5. /\ r \in Counted /\ r.m = n.m * 10 + I!Value[c] /\ r.places = IF n.isFraction THEN n.places + 1 ELSE n.places
        /\ r.isNegative = n.isNegative /\ r.isFraction = n.isFraction
    <3> DEFINE x == n.m * 10 + I!Value[c]
               y == IF n.isFraction THEN n.places + 1 ELSE n.places
    <3>1. x \in Nat /\ y \in Nat
      BY <2>0, <1>5
    <3>2. r = [n EXCEPT !.m = x, !.places = y]
      BY <2>1, Zenon
    <3>3. n = [m |-> n.m, places |-> n.places, isNegative |-> n.isNegative, isFraction |-> n.isFraction]
      BY <1>4 DEF Counted
    <3> HIDE DEF x, y, r
    <3>4. r = [m |-> x, places |-> y, isNegative |-> n.isNegative, isFraction |-> n.isFraction]
      BY <3>2, <3>3
    <3> QED BY <3>1, <3>4, <1>5 DEF Counted, x, y
  <2> HIDE DEF r
  <2> QED BY <1>1, <1>4, <1>7, <1>8, <2>5, <2>4, <2>2, <2>3 DEF Tally, u, r
<1>13. c = k.ignore \/ (c # k.ignore /\ c = "-") \/ (c # k.ignore /\ c = ".") \/ (c # k.ignore /\ I!IsDigit(c))
  BY <1>6
<1> HIDE DEF r
<1>14. Tally(k, u, r)
  BY <1>9, <1>10, <1>11, <1>12, <1>13 DEF u, r
<1> QED BY <1>1, <1>14 DEF u, r

------------------------------------------------------------------------------
(* The invariant of Stream.                                                *)

\* Where a call may be.
Mode(k, where) ==
  \/ where = "idle" /\ k = I!NoCall
  \/ where \in {"find", "returned"} /\ k \in I!Finds
  \/ where \in {"look", "number", "next", "returned"} /\ k \in I!Parses
  \/ where \in {"read", "returned"} /\ k \in I!Reads

Parsers == {"parseInt", "parseFloat"}

\* What a call of each kind looks like.
LEMMA Kinds ==
  /\ I!NoCall.op = "none"
  /\ \A k \in I!Finds : k.op = "find" /\ TargetList(k.strs)
  /\ \A k \in I!Parses : k.op \in Parsers
  /\ \A k \in I!Reads : k.op = "read" /\ (k.length # I!Unbounded => k.length \in Nat)
<1>1. Length \subseteq Nat /\ \A t \in Target : t \in Seq(SentByte)
  BY ParsingAssumption DEF I!ConstantsOK
<1>2. I!NoCall.op = "none"
  BY DEF I!NoCall
<1>3. ASSUME NEW k \in I!Finds PROVE k.op = "find" /\ TargetList(k.strs)
  <2>1. k.op = "find" /\ k.strs \in {<<t>> : t \in Target} \cup (Target \X Target)
    BY DEF I!Finds
  <2>2. CASE k.strs \in {<<t>> : t \in Target}
    <3>1. PICK t \in Target : k.strs = <<t>>
      BY <2>2
    <3>2. DOMAIN k.strs = 1 .. 1 /\ k.strs[1] = t
      BY <3>1
    <3> QED BY <2>1, <3>2, <1>1 DEF TargetList
  <2>3. CASE k.strs \in Target \X Target
    <3>1. PICK t \in Target, u \in Target : k.strs = <<t, u>>
      BY <2>3
    <3>2. DOMAIN k.strs = 1 .. 2 /\ k.strs[1] = t /\ k.strs[2] = u
      BY <3>1
    <3>3. \A i \in 1 .. 2 : k.strs[i] \in Target
      BY <3>2
    <3> QED BY <2>1, <3>2, <3>3, <1>1 DEF TargetList
  <2> QED BY <2>1, <2>2, <2>3
<1>4. \A k \in I!Parses : k.op \in Parsers
  BY DEF I!Parses, Parsers
<1>5. \A k \in I!Reads : k.op = "read" /\ (k.length # I!Unbounded => k.length \in Nat)
  BY <1>1 DEF I!Reads
<1> QED BY <1>2, <1>3, <1>4, <1>5

FoundExact(q, strs, r) ==
  /\ \A n \in 0 .. Len(q) - 1 : Ends(q, strs, n) = {}
  /\ IF r[1] = -1 THEN Ends(q, strs, Len(q)) = {} ELSE r[1] + 1 = I!Min(Ends(q, strs, Len(q)))
ParsedExact(k, q, r) ==
  /\ SignFirst(k, q) /\ Skipping(k, q)
  /\ r = IF Begins(k, q) = {} THEN I!None
         ELSE <<(IF MinusAt(k, q) = {} THEN 1 ELSE -1) * I!ValueOf(q, NumeralsAt(k, q)), Cardinality(DecimalsAt(k, q))>>

FindState(k, where, q, index, r) ==
  k.op = "find" => /\ where = "find" => Searching(q, k.strs, index)
                   /\ where = "returned" => FoundExact(q, k.strs, r)
ParseState(k, where, q, more, n, r) ==
  k.op \in Parsers =>
    /\ where \in {"look", "number", "next"} => Tally(k, q, n)
    /\ where = "look" => Begins(k, q) = {} /\ n = I!Zero
    /\ where = "next" => Begins(k, q) # {}
    /\ where = "number" => /\ more # <<>>
                           /\ \/ Begins(k, q) = {} /\ Starts(k, Head(more))
                              \/ Begins(k, q) # {} /\ Follow(k, n, Head(more))
    /\ where = "returned" => ParsedExact(k, q, r)
ReadState(k, where, q, held, r) ==
  k.op = "read" =>
    /\ k.length # I!Unbounded => Len(q) <= k.length
    /\ q = held \/ (where = "returned" /\ \E c \in k.stop : q = Append(held, c))
    /\ \A i \in DOMAIN held : held[i] \notin k.stop
    /\ where = "returned" => r = <<Len(held), 0>>

StreamInv ==
  /\ ahead \in Seq(SentByte) /\ seen \in Seq(SentByte) /\ text \in Seq(SentByte)
  /\ Mode(call, at)
  /\ FindState(call, at, seen, targets, ret)
  /\ ParseState(call, at, seen, ahead, value, ret)
  /\ ReadState(call, at, seen, text, ret)

\* No call has run.
LEMMA StreamStart == I!Init => StreamInv
<1> SUFFICES ASSUME I!Init PROVE StreamInv
  OBVIOUS
<1>1. ahead = <<>> /\ seen = <<>> /\ text = <<>> /\ call = I!NoCall /\ at = "idle"
  BY DEF I!Init
<1>2. call.op = "none"
  BY <1>1, Kinds
<1> QED BY <1>1, <1>2 DEF StreamInv, Mode, FindState, ParseState, ReadState, Parsers

\* A byte arrives.
LEMMA StreamArrive ==
  ASSUME StreamInv, NEW c \in SentByte, I!Arrive(c)
  PROVE  StreamInv'
<1>1. ahead' = Append(ahead, c) /\ UNCHANGED <<call, at, seen, targets, text, value, ret>>
  BY DEF I!Arrive
<1>2. ahead' \in Seq(SentByte)
  BY <1>1 DEF StreamInv
<1>3. ahead # <<>> => ahead' # <<>> /\ Head(ahead') = Head(ahead)
  <2>1. ahead \in Seq(SentByte)
    BY DEF StreamInv
  <2> QED BY <1>1, <2>1
<1>4. ParseState(call', at', seen', ahead', value', ret')
  BY <1>1, <1>3 DEF StreamInv, ParseState
<1> QED BY <1>1, <1>2, <1>4 DEF StreamInv

\* findMulti() takes a byte.
LEMMA StreamFind ==
  ASSUME StreamInv, I!findMulti
  PROVE  StreamInv'
<1> DEFINE c == Head(ahead)
           strs == call.strs
           next == Indices(strs, targets, c)
           hits == Hits(strs, next)
<1>1. /\ at = "find" /\ ahead # <<>> /\ targets' = next /\ seen' = Append(seen, c) /\ ahead' = Tail(ahead)
      /\ call' = call /\ text' = text /\ value' = value
      /\ IF hits = {} THEN UNCHANGED <<at, ret>> ELSE at' = "returned" /\ ret' = I!found(I!Min(hits))
  BY DEF I!findMulti, I!return, Indices, Hits
<1>2. call \in I!Finds
  BY <1>1 DEF StreamInv, Mode
<1>3. call.op = "find" /\ TargetList(strs)
  BY <1>2, Kinds
<1>4. ahead \in Seq(SentByte) /\ c \in SentByte /\ Tail(ahead) \in Seq(SentByte) /\ seen \in Seq(SentByte) /\ Searching(seen, strs, targets)
  BY <1>1, <1>3 DEF StreamInv, FindState
<1> HIDE DEF c, strs
<1>5. /\ hits = Ends(seen', strs, Len(seen'))
      /\ \A n \in 0 .. Len(seen') - 1 : Ends(seen', strs, n) = {}
      /\ hits = {} => Searching(seen', strs, next)
  <2> DEFINE w == Append(seen, c)
  <2>1. /\ hits = Ends(w, strs, Len(w))
        /\ \A n \in 0 .. Len(w) - 1 : Ends(w, strs, n) = {}
        /\ hits = {} => Searching(w, strs, next)
    BY <1>3, <1>4, SearchStep
  <2> HIDE DEF w, hits, next
  <2> QED BY <2>1, <1>1 DEF w
<1> HIDE DEF next
<1>6. seen' \in Seq(SentByte) /\ ahead' \in Seq(SentByte)
  BY <1>1, <1>4
<1>7. hits \subseteq 1 .. 2 /\ hits \subseteq Nat
  BY <1>3 DEF TargetList, Hits
<1>8. hits # {} => I!Min(hits) \in hits /\ I!Min(hits) >= 1 /\ I!Min(hits) \in Nat
  <2> SUFFICES ASSUME hits # {} PROVE I!Min(hits) \in hits /\ I!Min(hits) >= 1 /\ I!Min(hits) \in Nat
    OBVIOUS
  <2>1. I!Min(hits) \in hits
    BY <1>7, MinExists
  <2>2. hits \subseteq 1 .. 2
    BY <1>7
  <2> DEFINE g == I!Min(hits)
  <2> HIDE DEF hits, g
  <2>3. g \in hits
    BY <2>1 DEF g
  <2>4. g \in 1 .. 2
    BY <2>2, <2>3
  <2> QED BY <2>3, <2>4 DEF g
<1> HIDE DEF hits
<1>9. FindState(call', at', seen', targets', ret')
  <2>1. CASE hits = {}
    BY <2>1, <1>1, <1>3, <1>5 DEF FindState, strs
  <2>2. CASE hits # {}
    <3>1. at' = "returned" /\ ret'[1] = I!Min(hits) - 1
      BY <2>2, <1>1 DEF I!found
    <3>2. ret'[1] # -1 /\ ret'[1] + 1 = I!Min(hits)
      BY <3>1, <1>8, <2>2
    <3>3. FoundExact(seen', strs, ret')
      BY <3>2, <1>5 DEF FoundExact
    <3> QED BY <3>1, <3>3, <1>1 DEF FindState, strs
  <2> QED BY <2>1, <2>2
<1>10. Mode(call', at')
  BY <1>1, <1>2 DEF Mode
<1>11. ParseState(call', at', seen', ahead', value', ret') /\ ReadState(call', at', seen', text', ret')
  BY <1>1, <1>3 DEF ParseState, ReadState, Parsers
<1>12. text' \in Seq(SentByte)
  BY <1>1 DEF StreamInv
<1> QED BY <1>6, <1>9, <1>10, <1>11, <1>12 DEF StreamInv

\* A reader.
LEMMA StreamRead ==
  ASSUME StreamInv, I!readFull \/ I!readByte \/ (at = "read" /\ I!timedOut)
  PROVE  StreamInv'
<1>1. at = "read" /\ call' = call /\ targets' = targets /\ value' = value
  BY DEF I!readFull, I!readByte, I!timedOut
<1>2. call \in I!Reads /\ ahead \in Seq(SentByte) /\ seen \in Seq(SentByte) /\ text \in Seq(SentByte)
  BY <1>1 DEF StreamInv, Mode
<1>3. call.op = "read" /\ (call.length # I!Unbounded => call.length \in Nat)
  BY <1>2, Kinds
<1>4. seen = text /\ (call.length # I!Unbounded => Len(seen) <= call.length) /\ \A i \in DOMAIN text : text[i] \notin call.stop
  BY <1>1, <1>3 DEF StreamInv, ReadState
<1>5. ASSUME at' \in {"read", "returned"} PROVE Mode(call', at') /\ FindState(call', at', seen', targets', ret') /\ ParseState(call', at', seen', ahead', value', ret')
  BY <1>1, <1>2, <1>3, <1>5 DEF Mode, FindState, ParseState, Parsers
<1>6. CASE UNCHANGED <<ahead, seen, text>> /\ at' = "returned" /\ ret' = <<Len(text), 0>>
  <2>1. ReadState(call', at', seen', text', ret')
    BY <1>1, <1>4, <1>6 DEF ReadState
  <2> QED BY <2>1, <1>2, <1>5, <1>6 DEF StreamInv
<1>7. CASE I!readByte
  <2> DEFINE c == Head(ahead)
  <2>1. /\ ahead # <<>> /\ seen' = Append(seen, c) /\ ahead' = Tail(ahead) /\ ~I!full
        /\ IF I!keeps(c) THEN text' = Append(text, c) /\ UNCHANGED <<at, ret>> ELSE at' = "returned" /\ ret' = <<Len(text), 0>> /\ text' = text
    BY <1>7 DEF I!readByte, I!return, I!count
  <2>2. c \in SentByte /\ Tail(ahead) \in Seq(SentByte)
    BY <2>1, <1>2
  <2> HIDE DEF c
  <2>3. seen' \in Seq(SentByte) /\ ahead' \in Seq(SentByte) /\ text' \in Seq(SentByte) /\ Len(seen') = Len(seen) + 1
    <3>1. Append(seen, c) \in Seq(SentByte) /\ Append(text, c) \in Seq(SentByte) /\ Len(Append(seen, c)) = Len(seen) + 1
      BY <2>2, <1>2
    <3>2. text' = text \/ text' = Append(text, c)
      BY <2>1
    <3> QED BY <3>1, <3>2, <2>1, <2>2, <1>2
  <2>4. call.length # I!Unbounded => Len(seen') <= call.length
    <3>1. call.length # I!Unbounded => ~(Len(text) >= call.length)
      BY <2>1 DEF I!full
    <3>2. Len(text) \in Nat
      BY <1>2
    <3> QED BY <3>1, <3>2, <2>3, <1>3, <1>4
  <2>5. CASE I!keeps(c)
    <3>1. text' = Append(text, c) /\ at' = at /\ ret' = ret /\ c \notin call.stop
      BY <2>1, <2>5 DEF I!keeps
    <3>2. \A i \in DOMAIN text' : text'[i] \notin call.stop
      BY <3>1, <1>2, <1>4, <2>2
    <3>3. seen' = text'
      BY <3>1, <2>1, <1>4
    <3>4. ReadState(call', at', seen', text', ret')
      BY <3>1, <3>2, <3>3, <2>4, <1>1 DEF ReadState
    <3> QED BY <3>1, <3>4, <2>3, <1>1, <1>5 DEF StreamInv
  <2>6. CASE ~I!keeps(c)
    <3>1. text' = text /\ at' = "returned" /\ ret' = <<Len(text), 0>> /\ c \in call.stop
      BY <2>1, <2>6 DEF I!keeps
    <3>2. seen' = Append(text', c)
      BY <3>1, <2>1, <1>4
    <3>3. ReadState(call', at', seen', text', ret')
      BY <3>1, <3>2, <2>4, <1>1, <1>4 DEF ReadState
    <3> QED BY <3>1, <3>3, <2>3, <1>5 DEF StreamInv
  <2> QED BY <2>5, <2>6
<1>8. CASE I!readFull
  BY <1>6, <1>8 DEF I!readFull, I!return, I!count
<1>9. CASE I!timedOut
  <2>1. UNCHANGED <<ahead, seen, text>> /\ at' = "returned" /\ ret' = I!atTimeout
    BY <1>9 DEF I!timedOut, I!return
  <2>2. I!atTimeout = <<Len(text), 0>>
    BY <1>1 DEF I!atTimeout, I!count
  <2> QED BY <1>6, <2>1, <2>2
<1> QED BY <1>7, <1>8, <1>9

\* The operators of the model are those above for the call that runs.
LEMMA CallOperators ==
  /\ \A c : I!starts(c) <=> Starts(call, c)
  /\ \A n, c : I!taken(n, c) = Taken(call, n, c)
  /\ \A c : I!goesOn(c) <=> Follow(call, value, c)
<1>1. \A c : I!starts(c) <=> Starts(call, c)
  BY DEF I!starts, I!detectDecimal, Starts
<1>2. \A n, c : I!taken(n, c) = Taken(call, n, c)
  BY DEF I!taken, Taken
<1>3. \A c : I!goesOn(c) <=> Follow(call, value, c)
  BY DEF I!goesOn, I!detectDecimal, Follow
<1> QED BY <1>1, <1>2, <1>3

\* A number that was counted is what the parser returns.
LEMMA TallyReturned ==
  ASSUME NEW k, NEW q, NEW n, Tally(k, q, n), Begins(k, q) # {}
  PROVE  ParsedExact(k, q, I!signed(n))
<1>1. n.m \in Nat /\ n.isNegative \in BOOLEAN
  BY DEF Tally, Counted
<1>2. (IF n.isNegative THEN -n.m ELSE n.m) = (IF MinusAt(k, q) = {} THEN 1 ELSE -1) * n.m
  BY <1>1 DEF Tally
<1>3. I!signed(n) = <<(IF MinusAt(k, q) = {} THEN 1 ELSE -1) * I!ValueOf(q, NumeralsAt(k, q)), Cardinality(DecimalsAt(k, q))>>
  BY <1>2 DEF I!signed, Tally
<1> QED BY <1>3 DEF ParsedExact, Tally

\* The parsers.
LEMMA StreamParse ==
  ASSUME StreamInv, I!peekNextDigit \/ I!digit \/ I!nextDigit \/ (at \in {"look", "next"} /\ I!timedOut)
  PROVE  StreamInv'
<1>1. at \in {"look", "number", "next"} /\ call' = call /\ targets' = targets /\ text' = text
  BY DEF I!peekNextDigit, I!digit, I!nextDigit, I!timedOut
<1>2. call \in I!Parses /\ ahead \in Seq(SentByte) /\ seen \in Seq(SentByte) /\ text \in Seq(SentByte)
  BY <1>1 DEF StreamInv, Mode
<1>3. call.op \in Parsers
  BY <1>2, Kinds
<1>4. /\ Tally(call, seen, value)
      /\ at = "look" => Begins(call, seen) = {} /\ value = I!Zero
      /\ at = "next" => Begins(call, seen) # {}
      /\ at = "number" => /\ ahead # <<>>
                          /\ \/ Begins(call, seen) = {} /\ Starts(call, Head(ahead))
                             \/ Begins(call, seen) # {} /\ Follow(call, value, Head(ahead))
  BY <1>1, <1>3 DEF StreamInv, ParseState
<1>5. ASSUME at' \in {"look", "number", "next", "returned"}
      PROVE  Mode(call', at') /\ FindState(call', at', seen', targets', ret') /\ ReadState(call', at', seen', text', ret')
  BY <1>1, <1>2, <1>3, <1>5 DEF Mode, FindState, ReadState, Parsers
<1>6. ASSUME UNCHANGED <<ahead, seen, value>>, at' = "returned", ParsedExact(call, seen, ret')
      PROVE  StreamInv'
  <2>1. ParseState(call', at', seen', ahead', value', ret')
    BY <1>1, <1>6 DEF ParseState
  <2> QED BY <2>1, <1>1, <1>2, <1>5, <1>6 DEF StreamInv
<1>7. ASSUME Begins(call, seen) = {} PROVE ParsedExact(call, seen, I!None)
  BY <1>4, <1>7 DEF ParsedExact, Tally
<1>8. ASSUME ahead # <<>> PROVE Head(ahead) \in SentByte /\ Tail(ahead) \in Seq(SentByte)
  BY <1>2, <1>8
<1>9. CASE I!timedOut
  <2>1. UNCHANGED <<ahead, seen, value>> /\ at' = "returned" /\ ret' = I!atTimeout
    BY <1>9 DEF I!timedOut, I!return
  <2>2. at # "number"
    BY <1>9 DEF I!timedOut
  <2>3. CASE at = "look"
    <3>1. I!atTimeout = I!None
      BY <2>3 DEF I!atTimeout
    <3> QED BY <3>1, <2>1, <2>3, <1>4, <1>6, <1>7
  <2>4. CASE at = "next"
    <3>1. I!atTimeout = I!signed(value)
      BY <2>4 DEF I!atTimeout
    <3>2. ParsedExact(call, seen, I!signed(value))
      BY <2>4, <1>4, TallyReturned
    <3> QED BY <3>1, <3>2, <2>1, <1>6
  <2> QED BY <2>2, <2>3, <2>4, <1>1
<1>10. CASE I!nextDigit
  <2>1. at = "next" /\ ahead # <<>> /\ UNCHANGED <<ahead, seen, value>>
    BY <1>10 DEF I!nextDigit
  <2>2. CASE I!goesOn(Head(ahead))
    <3>1. at' = "number" /\ ret' = ret
      BY <1>10, <2>2 DEF I!nextDigit
    <3>2. Follow(call, value, Head(ahead))
      BY <2>2, CallOperators
    <3>3. ParseState(call', at', seen', ahead', value', ret')
      BY <3>1, <3>2, <2>1, <1>1, <1>4 DEF ParseState
    <3> QED BY <3>1, <3>3, <2>1, <1>1, <1>2, <1>5 DEF StreamInv
  <2>3. CASE ~I!goesOn(Head(ahead))
    <3>1. at' = "returned" /\ ret' = I!signed(value)
      BY <1>10, <2>3 DEF I!nextDigit, I!return
    <3>2. ParsedExact(call, seen, I!signed(value))
      BY <2>1, <1>4, TallyReturned
    <3> QED BY <3>1, <3>2, <2>1, <1>6
  <2> QED BY <2>2, <2>3
<1>11. CASE I!digit
  <2> DEFINE c == Head(ahead)
  <2>1. at = "number" /\ ahead # <<>> /\ value' = I!taken(value, c) /\ seen' = Append(seen, c) /\ ahead' = Tail(ahead) /\ at' = "next"
    BY <1>11 DEF I!digit
  <2>2. c \in SentByte /\ ahead' \in Seq(SentByte) /\ value' = Taken(call, value, c)
    BY <2>1, <1>8, CallOperators
  <2>3. (Begins(call, seen) = {} /\ Starts(call, c)) \/ (Begins(call, seen) # {} /\ Follow(call, value, c))
    BY <2>1, <1>4
  <2> HIDE DEF c
  <2>4. Begins(call, seen') # {} /\ Tally(call, seen', value')
    BY <2>1, <2>2, <2>3, <1>2, <1>4, TallyStep
  <2>5. ParseState(call', at', seen', ahead', value', ret')
    BY <2>1, <2>4, <1>1 DEF ParseState
  <2>6. seen' \in Seq(SentByte)
    BY <2>1, <2>2, <1>2
  <2> QED BY <2>1, <2>2, <2>5, <2>6, <1>1, <1>2, <1>5 DEF StreamInv
<1>12. CASE I!peekNextDigit
  <2> DEFINE c == Head(ahead)
  <2>1. at = "look" /\ ahead # <<>> /\ value' = value /\ c \in SentByte /\ Tail(ahead) \in Seq(SentByte)
    BY <1>12, <1>8 DEF I!peekNextDigit
  <2>2. CASE I!starts(c) /\ at' = "number" /\ UNCHANGED <<ahead, seen, ret>>
    <3>1. Starts(call, c)
      BY <2>2, CallOperators
    <3>2. ParseState(call', at', seen', ahead', value', ret')
      BY <3>1, <2>1, <2>2, <1>1, <1>4 DEF ParseState
    <3> QED BY <3>2, <2>2, <1>1, <1>2, <1>5 DEF StreamInv
  <2>3. CASE ~I!starts(c) /\ I!skips(c) /\ ahead' = Tail(ahead) /\ seen' = Append(seen, c) /\ UNCHANGED <<at, ret>>
    <3>1. ~Starts(call, c) /\ call.lookahead # "SKIP_NONE" /\ (call.lookahead = "SKIP_WHITESPACE" => c \in I!Space)
      BY <2>3, CallOperators DEF I!skips
    <3> HIDE DEF c
    <3>2. seen' \in Seq(SentByte) /\ ahead' \in Seq(SentByte)
      BY <2>1, <2>3, <1>2
    <3>3. \A i \in DOMAIN seen' : seen'[i] = c \/ (i \in DOMAIN seen /\ seen'[i] = seen[i])
      BY <2>1, <2>3, <1>2
    <3>4. Begins(call, seen) = {} /\ Figures(call, seen) = {} /\ Skipping(call, seen)
      BY <2>1, <1>4 DEF Figures, Tally
    <3>5. Begins(call, seen') = {}
      BY <3>1, <3>3, <3>4 DEF Begins
    <3>6. Skipping(call, seen')
      BY <3>1, <3>3, <3>4 DEF Skipping
    <3>7. Tally(call, seen', I!Zero)
      BY <3>2, <3>5, <3>6, NothingYet
    <3>8. ParseState(call', at', seen', ahead', value', ret')
      BY <3>5, <3>7, <2>1, <2>3, <1>1, <1>4 DEF ParseState
    <3> QED BY <3>2, <3>8, <2>1, <2>3, <1>1, <1>2, <1>5 DEF StreamInv
  <2>4. CASE ~I!starts(c) /\ ~I!skips(c) /\ at' = "returned" /\ ret' = I!None /\ UNCHANGED <<ahead, seen>>
    BY <2>1, <2>4, <1>4, <1>6, <1>7
  <2> QED BY <1>12, <2>2, <2>3, <2>4 DEF I!peekNextDigit, I!return
<1> QED BY <1>9, <1>10, <1>11, <1>12

\* find() gives up.
LEMMA StreamFindTimeout ==
  ASSUME StreamInv, at = "find", I!timedOut
  PROVE  StreamInv'
<1>1. at' = "returned" /\ ret' = I!atTimeout /\ UNCHANGED <<ahead, call, seen, targets, text, value>>
  BY DEF I!timedOut, I!return
<1>2. call \in I!Finds
  BY DEF StreamInv, Mode
<1>3. call.op = "find"
  BY <1>2, Kinds
<1>4. I!atTimeout = I!found(0)
  BY DEF I!atTimeout
<1>5. ret'[1] = -1
  BY <1>1, <1>4 DEF I!found
<1>6. FoundExact(seen, call.strs, ret')
  <2>1. Searching(seen, call.strs, targets) /\ seen \in Seq(SentByte)
    BY <1>3 DEF StreamInv, FindState
  <2>2. Len(seen) \in 0 .. Len(seen) /\ \A n \in 0 .. Len(seen) - 1 : n \in 0 .. Len(seen)
    BY <2>1
  <2> QED BY <1>5, <2>1, <2>2 DEF Searching, FoundExact
<1>7. FindState(call', at', seen', targets', ret')
  BY <1>1, <1>6 DEF FindState
<1>8. Mode(call', at') /\ ParseState(call', at', seen', ahead', value', ret') /\ ReadState(call', at', seen', text', ret')
  BY <1>1, <1>2, <1>3 DEF Mode, ParseState, ReadState, Parsers
<1> QED BY <1>1, <1>7, <1>8 DEF StreamInv

\* Before the first byte only an empty target is found.
LEMMA EmptyEnds ==
  ASSUME NEW strs, TargetList(strs)
  PROVE  Ends(<<>>, strs, 0) = I!empty(strs)
<1>1. ASSUME NEW t \in DOMAIN strs PROVE I!EndsWith(I!Prefix(<<>>, 0), strs[t]) <=> strs[t] = <<>>
  <2> DEFINE str == strs[t]
  <2>1. str \in Seq(SentByte) /\ <<>> \in Seq(SentByte) /\ 0 \in 0 .. Len(<<>>)
    BY DEF TargetList
  <2> HIDE DEF str
  <2>2. I!EndsWith(I!Prefix(<<>>, 0), str) <=> EndsAt(<<>>, 0, str, Len(str))
    BY <2>1, EndsWhole
  <2>3. EndsAt(<<>>, 0, str, Len(str)) <=> Len(str) = 0
    BY <2>1 DEF EndsAt
  <2>4. Len(str) = 0 <=> str = <<>>
    BY <2>1
  <2> QED BY <2>2, <2>3, <2>4 DEF str
<1> QED BY <1>1 DEF Ends, I!empty

\* A call begins.
LEMMA StreamBegin ==
  ASSUME StreamInv, NEW k \in I!Calls, I!begin(k)
  PROVE  StreamInv'
<1>1. call' = k /\ seen' = <<>> /\ text' = <<>> /\ value' = I!Zero /\ ahead' = ahead
  BY DEF I!begin
<1>2. ahead' \in Seq(SentByte) /\ seen' \in Seq(SentByte) /\ text' \in Seq(SentByte)
  BY <1>1 DEF StreamInv
<1>3. CASE k \in I!Finds
  <2> DEFINE strs == k.strs
  <2>1. k.op = "find" /\ TargetList(strs)
    BY <1>3, Kinds
  <2>2. Ends(<<>>, strs, 0) = I!empty(strs) /\ Len(<<>>) = 0
    BY <2>1, EmptyEnds
  <2>3. ASSUME at' \in {"find", "returned"} PROVE Mode(call', at') /\ ParseState(call', at', seen', ahead', value', ret') /\ ReadState(call', at', seen', text', ret')
    BY <1>1, <1>3, <2>1, <2>3 DEF Mode, ParseState, ReadState, Parsers
  <2>4. CASE I!empty(strs) # {}
    <3>1. at' = "returned" /\ ret' = I!found(I!Min(I!empty(strs)))
      BY <2>1, <2>4 DEF I!begin, I!return
    <3> DEFINE E == I!empty(strs)
               g == I!Min(E)
    <3>2. E \subseteq 1 .. 2
      BY <2>1 DEF I!empty, TargetList
    <3> HIDE DEF E, g
    <3>3. g \in E
      <4>1. E # {} /\ E \subseteq Nat
        BY <3>2, <2>4 DEF E
      <4> QED BY <4>1, MinExists DEF g
    <3>4. g \in 1 .. 2
      BY <3>2, <3>3
    <3>5. ret'[1] = g - 1
      BY <3>1 DEF I!found, E, g
    <3>6. ret'[1] # -1 /\ ret'[1] + 1 = g
      BY <3>4, <3>5
    <3> HIDE DEF strs
    <3>7. FoundExact(<<>>, strs, ret')
      BY <3>6, <2>2 DEF FoundExact, E, g
    <3>8. FindState(call', at', seen', targets', ret')
      BY <3>1, <3>7, <1>1 DEF FindState, strs
    <3> QED BY <3>1, <3>8, <1>2, <2>3 DEF StreamInv
  <2>5. CASE I!empty(strs) = {}
    <3>1. at' = "find" /\ targets' = [t \in DOMAIN strs |-> 0]
      BY <2>1, <2>5 DEF I!begin
    <3>2. ASSUME NEW n \in 0 .. Len(<<>>) PROVE Ends(<<>>, strs, n) = {}
      BY <2>2, <2>5
    <3>3. ASSUME NEW t \in DOMAIN strs PROVE targets'[t] \in 0 .. Len(strs[t]) - 1 /\ Longest(<<>>, Len(<<>>), strs[t], targets'[t])
      <4> DEFINE str == strs[t]
      <4>1. targets'[t] = 0 /\ str \in Seq(SentByte) /\ str # <<>>
        BY <3>1, <2>1, <2>5 DEF TargetList, I!empty
      <4> HIDE DEF str
      <4>2. Len(str) \in Nat /\ Len(str) >= 1
        BY <4>1
      <4>3. EndsAt(<<>>, 0, str, 0) /\ \A j \in 0 + 1 .. Len(str) : ~EndsAt(<<>>, 0, str, j)
        BY DEF EndsAt
      <4>4. Longest(<<>>, Len(<<>>), str, 0)
        BY <2>2, <4>2, <4>3 DEF Longest
      <4> QED BY <4>1, <4>2, <4>4 DEF str
    <3> HIDE DEF strs
    <3>4. Searching(<<>>, strs, targets')
      BY <3>2, <3>3 DEF Searching
    <3>5. FindState(call', at', seen', targets', ret')
      BY <3>1, <3>4, <1>1 DEF FindState, strs
    <3> QED BY <3>1, <3>5, <1>2, <2>3 DEF StreamInv
  <2> QED BY <2>4, <2>5
<1>4. CASE k \in I!Parses
  <2>1. k.op \in Parsers /\ k.op # "find" /\ k.op # "read"
    BY <1>4, Kinds DEF Parsers
  <2>2. at' = "look"
    BY <2>1 DEF I!begin
  <2>3. Begins(k, <<>>) = {} /\ Skipping(k, <<>>)
    BY DEF Begins, Skipping
  <2>4. Tally(k, <<>>, I!Zero)
    <3>1. <<>> \in Seq(SentByte)
      OBVIOUS
    <3> QED BY <2>3, <3>1, NothingYet
  <2>5. ParseState(call', at', seen', ahead', value', ret')
    BY <1>1, <2>2, <2>3, <2>4 DEF ParseState
  <2>6. Mode(call', at') /\ FindState(call', at', seen', targets', ret') /\ ReadState(call', at', seen', text', ret')
    BY <1>1, <1>4, <2>1, <2>2 DEF Mode, FindState, ReadState
  <2> QED BY <1>2, <2>5, <2>6 DEF StreamInv
<1>5. CASE k \in I!Reads
  <2>1. k.op = "read" /\ (k.length # I!Unbounded => k.length \in Nat)
    BY <1>5, Kinds
  <2>2. at' = "read"
    BY <2>1 DEF I!begin
  <2>3. ReadState(call', at', seen', text', ret')
    BY <1>1, <2>1, <2>2 DEF ReadState
  <2>4. Mode(call', at') /\ FindState(call', at', seen', targets', ret') /\ ParseState(call', at', seen', ahead', value', ret')
    BY <1>1, <1>5, <2>1, <2>2 DEF Mode, FindState, ParseState, Parsers
  <2> QED BY <1>2, <2>3, <2>4 DEF StreamInv
<1> QED BY <1>3, <1>4, <1>5 DEF I!Calls

\* Every step of Stream keeps the invariant.
LEMMA StreamStep == StreamInv /\ [I!Next]_streamVars => StreamInv'
<1> SUFFICES ASSUME StreamInv, [I!Next]_streamVars PROVE StreamInv'
  OBVIOUS
<1>1. CASE I!timedOut
  <2>1. at \in {"find", "look", "next", "read"}
    BY <1>1 DEF I!timedOut
  <2> QED BY <1>1, <2>1, StreamFindTimeout, StreamParse, StreamRead
<1>2. CASE I!Step /\ ~I!timedOut
  BY <1>2, StreamFind, StreamParse, StreamRead DEF I!Step
<1>3. CASE \E c \in SentByte : I!Arrive(c)
  BY <1>3, StreamArrive
<1>4. CASE \E k \in I!Calls : I!begin(k)
  BY <1>4, StreamBegin
<1>5. CASE UNCHANGED streamVars
  BY <1>5 DEF streamVars, StreamInv
<1> QED BY <1>1, <1>2, <1>3, <1>4, <1>5 DEF I!Next

\* What the invariant says of the three groups of methods.
LEMMA StreamEnd == StreamInv => I!FindIsExact /\ I!ParseIsExact /\ I!ReadIsExact
<1> SUFFICES ASSUME StreamInv PROVE I!FindIsExact /\ I!ParseIsExact /\ I!ReadIsExact
  OBVIOUS
<1>0. seen \in Seq(SentByte) /\ text \in Seq(SentByte) /\ Len(seen) \in Nat
  BY DEF StreamInv
<1>1. I!FindIsExact
  <2> SUFFICES ASSUME call.op = "find" PROVE I!FindIsExact
    BY DEF I!FindIsExact
  <2> DEFINE strs == call.strs
  <2>1. call \in I!Finds /\ at \in {"find", "returned"}
    BY Kinds DEF StreamInv, Mode, Parsers
  <2>2. TargetList(strs)
    BY <2>1, Kinds
  <2>3. I!FindIsExact <=>
          /\ \A n \in 0 .. Len(seen) - 1 : Ends(seen, strs, n) = {}
          /\ at = "find" => /\ Ends(seen, strs, Len(seen)) = {}
                            /\ \A t \in DOMAIN strs : targets[t] = I!Matched(seen, strs[t])
          /\ at = "returned" =>
               IF ret[1] = -1 THEN Ends(seen, strs, Len(seen)) = {} ELSE ret[1] + 1 = I!Min(Ends(seen, strs, Len(seen)))
    BY DEF I!FindIsExact, Ends
  <2> HIDE DEF strs
  <2>4. CASE at = "find"
    <3>1. Searching(seen, strs, targets)
      BY <2>4 DEF StreamInv, FindState, strs
    <3>2. ASSUME NEW t \in DOMAIN strs PROVE targets[t] = I!Matched(seen, strs[t])
      <4>1. strs[t] \in Seq(SentByte) /\ targets[t] \in 0 .. Len(strs[t]) - 1 /\ Longest(seen, Len(seen), strs[t], targets[t])
        BY <3>1, <2>2 DEF Searching, TargetList
      <4> QED BY <4>1, <1>0, LongestIsMatched
    <3>3. Len(seen) \in 0 .. Len(seen) /\ \A n \in 0 .. Len(seen) - 1 : n \in 0 .. Len(seen)
      BY <1>0
    <3>4. \A n \in 0 .. Len(seen) : Ends(seen, strs, n) = {}
      BY <3>1 DEF Searching
    <3> QED BY <2>3, <2>4, <3>2, <3>3, <3>4
  <2>5. CASE at = "returned"
    <3>1. FoundExact(seen, strs, ret)
      BY <2>5 DEF StreamInv, FindState, strs
    <3> QED BY <2>3, <2>5, <3>1 DEF FoundExact
  <2> QED BY <2>1, <2>4, <2>5
<1>2. I!ParseIsExact
  <2> SUFFICES ASSUME call.op \in Parsers, at = "returned" PROVE I!ParseIsExact
    BY DEF I!ParseIsExact, Parsers
  <2>1. ParsedExact(call, seen, ret)
    BY DEF StreamInv, ParseState
  <2>2. \A c : I!starts(c) <=> Starts(call, c)
    BY CallOperators
  <2>3. I!Begins = Begins(call, seen)
    BY <2>2 DEF Begins, I!Begins
  <2>4. I!Figures = Figures(call, seen)
    BY <2>3 DEF Figures, I!Figures
  <2>5. I!Plain = PlainAt(call, seen)
    BY <2>4 DEF PlainAt, I!Plain
  <2>6. I!Digits = NumeralsAt(call, seen) /\ I!Signs = MinusAt(call, seen)
    BY <2>5 DEF NumeralsAt, MinusAt, I!Digits, I!Signs
  <2>7. I!Decimals = DecimalsAt(call, seen)
    BY <2>5, <2>6 DEF DecimalsAt, I!Decimals
  <2>8. (call.lookahead = "SKIP_NONE" => I!Skipped = {}) /\ (call.lookahead = "SKIP_WHITESPACE" => \A i \in I!Skipped : seen[i] \in I!Space)
    BY <2>1, <2>4 DEF ParsedExact, Skipping, I!Skipped
  <2>9. \A i \in I!Signs, j \in I!Plain : i <= j
    BY <2>1, <2>5, <2>6 DEF ParsedExact, SignFirst
  <2>10. ret = IF I!Begins = {} THEN I!None
               ELSE <<(IF I!Signs = {} THEN 1 ELSE -1) * I!ValueOf(seen, I!Digits), Cardinality(I!Decimals)>>
    BY <2>1, <2>3, <2>6, <2>7 DEF ParsedExact
  <2>11. I!Cardinality(I!Decimals) = Cardinality(I!Decimals)
    BY DEF I!Cardinality, Cardinality
  <2> QED BY <2>8, <2>9, <2>10, <2>11 DEF I!ParseIsExact
<1>3. I!ReadIsExact
  <2> SUFFICES ASSUME call.op = "read" PROVE I!ReadIsExact
    BY DEF I!ReadIsExact
  <2>1. /\ call.length # I!Unbounded => Len(seen) <= call.length
        /\ seen = text \/ \E c \in call.stop : seen = Append(text, c)
        /\ \A i \in DOMAIN text : text[i] \notin call.stop
        /\ at = "returned" => ret = <<Len(text), 0>>
    BY DEF StreamInv, ReadState
  <2> QED BY <2>1 DEF I!ReadIsExact, I!count
<1> QED BY <1>1, <1>2, <1>3

------------------------------------------------------------------------------
(* String.                                                                 *)

\* The characters of a buffer, and those of a text.
Chars == STRING \cup {S!NUL, S!Junk, "a", "A", " "}
Letters == Chars \ {S!NUL}
Strings == [buf : Seq(Chars), len : Nat, cap : Nat]

\* The buffer b begins with the text v and its terminator.
Ended(b, v) ==
  /\ Len(v) + 1 <= Len(b) /\ b[Len(v) + 1] = S!NUL
  /\ \A i \in 1 .. Len(v) : b[i] = v[i]

\* The String x holds the text v; it has no buffer only if the text is empty.
Holds(x, v) ==
  /\ x \in Strings /\ v \in Seq(Letters) /\ x.len = Len(v)
  /\ x.buf = <<>> => v = <<>>
  /\ x.buf # <<>> => Ended(x.buf, v)

\* A text that the sketch passes has no NUL.
LEMMA TextsAreLetters ==
  ASSUME NEW t \in Text PROVE t \in Seq(Letters) /\ t \in Seq(Chars) /\ Len(t) \in Nat
<1>1. t \in Seq(STRING) /\ \A i \in DOMAIN t : t[i] # S!NUL
  BY ParsingAssumption DEF S!ConstantsOK
<1>2. Len(t) \in Nat /\ t \in [1 .. Len(t) -> STRING]
  BY <1>1
<1>3. \A i \in 1 .. Len(t) : t[i] \in Chars /\ t[i] \in Letters
  BY <1>1, <1>2 DEF Letters, Chars
<1>4. t \in [1 .. Len(t) -> Chars] /\ t \in [1 .. Len(t) -> Letters]
  BY <1>2, <1>3
<1> QED BY <1>2, <1>4

\* Max and Min of two numbers.
LEMMA MaxOfTwo ==
  ASSUME NEW i \in Int, NEW j \in Int
  PROVE  /\ S!Max({i, j}) = IF i >= j THEN i ELSE j
         /\ S!Min({i, j}) = IF i <= j THEN i ELSE j
<1>1. S!Max({i, j}) = CHOOSE x \in {i, j} : \A y \in {i, j} : x >= y
  BY DEF S!Max
<1>2. S!Min({i, j}) = CHOOSE x \in {i, j} : \A y \in {i, j} : x <= y
  BY DEF S!Min
<1>3. S!Max({i, j}) = IF i >= j THEN i ELSE j
  BY <1>1
<1>4. S!Min({i, j}) = IF i <= j THEN i ELSE j
  BY <1>2
<1> QED BY <1>3, <1>4

\* A least element is the Min,
LEMMA MinIs ==
  ASSUME NEW E, NEW m \in E, m \in Int, E \subseteq Int, \A y \in E : m <= y
  PROVE  S!Min(E) = m
<1>1. S!Min(E) = CHOOSE x \in E : \A y \in E : x <= y
  BY DEF S!Min
<1>2. ASSUME NEW x \in E, \A y \in E : x <= y PROVE x = m
  BY <1>2
<1>3. m \in E /\ \A y \in E : m <= y
  OBVIOUS
<1> QED BY <1>1, <1>2, <1>3

\* and a greatest one the Max.
LEMMA MaxIs ==
  ASSUME NEW E, NEW m \in E, m \in Int, E \subseteq Int, \A y \in E : m >= y
  PROVE  S!Max(E) = m
<1>1. S!Max(E) = CHOOSE x \in E : \A y \in E : x >= y
  BY DEF S!Max
<1>2. ASSUME NEW x \in E, \A y \in E : x >= y PROVE x = m
  BY <1>2
<1>3. m \in E /\ \A y \in E : m >= y
  OBVIOUS
<1> QED BY <1>1, <1>2, <1>3

\* r is b with t written over it, from offset p.
Written(r, b, p, t) ==
  /\ r \in Seq(Chars)
  /\ Len(r) = IF p + Len(t) <= Len(b) THEN Len(b) ELSE p + Len(t)
  /\ \A i \in 1 .. Len(t) : r[p + i] = t[i]
  /\ \A i \in 1 .. Len(b) : i <= p \/ p + Len(t) < i => r[i] = b[i]

\* memcpy() writes what it should, and nothing else of the buffer changes.
LEMMA Memcpy ==
  ASSUME NEW b \in Seq(Chars), NEW p \in Nat, NEW t \in Seq(Chars)
  PROVE  Written(S!memcpy(b, p, t), b, p, t)
<1> DEFINE n == IF p + Len(t) <= Len(b) THEN Len(b) ELSE p + Len(t)
           r == [i \in 1 .. n |-> IF i - 1 \in p .. p + Len(t) - 1 THEN t[i - p]
                                  ELSE IF i <= Len(b) THEN b[i] ELSE S!Junk]
<1>1. Len(b) \in Nat /\ Len(t) \in Nat /\ n \in Nat
  OBVIOUS
<1>2. S!Max({Len(b), p + Len(t)}) = n
  BY <1>1, MaxOfTwo
<1>3. S!memcpy(b, p, t) = r
  BY <1>2 DEF S!memcpy
<1>4. ASSUME NEW i \in 1 .. n
      PROVE  r[i] \in Chars
  <2>1. CASE i - 1 \in p .. p + Len(t) - 1
    <3>1. i - p \in 1 .. Len(t)
      BY <2>1, <1>1
    <3> QED BY <2>1, <3>1
  <2>2. CASE i - 1 \notin p .. p + Len(t) - 1 /\ i <= Len(b)
    <3>1. i \in 1 .. Len(b)
      BY <2>2, <1>1
    <3> QED BY <2>2, <3>1
  <2>3. CASE i - 1 \notin p .. p + Len(t) - 1 /\ ~(i <= Len(b))
    BY <2>3 DEF Chars
  <2> QED BY <2>1, <2>2, <2>3
<1>5. r \in Seq(Chars) /\ Len(r) = n
  <2>1. r \in [1 .. n -> Chars]
    BY <1>4
  <2> HIDE DEF r, n
  <2> QED BY <2>1, <1>1, SeqOf
<1>6. ASSUME NEW i \in 1 .. Len(t)
      PROVE  r[p + i] = t[i]
  <2>1. p + i \in 1 .. n /\ (p + i) - 1 \in p .. p + Len(t) - 1 /\ (p + i) - p = i
    BY <1>1
  <2> QED BY <2>1
<1>7. ASSUME NEW i \in 1 .. Len(b), i <= p \/ p + Len(t) < i
      PROVE  r[i] = b[i]
  <2>1. i \in 1 .. n /\ i - 1 \notin p .. p + Len(t) - 1 /\ i <= Len(b)
    BY <1>1, <1>7
  <2> QED BY <2>1
<1> HIDE DEF r
<1> QED BY <1>3, <1>5, <1>6, <1>7 DEF Written

\* The same of the NUL written after a text.
LEMMA Terminate ==
  ASSUME NEW b \in Seq(Chars), NEW p \in Nat
  PROVE  /\ S!terminate(b, p) \in Seq(Chars)
         /\ Len(S!terminate(b, p)) = IF p < Len(b) THEN Len(b) ELSE p + 1
         /\ S!terminate(b, p)[p + 1] = S!NUL
         /\ \A i \in 1 .. Len(b) : i # p + 1 => S!terminate(b, p)[i] = b[i]
<1> DEFINE t == <<S!NUL>>
<1>1. t \in Seq(Chars) /\ Len(t) = 1 /\ t[1] = S!NUL
  <2>1. S!NUL \in Chars
    BY DEF Chars
  <2> QED BY <2>1
<1>2. S!terminate(b, p) = S!memcpy(b, p, t)
  BY DEF S!terminate
<1> HIDE DEF t
<1>3. Len(b) \in Nat
  OBVIOUS
<1> DEFINE r == S!memcpy(b, p, t)
<1>4. Written(r, b, p, t)
  BY <1>1, Memcpy
<1> HIDE DEF r
<1>5. Len(r) = IF p < Len(b) THEN Len(b) ELSE p + 1
  BY <1>1, <1>3, <1>4 DEF Written
<1>6. r[p + 1] = S!NUL
  BY <1>1, <1>4, 1 \in 1 .. 1 DEF Written
<1>7. ASSUME NEW i \in 1 .. Len(b), i # p + 1 PROVE r[i] = b[i]
  <2>1. i <= p \/ p + Len(t) < i
    BY <1>7, <1>1, <1>3
  <2> QED BY <2>1, <1>4 DEF Written
<1>8. r \in Seq(Chars)
  BY <1>4 DEF Written
<1> QED BY <1>2, <1>5, <1>6, <1>7, <1>8 DEF r

\* The characters of a text.
LEMMA LettersAreChars ==
  ASSUME NEW t \in Seq(Letters) PROVE t \in Seq(Chars) /\ Len(t) \in Nat /\ \A i \in 1 .. Len(t) : t[i] \in Chars /\ t[i] # S!NUL
<1>1. Letters \subseteq Chars /\ S!NUL \notin Letters
  BY DEF Letters
<1>2. Len(t) \in Nat /\ t \in [1 .. Len(t) -> Letters]
  OBVIOUS
<1>3. \A i \in 1 .. Len(t) : t[i] \in Chars /\ t[i] # S!NUL
  BY <1>1, <1>2
<1>4. t \in [1 .. Len(t) -> Chars]
  BY <1>2, <1>3
<1> QED BY <1>2, <1>3, <1>4

\* r is b with the text t and its terminator from offset p.
Put(r, b, p, t) ==
  /\ r \in Seq(Chars)
  /\ Len(r) = IF p + Len(t) < Len(b) THEN Len(b) ELSE p + Len(t) + 1
  /\ r[p + Len(t) + 1] = S!NUL
  /\ \A i \in 1 .. Len(t) : r[p + i] = t[i]
  /\ \A i \in 1 .. Len(b) : i <= p => r[i] = b[i]

\* A text copied into a buffer and then terminated.
LEMMA PutText ==
  ASSUME NEW b \in Seq(Chars), NEW p \in Nat, NEW t \in Seq(Letters)
  PROVE  Put(S!terminate(S!memcpy(b, p, t), p + Len(t)), b, p, t)
<1> DEFINE m == S!memcpy(b, p, t)
           r == S!terminate(m, p + Len(t))
<1>1. t \in Seq(Chars) /\ Len(t) \in Nat /\ Len(b) \in Nat
  BY LettersAreChars
<1>2. Written(m, b, p, t)
  BY <1>1, Memcpy
<1> HIDE DEF m
<1>3. m \in Seq(Chars) /\ Len(m) = IF p + Len(t) <= Len(b) THEN Len(b) ELSE p + Len(t)
  BY <1>2 DEF Written
<1>4. /\ r \in Seq(Chars) /\ Len(r) = IF p + Len(t) < Len(m) THEN Len(m) ELSE p + Len(t) + 1
      /\ r[p + Len(t) + 1] = S!NUL
      /\ \A i \in 1 .. Len(m) : i # p + Len(t) + 1 => r[i] = m[i]
  BY <1>1, <1>3, Terminate
<1> HIDE DEF r
<1>5. Len(r) = IF p + Len(t) < Len(b) THEN Len(b) ELSE p + Len(t) + 1
  BY <1>1, <1>3, <1>4
<1>6. ASSUME NEW i \in 1 .. Len(t) PROVE r[p + i] = t[i]
  <2>1. p + i \in 1 .. Len(m) /\ p + i # p + Len(t) + 1
    BY <1>1, <1>3
  <2> QED BY <2>1, <1>2, <1>4 DEF Written
<1>7. ASSUME NEW i \in 1 .. Len(b), i <= p PROVE r[i] = b[i]
  <2>1. i \in 1 .. Len(m) /\ i # p + Len(t) + 1
    BY <1>1, <1>3, <1>7
  <2> QED BY <2>1, <1>2, <1>4, <1>7 DEF Written
<1> QED BY <1>4, <1>5, <1>6, <1>7 DEF Put, r, m

\* The text that a String holds is its value.
LEMMA ValueIs ==
  ASSUME NEW x, NEW v, Holds(x, v)
  PROVE  S!Value(x) = v
<1>1. x.buf \in Seq(Chars) /\ x.len = Len(v) /\ v \in Seq(Chars) /\ Len(v) \in Nat
  BY LettersAreChars DEF Holds, Strings
<1>2. CASE x.buf = <<>>
  <2>1. v = <<>>
    BY <1>2 DEF Holds
  <2>2. Len(v) = 0
    BY <2>1
  <2> QED BY <1>1, <1>2, <2>1, <2>2 DEF S!Value
<1>3. CASE x.buf # <<>>
  <2>1. Len(v) <= Len(x.buf) /\ \A i \in 1 .. Len(v) : x.buf[i] = v[i]
    <3>1. Ended(x.buf, v)
      BY <1>3 DEF Holds
    <3>2. Len(x.buf) \in Nat
      BY <1>1
    <3> QED BY <3>1, <3>2, <1>1 DEF Ended
  <2> DEFINE b == x.buf
             w == SubSeq(b, 1, Len(v))
  <2> HIDE DEF b
  <2>2. b \in Seq(Chars) /\ Len(v) <= Len(b) /\ \A i \in 1 .. Len(v) : b[i] = v[i]
    BY <2>1, <1>1 DEF b
  <2>3. w \in Seq(Chars) /\ Len(w) = Len(v) /\ \A i \in 1 .. Len(v) : w[i] = b[i]
    BY <2>2, <1>1, Piece
  <2>4. w = v
    <3> HIDE DEF w
    <3> QED BY <2>2, <2>3, <1>1, SameSeq
  <2> QED BY <2>4, <1>1 DEF S!Value, b
<1> QED BY <1>2, <1>3

\* What one call leaves: the first p characters of v, and then t.
LEMMA HoldsPut ==
  ASSUME NEW x \in Strings, NEW v \in Seq(Letters), NEW b \in Seq(Chars), NEW t \in Seq(Letters),
         NEW p \in Nat, p <= Len(v), p <= Len(b), \A i \in 1 .. p : b[i] = v[i],
         Put(x.buf, b, p, t), x.len = p + Len(t)
  PROVE  Holds(x, SubSeq(v, 1, p) \o t)
<1>1. v \in Seq(Chars) /\ Len(v) \in Nat /\ Len(t) \in Nat /\ Len(b) \in Nat
  BY LettersAreChars
<1> DEFINE f == SubSeq(v, 1, p)
           g == f \o t
           r == x.buf
<1> HIDE DEF r
<1>2. f \in Seq(Letters) /\ Len(f) = p /\ \A i \in 1 .. p : f[i] = v[i]
  BY <1>1, Piece
<1> HIDE DEF f
<1>3. g \in Seq(Letters) /\ Joined(g, f, t)
  BY <1>2, Concatenation
<1> HIDE DEF g
<1>4. Len(g) = p + Len(t)
  BY <1>2, <1>3 DEF Joined
<1>5. /\ r \in Seq(Chars) /\ Len(r) = IF p + Len(t) < Len(b) THEN Len(b) ELSE p + Len(t) + 1
      /\ r[p + Len(t) + 1] = S!NUL
      /\ \A i \in 1 .. Len(t) : r[p + i] = t[i]
      /\ \A i \in 1 .. Len(b) : i <= p => r[i] = b[i]
  BY DEF Put, r
<1>6. Len(g) + 1 <= Len(r) /\ r[Len(g) + 1] = S!NUL
  BY <1>1, <1>4, <1>5
<1>7. ASSUME NEW i \in 1 .. Len(g) PROVE r[i] = g[i]
  <2>1. CASE i <= p
    <3>1. i \in 1 .. p /\ i \in 1 .. Len(b)
      BY <2>1, <1>1, <1>4
    <3> QED BY <2>1, <3>1, <1>2, <1>3, <1>5 DEF Joined
  <2>2. CASE i > p
    <3>1. i - p \in 1 .. Len(t) /\ p + (i - p) = i
      BY <2>2, <1>1, <1>4
    <3>2. g[p + (i - p)] = t[i - p]
      BY <3>1, <1>2, <1>3 DEF Joined
    <3> QED BY <3>1, <3>2, <1>5
  <2> QED BY <2>1, <2>2, <1>1, <1>4
<1>8. r # <<>>
  BY <1>1, <1>4, <1>6
<1> QED BY <1>3, <1>4, <1>6, <1>7, <1>8 DEF Holds, Ended, g, f, r

\* The String without memory holds the empty text.
LEMMA NothingHeld == Holds(S!Null, <<>>) /\ S!fits(S!Null) /\ S!Null.buf = <<>> /\ S!Null.len = 0
<1>1. S!Null.buf = <<>> /\ S!Null.len = 0 /\ S!Null \in Strings
  BY DEF S!Null, Strings
<1>2. << >> \in Seq(Letters) /\ Len(<< >>) = 0
  OBVIOUS
<1> QED BY <1>1, <1>2 DEF Holds, S!fits

\* What is known of a String that holds a text within its capacity.
LEMMA HeldFacts ==
  ASSUME NEW x, NEW v, Holds(x, v)
  PROVE  /\ x \in Strings /\ x.buf \in Seq(Chars) /\ Len(x.buf) \in Nat /\ x.len \in Nat /\ x.cap \in Nat
         /\ v \in Seq(Letters) /\ v \in Seq(Chars) /\ Len(v) \in Nat /\ x.len = Len(v)
         /\ \A i \in 1 .. Len(v) : v[i] # S!NUL /\ v[i] \in Chars /\ x.buf[i] = v[i]
         /\ Len(v) <= Len(x.buf)
         /\ x.buf = <<>> => v = <<>> /\ Len(v) = 0
         /\ x.buf # <<>> => Len(v) + 1 <= Len(x.buf) /\ x.buf[Len(v) + 1] = S!NUL /\ Ended(x.buf, v)
         /\ S!fits(x) /\ x.buf # <<>> => Len(x.buf) = x.cap + 1 /\ Len(v) <= x.cap
<1>1. /\ x \in Strings /\ x.buf \in Seq(Chars) /\ x.len \in Nat /\ x.cap \in Nat
      /\ v \in Seq(Letters) /\ x.len = Len(v)
  BY DEF Holds, Strings
<1>2. Len(x.buf) \in Nat
  BY <1>1
<1>3. v \in Seq(Chars) /\ Len(v) \in Nat /\ \A i \in 1 .. Len(v) : v[i] # S!NUL /\ v[i] \in Chars
  BY <1>1, LettersAreChars
<1>4. x.buf = <<>> => v = <<>> /\ Len(v) = 0
  <2>1. Len(<< >>) = 0
    OBVIOUS
  <2> QED BY <2>1 DEF Holds
<1>5. x.buf # <<>> => /\ Len(v) + 1 <= Len(x.buf) /\ x.buf[Len(v) + 1] = S!NUL /\ Ended(x.buf, v)
                      /\ \A i \in 1 .. Len(v) : x.buf[i] = v[i]
  BY DEF Holds, Ended
<1>6. Len(v) <= Len(x.buf) /\ \A i \in 1 .. Len(v) : x.buf[i] = v[i]
  BY <1>2, <1>3, <1>4, <1>5
<1>7. S!fits(x) /\ x.buf # <<>> => Len(x.buf) = x.cap + 1 /\ Len(v) <= x.cap
  BY <1>1, <1>2, <1>3, <1>5 DEF S!fits
<1> QED BY <1>1, <1>2, <1>3, <1>4, <1>5, <1>6, <1>7

\* A buffer that has a length is there.
LEMMA NotEmpty ==
  ASSUME NEW b \in Seq(Chars), Len(b) # 0 PROVE b # <<>>
OBVIOUS

\* changeBuffer() keeps what fits the new buffer,
LEMMA ChangedBuffer ==
  ASSUME NEW x, NEW v, Holds(x, v), NEW n \in Nat
  PROVE  LET r == S!changeBuffer(x, n) IN
         /\ r \in Strings /\ r.len = x.len /\ r.cap = n /\ Len(r.buf) = n + 1 /\ r.buf # <<>>
         /\ \A i \in 1 .. Len(x.buf) : i <= n + 1 => r.buf[i] = x.buf[i]
<1> DEFINE r == S!changeBuffer(x, n)
           c == x.buf
           b == [i \in 1 .. n + 1 |-> IF i <= Len(c) THEN c[i] ELSE S!Junk]
<1> HIDE DEF c
<1>1. x \in Strings /\ c \in Seq(Chars) /\ Len(c) \in Nat
  BY HeldFacts DEF c
<1>2. r = [x EXCEPT !.buf = b, !.cap = n]
  BY DEF S!changeBuffer, c
<1>3. ASSUME NEW i \in 1 .. n + 1 PROVE b[i] \in Chars
  <2>1. CASE i <= Len(c)
    <3>1. i \in 1 .. Len(c)
      BY <2>1, <1>1
    <3> QED BY <2>1, <3>1, <1>1
  <2>2. CASE ~(i <= Len(c))
    BY <2>2 DEF Chars
  <2> QED BY <2>1, <2>2
<1>4. b \in Seq(Chars) /\ Len(b) = n + 1
  <2>1. b \in [1 .. n + 1 -> Chars]
    BY <1>3
  <2> HIDE DEF b
  <2> QED BY <2>1, SeqOf
<1>5. \A i \in 1 .. Len(c) : i <= n + 1 => b[i] = c[i]
  BY <1>1
<1>6. b # <<>>
  <2> HIDE DEF b
  <2> QED BY <1>4, NotEmpty
<1> HIDE DEF b
<1>7. r \in Strings /\ r.len = x.len /\ r.cap = n /\ r.buf = b
  BY <1>1, <1>2, <1>4 DEF Strings
<1> QED BY <1>4, <1>5, <1>6, <1>7 DEF c

\* so a larger one holds the same text.
LEMMA ChangedHolds ==
  ASSUME NEW x, NEW v, Holds(x, v), NEW n \in Nat, x.buf # <<>>, Len(v) <= n
  PROVE  Holds(S!changeBuffer(x, n), v) /\ S!fits(S!changeBuffer(x, n)) /\ S!changeBuffer(x, n).cap = n
<1> DEFINE r == S!changeBuffer(x, n)
<1>1. /\ r \in Strings /\ r.len = x.len /\ r.cap = n /\ Len(r.buf) = n + 1 /\ r.buf # <<>>
      /\ \A i \in 1 .. Len(x.buf) : i <= n + 1 => r.buf[i] = x.buf[i]
  BY ChangedBuffer
<1> HIDE DEF r
<1>2. /\ v \in Seq(Letters) /\ x.len = Len(v) /\ Len(v) \in Nat /\ Len(x.buf) \in Nat
      /\ Len(v) + 1 <= Len(x.buf) /\ x.buf[Len(v) + 1] = S!NUL
      /\ \A i \in 1 .. Len(v) : x.buf[i] = v[i]
  BY HeldFacts
<1>3. Len(v) + 1 \in 1 .. Len(x.buf) /\ Len(v) + 1 <= n + 1
  BY <1>2
<1>4. \A i \in 1 .. Len(v) : i \in 1 .. Len(x.buf) /\ i <= n + 1
  BY <1>2
<1>5. Len(v) + 1 <= Len(r.buf) /\ r.buf[Len(v) + 1] = S!NUL
  BY <1>1, <1>2, <1>3
<1>6. \A i \in 1 .. Len(v) : r.buf[i] = v[i]
  BY <1>1, <1>2, <1>4
<1> QED BY <1>1, <1>2, <1>5, <1>6 DEF Holds, Ended, S!fits, r

\* reserve() leaves room for n characters, and the text.
LEMMA Reserved ==
  ASSUME NEW x, NEW v, Holds(x, v), S!fits(x), NEW n \in Nat
  PROVE  LET r == S!reserve(x, n) IN
         /\ r \in Strings /\ r.buf # <<>> /\ Len(r.buf) = r.cap + 1 /\ n <= r.cap /\ Len(v) <= r.cap
         /\ \A i \in 1 .. Len(v) : r.buf[i] = v[i]
<1> DEFINE r == S!reserve(x, n)
           y == S!changeBuffer(x, n)
<1>0. /\ x \in Strings /\ x.len = Len(v) /\ Len(v) \in Nat /\ x.cap \in Nat /\ Len(x.buf) \in Nat
      /\ Len(v) <= Len(x.buf) /\ \A i \in 1 .. Len(v) : x.buf[i] = v[i]
      /\ x.buf = <<>> => Len(v) = 0
      /\ x.buf # <<>> => Len(x.buf) = x.cap + 1 /\ Len(v) <= x.cap
  BY HeldFacts
<1>1. CASE ~S!asks(x, n)
  <2>1. r = x
    BY <1>1 DEF S!reserve
  <2>2. x.buf # <<>> /\ ~(x.cap < n)
    BY <1>1 DEF S!asks
  <2> QED BY <1>0, <2>1, <2>2
<1>2. CASE S!asks(x, n)
  <2>1. Len(v) <= n
    BY <1>0, <1>2 DEF S!asks
  <2>2. /\ y \in Strings /\ y.len = x.len /\ y.cap = n /\ Len(y.buf) = n + 1 /\ y.buf # <<>>
        /\ \A i \in 1 .. Len(x.buf) : i <= n + 1 => y.buf[i] = x.buf[i]
    BY ChangedBuffer
  <2> HIDE DEF y
  <2>3. CASE x.len > 0
    <3>1. r = y
      BY <1>2, <2>3 DEF S!reserve, y
    <3>2. \A i \in 1 .. Len(v) : i \in 1 .. Len(x.buf) /\ i <= n + 1
      BY <1>0, <2>1
    <3>3. \A i \in 1 .. Len(v) : y.buf[i] = v[i]
      BY <1>0, <2>2, <3>2
    <3>4. y.buf # <<>> /\ Len(y.buf) = y.cap + 1 /\ n <= y.cap /\ Len(v) <= y.cap
      BY <2>1, <2>2
    <3> QED BY <2>2, <3>1, <3>3, <3>4
  <2>4. CASE ~(x.len > 0)
    <3> DEFINE b == S!terminate(y.buf, 0)
    <3>1. r = [y EXCEPT !.buf = b]
      BY <1>2, <2>4 DEF S!reserve, y
    <3>2. y.buf \in Seq(Chars)
      BY <2>2 DEF Strings
    <3>3. b \in Seq(Chars) /\ Len(b) = n + 1
      <4>1. b \in Seq(Chars) /\ Len(b) = IF 0 < Len(y.buf) THEN Len(y.buf) ELSE 0 + 1
        BY <3>2, Terminate
      <4> HIDE DEF b
      <4> QED BY <4>1, <2>2
    <3> HIDE DEF b
    <3>4. b # <<>>
      BY <3>3, NotEmpty
    <3>5. r \in Strings /\ r.buf = b /\ r.cap = n
      BY <2>2, <3>1, <3>3 DEF Strings
    <3>6. Len(v) = 0 /\ 1 .. Len(v) = {}
      BY <1>0, <2>4
    <3>7. /\ r \in Strings /\ r.buf # <<>> /\ Len(r.buf) = r.cap + 1 /\ n <= r.cap /\ Len(v) <= r.cap
          /\ \A i \in 1 .. Len(v) : r.buf[i] = v[i]
      <4> HIDE DEF r
      <4> QED BY <3>3, <3>4, <3>5, <3>6
    <3> QED BY <3>7
  <2> QED BY <2>3, <2>4
<1> QED BY <1>1, <1>2

\* copy() of a text: the text, or NULL without memory.
LEMMA CopyHolds ==
  ASSUME NEW x, NEW v, Holds(x, v), S!fits(x), NEW t \in Seq(Letters), NEW ok \in BOOLEAN
  PROVE  /\ S!asks(x, Len(t)) /\ ~ok => S!copy(x, t, ok) = S!Null
         /\ ~(S!asks(x, Len(t)) /\ ~ok) =>
              Holds(S!copy(x, t, ok), t) /\ S!fits(S!copy(x, t, ok)) /\ S!copy(x, t, ok).buf # <<>>
<1> DEFINE n == Len(t)
           r == S!reserve(x, n)
           y == S!copy(x, t, ok)
<1>1. S!asks(x, Len(t)) /\ ~ok => y = S!Null
  BY DEF S!copy
<1>2. ASSUME ~(S!asks(x, Len(t)) /\ ~ok) PROVE Holds(y, t) /\ S!fits(y) /\ y.buf # <<>>
  <2>0. n \in Nat /\ t \in Seq(Chars)
    BY LettersAreChars
  <2>1. r \in Strings /\ Len(r.buf) = r.cap + 1 /\ n <= r.cap
    BY <2>0, Reserved
  <2> HIDE DEF r
  <2> DEFINE b == r.buf
             c == S!terminate(S!memcpy(b, 0, t), n)
  <2>2. b \in Seq(Chars) /\ Len(b) \in Nat
    BY <2>1 DEF Strings
  <2>3. y = [r EXCEPT !.len = n, !.buf = c]
    BY <1>2 DEF S!copy, r
  <2> HIDE DEF b
  <2>4. Put(c, b, 0, t)
    <3>1. Put(S!terminate(S!memcpy(b, 0, t), 0 + n), b, 0, t)
      BY <2>0, <2>2, PutText
    <3> QED BY <3>1, <2>0
  <2> HIDE DEF c
  <2>5. c \in Seq(Chars)
    BY <2>4 DEF Put
  <2> HIDE DEF y
  <2>6. y \in Strings /\ y.buf = c /\ y.len = 0 + n
    <3>1. y \in Strings /\ y.buf = c /\ y.len = n
      <4> HIDE DEF n
      <4> QED BY <2>0, <2>1, <2>3, <2>5 DEF Strings
    <3> QED BY <3>1, <2>0
  <2>11. y.cap = r.cap
    BY <2>1, <2>3 DEF Strings
  <2>12. Len(c) = Len(b) /\ Len(b) = r.cap + 1 /\ r.cap \in Nat
    <3>1. r.cap \in Nat /\ Len(b) = r.cap + 1
      BY <2>1 DEF Strings, b
    <3>2. 0 + n < Len(b)
      BY <2>0, <2>1, <3>1
    <3> QED BY <2>4, <3>1, <3>2 DEF Put
  <2>13. S!fits(y) /\ y.buf # <<>>
    <3>1. c # <<>>
      BY <2>5, <2>12, NotEmpty
    <3> QED BY <2>6, <2>11, <2>12, <3>1 DEF S!fits
  <2>7. << >> \in Seq(Letters) /\ Len(<< >>) = 0 /\ 0 <= Len(b) /\ \A i \in 1 .. 0 : b[i] = << >>[i]
    BY <2>2
  <2> DEFINE e == << >>
  <2> HIDE DEF e
  <2>8. 0 \in Nat /\ e \in Seq(Letters) /\ 0 <= Len(e) /\ 0 <= Len(b) /\ \A i \in 1 .. 0 : b[i] = e[i]
    BY <2>7 DEF e
  <2>9. Holds(y, SubSeq(e, 1, 0) \o t)
    BY <2>2, <2>4, <2>6, <2>8, HoldsPut
  <2>10. SubSeq(e, 1, 0) \o t = t
    BY DEF e
  <2> QED BY <2>9, <2>10, <2>13
<1> QED BY <1>1, <1>2

\* An argument that got memory holds its text; without memory it has no buffer.
LEMMA ArgumentHolds ==
  ASSUME NEW t \in Seq(Letters), NEW got \in BOOLEAN
  PROVE  LET a == S!argument(t, got) IN
         /\ got => Holds(a, t) /\ S!fits(a) /\ a.buf # <<>>
         /\ ~got => a = S!Null
         /\ S!fits(a) /\ Holds(a, IF got THEN t ELSE << >>)
<1>1. S!asks(S!Null, Len(t)) /\ Holds(S!Null, << >>) /\ S!fits(S!Null)
  BY NothingHeld DEF S!asks
<1>2. /\ ~got => S!copy(S!Null, t, got) = S!Null
      /\ got => Holds(S!copy(S!Null, t, got), t) /\ S!fits(S!copy(S!Null, t, got)) /\ S!copy(S!Null, t, got).buf # <<>>
  BY <1>1, CopyHolds
<1> QED BY <1>1, <1>2 DEF S!argument

\* concat() of a String: the sum, or the String as it was.
LEMMA ConcatHolds ==
  ASSUME NEW x, NEW v, Holds(x, v), S!fits(x), NEW a, NEW t, Holds(a, t), NEW ok \in BOOLEAN
  PROVE  IF t = <<>> \/ (S!asks(x, x.len + Len(t)) /\ ~ok) THEN S!concat(x, a, ok) = x
         ELSE Holds(S!concat(x, a, ok), v \o t)
<1> DEFINE n == x.len + Len(t)
           r == S!reserve(x, n)
           y == S!concat(x, a, ok)
<1>0. /\ t \in Seq(Letters) /\ a.len = Len(t) /\ Len(t) \in Nat /\ S!Value(a) = t
      /\ (a.buf = <<>> => t = <<>>) /\ (Len(t) = 0 <=> t = <<>>)
  <2>1. t \in Seq(Letters) /\ a.len = Len(t) /\ Len(t) \in Nat /\ (a.buf = <<>> => t = <<>>)
    BY HeldFacts
  <2>2. S!Value(a) = t
    BY ValueIs
  <2>3. Len(t) = 0 <=> t = <<>>
    BY <2>1
  <2> QED BY <2>1, <2>2, <2>3
<1>3. S!concatFails(x, a, ok) \/ a.len = 0 <=> t = <<>> \/ (S!asks(x, n) /\ ~ok)
  <2> HIDE DEF n, r, y
  <2>1. S!concatFails(x, a, ok) <=> a.buf = <<>> \/ (a.len > 0 /\ S!asks(x, x.len + a.len) /\ ~ok)
    BY DEF S!concatFails
  <2> QED BY <1>0, <2>1 DEF n
<1>1. CASE t = <<>> \/ (S!asks(x, x.len + Len(t)) /\ ~ok)
  <2>1. y = x
    BY <1>1, <1>3 DEF S!concat
  <2> QED BY <1>1, <2>1
<1>2. CASE ~(t = <<>> \/ (S!asks(x, x.len + Len(t)) /\ ~ok))
  <2>0. n \in Nat /\ t \in Seq(Chars) /\ x.len = Len(v) /\ v \in Seq(Letters) /\ Len(t) \in Nat /\ Len(v) \in Nat
    BY <1>0, LettersAreChars, HeldFacts
  <2>1. r \in Strings /\ Len(r.buf) = r.cap + 1 /\ Len(v) <= r.cap /\ \A i \in 1 .. Len(v) : r.buf[i] = v[i]
    BY <2>0, Reserved
  <2> HIDE DEF r
  <2> DEFINE b == r.buf
             c == S!terminate(S!memcpy(b, Len(v), t), n)
  <2>2. b \in Seq(Chars) /\ Len(b) \in Nat /\ r.cap \in Nat
    BY <2>1 DEF Strings
  <2>3. y = [r EXCEPT !.len = n, !.buf = c]
    BY <1>0, <1>2, <1>3, <2>0 DEF S!concat, r
  <2>7. Len(v) <= Len(b) /\ \A i \in 1 .. Len(v) : b[i] = v[i]
    BY <2>0, <2>1, <2>2
  <2> HIDE DEF b
  <2>4. Put(c, b, Len(v), t)
    BY <1>0, <2>0, <2>2, PutText
  <2> HIDE DEF c
  <2>5. c \in Seq(Chars)
    BY <2>4 DEF Put
  <2>6. y \in Strings /\ y.buf = c /\ y.len = Len(v) + Len(t)
    BY <2>0, <2>1, <2>3, <2>5 DEF Strings
  <2>8. Holds(y, SubSeq(v, 1, Len(v)) \o t)
    <3> HIDE DEF y
    <3>1. /\ y \in Strings /\ v \in Seq(Letters) /\ b \in Seq(Chars) /\ t \in Seq(Letters)
          /\ Len(v) \in Nat /\ Len(v) <= Len(v) /\ Len(v) <= Len(b) /\ y.len = Len(v) + Len(t)
      BY <1>0, <2>0, <2>2, <2>6, <2>7
    <3>2. Put(y.buf, b, Len(v), t)
      BY <2>4, <2>6
    <3> QED BY <2>7, <3>1, <3>2, HoldsPut
  <2>9. SubSeq(v, 1, Len(v)) = v
    BY <2>0
  <2>10. Holds(y, v \o t)
    BY <2>8, <2>9
  <2> QED BY <1>2, <2>10
<1> QED BY <1>1, <1>2

\* A part of the buffer within the text is that part of the text.
LEMMA TailOf ==
  ASSUME NEW x, NEW v, Holds(x, v), NEW a \in Nat, NEW z \in Nat, 1 <= a, a <= z + 1, z <= Len(v)
  PROVE  /\ SubSeq(x.buf, a, z) = SubSeq(v, a, z) /\ SubSeq(v, a, z) \in Seq(Letters)
         /\ Len(SubSeq(v, a, z)) = z + 1 - a
         /\ \A i \in 1 .. z + 1 - a : SubSeq(v, a, z)[i] = v[a + i - 1]
<1> DEFINE b == x.buf
           l == SubSeq(b, a, z)
           r == SubSeq(v, a, z)
<1>1. /\ b \in Seq(Chars) /\ v \in Seq(Letters) /\ v \in Seq(Chars) /\ Len(v) \in Nat /\ Len(b) \in Nat
      /\ Len(v) <= Len(b) /\ \A i \in 1 .. Len(v) : b[i] = v[i]
  BY HeldFacts
<1> HIDE DEF b
<1>2. r \in Seq(Letters) /\ Len(r) = z + 1 - a /\ \A i \in 1 .. z + 1 - a : r[i] = v[a + i - 1]
  BY <1>1, Piece
<1>3. z <= Len(b)
  BY <1>1
<1>4. l \in Seq(Chars) /\ Len(l) = z + 1 - a /\ \A i \in 1 .. z + 1 - a : l[i] = b[a + i - 1]
  BY <1>1, <1>3, Piece
<1>5. r \in Seq(Chars)
  BY <1>2, LettersAreChars
<1> HIDE DEF l, r
<1>6. \A i \in 1 .. z + 1 - a : a + i - 1 \in 1 .. Len(v)
  BY <1>1
<1>7. l = r
  BY <1>1, <1>2, <1>4, <1>5, <1>6, SameSeq
<1> QED BY <1>2, <1>7 DEF l, r, b

\* substring(): the part between the two offsets, in either order.
LEMMA SubstringHolds ==
  ASSUME NEW x, NEW v, Holds(x, v), NEW left \in Nat, NEW right \in Nat, NEW made \in BOOLEAN, NEW ok \in BOOLEAN
  PROVE  LET l == IF left <= right THEN left ELSE right
             g == IF left <= right THEN right ELSE left
             r == IF g <= Len(v) THEN g ELSE Len(v) IN
         /\ l < Len(v) => \/ Holds(S!substring(x, left, right, made, ok), SubSeq(v, l + 1, r))
                          \/ ~ok /\ S!substring(x, left, right, made, ok) = S!Null
         /\ l >= Len(v) => Holds(S!substring(x, left, right, made, ok), << >>)
<1> DEFINE l == IF left <= right THEN left ELSE right
           g == IF left <= right THEN right ELSE left
           r == IF g <= Len(v) THEN g ELSE Len(v)
           blank == S!argument(<<>>, made)
           y == S!substring(x, left, right, made, ok)
           t == SubSeq(v, l + 1, r)
<1>1. x.len = Len(v) /\ Len(v) \in Nat
  BY HeldFacts
<1>2. l \in Nat /\ g \in Nat /\ l <= g /\ r \in Nat
  BY <1>1
<1>3. S!Min({left, right}) = l /\ S!Max({left, right}) = g
  BY MaxOfTwo
<1>4. S!Min({g, x.len}) = r
  <2>1. Len(v) \in Int /\ g \in Int
    BY <1>1, <1>2
  <2> HIDE DEF g
  <2>2. S!Min({g, Len(v)}) = r
    BY <2>1, MaxOfTwo
  <2> QED BY <1>1, <2>2
<1>8. Holds(blank, << >>) /\ S!fits(blank)
  <2>1. << >> \in Seq(Letters)
    OBVIOUS
  <2> QED BY <2>1, ArgumentHolds
<1> HIDE DEF blank
<1>5. y = IF l >= x.len THEN blank ELSE S!copy(blank, SubSeq(x.buf, l + 1, r), ok)
  <2> HIDE DEF l, g, r
  <2> QED BY <1>3, <1>4 DEF S!substring, blank
<1>6. l >= Len(v) => Holds(y, << >>)
  BY <1>1, <1>5, <1>8
<1>7. ASSUME l < Len(v) PROVE Holds(y, t) \/ (~ok /\ y = S!Null)
  <2>1. 1 <= l + 1 /\ l + 1 <= r + 1 /\ r <= Len(v) /\ l + 1 \in Nat
    BY <1>1, <1>2, <1>7
  <2> HIDE DEF l, r
  <2>2. SubSeq(x.buf, l + 1, r) = t /\ t \in Seq(Letters)
    <3> DEFINE i == l + 1
    <3>1. i \in Nat /\ r \in Nat /\ 1 <= i /\ i <= r + 1 /\ r <= Len(v)
      BY <1>2, <2>1
    <3> HIDE DEF i
    <3>2. SubSeq(x.buf, i, r) = SubSeq(v, i, r) /\ SubSeq(v, i, r) \in Seq(Letters)
      BY <3>1, TailOf
    <3> QED BY <3>2 DEF i
  <2>3. y = S!copy(blank, t, ok)
    <3>1. ~(l >= x.len)
      BY <1>1, <1>2, <1>7
    <3> HIDE DEF t, y
    <3> QED BY <1>5, <2>2, <3>1
  <2> HIDE DEF t, y
  <2>4. /\ S!asks(blank, Len(t)) /\ ~ok => S!copy(blank, t, ok) = S!Null
        /\ ~(S!asks(blank, Len(t)) /\ ~ok) => Holds(S!copy(blank, t, ok), t)
    BY <1>8, <2>2, CopyHolds
  <2> QED BY <2>3, <2>4
<1> HIDE DEF y
<1> QED BY <1>6, <1>7 DEF t, y

\* remove(): the text without the count characters from k.
LEMMA RemovedHolds ==
  ASSUME NEW x, NEW v, Holds(x, v), NEW k \in Nat, NEW n \in Nat
  PROVE  LET c == IF n <= Len(v) - k THEN n ELSE Len(v) - k IN
         /\ k >= Len(v) \/ n = 0 => S!removed(x, k, n) = x
         /\ k < Len(v) /\ n # 0 => Holds(S!removed(x, k, n), SubSeq(v, 1, k) \o SubSeq(v, k + c + 1, Len(v)))
<1> DEFINE c == IF n <= Len(v) - k THEN n ELSE Len(v) - k
           y == S!removed(x, k, n)
           b == x.buf
           t == SubSeq(v, k + c + 1, Len(v))
<1>1. /\ x \in Strings /\ b \in Seq(Chars) /\ v \in Seq(Letters) /\ Len(v) \in Nat /\ Len(b) \in Nat /\ x.len = Len(v)
      /\ Len(v) <= Len(b) /\ \A i \in 1 .. Len(v) : b[i] = v[i]
  BY HeldFacts
<1>2. S!Min({n, x.len - k}) = c
  <2>1. n \in Int /\ Len(v) - k \in Int
    BY <1>1
  <2>2. S!Min({n, Len(v) - k}) = c
    BY <2>1, MaxOfTwo
  <2> QED BY <1>1, <2>2
<1> HIDE DEF b
<1>3. y = IF k >= Len(v) \/ n = 0 THEN x
          ELSE [x EXCEPT !.len = Len(v) - c,
                         !.buf = S!terminate(S!memcpy(x.buf, k, SubSeq(x.buf, k + c + 1, Len(v))), Len(v) - c)]
  <2> HIDE DEF c
  <2> QED BY <1>1, <1>2 DEF S!removed
<1>4. ASSUME k < Len(v), n # 0 PROVE Holds(y, SubSeq(v, 1, k) \o t)
  <2>1. c \in Nat /\ k + c + 1 \in Nat /\ 1 <= k + c + 1 /\ k + c + 1 <= Len(v) + 1
    BY <1>1, <1>4
  <2> HIDE DEF c
  <2> DEFINE a == k + c + 1
  <2>11. a \in Nat /\ 1 <= a /\ a <= Len(v) + 1 /\ Len(v) <= Len(v)
    BY <1>1, <2>1
  <2>12. t = SubSeq(v, a, Len(v))
    OBVIOUS
  <2> HIDE DEF t, a
  <2>2. /\ SubSeq(x.buf, a, Len(v)) = t /\ t \in Seq(Letters)
        /\ Len(t) = Len(v) + 1 - a
    <3> HIDE DEF y
    <3>1. /\ SubSeq(x.buf, a, Len(v)) = SubSeq(v, a, Len(v)) /\ SubSeq(v, a, Len(v)) \in Seq(Letters)
          /\ Len(SubSeq(v, a, Len(v))) = Len(v) + 1 - a
      <4>1. Len(v) \in Nat
        BY <1>1
      <4> QED BY <4>1, <2>11, TailOf
    <3> QED BY <3>1, <2>12
  <2>3. Len(t) \in Nat /\ Len(v) - c = k + Len(t)
    BY <1>1, <2>1, <2>2, <2>11 DEF a
  <2> DEFINE m == S!terminate(S!memcpy(b, k, t), k + Len(t))
  <2>4. y = [x EXCEPT !.len = k + Len(t), !.buf = m]
    <3>1. ~(k >= Len(v) \/ n = 0)
      BY <1>1, <1>4
    <3>2. m = S!terminate(S!memcpy(x.buf, k, SubSeq(x.buf, k + c + 1, Len(v))), Len(v) - c)
      BY <2>2, <2>3 DEF b, a
    <3> HIDE DEF m, y
    <3> QED BY <1>3, <2>3, <3>1, <3>2
  <2>5. Put(m, b, k, t)
    BY <1>1, <2>2, PutText
  <2> HIDE DEF m
  <2>6. m \in Seq(Chars)
    BY <2>5 DEF Put
  <2> HIDE DEF y
  <2>7. y \in Strings /\ y.buf = m /\ y.len = k + Len(t)
    <3> DEFINE e == k + Len(t)
    <3>1. e \in Nat
      BY <2>3
    <3> HIDE DEF e
    <3>2. y = [x EXCEPT !.len = e, !.buf = m]
      BY <2>4 DEF e
    <3>3. y \in Strings /\ y.buf = m /\ y.len = e
      <4>1. x \in Strings
        BY <1>1
      <4> QED BY <4>1, <2>6, <3>1, <3>2 DEF Strings
    <3> QED BY <3>3 DEF e
  <2>8. k <= Len(v) /\ k <= Len(b) /\ \A i \in 1 .. k : b[i] = v[i]
    BY <1>1, <1>4
  <2> QED BY <1>1, <2>2, <2>5, <2>7, <2>8, HoldsPut
<1> HIDE DEF c
<1>5. k >= Len(v) \/ n = 0 => y = x
  BY <1>3
<1> QED BY <1>4, <1>5 DEF c

\* The same of a buffer by itself.
LEMMA SameTail ==
  ASSUME NEW b \in Seq(Chars), NEW v \in Seq(Letters), Ended(b, v),
         NEW a \in Nat, NEW z \in Nat, 1 <= a, a <= z + 1, z <= Len(v)
  PROVE  SubSeq(b, a, z) = SubSeq(v, a, z)
<1> DEFINE l == SubSeq(b, a, z)
           r == SubSeq(v, a, z)
<1>1. /\ v \in Seq(Chars) /\ Len(v) \in Nat /\ Len(b) \in Nat
      /\ Len(v) <= Len(b) /\ \A i \in 1 .. Len(v) : b[i] = v[i]
  BY LettersAreChars DEF Ended
<1>2. r \in Seq(Chars) /\ Len(r) = z + 1 - a /\ \A i \in 1 .. z + 1 - a : r[i] = v[a + i - 1]
  BY <1>1, Piece
<1>3. z <= Len(b)
  BY <1>1
<1>4. l \in Seq(Chars) /\ Len(l) = z + 1 - a /\ \A i \in 1 .. z + 1 - a : l[i] = b[a + i - 1]
  BY <1>1, <1>3, Piece
<1> HIDE DEF l, r
<1>6. \A i \in 1 .. z + 1 - a : a + i - 1 \in 1 .. Len(v)
  BY <1>1
<1>7. l = r
  BY <1>1, <1>2, <1>4, <1>6, SameSeq
<1> QED BY <1>7 DEF l, r

\* strlen() from k finds the terminator of the text.
LEMMA Strlen ==
  ASSUME NEW b \in Seq(Chars), NEW v \in Seq(Letters), Ended(b, v), NEW k \in Nat, k <= Len(v)
  PROVE  S!strlen(b, k) = Len(v) - k
<1> DEFINE E == {i \in k .. Len(b) - 1 : b[i + 1] = S!NUL}
           m == Len(v)
<1>1. /\ Len(v) \in Nat /\ Len(b) \in Nat /\ Len(v) + 1 <= Len(b) /\ b[Len(v) + 1] = S!NUL
      /\ \A i \in 1 .. Len(v) : b[i] = v[i] /\ v[i] # S!NUL
  BY LettersAreChars DEF Ended
<1>2. m \in E /\ m \in Int
  BY <1>1
<1>3. ASSUME NEW y \in E PROVE m <= y
  <2>1. y \in Nat /\ k <= y /\ b[y + 1] = S!NUL
    BY <1>1
  <2>2. y < m => y + 1 \in 1 .. Len(v)
    BY <2>1, <1>1
  <2> QED BY <1>1, <2>1, <2>2
<1>4. E \subseteq Int
  OBVIOUS
<1>5. S!Min(E) = m
  <2> HIDE DEF E, m
  <2> QED BY <1>2, <1>3, <1>4, MinIs
<1> QED BY <1>5 DEF S!strlen

\* r is the first place from k where t occurs in v, or -1.
First(r, v, t, k) ==
  \/ r = -1 /\ \A i \in Nat : k <= i => ~S!occursAt(v, t, i)
  \/ r \in Nat /\ k <= r /\ S!occursAt(v, t, r) /\ \A i \in Nat : k <= i /\ i < r => ~S!occursAt(v, t, i)

\* strstr() finds the first occurrence in the text, never one behind its end.
LEMMA Strstr ==
  ASSUME NEW b \in Seq(Chars), NEW v \in Seq(Letters), Ended(b, v), NEW k \in Nat, k <= Len(v),
         NEW t \in Seq(Letters)
  PROVE  First(S!strstr(b, k, t), v, t, k)
<1> DEFINE n == Len(t)
           E == {i \in k .. Len(v) - n : SubSeq(b, i + 1, i + n) = t}
           r == S!strstr(b, k, t)
<1>1. Len(v) \in Nat /\ n \in Nat
  OBVIOUS
<1>2. k + S!strlen(b, k) = Len(v)
  <2>1. S!strlen(b, k) = Len(v) - k
    BY Strlen
  <2> QED BY <1>1, <2>1
<1>3. r = IF E = {} THEN -1 ELSE S!Min(E)
  BY <1>2 DEF S!strstr
<1>4. ASSUME NEW i \in Nat, k <= i
      PROVE  i \in E <=> S!occursAt(v, t, i)
  <2>1. CASE i + n <= Len(v)
    <3>1. i + 1 \in Nat /\ i + n \in Nat /\ 1 <= i + 1 /\ i + 1 <= (i + n) + 1
      BY <1>1
    <3>2. SubSeq(b, i + 1, i + n) = SubSeq(v, i + 1, i + n)
      BY <2>1, <3>1, SameTail
    <3>3. i \in k .. Len(v) - n
      BY <1>1, <1>4, <2>1
    <3> QED BY <2>1, <3>2, <3>3 DEF S!occursAt
  <2>2. CASE ~(i + n <= Len(v))
    <3>1. i \notin k .. Len(v) - n
      BY <1>1, <2>2
    <3> QED BY <2>2, <3>1 DEF S!occursAt
  <2> QED BY <2>1, <2>2
<1>5. \A i \in E : i \in Nat /\ k <= i
  BY <1>1
<1> HIDE DEF E
<1>6. CASE E = {}
  BY <1>3, <1>4, <1>6 DEF First
<1>7. CASE E # {}
  <2>1. PICK m \in E : \A y \in E : m <= y
    <3>1. E \in SUBSET Nat
      BY <1>5
    <3> QED BY <1>7, <3>1, LeastNumber
  <2>2. S!Min(E) = m
    <3>1. m \in Int /\ E \subseteq Int
      BY <1>5, <2>1
    <3> QED BY <2>1, <3>1, MinIs
  <2>3. r = m /\ m \in Nat /\ k <= m
    BY <1>3, <1>5, <1>7, <2>1, <2>2
  <2>4. S!occursAt(v, t, m)
    BY <1>4, <2>1, <2>3
  <2>5. ASSUME NEW i \in Nat, k <= i, i < m PROVE ~S!occursAt(v, t, i)
    <3>1. i \notin E
      BY <2>1, <2>3, <2>5
    <3> QED BY <1>4, <2>5, <3>1
  <2> HIDE DEF r
  <2> QED BY <2>3, <2>4, <2>5 DEF First, r
<1> QED BY <1>6, <1>7

\* An occurrence, character by character.
LEMMA OccursIn ==
  ASSUME NEW v \in Seq(Letters), NEW t \in Seq(Letters), NEW i \in Nat
  PROVE  /\ S!occursAt(v, t, i) <=> i + Len(t) <= Len(v) /\ \A j \in 1 .. Len(t) : v[i + j] = t[j]
         /\ S!occursAt(v, t, i) => i \in 0 .. Len(v)
         /\ i \in S!places(v, t) <=> S!occursAt(v, t, i)
<1>1. Len(v) \in Nat /\ Len(t) \in Nat
  OBVIOUS
<1>2. S!occursAt(v, t, i) <=> i + Len(t) <= Len(v) /\ \A j \in 1 .. Len(t) : v[i + j] = t[j]
  <2>1. CASE i + Len(t) <= Len(v)
    <3> DEFINE p == SubSeq(v, i + 1, i + Len(t))
    <3>1. p \in Seq(Letters) /\ Len(p) = Len(t) /\ \A j \in 1 .. Len(t) : p[j] = v[i + j]
      <4>1. i + 1 \in Nat /\ i + Len(t) \in Nat /\ 1 <= i + 1 /\ i + 1 <= (i + Len(t)) + 1
        BY <1>1
      <4>2. p \in Seq(Letters) /\ Len(p) = (i + Len(t)) + 1 - (i + 1)
            /\ \A j \in 1 .. (i + Len(t)) + 1 - (i + 1) : p[j] = v[(i + 1) + j - 1]
        BY <2>1, <4>1, Piece
      <4>3. (i + Len(t)) + 1 - (i + 1) = Len(t) /\ \A j \in 1 .. Len(t) : (i + 1) + j - 1 = i + j
        BY <1>1
      <4> HIDE DEF p
      <4> QED BY <4>2, <4>3
    <3>2. S!occursAt(v, t, i) <=> p = t
      BY <2>1 DEF S!occursAt
    <3> HIDE DEF p
    <3>3. p = t <=> \A j \in 1 .. Len(t) : v[i + j] = t[j]
      BY <3>1, SameSeq
    <3> QED BY <2>1, <3>2, <3>3
  <2>2. CASE ~(i + Len(t) <= Len(v))
    BY <2>2 DEF S!occursAt
  <2> QED BY <2>1, <2>2
<1>3. S!occursAt(v, t, i) => i \in 0 .. Len(v)
  BY <1>1, <1>2
<1> QED BY <1>2, <1>3 DEF S!places

\* The rounds of a loop that begins with d0.
Loops(f, d0, G) == \A n \in Nat : f[n] = IF n = 0 THEN d0 ELSE G[f[n - 1]]

\* A loop on a set that each round stays in has rounds.
LEMMA Repeats ==
  ASSUME NEW C, NEW d0 \in C, NEW G \in [C -> C]
  PROVE  \E f \in [Nat -> C] : Loops(f, d0, G)
<1> DEFINE H == [d \in Nat \X C |-> G[d[2]]]
<1>1. \A n \in Nat : \A x \in C : H[<<n + 1, x>>] = G[x]
  OBVIOUS
<1>2. GoesOn(H, C)
  BY <1>1 DEF GoesOn
<1> HIDE DEF H
<1>3. PICK f \in [Nat -> C] : Iterates(f, d0, H)
  BY <1>2, Iteration
<1>4. ASSUME NEW n \in Nat PROVE f[n] = IF n = 0 THEN d0 ELSE G[f[n - 1]]
  <2>1. CASE n = 0
    BY <2>1, <1>3 DEF Iterates
  <2>2. CASE n # 0
    <3>1. n - 1 \in Nat /\ (n - 1) + 1 = n
      BY <2>2
    <3>2. f[(n - 1) + 1] = H[<<(n - 1) + 1, f[n - 1]>>] /\ f[n - 1] \in C
      BY <1>3, <3>1 DEF Iterates
    <3> QED BY <1>1, <2>2, <3>1, <3>2
  <2> QED BY <2>1, <2>2
<1> QED BY <1>4 DEF Loops

\* What is found lies in the text.
LEMMA FirstInside ==
  ASSUME NEW v \in Seq(Letters), NEW t \in Seq(Letters), NEW k \in Nat, NEW r, First(r, v, t, k)
  PROVE  r \in Int /\ (r < 0 <=> r = -1) /\ (~(r < 0) => r \in Nat /\ k <= r /\ r + Len(t) <= Len(v) /\ S!occursAt(v, t, r))
<1>1. CASE r = -1
  BY <1>1
<1>2. CASE r # -1
  <2>1. r \in Nat /\ k <= r /\ S!occursAt(v, t, r)
    BY <1>2 DEF First
  <2>2. r + Len(t) <= Len(v)
    BY <2>1, OccursIn
  <2> QED BY <2>1, <2>2
<1> QED BY <1>1, <1>2

\* r is the last place as far as k where t occurs in v, or -1.
Last(r, v, t, k) ==
  \/ r = -1 /\ \A i \in Nat : i <= k => ~S!occursAt(v, t, i)
  \/ r \in Nat /\ r <= k /\ S!occursAt(v, t, r) /\ \A i \in Nat : r < i /\ i <= k => ~S!occursAt(v, t, i)

\* The rounds of the search from the left.
FoundRounds(x, t, k) ==
  CHOOSE f : f = [n \in Nat |-> IF n = 0 THEN [p |-> 0, found |-> -1] ELSE S!foundNext(x, t, k, f[n - 1])]

\* What was found as far as q.p.
FoundSoFar(v, t, k) ==
  {q \in [p : 0 .. Len(v), found : Int] :
     \/ q.found = -1 /\ \A i \in Nat : i < q.p /\ i <= k => ~S!occursAt(v, t, i)
     \/ /\ q.found \in Nat /\ q.found <= k /\ S!occursAt(v, t, q.found)
        /\ \A i \in Nat : q.found < i /\ i < q.p /\ i <= k => ~S!occursAt(v, t, i)}

\* A round of the search from the left keeps the last place found, and goes on.
LEMMA FoundNext ==
  ASSUME NEW x, NEW v, Holds(x, v), x.buf # <<>>, NEW t \in Seq(Letters), t # <<>>, NEW k \in Nat,
         NEW q \in FoundSoFar(v, t, k)
  PROVE  LET r == S!foundNext(x, t, k, q) IN
         /\ r \in FoundSoFar(v, t, k)
         /\ \/ r.p > q.p
            \/ r = q /\ (q.p > k \/ \A i \in Nat : q.p <= i => ~S!occursAt(v, t, i))
<1> DEFINE r == S!foundNext(x, t, k, q)
           a == S!strstr(x.buf, q.p, t)
<1>1. x.buf \in Seq(Chars) /\ v \in Seq(Letters) /\ Ended(x.buf, v) /\ Len(v) \in Nat
  BY HeldFacts
<1>2. q.p \in Nat /\ q.p <= Len(v) /\ q.found \in Int
  BY <1>1 DEF FoundSoFar
<1>3. First(a, v, t, q.p)
  BY <1>1, <1>2, Strstr
<1>4. Len(t) \in Nat /\ Len(t) > 0
  <2>1. Len(t) \in Nat /\ Len(t) # 0
    OBVIOUS
  <2> QED BY <2>1
<1>5. r = IF q.p > k \/ a < 0 THEN q ELSE [p |-> a + 1, found |-> IF a <= k THEN a ELSE q.found]
  BY DEF S!foundNext
<1> HIDE DEF a
<1>6. /\ a \in Int /\ (a < 0 <=> a = -1)
      /\ ~(a < 0) => a \in Nat /\ q.p <= a /\ a + Len(t) <= Len(v) /\ S!occursAt(v, t, a)
  BY <1>1, <1>2, <1>3, FirstInside
<1> HIDE DEF r
<1>7. CASE q.p > k \/ a < 0
  <2>1. r = q
    BY <1>5, <1>7
  <2>2. a < 0 => \A i \in Nat : q.p <= i => ~S!occursAt(v, t, i)
    BY <1>3, <1>6 DEF First
  <2> QED BY <1>7, <2>1, <2>2 DEF r
<1>8. CASE ~(q.p > k \/ a < 0)
  <2>1. r = [p |-> a + 1, found |-> IF a <= k THEN a ELSE q.found]
    BY <1>5, <1>8
  <2>2. a \in Nat /\ q.p <= a /\ a + 1 <= Len(v) /\ S!occursAt(v, t, a) /\ a # -1
    BY <1>1, <1>4, <1>6, <1>8
  <2>3. r.p = a + 1 /\ r.found = (IF a <= k THEN a ELSE q.found) /\ r \in [p : 0 .. Len(v), found : Int]
    BY <1>1, <1>2, <2>1, <2>2
  <2>4. \A i \in Nat : q.p <= i /\ i < a => ~S!occursAt(v, t, i)
    BY <1>3, <2>2 DEF First
  <2>5. r \in FoundSoFar(v, t, k)
    <3>1. CASE a <= k
      <4>1. r.found = a /\ \A i \in Nat : ~(a < i /\ i < a + 1)
        BY <2>2, <2>3, <3>1
      <4> QED BY <2>2, <2>3, <3>1, <4>1 DEF FoundSoFar
    <3>2. CASE ~(a <= k)
      <4>1. r.found = q.found
        BY <2>3, <3>2
      <4>2. \A i \in Nat : i < r.p /\ i <= k => (i < q.p \/ (q.p <= i /\ i < a))
        BY <1>2, <2>2, <2>3, <3>2
      <4>3. CASE q.found = -1 /\ \A i \in Nat : i < q.p /\ i <= k => ~S!occursAt(v, t, i)
        <5>1. r.found = -1 /\ \A i \in Nat : i < r.p /\ i <= k => ~S!occursAt(v, t, i)
          BY <2>4, <4>1, <4>2, <4>3
        <5> QED BY <2>3, <5>1 DEF FoundSoFar
      <4>4. CASE /\ q.found \in Nat /\ q.found <= k /\ S!occursAt(v, t, q.found)
                 /\ \A i \in Nat : q.found < i /\ i < q.p /\ i <= k => ~S!occursAt(v, t, i)
        <5>1. /\ r.found \in Nat /\ r.found <= k /\ S!occursAt(v, t, r.found)
              /\ \A i \in Nat : r.found < i /\ i < r.p /\ i <= k => ~S!occursAt(v, t, i)
          BY <2>4, <4>1, <4>2, <4>4
        <5> QED BY <2>3, <5>1 DEF FoundSoFar
      <4> QED BY <4>3, <4>4 DEF FoundSoFar
    <3> QED BY <3>1, <3>2
  <2>6. r.p > q.p
    BY <1>2, <2>2, <2>3
  <2> QED BY <2>5, <2>6 DEF r
<1> QED BY <1>7, <1>8

\* After as many rounds as there are characters the search is over.
LEMMA LastFound ==
  ASSUME NEW x, NEW v, Holds(x, v), x.buf # <<>>, NEW t \in Seq(Letters), t # <<>>, NEW k \in Nat, k < Len(v)
  PROVE  Last(S!lastFound(x, t, k), v, t, k)
<1> DEFINE C == FoundSoFar(v, t, k)
           d0 == [p |-> 0, found |-> -1]
           G == [q \in C |-> S!foundNext(x, t, k, q)]
           Q(f) == [n \in Nat |-> IF n = 0 THEN d0 ELSE S!foundNext(x, t, k, f[n - 1])]
           f == FoundRounds(x, t, k)
<1>1. v \in Seq(Letters) /\ Len(v) \in Nat /\ x.len = Len(v)
  BY HeldFacts
<1>2. d0 \in C /\ d0.p = 0
  BY <1>1 DEF FoundSoFar
<1> HIDE DEF d0
<1>3. ASSUME NEW q \in C
      PROVE  LET r == S!foundNext(x, t, k, q) IN
             /\ r \in C
             /\ \/ r.p > q.p
                \/ r = q /\ (q.p > k \/ \A i \in Nat : q.p <= i => ~S!occursAt(v, t, i))
  BY FoundNext
<1>4. G \in [C -> C]
  BY <1>3
<1>5. PICK g \in [Nat -> C] : Loops(g, d0, G)
  <2> HIDE DEF G, C
  <2> QED BY <1>2, <1>4, Repeats
<1>6. g = Q(g)
  <2>1. ASSUME NEW n \in Nat PROVE g[n] = IF n = 0 THEN d0 ELSE S!foundNext(x, t, k, g[n - 1])
    <3>1. n # 0 => n - 1 \in Nat
      OBVIOUS
    <3>2. n # 0 => g[n - 1] \in C
      BY <3>1, <1>5
    <3>3. n # 0 => G[g[n - 1]] = S!foundNext(x, t, k, g[n - 1])
      BY <3>2
    <3> HIDE DEF G
    <3> QED BY <1>5, <3>3 DEF Loops
  <2> QED BY <1>5, <2>1
<1>7. f = CHOOSE h : h = Q(h)
  BY DEF FoundRounds, d0
<1>0. \A q \in C : q.p \in Nat
  BY <1>1 DEF FoundSoFar
<1> HIDE DEF Q, f, C
<1>8. f = Q(f)
  BY <1>6, <1>7
<1>9. \A n \in Nat : f[n] = IF n = 0 THEN d0 ELSE S!foundNext(x, t, k, f[n - 1])
  <2>1. \A n \in Nat : Q(f)[n] = IF n = 0 THEN d0 ELSE S!foundNext(x, t, k, f[n - 1])
    BY DEF Q
  <2> QED BY <1>8, <2>1
<1>10. f[0] = d0 /\ \A n \in Nat : f[n + 1] = S!foundNext(x, t, k, f[n])
  <2>1. \A n \in Nat : n + 1 \in Nat /\ n + 1 # 0 /\ (n + 1) - 1 = n
    OBVIOUS
  <2> QED BY <1>9, <2>1
<1> DEFINE Over(n) == f[n].p > k \/ \A i \in Nat : f[n].p <= i => ~S!occursAt(v, t, i)
           T == {n \in Nat : f[n] \in C /\ (n <= f[n].p \/ Over(n))}
<1>11. \A n \in Nat : n \in T
  <2>1. 0 \in T
    <3>1. f[0] \in C /\ f[0].p = 0 /\ 0 <= 0
      BY <1>2, <1>10
    <3> HIDE DEF Over
    <3> QED BY <3>1
  <2>2. ASSUME NEW n \in Nat, n \in T PROVE n + 1 \in T
    <3> DEFINE q == f[n]
               r == f[n + 1]
    <3>1. q \in C /\ (n <= q.p \/ Over(n))
      BY <2>2
    <3>2. r \in C /\ \/ r.p > q.p
                     \/ r = q /\ (q.p > k \/ \A i \in Nat : q.p <= i => ~S!occursAt(v, t, i))
      BY <1>3, <1>10, <3>1
    <3>3. q.p \in Nat /\ r.p \in Nat
      BY <3>1, <3>2, <1>0
    <3>4. CASE r = q /\ (q.p > k \/ \A i \in Nat : q.p <= i => ~S!occursAt(v, t, i))
      BY <3>2, <3>4
    <3>5. CASE r.p > q.p
      <4>1. CASE n <= q.p
        <5>1. n + 1 <= r.p
          BY <3>3, <3>5, <4>1
        <5> QED BY <3>2, <5>1
      <4>2. CASE Over(n)
        <5>1. Over(n + 1)
          <6>1. q.p > k => r.p > k
            BY <3>3, <3>5
          <6>2. \A i \in Nat : r.p <= i => q.p <= i
            BY <3>3, <3>5
          <6> HIDE DEF q, r
          <6>3. q.p > k \/ \A i \in Nat : q.p <= i => ~S!occursAt(v, t, i)
            BY <4>2 DEF q
          <6>4. r.p > k \/ \A i \in Nat : r.p <= i => ~S!occursAt(v, t, i)
            BY <6>1, <6>2, <6>3
          <6> QED BY <6>4 DEF r
        <5> QED BY <3>2, <5>1
      <4> QED BY <3>1, <4>1, <4>2
    <3> QED BY <3>2, <3>4, <3>5
  <2> HIDE DEF T
  <2> QED BY <2>1, <2>2, Induction
<1> DEFINE e == f[Len(v)]
<1>12. e \in C /\ (Len(v) <= e.p \/ Over(Len(v)))
  BY <1>1, <1>11
<1>13. S!lastFound(x, t, k) = e.found
  BY <1>1 DEF S!lastFound, S!iterate, FoundRounds, f
<1>14. e.p > k \/ \A i \in Nat : e.p <= i => ~S!occursAt(v, t, i)
  <2>1. e.p \in Nat
    BY <1>0, <1>12
  <2> QED BY <1>1, <1>12, <2>1, SMTT(40)
<1> HIDE DEF e
<1>15. e.p \in Nat /\ \A i \in Nat : i <= k => i < e.p \/ e.p <= i
  BY <1>1, <1>12 DEF C, FoundSoFar
<1>16. \A i \in Nat : i <= k /\ ~(i < e.p) => ~S!occursAt(v, t, i)
  BY <1>14, <1>15
<1>17. CASE e.found = -1 /\ \A i \in Nat : i < e.p /\ i <= k => ~S!occursAt(v, t, i)
  <2>1. \A i \in Nat : i <= k => ~S!occursAt(v, t, i)
    BY <1>16, <1>17
  <2> QED BY <1>13, <1>17, <2>1 DEF Last
<1>18. CASE /\ e.found \in Nat /\ e.found <= k /\ S!occursAt(v, t, e.found)
            /\ \A i \in Nat : e.found < i /\ i < e.p /\ i <= k => ~S!occursAt(v, t, i)
  <2>1. \A i \in Nat : e.found < i /\ i <= k => ~S!occursAt(v, t, i)
    BY <1>16, <1>18
  <2> QED BY <1>13, <1>18, <2>1 DEF Last
<1> QED BY <1>12, <1>17, <1>18 DEF C, FoundSoFar

\* lastIndexOf() finds the last occurrence as far as k.
LEMMA LastIndexOf ==
  ASSUME NEW x, NEW v, Holds(x, v), NEW t \in Seq(Letters), t # <<>>, NEW k \in Nat
  PROVE  Last(S!lastIndexOf(x, t, k), v, t, k)
<1> DEFINE r == S!lastIndexOf(x, t, k)
           e == IF k >= Len(v) THEN Len(v) - 1 ELSE k
<1>1. v \in Seq(Letters) /\ Len(v) \in Nat /\ x.len = Len(v) /\ (x.buf = <<>> => Len(v) = 0)
  BY HeldFacts
<1>2. Len(t) \in Nat /\ Len(t) > 0
  <2>1. Len(t) \in Nat /\ Len(t) # 0
    OBVIOUS
  <2> QED BY <2>1
<1>3. \A i \in Nat : S!occursAt(v, t, i) => i + Len(t) <= Len(v)
  BY <1>1, OccursIn
<1>4. CASE Len(v) = 0 \/ Len(t) > Len(v)
  <2>1. r = -1
    BY <1>1, <1>4 DEF S!lastIndexOf
  <2>2. \A i \in Nat : ~(i + Len(t) <= Len(v))
    BY <1>1, <1>2, <1>4
  <2> QED BY <1>3, <2>1, <2>2 DEF Last
<1>5. CASE ~(Len(v) = 0 \/ Len(t) > Len(v))
  <2>1. r = S!lastFound(x, t, e)
    BY <1>1, <1>5 DEF S!lastIndexOf
  <2>2. e \in Nat /\ e < Len(v) /\ e <= k
    BY <1>1, <1>5
  <2>3. x.buf # <<>>
    BY <1>1, <1>5
  <2>4. \A i \in Nat : i <= k /\ S!occursAt(v, t, i) => i <= e
    <3>1. \A i \in Nat : i <= k /\ i + Len(t) <= Len(v) => i <= e
      BY <1>1, <1>2, <1>5
    <3> QED BY <1>3, <3>1
  <2> HIDE DEF e
  <2>5. Last(r, v, t, e)
    BY <2>1, <2>2, <2>3, LastFound
  <2> HIDE DEF r
  <2>6. CASE r = -1 /\ \A i \in Nat : i <= e => ~S!occursAt(v, t, i)
    BY <2>4, <2>6 DEF Last, r
  <2>7. CASE r \in Nat /\ r <= e /\ S!occursAt(v, t, r) /\ \A i \in Nat : r < i /\ i <= e => ~S!occursAt(v, t, i)
    <3>1. r <= k
      BY <2>2, <2>7
    <3>2. \A i \in Nat : r < i /\ i <= k => ~S!occursAt(v, t, i)
      BY <2>4, <2>7
    <3> QED BY <2>7, <3>1, <3>2 DEF Last, r
  <2> QED BY <2>5, <2>6, <2>7 DEF Last
<1> QED BY <1>4, <1>5

\* The first place is the least one from k,
LEMMA FirstIsMin ==
  ASSUME NEW v \in Seq(Letters), NEW t \in Seq(Letters), NEW k \in Nat, NEW r, First(r, v, t, k)
  PROVE  LET E == {i \in S!places(v, t) : i >= k} IN r = IF E = {} THEN -1 ELSE S!Min(E)
<1> DEFINE E == {i \in S!places(v, t) : i >= k}
<1>1. \A i \in E : i \in Nat /\ k <= i /\ S!occursAt(v, t, i)
  BY DEF S!places
<1>2. \A i \in Nat : k <= i /\ S!occursAt(v, t, i) => i \in E
  BY OccursIn
<1> HIDE DEF E
<1>3. CASE r = -1 /\ \A i \in Nat : k <= i => ~S!occursAt(v, t, i)
  <2>1. E = {}
    BY <1>1, <1>3
  <2> QED BY <1>3, <2>1 DEF E
<1>4. CASE r \in Nat /\ k <= r /\ S!occursAt(v, t, r) /\ \A i \in Nat : k <= i /\ i < r => ~S!occursAt(v, t, i)
  <2>1. r \in E /\ r \in Int /\ E \subseteq Int
    BY <1>1, <1>2, <1>4
  <2>2. \A y \in E : r <= y
    BY <1>1, <1>4
  <2>3. S!Min(E) = r /\ E # {}
    BY <2>1, <2>2, MinIs
  <2> QED BY <2>3 DEF E
<1> QED BY <1>3, <1>4 DEF First

\* and the last place the greatest one as far as k.
LEMMA LastIsMax ==
  ASSUME NEW v \in Seq(Letters), NEW t \in Seq(Letters), NEW k \in Nat, NEW r, Last(r, v, t, k)
  PROVE  LET E == {i \in S!places(v, t) : i <= k} IN r = IF E = {} THEN -1 ELSE S!Max(E)
<1> DEFINE E == {i \in S!places(v, t) : i <= k}
<1>1. \A i \in E : i \in Nat /\ i <= k /\ S!occursAt(v, t, i)
  BY DEF S!places
<1>2. \A i \in Nat : i <= k /\ S!occursAt(v, t, i) => i \in E
  BY OccursIn
<1> HIDE DEF E
<1>3. CASE r = -1 /\ \A i \in Nat : i <= k => ~S!occursAt(v, t, i)
  <2>1. E = {}
    BY <1>1, <1>3
  <2> QED BY <1>3, <2>1 DEF E
<1>4. CASE r \in Nat /\ r <= k /\ S!occursAt(v, t, r) /\ \A i \in Nat : r < i /\ i <= k => ~S!occursAt(v, t, i)
  <2>1. r \in E /\ r \in Int /\ E \subseteq Int
    BY <1>1, <1>2, <1>4
  <2>2. \A y \in E : r >= y
    BY <1>1, <1>4
  <2>3. S!Max(E) = r /\ E # {}
    BY <2>1, <2>2, MaxIs
  <2> QED BY <2>3 DEF E
<1> QED BY <1>3, <1>4 DEF Last

\* indexOf() agrees with the places of the text.
LEMMA IndexOf ==
  ASSUME NEW x, NEW v, Holds(x, v), NEW a, NEW t \in Seq(Letters), S!Value(a) = t, NEW k \in 0 .. Len(v)
  PROVE  LET E == {i \in S!places(v, t) : i >= k} IN
         S!indexOf(x, a, k) = IF k = x.len \/ E = {} THEN -1 ELSE S!Min(E)
<1> DEFINE E == {i \in S!places(v, t) : i >= k}
           r == S!strstr(x.buf, k, t)
<1>1. /\ x.buf \in Seq(Chars) /\ v \in Seq(Letters) /\ Len(v) \in Nat /\ x.len = Len(v) /\ k \in Nat /\ k <= Len(v)
      /\ (x.buf = <<>> => Len(v) = 0) /\ (x.buf # <<>> => Ended(x.buf, v))
  BY HeldFacts
<1>2. CASE k = x.len
  BY <1>1, <1>2 DEF S!indexOf
<1>3. CASE k # x.len
  <2>1. ~(k >= x.len) /\ x.buf # <<>>
    BY <1>1, <1>3
  <2>2. First(r, v, t, k)
    BY <1>1, <2>1, Strstr
  <2>3. S!indexOf(x, a, k) = r
    BY <2>1 DEF S!indexOf
  <2>4. r = IF E = {} THEN -1 ELSE S!Min(E)
    <3> HIDE DEF r
    <3> QED BY <1>1, <2>2, FirstIsMin
  <2> QED BY <1>3, <2>3, <2>4
<1> QED BY <1>2, <1>3

\* startsWith() too, also where len - s2.len wraps.
LEMMA StartsWith ==
  ASSUME NEW x, NEW v, Holds(x, v), x.buf # <<>>, NEW a, NEW t, Holds(a, t), a.buf # <<>>, NEW k \in 0 .. Len(v)
  PROVE  S!startsWith(x, a, k) <=> k \in S!places(v, t)
<1> DEFINE n == Len(t)
           b == x.buf
<1>1. /\ b \in Seq(Chars) /\ v \in Seq(Letters) /\ Len(v) \in Nat /\ x.len = Len(v) /\ k \in Nat /\ k <= Len(v)
      /\ Ended(b, v) /\ Len(v) + 1 <= Len(b) /\ b[Len(v) + 1] = S!NUL /\ Len(b) \in Nat
  BY HeldFacts
<1>2. t \in Seq(Letters) /\ n \in Nat /\ a.len = n /\ S!Value(a) = t /\ \A i \in 1 .. n : t[i] # S!NUL
  BY HeldFacts, ValueIs
<1>3. k \in S!places(v, t) <=> k + n <= Len(v) /\ SubSeq(v, k + 1, k + n) = t
  <2>1. k \in S!places(v, t) <=> S!occursAt(v, t, k)
    BY <1>1, <1>2, OccursIn
  <2> QED BY <1>1, <2>1 DEF S!occursAt
<1>4. S!startsWith(x, a, k) <=> /\ Len(v) < n \/ k <= Len(v) - n
                                /\ k + n <= Len(b) /\ SubSeq(b, k + 1, k + n) = t
  BY <1>1, <1>2 DEF S!startsWith
<1> HIDE DEF b
<1>5. CASE k + n <= Len(v)
  <2>1. k + 1 \in Nat /\ k + n \in Nat /\ 1 <= k + 1 /\ k + 1 <= (k + n) + 1
    BY <1>1, <1>2
  <2>2. SubSeq(b, k + 1, k + n) = SubSeq(v, k + 1, k + n)
    BY <1>1, <1>5, <2>1, SameTail
  <2>3. k <= Len(v) - n /\ k + n <= Len(b)
    BY <1>1, <1>2, <1>5
  <2> QED BY <1>3, <1>4, <1>5, <2>2, <2>3
<1>6. CASE ~(k + n <= Len(v))
  <2>1. SUFFICES ASSUME S!startsWith(x, a, k) PROVE FALSE
    BY <1>3, <1>6
  <2>2. k + n <= Len(b) /\ SubSeq(b, k + 1, k + n) = t
    BY <1>4, <2>1
  <2> DEFINE j == Len(v) + 1 - k
             l == SubSeq(b, k + 1, k + n)
  <2>3. j \in 1 .. n /\ (k + 1) + j - 1 = Len(v) + 1
    BY <1>1, <1>2, <1>6
  <2>4. k + 1 \in Nat /\ k + n \in Nat /\ 1 <= k + 1 /\ k + 1 <= (k + n) + 1 /\ (k + n) + 1 - (k + 1) = n
    BY <1>1, <1>2
  <2>5. \A i \in 1 .. (k + n) + 1 - (k + 1) : l[i] = b[(k + 1) + i - 1]
    BY <1>1, <2>2, <2>4, Piece
  <2> HIDE DEF j, l
  <2>6. l[j] = b[Len(v) + 1]
    BY <2>3, <2>4, <2>5
  <2>7. t[j] = S!NUL
    BY <1>1, <2>2, <2>6 DEF l
  <2> QED BY <1>2, <2>3, <2>7
<1> QED BY <1>5, <1>6

\* endsWith() compares the end of the text.
LEMMA EndsWith ==
  ASSUME NEW x, NEW v, Holds(x, v), x.buf # <<>>, NEW a, NEW t, Holds(a, t), a.buf # <<>>
  PROVE  S!endsWith(x, a) <=> x.len - Len(t) \in S!places(v, t)
<1> DEFINE n == Len(t)
           b == x.buf
           k == Len(v) - n
<1>1. /\ b \in Seq(Chars) /\ v \in Seq(Letters) /\ Len(v) \in Nat /\ x.len = Len(v) /\ Ended(b, v)
  BY HeldFacts
<1>2. t \in Seq(Letters) /\ n \in Nat /\ a.len = n /\ S!Value(a) = t
  BY HeldFacts, ValueIs
<1>3. CASE Len(v) >= n
  <2>1. k \in Nat /\ k <= Len(v) /\ k + n = Len(v) /\ k + (Len(v) - k) = Len(v) /\ Len(v) <= Len(v)
    BY <1>1, <1>2, <1>3
  <2>2. S!strlen(b, k) = Len(v) - k
    <3> HIDE DEF b, k
    <3> QED BY <1>1, <2>1, Strlen
  <2>3. S!endsWith(x, a) <=> SubSeq(b, k + 1, Len(v)) = t
    BY <1>1, <1>2, <1>3, <2>1, <2>2 DEF S!endsWith
  <2> HIDE DEF b
  <2>4. SubSeq(b, k + 1, Len(v)) = SubSeq(v, k + 1, Len(v))
    <3>1. k + 1 \in Nat /\ 1 <= k + 1 /\ k + 1 <= Len(v) + 1
      BY <1>1, <2>1
    <3> HIDE DEF k
    <3> QED BY <1>1, <2>1, <3>1, SameTail
  <2>5. k \in S!places(v, t) <=> S!occursAt(v, t, k)
    <3> HIDE DEF k
    <3> QED BY <1>1, <1>2, <2>1, OccursIn
  <2>6. S!occursAt(v, t, k) <=> SubSeq(v, k + 1, Len(v)) = t
    <3>1. k >= 0 /\ k + Len(t) = Len(v) /\ Len(v) <= Len(v)
      BY <1>1, <2>1
    <3> HIDE DEF k
    <3>2. S!occursAt(v, t, k) <=> k >= 0 /\ k + Len(t) <= Len(v) /\ SubSeq(v, k + 1, k + Len(t)) = t
      BY DEF S!occursAt
    <3> QED BY <3>1, <3>2
  <2> QED BY <1>1, <2>3, <2>4, <2>5, <2>6
<1>4. CASE ~(Len(v) >= n)
  <2>1. ~S!endsWith(x, a)
    BY <1>1, <1>2, <1>4 DEF S!endsWith
  <2>2. k \notin 0 .. Len(v)
    BY <1>1, <1>2, <1>4
  <2> HIDE DEF k
  <2>3. k \notin S!places(v, t)
    BY <2>2 DEF S!places
  <2> QED BY <1>1, <2>1, <2>3 DEF k
<1> QED BY <1>3, <1>4

\* equals() compares the texts, also without a buffer.
LEMMA Equals ==
  ASSUME NEW x, NEW v, Holds(x, v), NEW t \in Seq(Letters)
  PROVE  S!equals(x, t) <=> v = t
<1> DEFINE b == x.buf
<1>1. /\ b \in Seq(Chars) /\ v \in Seq(Letters) /\ Len(v) \in Nat /\ x.len = Len(v)
      /\ (b = <<>> => v = <<>> /\ Len(v) = 0) /\ (b # <<>> => Ended(b, v))
  BY HeldFacts
<1>2. CASE b = <<>>
  <2>1. Len(t) = 0 <=> t = <<>>
    OBVIOUS
  <2> QED BY <1>1, <1>2, <2>1 DEF S!equals
<1>3. CASE b # <<>>
  <2>1. S!strlen(b, 0) = Len(v) - 0 /\ SubSeq(b, 1, Len(v)) = SubSeq(v, 1, Len(v)) /\ SubSeq(v, 1, Len(v)) = v
    <3>1. 0 \in Nat /\ 0 <= Len(v) /\ 1 \in Nat /\ 1 <= 1 /\ 1 <= Len(v) + 1 /\ Len(v) <= Len(v)
      BY <1>1
    <3> HIDE DEF b
    <3>2. S!strlen(b, 0) = Len(v) - 0
      BY <1>1, <1>3, <3>1, Strlen
    <3>3. SubSeq(b, 1, Len(v)) = SubSeq(v, 1, Len(v))
      BY <1>1, <1>3, <3>1, SameTail
    <3> QED BY <1>1, <3>2, <3>3
  <2>2. S!strlen(b, 0) = Len(v) /\ SubSeq(b, 1, Len(v)) = v
    BY <1>1, <2>1
  <2>3. S!equals(x, t) <=> Len(v) = Len(t) /\ v = t
    BY <1>1, <1>3, <2>2 DEF S!equals
  <2> QED BY <2>3
<1> QED BY <1>2, <1>3

\* equalsIgnoreCase() compares them in lower case.
LEMMA EqualsIgnoreCase ==
  ASSUME NEW x, NEW v, Holds(x, v), NEW t \in Seq(Letters)
  PROVE  S!equalsIgnoreCase(x, t) <=>
           Len(t) = x.len /\ \A i \in DOMAIN t : S!tolower(t[i]) = S!tolower(v[i])
<1> DEFINE b == x.buf
<1>1. /\ b \in Seq(Chars) /\ v \in Seq(Letters) /\ Len(v) \in Nat /\ x.len = Len(v)
      /\ (b = <<>> => Len(v) = 0) /\ (b # <<>> => Ended(b, v))
      /\ \A i \in 1 .. Len(v) : b[i] = v[i]
  BY HeldFacts
<1>2. DOMAIN t = 1 .. Len(t) /\ Len(t) \in Nat
  OBVIOUS
<1>3. CASE Len(v) > 0
  <2>1. S!strlen(b, 0) = Len(v)
    <3>1. b # <<>> /\ 0 \in Nat /\ 0 <= Len(v)
      BY <1>1, <1>3
    <3> HIDE DEF b
    <3>2. S!strlen(b, 0) = Len(v) - 0
      BY <1>1, <3>1, Strlen
    <3> QED BY <1>1, <3>2
  <2>2. S!equalsIgnoreCase(x, t) <=> Len(v) = Len(t) /\ \A i \in 1 .. Len(v) : S!tolower(b[i]) = S!tolower(t[i])
    BY <1>1, <1>3, <2>1 DEF S!equalsIgnoreCase
  <2> HIDE DEF b
  <2> QED BY <1>1, <1>2, <2>2
<1>4. CASE ~(Len(v) > 0)
  <2>1. Len(v) = 0 /\ 1 .. 0 = {}
    BY <1>1, <1>4
  <2>2. S!equalsIgnoreCase(x, t) <=> Len(t) = 0
    BY <1>1, <2>1 DEF S!equalsIgnoreCase
  <2> QED BY <1>1, <1>2, <2>1, <2>2
<1> QED BY <1>3, <1>4

\* Every search of a String that holds a text agrees with its definition.
LEMMA SearchesHold ==
  ASSUME NEW v, Holds(s, v)
  PROVE  S!SearchesAgree
<1> SUFFICES ASSUME NEW t \in Text, NEW got \in BOOLEAN, NEW k \in 0 .. s.len
             PROVE LET w == S!Value(s)
                       a == S!argument(t, got)
                       both == s.buf # <<>> /\ a.buf # <<>>
                       first == {i \in S!places(w, t) : i >= k}
                       last == {i \in S!places(w, t) : i <= k} IN
                   /\ a.buf # <<>> => S!indexOf(s, a, k) = IF k = s.len \/ first = {} THEN -1 ELSE S!Min(first)
                   /\ t # <<>> => S!lastIndexOf(s, t, k) = IF last = {} THEN -1 ELSE S!Max(last)
                   /\ S!startsWith(s, a, k) <=> both /\ k \in S!places(w, t)
                   /\ S!endsWith(s, a) <=> both /\ s.len - Len(t) \in S!places(w, t)
                   /\ S!equals(s, t) <=> w = t
                   /\ S!equalsIgnoreCase(s, t) <=>
                        Len(t) = s.len /\ \A i \in DOMAIN t : S!tolower(t[i]) = S!tolower(w[i])
  BY DEF S!SearchesAgree
<1>1. S!Value(s) = v
  BY ValueIs
<1>2. t \in Seq(Letters)
  BY TextsAreLetters
<1>3. s.len = Len(v) /\ k \in 0 .. Len(v) /\ k \in Nat /\ v \in Seq(Letters)
  <2>1. s.len = Len(v) /\ Len(v) \in Nat /\ v \in Seq(Letters)
    BY HeldFacts
  <2> QED BY <2>1
<1> DEFINE first == {i \in S!places(v, t) : i >= k}
           last == {i \in S!places(v, t) : i <= k}
           a == S!argument(t, got)
           both == s.buf # <<>> /\ a.buf # <<>>
<1>10. a.buf # <<>> => Holds(a, t) /\ S!Value(a) = t
  <2>1. (got => Holds(a, t)) /\ (~got => a = S!Null)
    BY <1>2, ArgumentHolds
  <2> HIDE DEF a
  <2>2. a.buf # <<>> => Holds(a, t)
    BY <2>1, NothingHeld
  <2> QED BY <2>2, ValueIs
<1> HIDE DEF a
<1>4. a.buf # <<>> => S!indexOf(s, a, k) = IF k = s.len \/ first = {} THEN -1 ELSE S!Min(first)
  <2>1. ASSUME a.buf # <<>> PROVE S!indexOf(s, a, k) = IF k = s.len \/ first = {} THEN -1 ELSE S!Min(first)
    <3>1. S!Value(a) = t /\ t \in Seq(Letters) /\ k \in 0 .. Len(v)
      BY <1>2, <1>3, <1>10, <2>1
    <3> QED BY <3>1, IndexOf
  <2> QED BY <2>1
<1>5. t # <<>> => S!lastIndexOf(s, t, k) = IF last = {} THEN -1 ELSE S!Max(last)
  <2> SUFFICES ASSUME t # <<>> PROVE S!lastIndexOf(s, t, k) = IF last = {} THEN -1 ELSE S!Max(last)
    OBVIOUS
  <2> DEFINE r == S!lastIndexOf(s, t, k)
  <2>1. Last(r, v, t, k)
    BY <1>2, <1>3, LastIndexOf
  <2> HIDE DEF r
  <2>2. r = IF last = {} THEN -1 ELSE S!Max(last)
    BY <1>2, <1>3, <2>1, LastIsMax
  <2> QED BY <2>2 DEF r
<1>6. S!startsWith(s, a, k) <=> both /\ k \in S!places(v, t)
  <2>1. both => (S!startsWith(s, a, k) <=> k \in S!places(v, t))
    BY <1>3, <1>10, StartsWith
  <2>2. ~both => ~S!startsWith(s, a, k)
    BY DEF S!startsWith
  <2> QED BY <2>1, <2>2
<1>7. S!endsWith(s, a) <=> both /\ s.len - Len(t) \in S!places(v, t)
  <2>1. both => (S!endsWith(s, a) <=> s.len - Len(t) \in S!places(v, t))
    BY <1>10, EndsWith
  <2>2. ~both => ~S!endsWith(s, a)
    BY DEF S!endsWith
  <2> QED BY <2>1, <2>2
<1>8. S!equals(s, t) <=> v = t
  BY <1>2, Equals
<1>9. S!equalsIgnoreCase(s, t) <=>
        Len(t) = s.len /\ \A i \in DOMAIN t : S!tolower(t[i]) = S!tolower(v[i])
  BY <1>2, EqualsIgnoreCase
<1> QED BY <1>1, <1>4, <1>5, <1>6, <1>7, <1>8, <1>9 DEF a

\* The characters that the calls and tolower() name are no NUL.
LEMMA Named == {"a", "A", " ", S!Junk} \subseteq Letters
BY DEF Letters, Chars, S!NUL, S!Junk

\* The case of a letter changes to a letter.
LEMMA Cases ==
  ASSUME NEW c \in Letters
  PROVE  S!tolower(c) \in Letters /\ S!toupper(c) \in Letters
<1>1. "a" \in Letters /\ "A" \in Letters
  BY Named
<1> QED BY <1>1 DEF S!tolower, S!toupper

\* One element of a sequence changed.
LEMMA SeqUpdate ==
  ASSUME NEW C, NEW m \in Seq(C), NEW k \in 1 .. Len(m), NEW c \in C
  PROVE  /\ [m EXCEPT ![k] = c] \in Seq(C) /\ Len([m EXCEPT ![k] = c]) = Len(m)
         /\ \A i \in 1 .. Len(m) : [m EXCEPT ![k] = c][i] = IF i = k THEN c ELSE m[i]
<1> DEFINE r == [m EXCEPT ![k] = c]
<1>1. m \in [1 .. Len(m) -> C] /\ Len(m) \in Nat
  OBVIOUS
<1>2. r \in [1 .. Len(m) -> C] /\ \A i \in 1 .. Len(m) : r[i] = IF i = k THEN c ELSE m[i]
  BY <1>1
<1> HIDE DEF r
<1>3. r \in Seq(C) /\ Len(r) = Len(m)
  BY <1>1, <1>2, SeqOf
<1> QED BY <1>2, <1>3 DEF r

\* The text of x with the characters that m gives, within the length of it.
LEMMA EachHolds ==
  ASSUME NEW x, NEW v, Holds(x, v), x.buf # <<>>, NEW w \in Seq(Letters), Len(w) = Len(v), NEW y \in Strings,
         y.len = x.len, Len(y.buf) = Len(x.buf), y.buf[Len(v) + 1] = x.buf[Len(v) + 1],
         \A i \in 1 .. Len(v) : y.buf[i] = w[i]
  PROVE  Holds(y, w)
<1>1. /\ Len(v) \in Nat /\ x.len = Len(v) /\ Len(v) + 1 <= Len(x.buf) /\ x.buf[Len(v) + 1] = S!NUL
      /\ Len(x.buf) \in Nat
  BY HeldFacts
<1>2. y.buf \in Seq(Chars)
  BY DEF Strings
<1>3. y.buf # <<>>
  BY <1>1, <1>2, NotEmpty
<1>4. Ended(y.buf, w)
  BY <1>1 DEF Ended
<1> QED BY <1>1, <1>3, <1>4 DEF Holds

\* setCharAt() within the text.
LEMMA SetCharHolds ==
  ASSUME NEW x, NEW v, Holds(x, v), NEW k \in Nat, k < x.len, NEW c \in Letters
  PROVE  Holds([x EXCEPT !.buf[k + 1] = c], [v EXCEPT ![k + 1] = c])
<1> DEFINE y == [x EXCEPT !.buf[k + 1] = c]
           w == [v EXCEPT ![k + 1] = c]
           b == [x.buf EXCEPT ![k + 1] = c]
<1>1. /\ x \in Strings /\ Len(v) \in Nat /\ x.len = Len(v) /\ Len(x.buf) \in Nat
      /\ v \in Seq(Letters) /\ x.buf \in Seq(Chars) /\ Len(v) <= Len(x.buf)
      /\ \A i \in 1 .. Len(v) : x.buf[i] = v[i]
      /\ (x.buf = <<>> => Len(v) = 0)
  BY HeldFacts
<1>2. c \in Letters /\ c \in Chars
  BY DEF Letters
<1>3. k + 1 \in 1 .. Len(v) /\ k + 1 \in 1 .. Len(x.buf) /\ Len(v) + 1 # k + 1 /\ x.buf # <<>>
  BY <1>1
<1>4. w \in Seq(Letters) /\ Len(w) = Len(v) /\ \A i \in 1 .. Len(v) : w[i] = IF i = k + 1 THEN c ELSE v[i]
  BY <1>1, <1>2, <1>3, SeqUpdate
<1>5. /\ b \in Seq(Chars) /\ Len(b) = Len(x.buf)
      /\ \A i \in 1 .. Len(x.buf) : b[i] = IF i = k + 1 THEN c ELSE x.buf[i]
  <2> DEFINE a == x.buf
             m == [a EXCEPT ![k + 1] = c]
  <2>1. a \in Seq(Chars) /\ k + 1 \in 1 .. Len(a)
    BY <1>1, <1>3
  <2> HIDE DEF a
  <2>2. m \in Seq(Chars) /\ Len(m) = Len(a) /\ \A i \in 1 .. Len(a) : m[i] = IF i = k + 1 THEN c ELSE a[i]
    BY <1>2, <2>1, SeqUpdate
  <2> QED BY <2>2 DEF a
<1>6. y = [x EXCEPT !.buf = b]
  OBVIOUS
<1> HIDE DEF b, y, w
<1>7. y \in Strings /\ y.buf = b /\ y.len = x.len
  BY <1>1, <1>5, <1>6 DEF Strings
<1>8. y.buf[Len(v) + 1] = x.buf[Len(v) + 1]
  <2>1. Len(v) + 1 \in 1 .. Len(x.buf)
    <3>1. Len(v) + 1 <= Len(x.buf)
      BY <1>3, HeldFacts
    <3> QED BY <1>1, <3>1
  <2> QED BY <1>3, <1>5, <1>7, <2>1
<1>9. \A i \in 1 .. Len(v) : y.buf[i] = w[i]
  <2>1. \A i \in 1 .. Len(v) : i \in 1 .. Len(x.buf)
    BY <1>1
  <2> QED BY <1>1, <1>4, <1>5, <1>7, <2>1
<1>10. Len(y.buf) = Len(x.buf)
  BY <1>5, <1>7
<1>11. Holds(y, w)
  BY <1>3, <1>4, <1>7, <1>8, <1>9, <1>10, EachHolds
<1> QED BY <1>11 DEF y, w

\* Changing every character to another letter.
LEMMA MapHolds ==
  ASSUME NEW x, NEW v, Holds(x, v), x.buf # <<>>, NEW h \in [Letters -> Letters], NEW b,
         b = [i \in DOMAIN x.buf |-> IF i <= S!strlen(x.buf, 0) THEN h[x.buf[i]] ELSE x.buf[i]]
  PROVE  \E w : Holds([x EXCEPT !.buf = b], w)
<1> DEFINE a == x.buf
           y == [x EXCEPT !.buf = b]
           w == [i \in 1 .. Len(v) |-> h[v[i]]]
<1>1. /\ x \in Strings /\ Len(v) \in Nat /\ x.len = Len(v) /\ Len(a) \in Nat
      /\ v \in Seq(Letters) /\ a \in Seq(Chars) /\ Len(v) + 1 <= Len(a)
      /\ \A i \in 1 .. Len(v) : a[i] = v[i]
      /\ Ended(a, v)
  BY HeldFacts
<1>2. S!strlen(a, 0) = Len(v)
  <2>1. 0 \in Nat /\ 0 <= Len(v)
    BY <1>1
  <2> HIDE DEF a
  <2>2. S!strlen(a, 0) = Len(v) - 0
    BY <1>1, <2>1, Strlen
  <2> QED BY <1>1, <2>2
<1>3. DOMAIN a = 1 .. Len(a)
  BY <1>1
<1>4. b = [i \in 1 .. Len(a) |-> IF i <= Len(v) THEN h[a[i]] ELSE a[i]]
  <2>1. b = [i \in DOMAIN a |-> IF i <= S!strlen(a, 0) THEN h[a[i]] ELSE a[i]]
    OBVIOUS
  <2> QED BY <1>2, <1>3, <2>1
<1> HIDE DEF a
<1>5. \A i \in 1 .. Len(v) : v[i] \in Letters /\ h[v[i]] \in Letters /\ i \in 1 .. Len(a)
  BY <1>1
<1>6. w \in Seq(Letters) /\ Len(w) = Len(v) /\ \A i \in 1 .. Len(v) : w[i] = h[v[i]]
  <2>1. w \in [1 .. Len(v) -> Letters]
    BY <1>5
  <2> QED BY <1>1, <2>1, SeqOf
<1>7. ASSUME NEW i \in 1 .. Len(a)
      PROVE  b[i] = (IF i <= Len(v) THEN h[a[i]] ELSE a[i]) /\ b[i] \in Chars
  <2>1. b[i] = IF i <= Len(v) THEN h[a[i]] ELSE a[i]
    BY <1>4
  <2>2. i <= Len(v) => h[a[i]] \in Chars
    <3>1. i <= Len(v) => i \in 1 .. Len(v)
      BY <1>1
    <3> QED BY <1>1, <1>5, <3>1 DEF Letters
  <2> QED BY <1>1, <2>1, <2>2
<1>8. b \in Seq(Chars) /\ Len(b) = Len(a)
  <2>1. b \in [1 .. Len(a) -> Chars]
    BY <1>4, <1>7
  <2> QED BY <1>1, <2>1, SeqOf, ZenonT(60)
<1> HIDE DEF w
<1>9. y \in Strings /\ y.buf = b /\ y.len = x.len
  BY <1>1, <1>8 DEF Strings
<1> HIDE DEF y
<1>10. b[Len(v) + 1] = a[Len(v) + 1]
  <2>1. Len(v) + 1 \in 1 .. Len(a) /\ ~(Len(v) + 1 <= Len(v))
    BY <1>1
  <2> QED BY <1>7, <2>1
<1>11. ASSUME NEW i \in 1 .. Len(v) PROVE b[i] = w[i]
  <2>1. i \in 1 .. Len(a) /\ i <= Len(v)
    BY <1>1, <1>5
  <2>2. b[i] = h[a[i]] /\ a[i] = v[i] /\ w[i] = h[v[i]]
    BY <1>1, <1>6, <1>7, <2>1
  <2> QED BY <2>2
<1>12. Len(y.buf) = Len(x.buf) /\ y.buf[Len(v) + 1] = x.buf[Len(v) + 1] /\ \A i \in 1 .. Len(v) : y.buf[i] = w[i]
  BY <1>8, <1>9, <1>10, <1>11 DEF a
<1>13. Holds(y, w)
  BY <1>6, <1>9, <1>12, EachHolds, ZenonT(60)
<1> QED BY <1>13 DEF y

\* As far as strlen() says the buffer holds no NUL.
LEMMA LettersIn ==
  ASSUME NEW x, NEW v, Holds(x, v), x.buf # <<>>
  PROVE  \A i \in DOMAIN x.buf : i <= S!strlen(x.buf, 0) => x.buf[i] \in Letters
<1>1. /\ Len(v) \in Nat /\ v \in Seq(Letters) /\ x.buf \in Seq(Chars) /\ Ended(x.buf, v) /\ 0 <= Len(v) /\ 0 \in Nat
      /\ \A i \in 1 .. Len(v) : x.buf[i] = v[i]
  BY HeldFacts
<1>2. S!strlen(x.buf, 0) = Len(v) - 0
  BY <1>1, Strlen
<1>3. DOMAIN x.buf = 1 .. Len(x.buf) /\ Len(x.buf) \in Nat
  BY <1>1
<1>4. ASSUME NEW i \in DOMAIN x.buf, i <= S!strlen(x.buf, 0) PROVE x.buf[i] \in Letters
  <2>1. i \in 1 .. Len(v)
    BY <1>1, <1>2, <1>3, <1>4
  <2> QED BY <1>1, <2>1
<1> QED BY <1>4

\* toLowerCase() and toUpperCase() leave a terminated text,
LEMMA CaseHolds ==
  ASSUME NEW x, NEW v, Holds(x, v)
  PROVE  /\ \E w : Holds(S!eachChar(x, S!tolower), w)
         /\ \E w : Holds(S!eachChar(x, S!toupper), w)
<1>1. CASE x.buf = <<>>
  <2>1. S!eachChar(x, S!tolower) = x /\ S!eachChar(x, S!toupper) = x
    BY <1>1 DEF S!eachChar
  <2> QED BY <2>1
<1>2. CASE x.buf # <<>>
  <2>1. \A i \in DOMAIN x.buf : i <= S!strlen(x.buf, 0) => x.buf[i] \in Letters
    BY <1>2, LettersIn
  <2>2. \E w : Holds(S!eachChar(x, S!tolower), w)
    <3> DEFINE h == [c \in Letters |-> S!tolower(c)]
               b == [i \in DOMAIN x.buf |-> IF i <= S!strlen(x.buf, 0) THEN S!tolower(x.buf[i]) ELSE x.buf[i]]
    <3>1. h \in [Letters -> Letters]
      BY Cases
    <3>2. b = [i \in DOMAIN x.buf |-> IF i <= S!strlen(x.buf, 0) THEN h[x.buf[i]] ELSE x.buf[i]]
      BY <2>1
    <3>3. S!eachChar(x, S!tolower) = [x EXCEPT !.buf = b]
      BY <1>2 DEF S!eachChar
    <3> HIDE DEF h, b
    <3>4. \E w : Holds([x EXCEPT !.buf = b], w)
      BY <1>2, <3>1, <3>2, MapHolds
    <3> QED BY <3>3, <3>4
  <2>3. \E w : Holds(S!eachChar(x, S!toupper), w)
    <3> DEFINE h == [c \in Letters |-> S!toupper(c)]
               b == [i \in DOMAIN x.buf |-> IF i <= S!strlen(x.buf, 0) THEN S!toupper(x.buf[i]) ELSE x.buf[i]]
    <3>1. h \in [Letters -> Letters]
      BY Cases
    <3>2. b = [i \in DOMAIN x.buf |-> IF i <= S!strlen(x.buf, 0) THEN h[x.buf[i]] ELSE x.buf[i]]
      BY <2>1
    <3>3. S!eachChar(x, S!toupper) = [x EXCEPT !.buf = b]
      BY <1>2 DEF S!eachChar
    <3> HIDE DEF h, b
    <3>4. \E w : Holds([x EXCEPT !.buf = b], w)
      BY <1>2, <3>1, <3>2, MapHolds
    <3> QED BY <3>3, <3>4
  <2> QED BY <2>2, <2>3
<1> QED BY <1>1, <1>2

\* What replaceChar() makes of x.
CharReplaced(x, c, d) == S!eachChar(x, LAMBDA y : IF y = c THEN d ELSE y)

\* and so does replace() of a character.
LEMMA ReplaceCharHolds ==
  ASSUME NEW x, NEW v, Holds(x, v), NEW c, NEW d \in Letters
  PROVE  \E w : Holds(CharReplaced(x, c, d), w)
<1> DEFINE h == [y \in Letters |-> IF y = c THEN d ELSE y]
           b == [i \in DOMAIN x.buf |-> IF i <= S!strlen(x.buf, 0) THEN IF x.buf[i] = c THEN d ELSE x.buf[i] ELSE x.buf[i]]
           r == CharReplaced(x, c, d)
<1>1. CASE x.buf = <<>>
  <2>1. r = x
    BY <1>1 DEF CharReplaced, S!eachChar
  <2> QED BY <2>1
<1>2. CASE x.buf # <<>>
  <2>1. \A i \in DOMAIN x.buf : i <= S!strlen(x.buf, 0) => x.buf[i] \in Letters
    BY <1>2, LettersIn
  <2>2. h \in [Letters -> Letters]
    OBVIOUS
  <2>3. b = [i \in DOMAIN x.buf |-> IF i <= S!strlen(x.buf, 0) THEN h[x.buf[i]] ELSE x.buf[i]]
    BY <2>1
  <2>4. r = [x EXCEPT !.buf = b]
    BY <1>2 DEF CharReplaced, S!eachChar
  <2> HIDE DEF h, b
  <2>5. \E w : Holds([x EXCEPT !.buf = b], w)
    BY <1>2, <2>2, <2>3, MapHolds
  <2> QED BY <2>4, <2>5
<1> QED BY <1>1, <1>2

\* trim() keeps what stands between the first and the last character that is no blank.
LEMMA TrimmedHolds ==
  ASSUME NEW x, NEW v, Holds(x, v)
  PROVE  \E i, j \in 0 .. Len(v) :
           LET t == SubSeq(v, i + 1, j) IN
           /\ Holds(S!trimmed(x), t)
           /\ t # <<>> => ~S!isspace(t[1]) /\ ~S!isspace(t[Len(t)])
           /\ \A k \in DOMAIN v : k \in i + 1 .. j \/ S!isspace(v[k])
<1> DEFINE b == x.buf
           B == {i \in 0 .. Len(b) - 1 : ~S!isspace(b[i + 1])}
           f == S!Min(B)
           E == {i \in f .. Len(v) - 1 : ~S!isspace(b[i + 1])}
           l == IF E = {} THEN f - 1 ELSE S!Max(E)
           y == S!trimmed(x)
<1>1. /\ x \in Strings /\ Len(v) \in Nat /\ x.len = Len(v) /\ Len(b) \in Nat
      /\ v \in Seq(Letters) /\ b \in Seq(Chars) /\ Len(v) <= Len(b)
      /\ \A i \in 1 .. Len(v) : b[i] = v[i]
      /\ (b = <<>> => Len(v) = 0)
      /\ (b # <<>> => Len(v) + 1 <= Len(b) /\ b[Len(v) + 1] = S!NUL)
  BY HeldFacts
<1>0. DOMAIN v = 1 .. Len(v)
  BY <1>1
<1>2. CASE Len(v) = 0
  <2>1. y = x
    BY <1>1, <1>2 DEF S!trimmed
  <2>2. SubSeq(v, 0 + 1, 0) = <<>> /\ v = <<>>
    BY <1>1, <1>2
  <2>3. 0 \in 0 .. Len(v) /\ DOMAIN v = {}
    BY <1>0, <1>2
  <2>4. LET t == SubSeq(v, 0 + 1, 0) IN
           /\ Holds(S!trimmed(x), t)
           /\ t # <<>> => ~S!isspace(t[1]) /\ ~S!isspace(t[Len(t)])
           /\ \A k \in DOMAIN v : k \in 0 + 1 .. 0 \/ S!isspace(v[k])
    BY <2>1, <2>2, <2>3
  <2> QED BY <2>3, <2>4
<1>3. CASE Len(v) # 0
  <2>1. y = [x EXCEPT !.len = l + 1 - f, !.buf = S!terminate(S!memcpy(b, 0, SubSeq(b, f + 1, l + 1)), l + 1 - f)]
    BY <1>1, <1>3 DEF S!trimmed
  <2> HIDE DEF y, b
  <2>2. b # <<>> /\ Len(v) \in B
    <3>1. b # <<>>
      BY <1>1, <1>3
    <3>2. ~S!isspace(S!NUL)
      BY DEF S!isspace, S!NUL
    <3> QED BY <1>1, <3>1, <3>2
  <2>3. PICK m \in B : \A k \in B : m <= k
    <3>1. B \in SUBSET Nat /\ B # {}
      BY <1>1, <2>2
    <3> HIDE DEF B
    <3> QED BY <3>1, LeastNumber
  <2>4. f = m
    <3>1. B \subseteq Int /\ m \in Int
      BY <1>1
    <3> HIDE DEF B
    <3> QED BY <2>3, <3>1, MinIs
  <2>5. f \in Nat /\ f <= Len(v) /\ ~S!isspace(b[f + 1]) /\ \A i \in Nat : i < f => i \notin B
    <3>1. m \in Nat /\ ~S!isspace(b[m + 1])
      BY <1>1, <2>3
    <3>2. m <= Len(v)
      BY <2>2, <2>3
    <3>3. \A i \in Nat : i < m => i \notin B
      <4> HIDE DEF B
      <4> QED BY <2>3, <3>1
    <3> HIDE DEF B, f
    <3> QED BY <2>4, <3>1, <3>2, <3>3
  <2>6. \A k \in 1 .. Len(v) : k <= f => S!isspace(v[k])
    <3> SUFFICES ASSUME NEW k \in 1 .. Len(v), k <= f PROVE S!isspace(v[k])
      OBVIOUS
    <3> HIDE DEF f
    <3>1. k - 1 \in Nat /\ k - 1 < f /\ k - 1 \in 0 .. Len(b) - 1 /\ (k - 1) + 1 = k
      BY <1>1, <2>2, <2>5
    <3>2. k - 1 \notin B
      BY <2>5, <3>1
    <3>3. S!isspace(b[k])
      BY <3>1, <3>2
    <3> QED BY <1>1, <3>3
  <2> HIDE DEF B, f
  <2>7. /\ l \in Int /\ f - 1 <= l /\ l < Len(v)
        /\ l >= f => ~S!isspace(v[f + 1]) /\ ~S!isspace(v[l + 1])
        /\ \A k \in 1 .. Len(v) : k > l + 1 => S!isspace(v[k])
    <3>0. \A k \in f .. Len(v) - 1 : k \in E <=> ~S!isspace(v[k + 1])
      <4>1. \A k \in f .. Len(v) - 1 : k + 1 \in 1 .. Len(v)
        BY <1>1, <2>5
      <4>2. \A k \in f .. Len(v) - 1 : b[k + 1] = v[k + 1]
        BY <1>1, <4>1
      <4> QED BY <4>2
    <3>1. \A k \in E : k \in f .. Len(v) - 1
      OBVIOUS
    <3>2. CASE E = {}
      <4>1. l = f - 1
        BY <3>2
      <4>2. f = Len(v)
        <5>1. f < Len(v) => f \in f .. Len(v) - 1 /\ f + 1 \in 1 .. Len(v)
          BY <1>1, <2>5
        <5>2. f < Len(v) => f \in E
          BY <1>1, <2>5, <3>0, <5>1
        <5> HIDE DEF E, l
        <5> QED BY <1>1, <2>5, <3>2, <5>2
      <4>3. l \in Int /\ f - 1 <= l /\ l < Len(v) /\ ~(l >= f) /\ \A k \in 1 .. Len(v) : ~(k > l + 1)
        <5> HIDE DEF E, l
        <5> QED BY <1>1, <2>5, <4>1, <4>2
      <4> HIDE DEF E, l
      <4> QED BY <4>3
    <3>3. CASE E # {}
      <4>1. PICK z \in E : \A k \in E : k <= z
        <5> DEFINE Dist == {d \in Nat : Len(v) - d \in E}
        <5>1. PICK e \in E : TRUE
          BY <3>3
        <5>2. e \in Nat /\ e < Len(v)
          BY <1>1, <2>5, <3>1, <5>1
        <5>3. Len(v) - e \in Dist
          <6>1. Len(v) - e \in Nat /\ Len(v) - (Len(v) - e) = e
            BY <1>1, <5>2
          <6> HIDE DEF E
          <6> QED BY <5>1, <6>1
        <5>4. PICK d \in Dist : \A g \in Dist : d <= g
          <6>1. Dist \in SUBSET Nat /\ Dist # {}
            BY <5>3
          <6> HIDE DEF Dist
          <6> QED BY <6>1, LeastNumber
        <5>5. d \in Nat /\ Len(v) - d \in E
          BY <5>4
        <5>6. ASSUME NEW k \in E PROVE k <= Len(v) - d
          <6>1. k \in Nat /\ k < Len(v)
            BY <1>1, <2>5, <3>1
          <6>2. Len(v) - k \in Nat /\ Len(v) - (Len(v) - k) = k
            BY <1>1, <6>1
          <6> HIDE DEF E
          <6>3. Len(v) - k \in Dist
            BY <6>2, <5>6
          <6>4. d <= Len(v) - k
            BY <5>4, <6>3
          <6> QED BY <1>1, <5>5, <6>1, <6>4
        <5> HIDE DEF E
        <5> QED BY <5>5, <5>6
      <4>2. l = z
        <5>1. E \subseteq Int /\ z \in Int /\ \A k \in E : z >= k
          BY <3>1, <4>1
        <5>2. S!Max(E) = z
          <6> HIDE DEF E
          <6> QED BY <4>1, <5>1, MaxIs
        <5> HIDE DEF E
        <5> QED BY <3>3, <5>2
      <4>3. z \in f .. Len(v) - 1 /\ ~S!isspace(v[z + 1])
        BY <3>0, <3>1, <4>1
      <4>4. ~S!isspace(v[f + 1])
        <5>1. f + 1 \in 1 .. Len(v)
          BY <1>1, <2>5, <4>3
        <5> QED BY <1>1, <2>5, <5>1
      <4>5. ASSUME NEW k \in 1 .. Len(v), k > z + 1 PROVE S!isspace(v[k])
        <5>1. k - 1 \in f .. Len(v) - 1 /\ (k - 1) + 1 = k /\ k - 1 > z
          BY <1>1, <2>5, <4>3, <4>5
        <5> HIDE DEF E
        <5>2. k - 1 \notin E
          BY <4>1, <4>3, <5>1
        <5> QED BY <3>0, <5>1, <5>2
      <4> HIDE DEF E, l
      <4>6. z \in Int /\ f - 1 <= z /\ z < Len(v)
        BY <1>1, <2>5, <4>3
      <4> QED BY <4>2, <4>3, <4>4, <4>5, <4>6
    <3> QED BY <3>2, <3>3
  <2> HIDE DEF l
  <2> DEFINE j == l + 1
             t == SubSeq(v, f + 1, j)
             c == S!terminate(S!memcpy(b, 0, t), Len(t))
  <2>8. j \in Nat /\ f + 1 \in Nat /\ 1 <= f + 1 /\ f + 1 <= j + 1 /\ j <= Len(v)
    BY <1>1, <2>5, <2>7
  <2>9. /\ SubSeq(b, f + 1, j) = t /\ t \in Seq(Letters) /\ Len(t) = j + 1 - (f + 1)
        /\ \A i \in 1 .. j + 1 - (f + 1) : t[i] = v[(f + 1) + i - 1]
    <3> HIDE DEF j, t
    <3>1. /\ SubSeq(x.buf, f + 1, j) = SubSeq(v, f + 1, j) /\ SubSeq(v, f + 1, j) \in Seq(Letters)
          /\ Len(SubSeq(v, f + 1, j)) = j + 1 - (f + 1)
          /\ \A i \in 1 .. j + 1 - (f + 1) : SubSeq(v, f + 1, j)[i] = v[(f + 1) + i - 1]
      <4> DEFINE a == f + 1
      <4>1. a \in Nat /\ j \in Nat /\ 1 <= a /\ a <= j + 1 /\ j <= Len(v)
        BY <2>8
      <4> HIDE DEF a
      <4>2. /\ SubSeq(x.buf, a, j) = SubSeq(v, a, j) /\ SubSeq(v, a, j) \in Seq(Letters)
            /\ Len(SubSeq(v, a, j)) = j + 1 - a
            /\ \A i \in 1 .. j + 1 - a : SubSeq(v, a, j)[i] = v[a + i - 1]
        BY <4>1, TailOf
      <4> QED BY <4>2 DEF a
    <3> QED BY <3>1 DEF b, t
  <2>10. l + 1 - f = j - f /\ Len(t) = j - f /\ Len(t) \in Nat
    <3>1. Len(t) = j - f /\ Len(t) \in Nat
      <4> HIDE DEF j, t
      <4> QED BY <2>5, <2>8, <2>9
    <3>2. l + 1 - f = j - f
      BY <2>5, <2>7
    <3> HIDE DEF t, j
    <3> QED BY <3>1, <3>2
  <2>11. y = [x EXCEPT !.len = Len(t), !.buf = c]
    <3>1. c = S!terminate(S!memcpy(b, 0, SubSeq(b, f + 1, l + 1)), l + 1 - f) /\ l + 1 - f = Len(t)
      BY <2>9, <2>10
    <3> HIDE DEF c, t
    <3> QED BY <2>1, <3>1
  <2> HIDE DEF j, t
  <2>12. Put(c, b, 0, t)
    <3>1. Put(S!terminate(S!memcpy(b, 0, t), 0 + Len(t)), b, 0, t)
      BY <1>1, <2>9, PutText
    <3> QED BY <3>1, <2>10
  <2> HIDE DEF c
  <2>13. c \in Seq(Chars)
    BY <2>12 DEF Put
  <2>14. y \in Strings /\ y.buf = c /\ y.len = 0 + Len(t)
    <3>1. x \in Strings
      BY <1>1
    <3> DEFINE e == Len(t)
    <3>2. e \in Nat /\ 0 + e = e /\ y = [x EXCEPT !.len = e, !.buf = c]
      BY <2>10, <2>11
    <3> HIDE DEF e
    <3>3. y \in Strings /\ y.buf = c /\ y.len = e
      BY <2>13, <3>1, <3>2 DEF Strings
    <3> QED BY <3>2, <3>3 DEF e
  <2>15. Holds(y, t)
    <3>1. 0 \in Nat /\ 0 <= Len(v) /\ 0 <= Len(b) /\ \A i \in 1 .. 0 : b[i] = v[i]
      BY <1>1
    <3>2. Holds(y, SubSeq(v, 1, 0) \o t)
      BY <1>1, <2>9, <2>12, <2>14, <3>1, HoldsPut
    <3>3. SubSeq(v, 1, 0) \o t = t
      BY <1>1, <2>9
    <3> QED BY <3>2, <3>3
  <2>16. t # <<>> => ~S!isspace(t[1]) /\ ~S!isspace(t[Len(t)])
    <3> SUFFICES ASSUME t # <<>> PROVE ~S!isspace(t[1]) /\ ~S!isspace(t[Len(t)])
      OBVIOUS
    <3>1. Len(t) # 0
      BY <2>9
    <3>2. l >= f
      BY <2>5, <2>7, <2>10, <3>1 DEF j
    <3>3. t[1] = v[f + 1] /\ t[Len(t)] = v[l + 1]
      <4>1. /\ 1 \in 1 .. j + 1 - (f + 1) /\ Len(t) \in 1 .. j + 1 - (f + 1)
            /\ (f + 1) + 1 - 1 = f + 1 /\ (f + 1) + Len(t) - 1 = l + 1
        BY <2>5, <2>7, <2>10, <3>1 DEF j
      <4> QED BY <2>9, <4>1
    <3> QED BY <2>7, <3>2, <3>3
  <2>17. \A k \in DOMAIN v : k \in f + 1 .. j \/ S!isspace(v[k])
    <3>1. \A k \in 1 .. Len(v) : k <= f \/ k > l + 1 \/ k \in f + 1 .. j
      BY <1>1, <2>5, <2>7 DEF j
    <3> QED BY <1>0, <2>6, <2>7, <3>1
  <2>18. f \in 0 .. Len(v) /\ j \in 0 .. Len(v)
    BY <1>1, <2>5, <2>8
  <2> QED BY <2>15, <2>16, <2>17, <2>18 DEF t, y
<1> QED BY <1>2, <1>3

------------------------------------------------------------------------------
\* What becomes of v from a place on.
Becomes(v, f, w) ==
  CHOOSE g : g = [i \in 1 .. Len(v) + 1 |->
                    IF i > Len(v) THEN <<>>
                    ELSE IF S!occursAt(v, f, i - 1) THEN w \o g[i + Len(f)] ELSE <<v[i]>> \o g[i + 1]]

\* What is looked for has a length.
LEMMA LengthOf ==
  ASSUME NEW f \in Seq(Letters), f # <<>> PROVE Len(f) \in Nat /\ Len(f) >= 1
<1>1. Len(f) \in Nat /\ Len(f) # 0
  OBVIOUS
<1> QED BY <1>1

\* The recursion of the substitution has a solution, which is text.
LEMMA BecomesStep ==
  ASSUME NEW v \in Seq(Letters), NEW f \in Seq(Letters), f # <<>>, NEW w \in Seq(Letters)
  PROVE  LET g == Becomes(v, f, w) IN
         /\ S!substitute(v, f, w) = g[1]
         /\ g[Len(v) + 1] = <<>>
         /\ \A i \in 0 .. Len(v) : g[i + 1] \in Seq(Letters)
         /\ \A i \in 0 .. Len(v) - 1 :
              g[i + 1] = IF S!occursAt(v, f, i) THEN w \o g[i + Len(f) + 1] ELSE <<v[i + 1]>> \o g[i + 2]
<1> DEFINE L == Len(v)
           Dist == 1 .. L + 1
           SS == Seq(Letters)
           V(n, h) == IF n = 0 \/ n > L THEN <<>>
                      ELSE IF S!occursAt(v, f, L - n) THEN w \o h[n - Len(f)] ELSE <<v[L + 1 - n]>> \o h[n - 1]
           G == [d \in Nat \X UNION {Early(n, SS) : n \in Nat} |-> V(d[1], d[2])]
           Q(g) == [i \in Dist |-> IF i > L THEN <<>>
                                ELSE IF S!occursAt(v, f, i - 1) THEN w \o g[i + Len(f)] ELSE <<v[i]>> \o g[i + 1]]
           g == Becomes(v, f, w)
<1>1. L \in Nat /\ Len(f) \in Nat /\ Len(f) >= 1 /\ \A i \in 1 .. L : v[i] \in Letters
  BY LengthOf
<1>2. \A i \in Nat : S!occursAt(v, f, i) => i + Len(f) <= L
  BY OccursIn
<1> HIDE DEF L
<1>3. << >> \in SS
  OBVIOUS
<1>4. ASSUME NEW n \in Nat, NEW h \in Early(n, SS)
      PROVE  V(n, h) \in SS /\ G[<<n, h>>] = V(n, h)
  <2>1. <<n, h>> \in Nat \X UNION {Early(m, SS) : m \in Nat}
    OBVIOUS
  <2>2. G[<<n, h>>] = V(n, h)
    <3> HIDE DEF V
    <3> QED BY <2>1
  <2>3. CASE n = 0 \/ n > L
    BY <1>3, <2>2, <2>3
  <2>4. CASE ~(n = 0 \/ n > L)
    <3>1. L - n \in Nat /\ L + 1 - n \in 1 .. L /\ n - 1 \in 0 .. n - 1
      BY <1>1, <2>4
    <3>2. CASE S!occursAt(v, f, L - n)
      <4>1. (L - n) + Len(f) <= L
        BY <1>2, <3>1, <3>2
      <4>2. n - Len(f) \in 0 .. n - 1
        BY <1>1, <2>4, <4>1
      <4>3. h[n - Len(f)] \in SS
        BY <4>2 DEF Early
      <4>4. w \o h[n - Len(f)] \in SS
        BY <4>3, Concatenation
      <4>5. V(n, h) = w \o h[n - Len(f)]
        BY <2>4, <3>2
      <4> HIDE DEF V
      <4> QED BY <2>2, <4>4, <4>5
    <3>3. CASE ~S!occursAt(v, f, L - n)
      <4>1. h[n - 1] \in SS
        BY <3>1 DEF Early
      <4>2. <<v[L + 1 - n]>> \in SS
        BY <1>1, <3>1
      <4>3. <<v[L + 1 - n]>> \o h[n - 1] \in SS
        BY <4>1, <4>2, Concatenation
      <4>4. V(n, h) = <<v[L + 1 - n]>> \o h[n - 1]
        BY <2>4, <3>3
      <4> HIDE DEF V
      <4> QED BY <2>2, <4>3, <4>4
    <3> QED BY <3>2, <3>3
  <2> QED BY <2>3, <2>4
<1> HIDE DEF G
<1>5. PICK h \in [Nat -> SS] : Recurs(h, G)
  <2>1. Closed(G, SS)
    <3> HIDE DEF V, SS
    <3> QED BY <1>4 DEF Closed
  <2> HIDE DEF SS
  <2> QED BY <2>1, RecursionExists
<1>6. ASSUME NEW n \in Nat PROVE h[n] = V(n, Prior(h, n)) /\ h[n] \in SS
  <2>1. Prior(h, n) \in Early(n, SS)
    BY <1>5 DEF Prior, Early
  <2>2. h[n] = G[<<n, Prior(h, n)>>]
    BY <1>5 DEF Recurs
  <2> HIDE DEF V
  <2> QED BY <1>4, <1>5, <2>1, <2>2
<1> DEFINE k == [i \in Dist |-> h[L + 1 - i]]
<1>7. ASSUME NEW i \in Dist
      PROVE  /\ k[i] = IF i > L THEN <<>>
                       ELSE IF S!occursAt(v, f, i - 1) THEN w \o k[i + Len(f)] ELSE <<v[i]>> \o k[i + 1]
             /\ k[i] \in SS
  <2> DEFINE n == L + 1 - i
  <2>1. n \in Nat /\ k[i] = h[n] /\ L - n = i - 1 /\ L + 1 - n = i
    BY <1>1
  <2>2. k[i] = V(n, Prior(h, n)) /\ k[i] \in SS
    <3> HIDE DEF n, V, k
    <3> QED BY <1>6, <2>1
  <2>3. CASE i > L
    <3>1. n = 0
      BY <1>1, <2>3
    <3>2. V(n, Prior(h, n)) = <<>>
      BY <3>1
    <3> HIDE DEF V, k, n
    <3> QED BY <2>2, <2>3, <3>2
  <2>4. CASE ~(i > L)
    <3>1. ~(n = 0 \/ n > L) /\ i - 1 \in Nat
      BY <1>1, <2>4
    <3>2. CASE S!occursAt(v, f, i - 1)
      <4>1. (i - 1) + Len(f) <= L
        BY <1>2, <3>1, <3>2
      <4>2. n - Len(f) \in 0 .. n - 1 /\ i + Len(f) \in Dist /\ L + 1 - (i + Len(f)) = n - Len(f)
        <5> DEFINE z == Len(f)
        <5>1. z \in Nat /\ z >= 1 /\ (i - 1) + z <= L /\ i \in Nat /\ i >= 1 /\ i <= L /\ L \in Nat
          BY <1>1, <2>4, <4>1
        <5> HIDE DEF z
        <5>2. n - z \in 0 .. n - 1 /\ i + z \in Dist /\ L + 1 - (i + z) = n - z
          BY <5>1
        <5> QED BY <5>2 DEF z
      <4>3. Prior(h, n)[n - Len(f)] = h[n - Len(f)] /\ k[i + Len(f)] = h[n - Len(f)]
        BY <4>2 DEF Prior
      <4>4. V(n, Prior(h, n)) = w \o Prior(h, n)[n - Len(f)]
        <5>1. S!occursAt(v, f, L - n)
          BY <2>1, <3>2
        <5> HIDE DEF n
        <5> QED BY <3>1, <5>1
      <4> HIDE DEF V, k, n
      <4> QED BY <2>2, <2>4, <3>2, <4>3, <4>4
    <3>3. CASE ~S!occursAt(v, f, i - 1)
      <4>2. n - 1 \in 0 .. n - 1 /\ i + 1 \in Dist /\ L + 1 - (i + 1) = n - 1
        BY <1>1, <2>4
      <4>3. Prior(h, n)[n - 1] = h[n - 1] /\ k[i + 1] = h[n - 1]
        BY <4>2 DEF Prior
      <4>4. V(n, Prior(h, n)) = <<v[i]>> \o Prior(h, n)[n - 1]
        <5>1. ~S!occursAt(v, f, L - n)
          BY <2>1, <3>3
        <5>2. V(n, Prior(h, n)) = <<v[L + 1 - n]>> \o Prior(h, n)[n - 1]
          <6> HIDE DEF n
          <6> QED BY <3>1, <5>1
        <5> HIDE DEF V, n
        <5> QED BY <2>1, <5>2
      <4> HIDE DEF V, k, n
      <4> QED BY <2>2, <2>4, <3>3, <4>3, <4>4
    <3> QED BY <3>2, <3>3
  <2> QED BY <2>3, <2>4
<1>8. k = Q(k)
  <2>1. k = [i \in Dist |-> k[i]]
    OBVIOUS
  <2> HIDE DEF k, Dist
  <2> QED BY <1>7, <2>1
<1>9. g = CHOOSE r : r = Q(r)
  BY DEF Becomes, L
<1> HIDE DEF Q, k
<1>10. g = Q(g)
  BY <1>8, <1>9
<1>11. ASSUME NEW i \in Dist
       PROVE  g[i] = IF i > L THEN <<>>
                     ELSE IF S!occursAt(v, f, i - 1) THEN w \o g[i + Len(f)] ELSE <<v[i]>> \o g[i + 1]
  <2> HIDE DEF g
  <2>1. Q(g)[i] = IF i > L THEN <<>>
                  ELSE IF S!occursAt(v, f, i - 1) THEN w \o g[i + Len(f)] ELSE <<v[i]>> \o g[i + 1]
    BY DEF Q
  <2> QED BY <1>10, <2>1
<1>12. S!substitute(v, f, w) = g[1]
  BY DEF S!substitute, Becomes
<1> HIDE DEF g
<1> DEFINE T == {n \in Nat : \A i \in Dist : i = L + 1 - n => g[i] = k[i]}
<1>13. \A n \in Nat : n \in T
  <2>1. ASSUME NEW n \in Nat, \A m \in 0 .. n - 1 : m \in T PROVE n \in T
    <3> SUFFICES ASSUME NEW i \in Dist, i = L + 1 - n PROVE g[i] = k[i]
      OBVIOUS
    <3>1. CASE i > L
      BY <1>7, <1>11, <3>1
    <3>2. CASE ~(i > L) /\ S!occursAt(v, f, i - 1)
      <4>1. (i - 1) + Len(f) <= L
        BY <1>1, <1>2, <3>2
      <4>2. n - Len(f) \in 0 .. n - 1 /\ i + Len(f) \in Dist /\ i + Len(f) = L + 1 - (n - Len(f))
        BY <1>1, <3>2, <4>1
      <4>3. g[i + Len(f)] = k[i + Len(f)]
        BY <2>1, <4>2
      <4> QED BY <1>7, <1>11, <3>2, <4>3
    <3>3. CASE ~(i > L) /\ ~S!occursAt(v, f, i - 1)
      <4>2. n - 1 \in 0 .. n - 1 /\ i + 1 \in Dist /\ i + 1 = L + 1 - (n - 1)
        BY <1>1, <3>3
      <4>3. g[i + 1] = k[i + 1]
        BY <2>1, <4>2
      <4> QED BY <1>7, <1>11, <3>3, <4>3
    <3> QED BY <3>1, <3>2, <3>3
  <2> HIDE DEF T
  <2> QED BY <2>1, CourseOfValues
<1>14. ASSUME NEW i \in Dist PROVE g[i] \in SS
  <2>1. L + 1 - i \in Nat /\ i = L + 1 - (L + 1 - i)
    BY <1>1
  <2>2. L + 1 - i \in T
    <3> HIDE DEF T
    <3> QED BY <1>13, <2>1
  <2>3. g[i] = k[i]
    BY <2>1, <2>2
  <2> QED BY <1>7, <2>3
<1>15. g[L + 1] = <<>>
  <2>1. L + 1 \in Dist /\ L + 1 > L
    BY <1>1
  <2> QED BY <1>11, <2>1
<1>16. \A i \in 0 .. L : g[i + 1] \in SS
  <2>1. \A i \in 0 .. L : i + 1 \in Dist
    BY <1>1
  <2> QED BY <1>14, <2>1
<1>17. ASSUME NEW i \in 0 .. L - 1
       PROVE  g[i + 1] = IF S!occursAt(v, f, i) THEN w \o g[i + Len(f) + 1] ELSE <<v[i + 1]>> \o g[i + 2]
  <2>1. i + 1 \in Dist /\ ~(i + 1 > L) /\ (i + 1) - 1 = i /\ (i + 1) + Len(f) = i + Len(f) + 1 /\ (i + 1) + 1 = i + 2
    BY <1>1
  <2> HIDE DEF Dist
  <2> QED BY <1>11, <2>1
<1> QED BY <1>12, <1>15, <1>16, <1>17 DEF g, L

\* u is the first p characters of v and then r.
Split(u, v, p, r) ==
  /\ Len(u) = p + Len(r)
  /\ \A i \in 1 .. p : u[i] = v[i]
  /\ \A i \in 1 .. Len(r) : u[p + i] = r[i]

\* What stands from a to p in v stays.
Carried(g, v, a, p) ==
  /\ Len(g[a + 1]) = (p - a) + Len(g[p + 1])
  /\ \A i \in 1 .. p - a : g[a + 1][i] = v[a + i]
  /\ \A i \in 1 .. Len(g[p + 1]) : g[a + 1][(p - a) + i] = g[p + 1][i]

\* Where nothing is found the text is carried over.
LEMMA CarriedOver ==
  ASSUME NEW v \in Seq(Letters), NEW f \in Seq(Letters), f # <<>>, NEW w \in Seq(Letters),
         NEW p \in 0 .. Len(v), NEW a \in 0 .. p, \A i \in Nat : a <= i /\ i < p => ~S!occursAt(v, f, i)
  PROVE  Carried(Becomes(v, f, w), v, a, p)
<1> DEFINE g == Becomes(v, f, w)
<1>1. Len(v) \in Nat /\ p \in Nat /\ p <= Len(v) /\ a \in Nat /\ a <= p
  OBVIOUS
<1>2. /\ \A i \in 0 .. Len(v) : g[i + 1] \in Seq(Letters)
      /\ \A i \in 0 .. Len(v) - 1 :
           g[i + 1] = IF S!occursAt(v, f, i) THEN w \o g[i + Len(f) + 1] ELSE <<v[i + 1]>> \o g[i + 2]
  BY BecomesStep
<1> HIDE DEF g
<1> DEFINE T == {n \in Nat : n <= p - a => Carried(g, v, p - n, p)}
<1>3. \A n \in Nat : n \in T
  <2>1. 0 \in T
    <3>1. p - 0 = p /\ p - p = 0 /\ 1 .. 0 = {} /\ g[p + 1] \in Seq(Letters)
      BY <1>1, <1>2
    <3>2. Len(g[p + 1]) \in Nat
      BY <3>1
    <3>3. Carried(g, v, p, p)
      BY <3>1, <3>2 DEF Carried
    <3> QED BY <3>1, <3>3
  <2>2. ASSUME NEW n \in Nat, n \in T PROVE n + 1 \in T
    <3> SUFFICES ASSUME n + 1 <= p - a PROVE Carried(g, v, p - (n + 1), p)
      BY n + 1 \in Nat
    <3> DEFINE e == p - (n + 1)
    <3>1. /\ e \in 0 .. Len(v) - 1 /\ e \in Nat /\ a <= e /\ e < p /\ p - n = e + 1 /\ n <= p - a
          /\ p - e = n + 1 /\ p - (e + 1) = n /\ e + 1 \in 0 .. Len(v) /\ (e + 1) + 1 = e + 2 /\ e + 1 \in 1 .. Len(v)
      BY <1>1
    <3> HIDE DEF e
    <3>2. Carried(g, v, e + 1, p)
      BY <2>2, <3>1
    <3> DEFINE h == g[e + 2]
               k == g[e + 1]
               d == g[p + 1]
    <3>3. h \in Seq(Letters) /\ d \in Seq(Letters)
      BY <1>1, <1>2, <3>1
    <3>4. k = <<v[e + 1]>> \o h
      BY <1>2, <3>1
    <3>5. /\ Len(h) = n + Len(d)
          /\ \A i \in 1 .. n : h[i] = v[(e + 1) + i]
          /\ \A i \in 1 .. Len(d) : h[n + i] = d[i]
      BY <3>1, <3>2 DEF Carried
    <3> HIDE DEF h, k, d
    <3> DEFINE o == <<v[e + 1]>>
    <3>6. o \in Seq(Letters) /\ Len(o) = 1 /\ o[1] = v[e + 1]
      <4>1. v[e + 1] \in Letters
        BY <3>1
      <4> QED BY <4>1
    <3> HIDE DEF o
    <3>7. k = o \o h
      BY <3>4 DEF o
    <3>8. Joined(k, o, h)
      BY <3>3, <3>6, <3>7, Concatenation
    <3>9. Len(h) \in Nat /\ Len(d) \in Nat
      BY <3>3
    <3>10. Len(k) = 1 + Len(h) /\ k[1] = v[e + 1] /\ \A i \in 1 .. Len(h) : k[1 + i] = h[i]
      <4>1. 1 \in 1 .. 1
        OBVIOUS
      <4> QED BY <3>6, <3>8, <4>1 DEF Joined
    <3>11. Len(k) = (n + 1) + Len(d)
      BY <3>5, <3>9, <3>10
    <3>12. ASSUME NEW i \in 1 .. n + 1 PROVE k[i] = v[e + i]
      <4>1. CASE i = 1
        BY <3>10, <4>1
      <4>2. CASE i # 1
        <5>1. i - 1 \in 1 .. n /\ i - 1 \in 1 .. Len(h) /\ 1 + (i - 1) = i /\ (e + 1) + (i - 1) = e + i
          BY <3>1, <3>5, <3>9, <4>2
        <5>2. k[1 + (i - 1)] = h[i - 1] /\ h[i - 1] = v[(e + 1) + (i - 1)]
          BY <3>5, <3>10, <5>1
        <5> QED BY <5>1, <5>2
      <4> QED BY <4>1, <4>2
    <3>13. ASSUME NEW i \in 1 .. Len(d) PROVE k[(n + 1) + i] = d[i]
      <4>1. n + i \in 1 .. Len(h) /\ (n + 1) + i = 1 + (n + i)
        BY <3>5, <3>9
      <4>2. k[1 + (n + i)] = h[n + i] /\ h[n + i] = d[i]
        BY <3>5, <3>10, <4>1
      <4> QED BY <4>1, <4>2
    <3>14. Carried(g, v, e, p)
      BY <3>1, <3>11, <3>12, <3>13 DEF Carried, k, d
    <3> QED BY <3>14 DEF e
  <2> HIDE DEF T
  <2> QED BY <2>1, <2>2, Induction
<1>4. p - a \in Nat /\ p - (p - a) = a /\ p - a <= p - a
  BY <1>1
<1>5. p - a \in T
  <2> HIDE DEF T
  <2> QED BY <1>3, <1>4
<1>6. Carried(g, v, a, p)
  BY <1>4, <1>5
<1> QED BY <1>6 DEF g

\* Where the text is found, the other one takes its place.
LEMMA ReplacedHere ==
  ASSUME NEW v \in Seq(Letters), NEW f \in Seq(Letters), f # <<>>, NEW w \in Seq(Letters),
         NEW a \in Nat, S!occursAt(v, f, a)
  PROVE  LET g == Becomes(v, f, w) IN
         /\ a + Len(f) <= Len(v)
         /\ g[a + Len(f) + 1] \in Seq(Letters) /\ g[a + 1] \in Seq(Letters)
         /\ Len(g[a + 1]) = Len(w) + Len(g[a + Len(f) + 1])
         /\ \A i \in 1 .. Len(w) : g[a + 1][i] = w[i]
         /\ \A i \in 1 .. Len(g[a + Len(f) + 1]) : g[a + 1][Len(w) + i] = g[a + Len(f) + 1][i]
<1> DEFINE g == Becomes(v, f, w)
           z == Len(f)
<1>1. a + z <= Len(v) /\ Len(v) \in Nat /\ z \in Nat /\ z >= 1
  BY OccursIn, LengthOf
<1>2. /\ \A i \in 0 .. Len(v) : g[i + 1] \in Seq(Letters)
      /\ \A i \in 0 .. Len(v) - 1 :
           g[i + 1] = IF S!occursAt(v, f, i) THEN w \o g[i + z + 1] ELSE <<v[i + 1]>> \o g[i + 2]
  BY BecomesStep
<1> HIDE DEF z, g
<1>3. a \in 0 .. Len(v) - 1 /\ a + z \in 0 .. Len(v) /\ a \in 0 .. Len(v)
  BY <1>1
<1>4. g[a + 1] = w \o g[a + z + 1] /\ g[a + z + 1] \in Seq(Letters) /\ g[a + 1] \in Seq(Letters)
  BY <1>2, <1>3
<1> DEFINE h == g[a + z + 1]
           k == g[a + 1]
<1> HIDE DEF h, k
<1>5. k = w \o h /\ h \in Seq(Letters) /\ k \in Seq(Letters)
  BY <1>4 DEF h, k
<1>6. Joined(k, w, h)
  BY <1>5, Concatenation
<1>7. Len(k) = Len(w) + Len(h) /\ (\A i \in 1 .. Len(w) : k[i] = w[i]) /\ \A i \in 1 .. Len(h) : k[Len(w) + i] = h[i]
  BY <1>6 DEF Joined
<1> QED BY <1>1, <1>5, <1>7 DEF h, k, g, z

\* u with w for the z characters after the first a.
Spliced(r, u, a, z, w) ==
  /\ r \in Seq(Letters) /\ Len(r) = a + Len(w) + (Len(u) - (a + z))
  /\ \A i \in 1 .. a : r[i] = u[i]
  /\ \A i \in 1 .. Len(w) : r[a + i] = w[i]
  /\ \A i \in 1 .. Len(u) - (a + z) : r[a + Len(w) + i] = u[a + z + i]

\* One replacement: the tail is moved over, or out of, the place of the old text.
LEMMA MovedHolds ==
  ASSUME NEW x, NEW u, Holds(x, u), x.buf # <<>>, NEW f \in Seq(Letters), NEW w \in Seq(Letters),
         NEW a \in Nat, a + Len(f) <= Len(u)
  PROVE  LET y == S!moved(x, a, f, w) IN
         \E r : /\ Holds(y, r) /\ Spliced(r, u, a, Len(f), w) /\ y.buf # <<>> /\ y.cap = x.cap
                /\ S!fits(x) /\ Len(r) <= x.cap => S!fits(y)
<1> DEFINE y == S!moved(x, a, f, w)
           b == x.buf
           z == Len(f)
           t == SubSeq(u, a + z + 1, Len(u))
           p == a + Len(w)
           c == S!terminate(S!memcpy(b, p, t), p + Len(t))
           d == S!memcpy(c, a, w)
           e == SubSeq(u, 1, a)
           r == (e \o w) \o t
<1>1. /\ x \in Strings /\ Len(u) \in Nat /\ x.len = Len(u) /\ Len(b) \in Nat /\ x.cap \in Nat
      /\ u \in Seq(Letters) /\ b \in Seq(Chars) /\ Len(u) + 1 <= Len(b)
      /\ \A i \in 1 .. Len(u) : b[i] = u[i]
  BY HeldFacts
<1>2. z \in Nat /\ Len(w) \in Nat /\ w \in Seq(Chars) /\ a + z <= Len(u)
  BY LettersAreChars
<1>3. /\ SubSeq(b, a + z + 1, Len(u)) = t /\ t \in Seq(Letters) /\ Len(t) = Len(u) - (a + z)
      /\ \A i \in 1 .. Len(u) - (a + z) : t[i] = u[a + z + i]
  <2> DEFINE q == a + z + 1
  <2>1. /\ q \in Nat /\ 1 <= q /\ q <= Len(u) + 1 /\ Len(u) <= Len(u) /\ Len(u) + 1 - q = Len(u) - (a + z)
        /\ \A i \in 1 .. Len(u) - (a + z) : q + i - 1 = a + z + i
    BY <1>1, <1>2
  <2>2. t = SubSeq(u, q, Len(u))
    OBVIOUS
  <2> HIDE DEF q, t, z, y
  <2>3. /\ SubSeq(x.buf, q, Len(u)) = SubSeq(u, q, Len(u)) /\ SubSeq(u, q, Len(u)) \in Seq(Letters)
        /\ Len(SubSeq(u, q, Len(u))) = Len(u) + 1 - q
        /\ \A i \in 1 .. Len(u) + 1 - q : SubSeq(u, q, Len(u))[i] = u[q + i - 1]
    <3>1. Len(u) \in Nat /\ q \in Nat /\ 1 <= q /\ q <= Len(u) + 1 /\ Len(u) <= Len(u)
      BY <1>1, <2>1
    <3>2. u \in Seq(Letters)
      BY <1>1
    <3>3. /\ SubSeq(u, q, Len(u)) \in Seq(Letters) /\ Len(SubSeq(u, q, Len(u))) = Len(u) + 1 - q
          /\ \A i \in 1 .. Len(u) + 1 - q : SubSeq(u, q, Len(u))[i] = u[q + i - 1]
      BY <3>1, <3>2, Piece
    <3> HIDE DEF b
    <3>4. SubSeq(x.buf, q, Len(u)) = SubSeq(u, q, Len(u))
      BY <3>1, TailOf
    <3> QED BY <3>3, <3>4
  <2>4. /\ SubSeq(x.buf, q, Len(u)) = t /\ t \in Seq(Letters) /\ Len(t) = Len(u) - (a + z)
        /\ \A i \in 1 .. Len(u) - (a + z) : t[i] = u[a + z + i]
    BY <2>1, <2>2, <2>3
  <2> QED BY <2>4 DEF q
<1> HIDE DEF t
<1>4. Len(t) \in Nat /\ p \in Nat /\ x.len + Len(w) - Len(f) = p + Len(t)
  BY <1>1, <1>2, <1>3
<1>5. y = [x EXCEPT !.len = p + Len(t), !.buf = d]
  <2> DEFINE n == x.len + Len(w) - Len(f)
  <2>1. y = [x EXCEPT !.len = n, !.buf = S!memcpy(S!terminate(S!memcpy(x.buf, a + Len(w), SubSeq(x.buf, a + Len(f) + 1, x.len)), n), a, w)]
    BY DEF S!moved
  <2>2. n = p + Len(t) /\ SubSeq(x.buf, a + Len(f) + 1, x.len) = t
    BY <1>1, <1>3, <1>4
  <2> HIDE DEF n, y
  <2> QED BY <2>1, <2>2
<1> HIDE DEF y, b, z
<1>6. Put(c, b, p, t)
  <2> HIDE DEF p
  <2> QED BY <1>1, <1>3, <1>4, PutText
<1> HIDE DEF c
<1>7. /\ c \in Seq(Chars) /\ Len(c) = IF p + Len(t) < Len(b) THEN Len(b) ELSE p + Len(t) + 1
      /\ c[p + Len(t) + 1] = S!NUL
      /\ \A i \in 1 .. Len(t) : c[p + i] = t[i]
      /\ \A i \in 1 .. Len(b) : i <= p => c[i] = b[i]
  BY <1>6 DEF Put
<1>8. Written(d, c, a, w)
  BY <1>2, <1>7, Memcpy
<1> HIDE DEF d
<1>9. Len(c) \in Nat /\ p + Len(t) + 1 <= Len(c) /\ a + Len(w) <= Len(c)
  BY <1>1, <1>4, <1>7, SMTT(40)
<1>10. d \in Seq(Chars) /\ Len(d) = Len(c)
  BY <1>9, <1>8 DEF Written
<1>11. /\ \A i \in 1 .. Len(w) : d[a + i] = w[i]
       /\ \A i \in 1 .. Len(c) : i <= a \/ a + Len(w) < i => d[i] = c[i]
  BY <1>8 DEF Written
<1>12. y \in Strings /\ y.buf = d /\ y.len = p + Len(t) /\ y.cap = x.cap
  <2> DEFINE n == p + Len(t)
  <2>1. n \in Nat /\ x \in Strings
    BY <1>1, <1>4
  <2>2. y = [x EXCEPT !.len = n, !.buf = d]
    BY <1>5
  <2> HIDE DEF n
  <2>3. y \in Strings /\ y.buf = d /\ y.len = n /\ y.cap = x.cap
    BY <1>10, <2>1, <2>2 DEF Strings
  <2> QED BY <2>3 DEF n
<1>13. e \in Seq(Letters) /\ Len(e) = a /\ \A i \in 1 .. a : e[i] = u[i]
  <2>1. 1 \in Nat /\ 1 <= 1 /\ 1 <= a + 1 /\ a <= Len(u) /\ a + 1 - 1 = a
    BY <1>1, <1>2
  <2>2. e \in Seq(Letters) /\ Len(e) = a + 1 - 1 /\ \A i \in 1 .. a + 1 - 1 : e[i] = u[1 + i - 1]
    BY <1>1, <2>1, Piece
  <2>3. \A i \in 1 .. a : 1 + i - 1 = i
    OBVIOUS
  <2> HIDE DEF e
  <2> QED BY <2>1, <2>2, <2>3
<1> HIDE DEF e
<1> DEFINE h == e \o w
<1>14. h \in Seq(Letters) /\ Joined(h, e, w)
  BY <1>13, Concatenation
<1> HIDE DEF h
<1>15. r \in Seq(Letters) /\ Joined(r, h, t)
  <2>1. h \o t \in Seq(Letters) /\ Joined(h \o t, h, t)
    BY <1>3, <1>14, Concatenation
  <2> QED BY <2>1 DEF h
<1> HIDE DEF r
<1>16. Len(h) = p /\ Len(r) = p + Len(t) /\ p = a + Len(w)
  BY <1>13, <1>14, <1>15 DEF Joined
<1>17. /\ \A i \in 1 .. a : h[i] = u[i]
       /\ \A i \in 1 .. Len(w) : h[a + i] = w[i]
  BY <1>13, <1>14 DEF Joined
<1>18. /\ \A i \in 1 .. p : r[i] = h[i]
       /\ \A i \in 1 .. Len(t) : r[p + i] = t[i]
  BY <1>15, <1>16 DEF Joined
<1>19. \A i \in 1 .. a : r[i] = u[i]
  <2>1. \A i \in 1 .. a : i \in 1 .. p
    BY <1>2
  <2> QED BY <1>17, <1>18, <2>1
<1>20. \A i \in 1 .. Len(w) : r[a + i] = w[i]
  <2>1. \A i \in 1 .. Len(w) : a + i \in 1 .. p
    BY <1>2
  <2> QED BY <1>17, <1>18, <2>1
<1>21. \A i \in 1 .. Len(u) - (a + z) : r[a + Len(w) + i] = u[a + z + i]
  BY <1>3, <1>18
<1>22. Spliced(r, u, a, z, w)
  BY <1>3, <1>15, <1>16, <1>19, <1>20, <1>21 DEF Spliced
<1>23. ASSUME NEW i \in 1 .. Len(r) PROVE d[i] = r[i]
  <2>0. Len(r) = a + Len(w) + Len(t)
    BY <1>16
  <2>1. CASE i <= a
    <3>3. Len(u) \in Nat /\ Len(b) \in Nat /\ Len(u) + 1 <= Len(b)
      BY <1>1
    <3>4. Len(w) \in Nat /\ z \in Nat /\ a + z <= Len(u)
      BY <1>2
    <3>5. Len(t) \in Nat /\ Len(c) \in Nat /\ p + Len(t) + 1 <= Len(c)
      BY <1>4, <1>9
    <3>6. i \in Nat /\ 1 <= i
      OBVIOUS
    <3> HIDE DEF r
    <3>1. i \in 1 .. a /\ i \in 1 .. Len(c) /\ i \in 1 .. Len(b) /\ i <= p /\ i \in 1 .. Len(u)
      BY <2>1, <3>3, <3>4, <3>5, <3>6
    <3>2. d[i] = c[i] /\ c[i] = b[i] /\ b[i] = u[i]
      BY <1>1, <1>7, <1>11, <3>1
    <3> QED BY <1>19, <3>1, <3>2
  <2>2. CASE a < i /\ i <= a + Len(w)
    <3>1. i - a \in 1 .. Len(w) /\ a + (i - a) = i
      BY <1>2, <2>2
    <3>2. d[a + (i - a)] = w[i - a] /\ r[a + (i - a)] = w[i - a]
      BY <1>11, <1>20, <3>1
    <3> QED BY <3>1, <3>2
  <2>3. CASE a + Len(w) < i
    <3>1. i - p \in 1 .. Len(t) /\ p + (i - p) = i /\ i \in 1 .. Len(c)
      BY <1>2, <1>4, <1>9, <2>0, <2>3
    <3>2. d[i] = c[i]
      BY <1>11, <2>3, <3>1
    <3>3. c[p + (i - p)] = t[i - p] /\ r[p + (i - p)] = t[i - p]
      BY <1>7, <1>18, <3>1
    <3> QED BY <3>1, <3>2, <3>3
  <2> QED BY <1>2, <1>4, <2>0, <2>1, <2>2, <2>3, SMTT(40)
<1>24. d[Len(r) + 1] = S!NUL /\ Len(r) + 1 <= Len(d)
  <2>1. p + Len(t) + 1 \in 1 .. Len(c) /\ a + Len(w) < p + Len(t) + 1
    BY <1>2, <1>4, <1>9, SMTT(40)
  <2> HIDE DEF p
  <2> QED BY <1>7, <1>9, <1>10, <1>11, <1>16, <2>1
<1>25. d # <<>>
  <2>1. Len(d) # 0
    BY <1>4, <1>9, <1>10
  <2> QED BY <1>10, <2>1, NotEmpty
<1>26. Holds(y, r)
  BY <1>12, <1>15, <1>16, <1>23, <1>24, <1>25 DEF Holds, Ended
<1>27. S!fits(x) /\ Len(r) <= x.cap => S!fits(y)
  <2> SUFFICES ASSUME S!fits(x), Len(r) <= x.cap PROVE S!fits(y)
    OBVIOUS
  <2>1. Len(b) = x.cap + 1
    BY DEF S!fits, b
  <2>2. p + Len(t) < Len(b)
    BY <1>1, <1>4, <1>16, <2>1, SMTT(40)
  <2>3. Len(d) = x.cap + 1
    BY <1>7, <1>10, <2>1, <2>2
  <2> QED BY <1>12, <1>25, <2>3 DEF S!fits
<1>28. y.buf # <<>> /\ y.cap = x.cap
  BY <1>12, <1>25
<1> QED BY <1>22, <1>26, <1>27, <1>28 DEF y, z

------------------------------------------------------------------------------
\* The rounds that count what replace() finds.
CountRounds(x, f) ==
  CHOOSE g : g = [n \in Nat |-> IF n = 0 THEN [from |-> 0, count |-> 0] ELSE S!countNext(x, f, g[n - 1])]

\* A round of the count: every find from q.from on is at or behind the one it counts.
LEMMA CountNext ==
  ASSUME NEW x, NEW v, Holds(x, v), x.buf # <<>>, NEW f \in Seq(Letters), f # <<>>,
         NEW q \in [from : 0 .. Len(v), count : Nat]
  PROVE  LET r == S!countNext(x, f, q) IN
         /\ r \in [from : 0 .. Len(v), count : Nat]
         /\ \A j \in Nat : q.from <= j /\ S!occursAt(v, f, j) => r.from <= j + Len(f) /\ r.count = q.count + 1
         /\ r = q \/ (r.from > q.from /\ r.count = q.count + 1)
         /\ q.from = Len(v) => r = q
<1> DEFINE r == S!countNext(x, f, q)
           a == S!strstr(x.buf, q.from, f)
<1>1. x.buf \in Seq(Chars) /\ v \in Seq(Letters) /\ Ended(x.buf, v) /\ Len(v) \in Nat
  BY HeldFacts
<1>2. q.from \in Nat /\ q.from <= Len(v) /\ q.count \in Nat
  BY <1>1
<1>3. First(a, v, f, q.from)
  BY <1>1, <1>2, Strstr
<1>4. r = IF a < 0 THEN q ELSE [from |-> a + Len(f), count |-> q.count + 1]
  BY DEF S!countNext
<1> HIDE DEF a
<1>5. /\ a \in Int /\ (a < 0 <=> a = -1)
      /\ ~(a < 0) => a \in Nat /\ q.from <= a /\ a + Len(f) <= Len(v) /\ S!occursAt(v, f, a)
  BY <1>1, <1>2, <1>3, FirstInside
<1>6. Len(f) \in Nat /\ Len(f) >= 1
  BY LengthOf
<1> HIDE DEF r
<1>7. CASE a < 0
  <2>1. r = q
    BY <1>4, <1>7
  <2>2. \A i \in Nat : q.from <= i => ~S!occursAt(v, f, i)
    BY <1>3, <1>5, <1>7 DEF First
  <2> QED BY <2>1, <2>2 DEF r
<1>8. CASE ~(a < 0)
  <2>1. r = [from |-> a + Len(f), count |-> q.count + 1]
    BY <1>4, <1>8
  <2>2. a \in Nat /\ q.from <= a /\ a + Len(f) <= Len(v) /\ a # -1
    BY <1>5, <1>8
  <2>3. r.from = a + Len(f) /\ r.count = q.count + 1 /\ r \in [from : 0 .. Len(v), count : Nat]
    BY <1>1, <1>2, <1>6, <2>1, <2>2
  <2>4. ASSUME NEW j \in Nat, q.from <= j, S!occursAt(v, f, j) PROVE r.from <= j + Len(f)
    <3>1. ~(j < a)
      BY <1>3, <2>2, <2>4 DEF First
    <3> QED BY <1>6, <2>2, <2>3, <3>1
  <2>5. r.from > q.from /\ q.from # Len(v)
    BY <1>1, <1>2, <1>6, <2>2, <2>3
  <2> QED BY <2>3, <2>4, <2>5 DEF r
<1> QED BY <1>7, <1>8

\* The count is over after as many rounds as there are characters.
LEMMA Counting ==
  ASSUME NEW x, NEW v, Holds(x, v), x.buf # <<>>, NEW f \in Seq(Letters), f # <<>>
  PROVE  LET g == CountRounds(x, f)
             N0 == S!occurrences(x, f) IN
         /\ N0 \in Nat
         /\ g[0] = [from |-> 0, count |-> 0]
         /\ \A n \in Nat : /\ g[n] \in [from : 0 .. Len(v), count : Nat] /\ g[n].count <= N0
                           /\ \A j \in Nat : g[n].from <= j /\ S!occursAt(v, f, j) =>
                                g[n + 1].from <= j + Len(f) /\ g[n + 1].count = g[n].count + 1
<1> DEFINE C == [from : 0 .. Len(v), count : Nat]
           d0 == [from |-> 0, count |-> 0]
           G == [q \in C |-> S!countNext(x, f, q)]
           Q(g) == [n \in Nat |-> IF n = 0 THEN d0 ELSE S!countNext(x, f, g[n - 1])]
           g == CountRounds(x, f)
           N0 == S!occurrences(x, f)
           L == Len(v)
<1>1. v \in Seq(Letters) /\ L \in Nat /\ x.len = L
  BY HeldFacts
<1>2. d0 \in C /\ d0.from = 0
  BY <1>1
<1>3. ASSUME NEW q \in C
      PROVE  LET r == S!countNext(x, f, q) IN
             /\ r \in C
             /\ \A j \in Nat : q.from <= j /\ S!occursAt(v, f, j) => r.from <= j + Len(f) /\ r.count = q.count + 1
             /\ r = q \/ (r.from > q.from /\ r.count = q.count + 1)
             /\ q.from = L => r = q
  BY CountNext
<1>4. G \in [C -> C]
  BY <1>3
<1>0. \A q \in C : q.from \in Nat /\ q.from <= L /\ q.count \in Nat
  BY <1>1
<1>5. PICK h \in [Nat -> C] : Loops(h, d0, G)
  <2> HIDE DEF G, C, d0
  <2> QED BY <1>2, <1>4, Repeats
<1>6. h = Q(h)
  <2>1. ASSUME NEW n \in Nat PROVE h[n] = IF n = 0 THEN d0 ELSE S!countNext(x, f, h[n - 1])
    <3>1. n # 0 => n - 1 \in Nat
      OBVIOUS
    <3> HIDE DEF C, d0
    <3>2. n # 0 => h[n - 1] \in C
      BY <3>1, <1>5
    <3>3. n # 0 => G[h[n - 1]] = S!countNext(x, f, h[n - 1])
      BY <3>2
    <3> HIDE DEF G
    <3> QED BY <1>5, <3>3 DEF Loops
  <2> HIDE DEF C, d0
  <2> QED BY <1>5, <2>1
<1>7. g = CHOOSE k : k = Q(k)
  BY DEF CountRounds
<1> HIDE DEF Q, g, C, d0
<1>8. g = Q(g)
  BY <1>6, <1>7
<1>9. \A n \in Nat : g[n] = IF n = 0 THEN d0 ELSE S!countNext(x, f, g[n - 1])
  <2>1. \A n \in Nat : Q(g)[n] = IF n = 0 THEN d0 ELSE S!countNext(x, f, g[n - 1])
    BY DEF Q
  <2> QED BY <1>8, <2>1
<1>10. g[0] = d0 /\ \A n \in Nat : g[n + 1] = S!countNext(x, f, g[n])
  <2>1. \A n \in Nat : n + 1 \in Nat /\ n + 1 # 0 /\ (n + 1) - 1 = n
    OBVIOUS
  <2> QED BY <1>9, <2>1
<1>11. \A n \in Nat : g[n] \in C
  <2> DEFINE T == {n \in Nat : g[n] \in C}
  <2>1. 0 \in T
    BY <1>2, <1>10
  <2>2. ASSUME NEW n \in Nat, n \in T PROVE n + 1 \in T
    <3>1. g[n] \in C /\ g[n + 1] = S!countNext(x, f, g[n])
      BY <1>10, <2>2
    <3>2. g[n + 1] \in C
      BY <1>3, <3>1
    <3> QED BY <3>2
  <2>3. \A n \in Nat : n \in T
    <3> HIDE DEF T
    <3> QED BY <2>1, <2>2, Induction
  <2> QED BY <2>3
<1>12. ASSUME NEW n \in Nat
       PROVE  /\ \A j \in Nat : g[n].from <= j /\ S!occursAt(v, f, j) =>
                   g[n + 1].from <= j + Len(f) /\ g[n + 1].count = g[n].count + 1
              /\ g[n + 1] = g[n] \/ (g[n + 1].from > g[n].from /\ g[n + 1].count = g[n].count + 1)
              /\ g[n].from = L => g[n + 1] = g[n]
  BY <1>3, <1>10, <1>11
<1>13. \A n \in Nat : n <= g[n].from \/ g[n + 1] = g[n]
  <2> DEFINE T == {n \in Nat : n <= g[n].from \/ g[n + 1] = g[n]}
  <2>1. 0 \in T
    BY <1>2, <1>10
  <2>2. ASSUME NEW n \in Nat, n \in T PROVE n + 1 \in T
    <3>1. g[n].from \in Nat /\ g[n + 1].from \in Nat
      BY <1>0, <1>11
    <3>2. g[n + 1] = S!countNext(x, f, g[n]) /\ g[(n + 1) + 1] = S!countNext(x, f, g[n + 1])
      BY <1>10
    <3>3. CASE g[n + 1] = g[n]
      <4>1. g[(n + 1) + 1] = g[n + 1]
        BY <3>2, <3>3
      <4> QED BY <4>1
    <3>4. CASE ~(g[n + 1] = g[n])
      <4>1. n <= g[n].from /\ g[n + 1].from > g[n].from
        BY <1>12, <2>2, <3>4
      <4>2. n + 1 <= g[n + 1].from
        BY <3>1, <4>1
      <4> QED BY <4>2
    <3> QED BY <3>3, <3>4
  <2>3. \A n \in Nat : n \in T
    <3> HIDE DEF T
    <3> QED BY <2>1, <2>2, Induction
  <2> QED BY <2>3
<1>14. g[L + 1] = g[L]
  <2>1. L <= g[L].from \/ g[L + 1] = g[L]
    BY <1>1, <1>13
  <2>2. g[L].from \in Nat /\ g[L].from <= L
    BY <1>0, <1>1, <1>11
  <2>3. CASE L <= g[L].from
    <3>1. g[L].from = L
      BY <1>1, <2>2, <2>3
    <3> QED BY <1>1, <1>12, <3>1
  <2> QED BY <2>1, <2>3
<1>15. \A n \in Nat : g[L + n] = g[L]
  <2> DEFINE T == {n \in Nat : g[L + n] = g[L]}
  <2>1. 0 \in T
    BY <1>1
  <2>2. ASSUME NEW n \in Nat, n \in T PROVE n + 1 \in T
    <3>1. L + n \in Nat /\ (L + n) + 1 = L + (n + 1)
      BY <1>1
    <3>2. g[L + (n + 1)] = S!countNext(x, f, g[L])
      BY <1>10, <2>2, <3>1
    <3>3. g[L + 1] = S!countNext(x, f, g[L])
      BY <1>1, <1>10
    <3> QED BY <1>14, <3>2, <3>3
  <2>3. \A n \in Nat : n \in T
    <3> HIDE DEF T
    <3> QED BY <2>1, <2>2, Induction
  <2> QED BY <2>3
<1>16. ASSUME NEW n \in Nat PROVE \A m \in Nat : g[n].count <= g[n + m].count
  <2> DEFINE T == {m \in Nat : g[n].count <= g[n + m].count}
  <2>1. 0 \in T
    <3>1. n + 0 = n /\ g[n].count \in Nat
      BY <1>0, <1>11
    <3> QED BY <3>1
  <2>2. ASSUME NEW m \in Nat, m \in T PROVE m + 1 \in T
    <3>1. n + m \in Nat /\ (n + m) + 1 = n + (m + 1) /\ n + (m + 1) \in Nat
      OBVIOUS
    <3>2. g[n].count \in Nat /\ g[n + m].count \in Nat
      BY <1>0, <1>11, <3>1
    <3>3. g[n + (m + 1)] = g[n + m] \/ g[n + (m + 1)].count = g[n + m].count + 1
      BY <1>12, <3>1
    <3>4. g[n].count <= g[n + (m + 1)].count
      BY <2>2, <3>2, <3>3
    <3> QED BY <3>4
  <2>3. \A m \in Nat : m \in T
    <3> HIDE DEF T
    <3> QED BY <2>1, <2>2, Induction
  <2> QED BY <2>3
<1>17. N0 = g[L].count
  BY <1>1 DEF S!occurrences, S!iterate, CountRounds, g
<1> HIDE DEF N0
<1>18. ASSUME NEW n \in Nat PROVE g[n].count <= N0
  <2>1. CASE n <= L
    <3>1. L - n \in Nat /\ n + (L - n) = L
      BY <1>1, <2>1
    <3>2. g[n].count <= g[n + (L - n)].count
      BY <1>16, <3>1
    <3> QED BY <1>17, <3>1, <3>2
  <2>2. CASE ~(n <= L)
    <3>1. n - L \in Nat /\ L + (n - L) = n
      BY <1>1, <2>2
    <3>2. g[L + (n - L)] = g[L]
      BY <1>15, <3>1
    <3>3. g[L].count \in Nat
      BY <1>0, <1>1, <1>11
    <3> QED BY <1>17, <3>1, <3>2, <3>3
  <2> QED BY <2>1, <2>2
<1>19. N0 \in Nat
  BY <1>0, <1>1, <1>11, <1>17
<1>20. g[0] = [from |-> 0, count |-> 0]
  BY <1>10 DEF d0
<1>21. \A n \in Nat : g[n] \in [from : 0 .. Len(v), count : Nat]
  BY <1>11 DEF C
<1> HIDE DEF L
<1> QED BY <1>12, <1>18, <1>19, <1>20, <1>21 DEF g, N0

\* The end of a sequence,
LEMMA EndPart ==
  ASSUME NEW C, NEW m \in Seq(C), NEW k \in Nat, k <= Len(m)
  PROVE  /\ SubSeq(m, k + 1, Len(m)) \in Seq(C) /\ Len(SubSeq(m, k + 1, Len(m))) = Len(m) - k
         /\ \A i \in 1 .. Len(m) - k : SubSeq(m, k + 1, Len(m))[i] = m[k + i]
<1> DEFINE a == k + 1
           q == SubSeq(m, a, Len(m))
<1>1. /\ Len(m) \in Nat /\ a \in Nat /\ 1 <= a /\ a <= Len(m) + 1 /\ Len(m) <= Len(m) /\ Len(m) + 1 - a = Len(m) - k
      /\ \A i \in 1 .. Len(m) - k : a + i - 1 = k + i
  OBVIOUS
<1> HIDE DEF a
<1>2. q \in Seq(C) /\ Len(q) = Len(m) + 1 - a /\ \A i \in 1 .. Len(m) + 1 - a : q[i] = m[a + i - 1]
  BY <1>1, Piece
<1> HIDE DEF q
<1>3. q \in Seq(C) /\ Len(q) = Len(m) - k /\ \A i \in 1 .. Len(m) - k : q[i] = m[k + i]
  BY <1>1, <1>2
<1> QED BY <1>3 DEF q, a

\* and its beginning.
LEMMA FirstPart ==
  ASSUME NEW C, NEW m \in Seq(C), NEW k \in Nat, k <= Len(m)
  PROVE  SubSeq(m, 1, k) \in Seq(C) /\ Len(SubSeq(m, 1, k)) = k /\ \A i \in 1 .. k : SubSeq(m, 1, k)[i] = m[i]
<1> DEFINE q == SubSeq(m, 1, k)
<1>1. 1 \in Nat /\ 1 <= 1 /\ 1 <= k + 1 /\ k + 1 - 1 = k /\ \A i \in 1 .. k : 1 + i - 1 = i
  OBVIOUS
<1>2. q \in Seq(C) /\ Len(q) = k + 1 - 1 /\ \A i \in 1 .. k + 1 - 1 : q[i] = m[1 + i - 1]
  BY <1>1, Piece
<1> HIDE DEF q
<1>3. q \in Seq(C) /\ Len(q) = k /\ \A i \in 1 .. k : q[i] = m[i]
  BY <1>1, <1>2
<1> QED BY <1>3 DEF q

\* A find that begins in front of what was put in does not reach into it,
LEMMA NoStraddle ==
  ASSUME NEW u \in Seq(Letters), NEW v \in Seq(Letters), NEW r \in Seq(Letters), NEW p \in Nat, Split(u, v, p, r),
         NEW f \in Seq(Letters), f # <<>>, NEW w \in Seq(Letters), Len(f) # Len(w), ~S!cascades(f, w),
         r = <<>> \/ (Len(w) <= Len(r) /\ \A i \in 1 .. Len(w) : r[i] = w[i]),
         NEW j \in Nat, j < p, S!occursAt(u, f, j)
  PROVE  j + Len(f) <= p
<1> SUFFICES ASSUME ~(j + Len(f) <= p) PROVE FALSE
  OBVIOUS
<1> DEFINE z == Len(f)
           k == p - j
           q == SubSeq(f, k + 1, z)
           m == IF Len(q) <= Len(w) THEN Len(q) ELSE Len(w)
<1>1. z \in Nat /\ Len(w) \in Nat /\ Len(r) \in Nat /\ z >= 1
  BY LengthOf
<1>2. j + z <= Len(u) /\ \A i \in 1 .. z : u[j + i] = f[i]
  BY OccursIn
<1>3. Len(u) = p + Len(r) /\ \A i \in 1 .. Len(r) : u[p + i] = r[i]
  BY DEF Split
<1>4. k \in 1 .. z - 1 /\ Len(r) # 0 /\ k \in Nat
  BY <1>1, <1>2, <1>3
<1>5. Len(w) <= Len(r) /\ \A i \in 1 .. Len(w) : r[i] = w[i]
  <2>1. r # <<>>
    BY <1>4
  <2> QED BY <2>1
<1> HIDE DEF z
<1>6. q \in Seq(Letters) /\ Len(q) = z - k /\ \A i \in 1 .. z - k : q[i] = f[k + i]
  <2>1. k \in Nat /\ k <= Len(f)
    BY <1>1, <1>4 DEF z
  <2> HIDE DEF k
  <2> QED BY <2>1, EndPart DEF z
<1>7. q \in S!ends(f)
  BY <1>4 DEF S!ends, z
<1> HIDE DEF q
<1>8. m \in Nat /\ m <= Len(q) /\ m <= Len(w) /\ S!Min({Len(q), Len(w)}) = m
  <2>1. Len(q) \in Nat
    BY <1>6
  <2> DEFINE lq == Len(q)
             lw == Len(w)
  <2>2. lq \in Nat /\ lw \in Nat /\ lq \in Int /\ lw \in Int /\ m = IF lq <= lw THEN lq ELSE lw
    BY <1>1, <2>1
  <2> HIDE DEF lq, lw, m
  <2>3. S!Min({lq, lw}) = IF lq <= lw THEN lq ELSE lw
    BY <2>2, MaxOfTwo
  <2>4. m \in Nat /\ m <= lq /\ m <= lw /\ S!Min({lq, lw}) = m
    BY <2>2, <2>3
  <2> QED BY <2>4 DEF lq, lw
<1> HIDE DEF m
<1>9. ASSUME NEW i \in 1 .. m PROVE q[i] = w[i]
  <2>1. i \in 1 .. z - k /\ i \in 1 .. Len(w) /\ i \in 1 .. Len(r) /\ k + i \in 1 .. z /\ j + (k + i) = p + i
    BY <1>1, <1>4, <1>5, <1>6, <1>8
  <2>2. q[i] = f[k + i] /\ f[k + i] = u[j + (k + i)] /\ u[p + i] = r[i] /\ r[i] = w[i]
    BY <1>2, <1>3, <1>5, <1>6, <2>1
  <2> QED BY <2>1, <2>2
<1>10. SubSeq(q, 1, m) = SubSeq(w, 1, m)
  <2> DEFINE a == SubSeq(q, 1, m)
             b == SubSeq(w, 1, m)
  <2>2. a \in Seq(Letters) /\ Len(a) = m /\ \A i \in 1 .. m : a[i] = q[i]
    BY <1>6, <1>8, FirstPart
  <2>3. b \in Seq(Letters) /\ Len(b) = m /\ \A i \in 1 .. m : b[i] = w[i]
    BY <1>8, FirstPart
  <2> HIDE DEF a, b
  <2>4. \A i \in 1 .. Len(b) : a[i] = b[i]
    BY <1>9, <2>2, <2>3
  <2>5. a = b
    BY <2>2, <2>3, <2>4, SameSeq
  <2> QED BY <2>5 DEF a, b
<1>11. S!meets(q, w)
  BY <1>8, <1>10 DEF S!meets
<1> QED BY <1>7, <1>11 DEF S!cascades

\* and two finds stand apart.
LEMMA Apart ==
  ASSUME NEW v \in Seq(Letters), NEW f \in Seq(Letters), f # <<>>, ~S!overlaps(f),
         NEW i \in Nat, NEW a \in Nat, i < a, S!occursAt(v, f, i), S!occursAt(v, f, a)
  PROVE  i + Len(f) <= a
<1> SUFFICES ASSUME ~(i + Len(f) <= a) PROVE FALSE
  OBVIOUS
<1> DEFINE z == Len(f)
           k == a - i
           q == SubSeq(f, k + 1, z)
<1>1. z \in Nat /\ z >= 1
  BY LengthOf
<1>2. /\ i + z <= Len(v) /\ \A j \in 1 .. z : v[i + j] = f[j]
      /\ a + z <= Len(v) /\ \A j \in 1 .. z : v[a + j] = f[j]
  BY OccursIn
<1>4. k \in 1 .. z - 1 /\ k \in Nat
  BY <1>1
<1> HIDE DEF z
<1>6. q \in Seq(Letters) /\ Len(q) = z - k /\ \A j \in 1 .. z - k : q[j] = f[k + j]
  <2>1. k \in Nat /\ k <= Len(f)
    BY <1>1, <1>4 DEF z
  <2> HIDE DEF k
  <2> QED BY <2>1, EndPart DEF z
<1>7. q \in S!ends(f)
  BY <1>4 DEF S!ends, z
<1> HIDE DEF q
<1>8. ASSUME NEW j \in 1 .. Len(q) PROVE f[0 + j] = q[j]
  <2>1. j \in 1 .. z - k /\ j \in 1 .. z /\ k + j \in 1 .. z /\ i + (k + j) = a + j /\ 0 + j = j
    BY <1>1, <1>4, <1>6
  <2>2. q[j] = f[k + j] /\ f[k + j] = v[i + (k + j)] /\ v[a + j] = f[j]
    BY <1>2, <1>6, <2>1
  <2> QED BY <2>1, <2>2
<1>9. 0 + Len(q) <= Len(f)
  BY <1>1, <1>4, <1>6 DEF z
<1>10. S!occursAt(f, q, 0)
  BY <1>6, <1>8, <1>9, OccursIn
<1> QED BY <1>7, <1>10 DEF S!overlaps

------------------------------------------------------------------------------
\* The rounds of replace() from the right.
RightStates == [x : Strings, index : Int]
RightRounds(x, f, w) ==
  CHOOSE g : g = [n \in Nat |-> IF n = 0 THEN [x |-> x, index |-> x.len - 1] ELSE S!replaceNext(f, w, g[n - 1])]

\* The round r after q replaced the f at a: u has become t.
Exchanged(r, q, t, u, f, w, a) ==
  /\ r \in RightStates /\ r.index = a - 1 /\ a <= q.index /\ S!occursAt(u, f, a)
  /\ \A i \in Nat : a < i /\ i <= q.index => ~S!occursAt(u, f, i)
  /\ Holds(r.x, t) /\ Spliced(t, u, a, Len(f), w) /\ r.x.buf # <<>> /\ r.x.cap = q.x.cap
  /\ S!fits(q.x) /\ Len(t) <= q.x.cap => S!fits(r.x)

\* A round from the right replaces the last find as far as q.index, or there is none.
LEMMA RightStep ==
  ASSUME NEW q \in RightStates, NEW u, Holds(q.x, u), q.x.buf # <<>>, q.index >= -1,
         NEW f \in Seq(Letters), f # <<>>, NEW w \in Seq(Letters)
  PROVE  LET r == S!replaceNext(f, w, q) IN
         \/ r = q /\ \A i \in Nat : i <= q.index => ~S!occursAt(u, f, i)
         \/ \E a \in Nat, t \in Seq(Letters) : Exchanged(r, q, t, u, f, w, a)
<1> DEFINE r == S!replaceNext(f, w, q)
           a == IF q.index < 0 THEN -1 ELSE S!lastIndexOf(q.x, f, q.index)
<1>1. r = IF a < 0 THEN q ELSE [x |-> S!moved(q.x, a, f, w), index |-> a - 1]
  BY DEF S!replaceNext
<1>2. q.index \in Int /\ u \in Seq(Letters)
  BY HeldFacts DEF RightStates
<1>3. CASE q.index < 0
  <2>1. a = -1
    BY <1>3
  <2> HIDE DEF a
  <2>2. r = q
    BY <1>1, <2>1
  <2>3. \A i \in Nat : ~(i <= q.index)
    BY <1>2, <1>3
  <2> HIDE DEF r
  <2> QED BY <2>2, <2>3 DEF r
<1>4. CASE ~(q.index < 0)
  <2>1. a = S!lastIndexOf(q.x, f, q.index) /\ q.index \in Nat
    BY <1>2, <1>4
  <2> HIDE DEF a
  <2>2. Last(a, u, f, q.index)
    BY <1>2, <2>1, LastIndexOf
  <2>3. CASE a = -1 /\ \A i \in Nat : i <= q.index => ~S!occursAt(u, f, i)
    <3>1. r = q
      BY <1>1, <2>3
    <3> HIDE DEF r
    <3> QED BY <2>3, <3>1 DEF r
  <2>4. CASE /\ a \in Nat /\ a <= q.index /\ S!occursAt(u, f, a)
             /\ \A i \in Nat : a < i /\ i <= q.index => ~S!occursAt(u, f, i)
    <3>1. ~(a < 0)
      BY <2>4
    <3>2. r = [x |-> S!moved(q.x, a, f, w), index |-> a - 1]
      BY <1>1, <3>1
    <3>3. a + Len(f) <= Len(u)
      BY <1>2, <2>4, OccursIn
    <3> DEFINE y == S!moved(q.x, a, f, w)
    <3>4. PICK t : /\ Holds(y, t) /\ Spliced(t, u, a, Len(f), w) /\ y.buf # <<>> /\ y.cap = q.x.cap
                   /\ S!fits(q.x) /\ Len(t) <= q.x.cap => S!fits(y)
      BY <2>4, <3>3, MovedHolds
    <3> HIDE DEF y, r
    <3>5. y \in Strings /\ t \in Seq(Letters)
      BY <3>4 DEF Holds
    <3>6. a - 1 \in Int
      BY <2>4
    <3>7. r = [x |-> y, index |-> a - 1]
      BY <3>2 DEF y
    <3>8. r \in RightStates /\ r.index = a - 1 /\ r.x = y
      BY <3>5, <3>6, <3>7 DEF RightStates
    <3>9. Exchanged(r, q, t, u, f, w, a)
      BY <2>4, <3>4, <3>8 DEF Exchanged
    <3> QED BY <2>4, <3>5, <3>9 DEF r
  <2> QED BY <2>2, <2>3, <2>4 DEF Last
<1> QED BY <1>3, <1>4

\* What is known between two rounds, if no text put in completes another one:
\* in front of q.index the text is as it was, and behind it k finds are replaced,
\* no more than are counted further on.
Behind(u, v, f, w, p, r) ==
  /\ r \in Seq(Letters) /\ Split(u, v, p, r)
  /\ (r = <<>> /\ p = Len(v)) \/ (Len(w) <= Len(r) /\ \A i \in 1 .. Len(w) : r[i] = w[i])
  /\ ~S!overlaps(f) =>
       /\ r = Becomes(v, f, w)[p + 1]
       /\ \A i \in Nat : i < p /\ S!occursAt(v, f, i) => i + Len(f) <= p
Within(u, x, v, f, d, p, k) ==
  /\ Len(u) = Len(v) + k * d
  /\ \A n \in Nat : CountRounds(x, f)[n].from <= p => CountRounds(x, f)[n].count + k <= S!occurrences(x, f)
Between(q, u, x, v, f, w, K) ==
  /\ q.index + 1 <= Len(v) /\ q.x.cap = K /\ S!fits(q.x)
  /\ \E r : Behind(u, v, f, w, q.index + 1, r)
  /\ \E k \in Nat : Within(u, x, v, f, Len(w) - Len(f), q.index + 1, k)

\* Multiples of the difference in length.
LEMMA Multiples ==
  ASSUME NEW k \in Nat, NEW n \in Nat, NEW d \in Int
  PROVE  /\ k * d \in Int /\ (k + 1) * d = k * d + d
         /\ d > 0 /\ k <= n => k * d <= n * d
         /\ d < 0 => k * d <= 0
<1>1. k * d \in Int /\ (k + 1) * d = k * d + d
  OBVIOUS
<1>2. d > 0 /\ k <= n => k * d <= n * d
  OBVIOUS
<1>3. d < 0 => k * d <= 0
  OBVIOUS
<1> QED BY <1>1, <1>2, <1>3

\* A find replaced in front of the others is one more that is counted.
LEMMA WithinStep ==
  ASSUME NEW x, NEW v, Holds(x, v), x.buf # <<>>, NEW f \in Seq(Letters), f # <<>>,
         NEW u \in Seq(Letters), NEW t \in Seq(Letters), NEW d \in Int, NEW p \in Nat, NEW a \in Nat, NEW k \in Nat,
         Within(u, x, v, f, d, p, k), Len(t) = Len(u) + d, S!occursAt(v, f, a), a + Len(f) <= p
  PROVE  Within(t, x, v, f, d, a, k + 1)
<1> DEFINE g == CountRounds(x, f)
           n0 == S!occurrences(x, f)
<1>1. /\ n0 \in Nat
      /\ \A n \in Nat : /\ g[n] \in [from : 0 .. Len(v), count : Nat]
                        /\ \A j \in Nat : g[n].from <= j /\ S!occursAt(v, f, j) =>
                             g[n + 1].from <= j + Len(f) /\ g[n + 1].count = g[n].count + 1
  BY Counting
<1> HIDE DEF g, n0
<1>2. Len(u) = Len(v) + k * d /\ \A n \in Nat : g[n].from <= p => g[n].count + k <= n0
  BY DEF Within, g, n0
<1>0. Len(v) \in Nat /\ Len(f) \in Nat
  BY HeldFacts
<1>3. Len(t) = Len(v) + (k + 1) * d
  <2>1. k * d \in Int /\ (k + 1) * d = k * d + d
    BY Multiples
  <2> QED BY <1>0, <1>2, <2>1
<1>4. ASSUME NEW n \in Nat, g[n].from <= a PROVE g[n].count + (k + 1) <= n0
  <2>1. g[n + 1].from <= a + Len(f) /\ g[n + 1].count = g[n].count + 1
    BY <1>1, <1>4
  <2>2. n + 1 \in Nat /\ g[n].count \in Nat /\ g[n + 1].from \in Nat
    <3>1. n + 1 \in Nat
      OBVIOUS
    <3>2. g[n] \in [from : 0 .. Len(v), count : Nat] /\ g[n + 1] \in [from : 0 .. Len(v), count : Nat]
      BY <1>1, <3>1
    <3> QED BY <1>0, <3>1, <3>2, SMTT(40)
  <2>3. g[n + 1].from <= p
    BY <1>0, <2>1, <2>2, SMTT(40)
  <2>4. g[n + 1].count + k <= n0
    BY <1>2, <2>2, <2>3
  <2> QED BY <1>1, <2>1, <2>2, <2>4, SMTT(40)
<1> QED BY <1>3, <1>4 DEF Within, g, n0

\* So the text never outgrows the size that replace() computed.
LEMMA WithinCapacity ==
  ASSUME NEW x, NEW v, Holds(x, v), x.buf # <<>>, NEW f \in Seq(Letters), f # <<>>,
         NEW u \in Seq(Letters), NEW d \in Int, d # 0, NEW p \in Nat, NEW k \in Nat,
         Within(u, x, v, f, d, p, k), NEW K \in Nat, Len(v) <= K, Len(v) + S!occurrences(x, f) * d <= K
  PROVE  Len(u) <= K
<1> DEFINE g == CountRounds(x, f)
           n0 == S!occurrences(x, f)
<1>1. n0 \in Nat /\ g[0] = [from |-> 0, count |-> 0]
  BY Counting
<1> HIDE DEF g, n0
<1>2. Len(u) = Len(v) + k * d /\ \A n \in Nat : g[n].from <= p => g[n].count + k <= n0
  BY DEF Within, g, n0
<1>3. k <= n0
  <2>1. g[0].from = 0 /\ g[0].count = 0 /\ 0 \in Nat
    BY <1>1
  <2>3. g[0].from <= p
    BY <2>1
  <2>2. g[0].count + k <= n0
    BY <1>2, <2>1, <2>3
  <2> QED BY <2>1, <2>2
<1>4. Len(v) + n0 * d <= K /\ Len(v) \in Nat
  BY HeldFacts DEF n0
<1>5. k * d \in Int /\ n0 * d \in Int /\ (d > 0 => k * d <= n0 * d) /\ (d < 0 => k * d <= 0)
  BY <1>1, <1>3, Multiples
<1> DEFINE kd == k * d
           nd == n0 * d
<1> HIDE DEF kd, nd
<1>6. /\ kd \in Int /\ nd \in Int /\ (d > 0 => kd <= nd) /\ (d < 0 => kd <= 0)
      /\ Len(v) + nd <= K /\ Len(u) = Len(v) + kd
  BY <1>2, <1>4, <1>5 DEF kd, nd
<1> QED BY <1>4, <1>6

\* A round keeps what is in front of it, and puts the new text in front of what is replaced.
LEMMA BehindStep ==
  ASSUME NEW v \in Seq(Letters), NEW u \in Seq(Letters), NEW f \in Seq(Letters), f # <<>>, NEW w \in Seq(Letters),
         Len(f) # Len(w), ~S!cascades(f, w), NEW p \in Nat, p <= Len(v), NEW r, Behind(u, v, f, w, p, r),
         NEW a \in Nat, a < p, S!occursAt(u, f, a), \A i \in Nat : a < i /\ i < p => ~S!occursAt(u, f, i),
         NEW t \in Seq(Letters), Spliced(t, u, a, Len(f), w)
  PROVE  S!occursAt(v, f, a) /\ a + Len(f) <= p /\ \E o : Behind(t, v, f, w, a, o)
<1> DEFINE z == Len(f)
           o == SubSeq(t, a + 1, Len(t))
           g == Becomes(v, f, w)
<1>1. z \in Nat /\ z >= 1 /\ Len(w) \in Nat /\ Len(u) \in Nat /\ Len(v) \in Nat
  BY LengthOf
<1>2. /\ r \in Seq(Letters) /\ Split(u, v, p, r)
      /\ r = <<>> \/ (Len(w) <= Len(r) /\ \A i \in 1 .. Len(w) : r[i] = w[i])
  BY DEF Behind
<1>3. /\ Len(r) \in Nat /\ Len(u) = p + Len(r)
      /\ \A i \in 1 .. p : u[i] = v[i]
      /\ \A i \in 1 .. Len(r) : u[p + i] = r[i]
  BY <1>2 DEF Split
<1>4. \A j \in Nat : j < p /\ S!occursAt(u, f, j) => j + Len(f) <= p
  BY <1>2, NoStraddle
<1>5. a + z <= p
  BY <1>4
<1>6. ASSUME NEW j \in Nat, j + z <= p PROVE S!occursAt(u, f, j) <=> S!occursAt(v, f, j)
  <2>1. \A i \in 1 .. z : j + i \in 1 .. p
    BY <1>1, <1>6
  <2>2. \A i \in 1 .. z : u[j + i] = v[j + i]
    BY <1>3, <2>1
  <2>3. j + z <= Len(u) /\ j + z <= Len(v)
    BY <1>1, <1>3, <1>6
  <2> QED BY <2>2, <2>3, OccursIn
<1>7. S!occursAt(v, f, a)
  BY <1>5, <1>6
<1>8. /\ Len(t) = a + Len(w) + (Len(u) - (a + z))
      /\ \A i \in 1 .. a : t[i] = u[i]
      /\ \A i \in 1 .. Len(w) : t[a + i] = w[i]
      /\ \A i \in 1 .. Len(u) - (a + z) : t[a + Len(w) + i] = u[a + z + i]
  BY DEF Spliced
<1> HIDE DEF z
<1>9. Len(t) \in Nat /\ a <= Len(t) /\ Len(t) - a = Len(w) + (Len(u) - (a + z)) /\ Len(u) - (a + z) \in Nat
  <2> DEFINE lu == Len(u)
             lw == Len(w)
             lt == Len(t)
  <2>1. /\ z \in Nat /\ lw \in Nat /\ lu \in Nat /\ Len(r) \in Nat /\ lu = p + Len(r) /\ a + z <= p
        /\ lt = a + lw + (lu - (a + z))
    BY <1>1, <1>3, <1>5, <1>8
  <2> HIDE DEF lu, lw, lt
  <2>2. a + z <= lu
    BY <2>1
  <2>3. lu - (a + z) \in Nat
    BY <2>1, <2>2
  <2>4. lt \in Nat /\ a <= lt /\ lt - a = lw + (lu - (a + z))
    BY <2>1, <2>3
  <2> QED BY <2>3, <2>4 DEF lu, lw, lt
<1>10. o \in Seq(Letters) /\ Len(o) = Len(t) - a /\ \A i \in 1 .. Len(t) - a : o[i] = t[a + i]
  BY <1>9, EndPart
<1> HIDE DEF o
<1>11. Split(t, v, a, o)
  <2>1. Len(t) = a + Len(o)
    BY <1>9, <1>10
  <2>2. \A i \in 1 .. a : i \in 1 .. p
    BY <1>1, <1>5
  <2>3. \A i \in 1 .. a : t[i] = v[i]
    BY <1>3, <1>8, <2>2
  <2> QED BY <1>10, <2>1, <2>3 DEF Split
<1>12. Len(w) <= Len(o) /\ \A i \in 1 .. Len(w) : o[i] = w[i]
  <2>1. Len(w) <= Len(o)
    BY <1>1, <1>9, <1>10
  <2>2. \A i \in 1 .. Len(w) : i \in 1 .. Len(t) - a
    BY <1>1, <1>9
  <2> QED BY <1>8, <1>10, <2>1, <2>2
<1>13. ASSUME ~S!overlaps(f)
       PROVE  o = g[a + 1] /\ \A i \in Nat : i < a /\ S!occursAt(v, f, i) => i + z <= a
  <2>1. r = g[p + 1] /\ \A i \in Nat : i < p /\ S!occursAt(v, f, i) => i + z <= p
    BY <1>13 DEF Behind, z
  <2>2. \A i \in Nat : i < a /\ S!occursAt(v, f, i) => i + z <= a
    BY <1>7, <1>13, Apart DEF z
  <2> DEFINE e == a + z
  <2>3. e \in 0 .. p /\ p \in 0 .. Len(v)
    BY <1>1, <1>5
  <2>4. ASSUME NEW i \in Nat, e <= i, i < p PROVE ~S!occursAt(v, f, i)
    <3> SUFFICES ASSUME S!occursAt(v, f, i) PROVE FALSE
      OBVIOUS
    <3>1. i + z <= p
      BY <2>1, <2>4
    <3>2. S!occursAt(u, f, i)
      BY <1>6, <3>1
    <3>3. a < i
      BY <1>1, <2>4
    <3> QED BY <2>4, <3>2, <3>3
  <2>5. Carried(g, v, e, p)
    <3> HIDE DEF e
    <3> QED BY <2>3, <2>4, CarriedOver
  <2>6. /\ g[e + 1] \in Seq(Letters) /\ g[a + 1] \in Seq(Letters)
        /\ Len(g[a + 1]) = Len(w) + Len(g[e + 1])
        /\ \A i \in 1 .. Len(w) : g[a + 1][i] = w[i]
        /\ \A i \in 1 .. Len(g[e + 1]) : g[a + 1][Len(w) + i] = g[e + 1][i]
    BY <1>7, ReplacedHere DEF z
  <2> DEFINE h == g[e + 1]
             k == g[a + 1]
  <2> HIDE DEF g
  <2>7. /\ Len(h) = (p - e) + Len(r)
        /\ \A i \in 1 .. p - e : h[i] = v[e + i]
        /\ \A i \in 1 .. Len(r) : h[(p - e) + i] = r[i]
    BY <2>1, <2>5 DEF Carried
  <2>8. /\ h \in Seq(Letters) /\ k \in Seq(Letters) /\ Len(h) \in Nat
        /\ Len(k) = Len(w) + Len(h)
        /\ \A i \in 1 .. Len(w) : k[i] = w[i]
        /\ \A i \in 1 .. Len(h) : k[Len(w) + i] = h[i]
    <3>1. Len(g[e + 1]) \in Nat
      BY <2>6
    <3> QED BY <2>6, <3>1
  <2> HIDE DEF h, k
  <2>9. Len(o) = Len(w) + Len(h) /\ Len(h) = Len(u) - e
    <3>1. e \in Nat /\ e <= p
      BY <2>3
    <3>2. Len(h) = Len(u) - e
      <4> HIDE DEF e
      <4> QED BY <1>1, <1>3, <2>7, <3>1
    <3> QED BY <1>9, <1>10, <3>2
  <2>10. \A i \in 1 .. Len(h) : h[i] = u[e + i]
    <3> SUFFICES ASSUME NEW i \in 1 .. Len(h) PROVE h[i] = u[e + i]
      OBVIOUS
    <3>0. e \in Nat /\ e <= p
      BY <2>3
    <3> HIDE DEF e
    <3>1. CASE i <= p - e
      <4>1. i \in 1 .. p - e /\ e + i \in 1 .. p
        BY <2>8, <3>0, <3>1, SMTT(40)
      <4> QED BY <1>3, <2>7, <4>1
    <3>2. CASE ~(i <= p - e)
      <4>1. i - (p - e) \in 1 .. Len(r) /\ (p - e) + (i - (p - e)) = i /\ p + (i - (p - e)) = e + i
        BY <1>3, <2>7, <2>8, <3>0, <3>2
      <4>2. h[(p - e) + (i - (p - e))] = r[i - (p - e)] /\ u[p + (i - (p - e))] = r[i - (p - e)]
        BY <1>3, <2>7, <4>1
      <4> QED BY <4>1, <4>2
    <3> QED BY <3>1, <3>2
  <2>11. ASSUME NEW i \in 1 .. Len(k) PROVE o[i] = k[i]
    <3>0. Len(k) = Len(o) /\ i \in 1 .. Len(t) - a
      BY <1>10, <2>8, <2>9
    <3>1. CASE i <= Len(w)
      <4>1. i \in 1 .. Len(w)
        BY <1>1, <2>8, <3>1
      <4> QED BY <1>12, <2>8, <4>1
    <3>2. CASE ~(i <= Len(w))
      <4> DEFINE m == i - Len(w)
      <4>1. m \in 1 .. Len(h) /\ Len(w) + m = i /\ a + i = a + Len(w) + m /\ m \in 1 .. Len(u) - (a + z) /\ e + m = a + z + m
        BY <1>1, <2>8, <2>9, <3>2
      <4> HIDE DEF m
      <4>2. o[i] = t[a + i] /\ t[a + Len(w) + m] = u[a + z + m]
        BY <1>8, <1>10, <3>0, <4>1
      <4>3. k[Len(w) + m] = h[m] /\ h[m] = u[e + m]
        BY <2>8, <2>10, <4>1
      <4> QED BY <4>1, <4>2, <4>3
    <3> QED BY <3>1, <3>2
  <2>12. Len(o) = Len(k)
    BY <2>8, <2>9
  <2>13. o = k
    BY <1>10, <2>8, <2>11, <2>12, SameSeq
  <2> QED BY <2>2, <2>13 DEF k
<1>14. Behind(t, v, f, w, a, o)
  BY <1>10, <1>11, <1>12, <1>13 DEF Behind, z, g
<1> QED BY <1>5, <1>7, <1>14 DEF z

\* A round keeps what is known between two rounds.
LEMMA BetweenStep ==
  ASSUME NEW x, NEW v, Holds(x, v), x.buf # <<>>, NEW f \in Seq(Letters), f # <<>>, NEW w \in Seq(Letters),
         Len(f) # Len(w), ~S!cascades(f, w), NEW K \in Nat, Len(v) <= K,
         Len(v) + S!occurrences(x, f) * (Len(w) - Len(f)) <= K,
         NEW q \in RightStates, NEW u, Holds(q.x, u), Between(q, u, x, v, f, w, K),
         NEW a \in Nat, NEW t \in Seq(Letters), NEW y, Exchanged(y, q, t, u, f, w, a)
  PROVE  Between(y, t, x, v, f, w, K)
<1> DEFINE p == q.index + 1
           d == Len(w) - Len(f)
<1>1. v \in Seq(Letters) /\ u \in Seq(Letters) /\ q.index \in Int /\ Len(v) \in Nat /\ Len(u) \in Nat
  BY HeldFacts DEF RightStates
<1>2. /\ y.index = a - 1 /\ a <= q.index /\ S!occursAt(u, f, a) /\ y.x.cap = q.x.cap
      /\ \A i \in Nat : a < i /\ i <= q.index => ~S!occursAt(u, f, i)
      /\ Spliced(t, u, a, Len(f), w)
      /\ S!fits(q.x) /\ Len(t) <= q.x.cap => S!fits(y.x)
  BY DEF Exchanged
<1>3. p \in Nat /\ a < p /\ \A i \in Nat : a < i /\ i < p => a < i /\ i <= q.index
  BY <1>1, <1>2, SMTT(40)
<1>4. p <= Len(v) /\ q.x.cap = K /\ S!fits(q.x)
  BY DEF Between
<1>5. PICK r : Behind(u, v, f, w, p, r)
  BY DEF Between
<1>6. PICK k \in Nat : Within(u, x, v, f, d, p, k)
  BY DEF Between
<1>7. d \in Int /\ d # 0 /\ Len(f) \in Nat /\ Len(w) \in Nat
  <2>1. Len(f) \in Nat /\ Len(w) \in Nat
    OBVIOUS
  <2> QED BY <2>1
<1>11. Len(v) + S!occurrences(x, f) * d <= K
  OBVIOUS
<1> HIDE DEF p, d
<1>8. S!occursAt(v, f, a) /\ a + Len(f) <= p /\ \E o : Behind(t, v, f, w, a, o)
  <2>1. \A i \in Nat : a < i /\ i < p => ~S!occursAt(u, f, i)
    BY <1>2, <1>3
  <2>2. Spliced(t, u, a, Len(f), w) /\ S!occursAt(u, f, a)
    BY <1>2
  <2> QED BY <1>1, <1>3, <1>4, <1>5, <2>1, <2>2, BehindStep
<1>9. Len(t) = Len(u) + d
  <2>1. Len(t) = a + Len(w) + (Len(u) - (a + Len(f)))
    BY <1>2 DEF Spliced
  <2> QED BY <1>1, <1>7, <2>1 DEF d
<1>10. Within(t, x, v, f, d, a, k + 1)
  BY <1>1, <1>3, <1>6, <1>7, <1>8, <1>9, WithinStep
<1>12. Len(t) <= K
  <2> DEFINE m == k + 1
  <2>1. m \in Nat /\ Within(t, x, v, f, d, a, m)
    BY <1>10
  <2> HIDE DEF m
  <2> QED BY <1>7, <1>11, <2>1, WithinCapacity
<1>13. (a - 1) + 1 = a /\ a <= Len(v) /\ k + 1 \in Nat
  BY <1>1, <1>3, <1>4
<1>14. y.index + 1 = a /\ y.x.cap = K /\ S!fits(y.x)
  BY <1>2, <1>4, <1>12, <1>13
<1> QED BY <1>8, <1>10, <1>13, <1>14 DEF Between, d

\* replace() by texts of different length, from the right.
LEMMA FromRight ==
  ASSUME NEW x, NEW v, Holds(x, v), x.buf # <<>>, NEW f \in Seq(Letters), f # <<>>, NEW w \in Seq(Letters),
         Len(f) # Len(w), NEW y, Holds(y, v), y.buf # <<>>, S!fits(y), Len(v) <= y.cap,
         Len(v) + S!occurrences(x, f) * (Len(w) - Len(f)) <= y.cap
  PROVE  \E u : /\ Holds(S!fromRight(y, f, w), u) /\ S!fromRight(y, f, w).buf # <<>>
                /\ ~S!cascades(f, w) => /\ S!fits(S!fromRight(y, f, w))
                                        /\ ~S!overlaps(f) => u = S!substitute(v, f, w)
<1> DEFINE K == y.cap
           L == Len(v)
           Good(q, u) == Holds(q.x, u) /\ q.x.buf # <<>> /\ (~S!cascades(f, w) => Between(q, u, x, v, f, w, K))
           C == {q \in RightStates : q.index >= -1 /\ \E u : Good(q, u)}
           d0 == [x |-> y, index |-> y.len - 1]
           G == [q \in C |-> S!replaceNext(f, w, q)]
           Q(g) == [n \in Nat |-> IF n = 0 THEN d0 ELSE S!replaceNext(f, w, g[n - 1])]
           g == RightRounds(y, f, w)
<1>1. v \in Seq(Letters) /\ L \in Nat /\ y.len = L /\ y \in Strings /\ K \in Nat
  BY HeldFacts
<1>2. d0 \in C /\ d0.index = L - 1
  <2>1. d0 \in RightStates /\ d0.x = y /\ d0.index = L - 1 /\ d0.index >= -1 /\ d0.index + 1 = L
    BY <1>1 DEF RightStates
  <2> HIDE DEF d0
  <2>2. Behind(v, v, f, w, L, <<>>)
    <3>1. << >> \in Seq(Letters) /\ Len(<< >>) = 0 /\ 1 .. 0 = {}
      OBVIOUS
    <3>2. Split(v, v, L, << >>)
      BY <1>1, <3>1 DEF Split
    <3>3. Becomes(v, f, w)[L + 1] = << >>
      BY <1>1, BecomesStep
    <3>4. \A i \in Nat : S!occursAt(v, f, i) => i + Len(f) <= L
      BY <1>1, OccursIn
    <3> QED BY <3>1, <3>2, <3>3, <3>4 DEF Behind
  <2>3. Within(v, x, v, f, Len(w) - Len(f), L, 0)
    <3> DEFINE d == Len(w) - Len(f)
               n0 == S!occurrences(x, f)
               c == CountRounds(x, f)
    <3>1. n0 \in Nat /\ \A n \in Nat : c[n] \in [from : 0 .. L, count : Nat] /\ c[n].count <= n0
      BY Counting
    <3> HIDE DEF c, n0
    <3>2. d \in Int
      <4>1. Len(w) \in Nat /\ Len(f) \in Nat
        OBVIOUS
      <4> QED BY <4>1
    <3> HIDE DEF d
    <3>3. 0 * d = 0
      BY <3>2
    <3>4. L = L + 0 * d
      BY <1>1, <3>3
    <3>5. ASSUME NEW n \in Nat PROVE c[n].count + 0 <= n0
      <4>1. c[n].count \in Nat /\ c[n].count <= n0
        BY <3>1
      <4> QED BY <4>1
    <3> QED BY <3>4, <3>5 DEF Within, c, n0, d
  <2>4. Between(d0, v, x, v, f, w, K)
    <3>1. L <= L /\ 0 \in Nat
      BY <1>1
    <3> QED BY <2>1, <2>2, <2>3, <3>1 DEF Between
  <2>5. Good(d0, v)
    BY <2>1, <2>4
  <2> HIDE DEF Good
  <2> QED BY <2>1, <2>5
<1>3. ASSUME NEW q \in C
      PROVE  LET r == S!replaceNext(f, w, q) IN
             /\ r \in C
             /\ r = q \/ (r.index < q.index)
             /\ r = q => \A u : Good(q, u) => \A i \in Nat : i <= q.index => ~S!occursAt(u, f, i)
  <2> DEFINE r == S!replaceNext(f, w, q)
  <2>0. q \in RightStates /\ q.index >= -1 /\ q.index \in Int
    BY DEF RightStates
  <2>1. ASSUME NEW u, Good(q, u)
        PROVE  \/ r = q /\ \A i \in Nat : i <= q.index => ~S!occursAt(u, f, i)
               \/ \E a \in Nat, t \in Seq(Letters) : Exchanged(r, q, t, u, f, w, a)
    BY <2>0, <2>1, RightStep
  <2> HIDE DEF r
  <2>2. ASSUME NEW u, NEW a \in Nat, NEW t, Exchanged(r, q, t, u, f, w, a)
        PROVE  r.index = a - 1 /\ r.index < q.index /\ r.index >= -1 /\ r # q
    <3>1. r.index = a - 1 /\ a <= q.index
      BY <2>2 DEF Exchanged
    <3> QED BY <2>0, <3>1
  <2>3. PICK u : Good(q, u)
    OBVIOUS
  <2>4. r \in C /\ (r = q \/ r.index < q.index)
    <3>1. CASE r = q
      BY <3>1
    <3>2. CASE \E a \in Nat, t \in Seq(Letters) : Exchanged(r, q, t, u, f, w, a)
      <4>1. PICK a \in Nat, t \in Seq(Letters) : Exchanged(r, q, t, u, f, w, a)
        BY <3>2
      <4>2. r.index < q.index /\ r.index >= -1
        BY <2>2, <4>1
      <4>3. r \in RightStates /\ Holds(r.x, t) /\ r.x.buf # <<>>
        BY <4>1 DEF Exchanged
      <4>4. ~S!cascades(f, w) => Between(r, t, x, v, f, w, K)
        <5> SUFFICES ASSUME ~S!cascades(f, w) PROVE Between(r, t, x, v, f, w, K)
          OBVIOUS
        <5>1. Holds(q.x, u) /\ Between(q, u, x, v, f, w, K)
          BY <2>3
        <5>2. L <= K /\ L + S!occurrences(x, f) * (Len(w) - Len(f)) <= K
          OBVIOUS
        <5> HIDE DEF K
        <5> QED BY <1>1, <2>0, <4>1, <5>1, <5>2, BetweenStep
      <4>5. Good(r, t)
        BY <4>3, <4>4
      <4> HIDE DEF Good
      <4> QED BY <4>2, <4>3, <4>5
    <3> QED BY <2>1, <2>3, <3>1, <3>2
  <2>5. r = q => \A o : Good(q, o) => \A i \in Nat : i <= q.index => ~S!occursAt(o, f, i)
    <3> HIDE DEF Good
    <3> QED BY <2>1, <2>2
  <2> QED BY <2>4, <2>5 DEF r
<1>4. G \in [C -> C]
  <2> HIDE DEF C
  <2> QED BY <1>3
<1>0. \A q \in C : q.index \in Int /\ q.index >= -1
  BY DEF RightStates
<1>5. PICK h \in [Nat -> C] : Loops(h, d0, G)
  <2> HIDE DEF G, C, d0
  <2> QED BY <1>2, <1>4, Repeats
<1> HIDE DEF C, Good
<1>6. h = Q(h)
  <2> HIDE DEF d0
  <2>1. ASSUME NEW n \in Nat PROVE h[n] = IF n = 0 THEN d0 ELSE S!replaceNext(f, w, h[n - 1])
    <3>1. n # 0 => n - 1 \in Nat
      OBVIOUS
    <3>2. n # 0 => h[n - 1] \in C
      BY <3>1, <1>5
    <3>3. n # 0 => G[h[n - 1]] = S!replaceNext(f, w, h[n - 1])
      BY <3>2
    <3> HIDE DEF G
    <3> QED BY <1>5, <3>3 DEF Loops
  <2> QED BY <1>5, <2>1
<1>7. g = CHOOSE k : k = Q(k)
  BY DEF RightRounds
<1> HIDE DEF Q, g, d0
<1>8. g = Q(g)
  BY <1>6, <1>7
<1>9. \A n \in Nat : g[n] = IF n = 0 THEN d0 ELSE S!replaceNext(f, w, g[n - 1])
  <2>1. \A n \in Nat : Q(g)[n] = IF n = 0 THEN d0 ELSE S!replaceNext(f, w, g[n - 1])
    BY DEF Q
  <2> QED BY <1>8, <2>1
<1>10. g[0] = d0 /\ \A n \in Nat : g[n + 1] = S!replaceNext(f, w, g[n])
  <2>1. \A n \in Nat : n + 1 \in Nat /\ n + 1 # 0 /\ (n + 1) - 1 = n
    OBVIOUS
  <2> QED BY <1>9, <2>1
<1> DEFINE T == {n \in Nat : g[n] \in C /\ (g[n].index <= L - 1 - n \/ g[n + 1] = g[n])}
<1>11. \A n \in Nat : n \in T
  <2>1. 0 \in T
    <3>1. g[0] \in C /\ g[0].index <= L - 1 - 0
      BY <1>1, <1>2, <1>10
    <3> QED BY <3>1
  <2>2. ASSUME NEW n \in Nat, n \in T PROVE n + 1 \in T
    <3>1. g[n] \in C /\ (g[n].index <= L - 1 - n \/ g[n + 1] = g[n])
      BY <2>2
    <3>2. g[n + 1] = S!replaceNext(f, w, g[n]) /\ g[(n + 1) + 1] = S!replaceNext(f, w, g[n + 1])
      <4>1. n + 1 \in Nat
        OBVIOUS
      <4>2. \A m \in Nat : g[m + 1] = S!replaceNext(f, w, g[m])
        BY <1>10
      <4>3. g[n + 1] = S!replaceNext(f, w, g[n])
        BY <4>2
      <4> DEFINE m == n + 1
      <4> HIDE DEF m
      <4>4. g[m + 1] = S!replaceNext(f, w, g[m])
        BY <4>1, <4>2 DEF m
      <4> QED BY <4>3, <4>4 DEF m
    <3>3. g[n + 1] \in C /\ (g[n + 1] = g[n] \/ g[n + 1].index < g[n].index)
      BY <1>3, <3>1, <3>2
    <3>4. CASE g[n + 1] = g[n]
      <4>1. g[(n + 1) + 1] = g[n + 1]
        BY <3>2, <3>4
      <4> QED BY <3>3, <4>1
    <3>5. CASE ~(g[n + 1] = g[n])
      <4>1. g[n].index \in Int /\ g[n + 1].index \in Int
        BY <1>0, <3>1, <3>3
      <4>2. g[n + 1].index <= L - 1 - (n + 1)
        BY <1>1, <3>1, <3>3, <3>5, <4>1
      <4> QED BY <3>3, <4>2
    <3> QED BY <3>4, <3>5
  <2> HIDE DEF T
  <2> QED BY <2>1, <2>2, Induction
<1> DEFINE q == g[L]
<1>12. q \in C /\ (q.index <= L - 1 - L \/ g[L + 1] = q)
  BY <1>1, <1>11
<1>13. g[L + 1] = S!replaceNext(f, w, q)
  BY <1>1, <1>10
<1>14. S!fromRight(y, f, w) = q.x
  BY <1>1 DEF S!fromRight, S!iterate, RightRounds, g
<1> HIDE DEF q
<1>15. S!replaceNext(f, w, q) = q
  <2>1. CASE q.index <= L - 1 - L
    <3> DEFINE r == S!replaceNext(f, w, q)
    <3>1. q.index = -1
      BY <1>0, <1>1, <1>12, <2>1
    <3>2. r \in C /\ (r = q \/ r.index < q.index)
      BY <1>3, <1>12
    <3> HIDE DEF r
    <3>3. r.index >= -1 /\ r.index \in Int
      BY <1>0, <3>2
    <3>4. r = q
      BY <3>1, <3>2, <3>3
    <3> QED BY <3>4 DEF r
  <2> QED BY <1>12, <1>13, <2>1
<1>16. PICK u : Good(q, u)
  BY <1>12 DEF C
<1>17. \A i \in Nat : i <= q.index => ~S!occursAt(u, f, i)
  BY <1>3, <1>12, <1>15, <1>16
<1>18. Holds(q.x, u) /\ q.x.buf # <<>> /\ (~S!cascades(f, w) => Between(q, u, x, v, f, w, K))
  BY <1>16 DEF Good
<1>19. ASSUME ~S!cascades(f, w), ~S!overlaps(f) PROVE u = S!substitute(v, f, w)
  <2> DEFINE p == q.index + 1
             b == Becomes(v, f, w)
  <2>1. Between(q, u, x, v, f, w, K) /\ p \in Nat /\ \A i \in Nat : i < p => i <= q.index
    <3>1. q.index \in Int /\ q.index >= -1
      BY <1>0, <1>12
    <3> QED BY <1>18, <1>19, <3>1
  <2>2. p <= L
    BY <2>1 DEF Between
  <2>3. PICK r : Behind(u, v, f, w, p, r)
    BY <2>1 DEF Between
  <2> HIDE DEF p
  <2>4. /\ r \in Seq(Letters) /\ Split(u, v, p, r) /\ r = b[p + 1]
        /\ \A i \in Nat : i < p /\ S!occursAt(v, f, i) => i + Len(f) <= p
    BY <1>19, <2>3 DEF Behind
  <2>5. Len(u) = p + Len(r) /\ (\A i \in 1 .. p : u[i] = v[i]) /\ \A i \in 1 .. Len(r) : u[p + i] = r[i]
    BY <2>4 DEF Split
  <2>6. u \in Seq(Letters) /\ Len(u) \in Nat /\ Len(r) \in Nat /\ Len(f) \in Nat
    BY <1>18, <2>4, HeldFacts
  <2>7. ASSUME NEW i \in Nat, i < p, S!occursAt(v, f, i) PROVE FALSE
    <3>1. i + Len(f) <= p /\ \A j \in 1 .. Len(f) : v[i + j] = f[j]
      BY <1>1, <2>4, <2>7, OccursIn
    <3>2. \A j \in 1 .. Len(f) : i + j \in 1 .. p
      BY <2>1, <2>6, <3>1
    <3>3. \A j \in 1 .. Len(f) : u[i + j] = f[j]
      BY <2>5, <3>1, <3>2
    <3>4. i + Len(f) <= Len(u)
      BY <2>1, <2>5, <2>6, <3>1
    <3>5. S!occursAt(u, f, i)
      BY <2>6, <3>3, <3>4, OccursIn
    <3> QED BY <1>17, <2>1, <2>7, <3>5
  <2>8. Carried(b, v, 0, p)
    <3>1. p \in 0 .. L /\ 0 \in 0 .. p /\ \A i \in Nat : 0 <= i /\ i < p => ~S!occursAt(v, f, i)
      BY <1>1, <2>1, <2>2, <2>7
    <3> QED BY <1>1, <3>1, CarriedOver
  <2>9. S!substitute(v, f, w) = b[1] /\ b[1] \in Seq(Letters)
    <3>1. S!substitute(v, f, w) = b[1] /\ \A i \in 0 .. L : b[i + 1] \in Seq(Letters)
      BY <1>1, BecomesStep
    <3>2. 0 \in 0 .. L /\ 0 + 1 = 1
      BY <1>1
    <3> HIDE DEF b
    <3> QED BY <3>1, <3>2
  <2> HIDE DEF b
  <2>10. Len(b[1]) = p + Len(r) /\ (\A i \in 1 .. p : b[1][i] = v[i]) /\ \A i \in 1 .. Len(r) : b[1][p + i] = r[i]
    <3>1. 0 + 1 = 1 /\ p - 0 = p /\ \A i \in 1 .. p : 0 + i = i
      BY <2>1
    <3> QED BY <2>4, <2>8, <3>1 DEF Carried
  <2> DEFINE e == b[1]
  <2> HIDE DEF e
  <2>11. e \in Seq(Letters) /\ Len(e) = p + Len(r) /\ (\A i \in 1 .. p : e[i] = v[i]) /\ \A i \in 1 .. Len(r) : e[p + i] = r[i]
    BY <2>9, <2>10 DEF e
  <2>12. ASSUME NEW i \in 1 .. Len(e) PROVE u[i] = e[i]
    <3>1. CASE i <= p
      <4>1. i \in 1 .. p
        BY <2>1, <2>6, <2>11, <3>1
      <4> QED BY <2>5, <2>11, <4>1
    <3>2. CASE ~(i <= p)
      <4>1. i - p \in 1 .. Len(r) /\ p + (i - p) = i
        BY <2>1, <2>6, <2>11, <3>2
      <4>2. u[p + (i - p)] = r[i - p] /\ e[p + (i - p)] = r[i - p]
        BY <2>5, <2>11, <4>1
      <4> QED BY <4>1, <4>2
    <3> QED BY <3>1, <3>2
  <2>13. u = e
    BY <2>5, <2>6, <2>11, <2>12, SameSeq
  <2> QED BY <2>9, <2>13 DEF e
<1>20. ~S!cascades(f, w) => S!fits(q.x)
  BY <1>18 DEF Between
<1> QED BY <1>14, <1>18, <1>19, <1>20

------------------------------------------------------------------------------
\* A prefix grows by what is equal after it.
LEMMA SplitOn ==
  ASSUME NEW e \in Seq(Letters), NEW u, NEW t, NEW p \in Nat, NEW k \in Nat, NEW r \in Seq(Letters), NEW h \in Seq(Letters),
         Split(e, u, p, r), Len(r) = k + Len(h), \A i \in 1 .. p : t[i] = u[i],
         \A i \in 1 .. k : r[i] = t[p + i], \A i \in 1 .. Len(h) : r[k + i] = h[i]
  PROVE  Split(e, t, p + k, h)
<1>1. Len(e) = p + Len(r) /\ (\A i \in 1 .. p : e[i] = u[i]) /\ \A i \in 1 .. Len(r) : e[p + i] = r[i]
  BY DEF Split
<1>2. Len(r) \in Nat /\ Len(h) \in Nat
  OBVIOUS
<1>3. Len(e) = (p + k) + Len(h)
  BY <1>1, <1>2
<1>4. ASSUME NEW i \in 1 .. p + k PROVE e[i] = t[i]
  <2>1. CASE i <= p
    <3>1. i \in 1 .. p
      BY <2>1
    <3> QED BY <1>1, <3>1
  <2>2. CASE ~(i <= p)
    <3> DEFINE j == i - p
    <3>1. j \in 1 .. k /\ j \in 1 .. Len(r) /\ p + j = i
      BY <1>2, <2>2
    <3> HIDE DEF j
    <3>2. e[p + j] = r[j] /\ r[j] = t[p + j]
      BY <1>1, <3>1
    <3> QED BY <3>1, <3>2
  <2> QED BY <2>1, <2>2
<1>5. ASSUME NEW i \in 1 .. Len(h) PROVE e[(p + k) + i] = h[i]
  <2> DEFINE j == k + i
  <2>1. j \in 1 .. Len(r) /\ (p + k) + i = p + j
    BY <1>2
  <2>2. r[j] = h[i]
    OBVIOUS
  <2> HIDE DEF j
  <2>3. e[p + j] = r[j]
    BY <1>1, <2>1
  <2> QED BY <2>1, <2>2, <2>3
<1> QED BY <1>3, <1>4, <1>5 DEF Split

\* At a, w stands where there were z characters.
TakesPlace(g, w, a, z) ==
  /\ g[a + z + 1] \in Seq(Letters) /\ g[a + 1] \in Seq(Letters)
  /\ Len(g[a + 1]) = Len(w) + Len(g[a + z + 1])
  /\ \A i \in 1 .. Len(w) : g[a + 1][i] = w[i]
  /\ \A i \in 1 .. Len(g[a + z + 1]) : g[a + 1][Len(w) + i] = g[a + z + 1][i]

\* ReplacedHere for a length with a name.
LEMMA PlaceTaken ==
  ASSUME NEW v \in Seq(Letters), NEW f \in Seq(Letters), f # <<>>, NEW w \in Seq(Letters),
         NEW a \in Nat, S!occursAt(v, f, a), NEW z, z = Len(f)
  PROVE  TakesPlace(Becomes(v, f, w), w, a, z)
BY ReplacedHere DEF TakesPlace

\* The rounds of replace() where both texts are as long: as far as q.from the text is
\* replaced, and from there on it is as it was.
OverStates == [buf : Seq(Chars), from : Nat]
OverRounds(x, f, w) ==
  CHOOSE g : g = [n \in Nat |-> IF n = 0 THEN [buf |-> x.buf, from |-> 0] ELSE S!overwriteNext(f, w, g[n - 1])]
Over(q, u, x, v, f, w) ==
  /\ q \in OverStates /\ Len(q.buf) = Len(x.buf) /\ u \in Seq(Letters) /\ Len(u) = Len(v) /\ Ended(q.buf, u)
  /\ q.from <= Len(v) /\ \A i \in q.from + 1 .. Len(v) : u[i] = v[i]
  /\ Split(Becomes(v, f, w)[1], u, q.from, Becomes(v, f, w)[q.from + 1])

\* A round replaces the next find, or there is none.
LEMMA OverStep ==
  ASSUME NEW x, NEW v, Holds(x, v), x.buf # <<>>, NEW f \in Seq(Letters), f # <<>>, NEW w \in Seq(Letters),
         Len(f) = Len(w), NEW q, NEW u, Over(q, u, x, v, f, w)
  PROVE  LET r == S!overwriteNext(f, w, q) IN
         \/ r = q /\ \A i \in Nat : q.from <= i => ~S!occursAt(v, f, i)
         \/ r.from > q.from /\ \E t : Over(r, t, x, v, f, w)
<1> DEFINE z == Len(f)
           c == q.from
           a == S!strstr(q.buf, c, f)
           r == S!overwriteNext(f, w, q)
           g == Becomes(v, f, w)
<1>1. /\ q.buf \in Seq(Chars) /\ c \in Nat /\ Len(q.buf) = Len(x.buf) /\ u \in Seq(Letters) /\ Len(u) = Len(v)
      /\ Ended(q.buf, u) /\ c <= Len(v) /\ (\A i \in c + 1 .. Len(v) : u[i] = v[i])
      /\ Split(g[1], u, c, g[c + 1])
  BY DEF Over, OverStates
<1>2. v \in Seq(Letters) /\ Len(v) \in Nat /\ z \in Nat /\ z >= 1 /\ Len(w) = z /\ Len(x.buf) \in Nat
  BY HeldFacts, LengthOf
<1>3. ASSUME NEW i \in Nat, c <= i PROVE S!occursAt(u, f, i) <=> S!occursAt(v, f, i)
  <2>1. ASSUME i + z <= Len(v), NEW j \in 1 .. z PROVE u[i + j] = v[i + j]
    <3>1. i + j \in c + 1 .. Len(v)
      BY <1>1, <1>2, <1>3, <2>1
    <3> HIDE DEF c
    <3> QED BY <1>1, <3>1
  <2>2. S!occursAt(u, f, i) <=> i + z <= Len(u) /\ \A j \in 1 .. z : u[i + j] = f[j]
    BY <1>1, OccursIn
  <2>3. S!occursAt(v, f, i) <=> i + z <= Len(v) /\ \A j \in 1 .. z : v[i + j] = f[j]
    BY <1>2, OccursIn
  <2> QED BY <1>1, <2>1, <2>2, <2>3
<1>4. First(a, u, f, c)
  BY <1>1, Strstr
<1>5. a \in Int /\ (a < 0 <=> a = -1) /\ (~(a < 0) => a \in Nat /\ c <= a /\ a + z <= Len(u) /\ S!occursAt(u, f, a))
  BY <1>1, <1>4, FirstInside
<1>6. r = IF a < 0 THEN q ELSE [buf |-> S!memcpy(q.buf, a, w), from |-> a + Len(w)]
  BY DEF S!overwriteNext
<1> HIDE DEF a, r, c, z
<1>7. CASE a < 0
  <2>1. \A i \in Nat : c <= i => ~S!occursAt(u, f, i)
    BY <1>4, <1>5, <1>7 DEF First
  <2>2. \A i \in Nat : c <= i => ~S!occursAt(v, f, i)
    BY <1>3, <2>1
  <2> QED BY <1>6, <1>7, <2>2 DEF r, c
<1>8. CASE ~(a < 0)
  <2>1. a \in Nat /\ c <= a /\ a + z <= Len(v) /\ S!occursAt(u, f, a) /\ S!occursAt(v, f, a)
    BY <1>1, <1>3, <1>5, <1>8
  <2>2. \A i \in Nat : c <= i /\ i < a => ~S!occursAt(v, f, i)
    BY <1>3, <1>4, <1>5, <1>8 DEF First
  <2> DEFINE b == S!memcpy(q.buf, a, w)
             t == [i \in 1 .. Len(v) |-> IF a < i /\ i <= a + z THEN w[i - a] ELSE u[i]]
  <2>3. Written(b, q.buf, a, w)
    BY <1>1, <2>1, LettersAreChars, Memcpy
  <2> HIDE DEF b
  <2>4. t \in Seq(Letters) /\ Len(t) = Len(v)
    <3>1. \A i \in 1 .. Len(v) : t[i] \in Letters
      <4> SUFFICES ASSUME NEW i \in 1 .. Len(v) PROVE t[i] \in Letters
        OBVIOUS
      <4>1. a < i /\ i <= a + z => i - a \in 1 .. Len(w)
        BY <1>2, <2>1
      <4>2. u[i] \in Letters
        BY <1>1, <1>2
      <4>3. \A j \in 1 .. Len(w) : w[j] \in Letters
        OBVIOUS
      <4> QED BY <4>1, <4>2, <4>3
    <3>2. t \in [1 .. Len(v) -> Letters]
      BY <3>1
    <3> HIDE DEF t
    <3> QED BY <1>2, <3>2, SeqOf
  <2>5. \A i \in 1 .. Len(v) : t[i] = IF a < i /\ i <= a + z THEN w[i - a] ELSE u[i]
    OBVIOUS
  <2> HIDE DEF t
  <2>6. /\ b \in Seq(Chars) /\ Len(b) = Len(q.buf)
        /\ \A i \in 1 .. z : b[a + i] = w[i]
        /\ \A i \in 1 .. Len(q.buf) : i <= a \/ a + z < i => b[i] = q.buf[i]
    <3>1. Len(v) + 1 <= Len(q.buf) /\ Len(q.buf) \in Nat
      BY <1>1, <1>2 DEF Ended
    <3>2. a + Len(w) <= Len(q.buf)
      BY <1>2, <2>1, <3>1
    <3> QED BY <1>2, <2>3, <3>2 DEF Written
  <2>7. Ended(b, t)
    <3>1. Len(u) + 1 <= Len(q.buf) /\ q.buf[Len(u) + 1] = S!NUL /\ \A i \in 1 .. Len(u) : q.buf[i] = u[i]
      BY <1>1 DEF Ended
    <3>2. Len(t) + 1 <= Len(b) /\ Len(q.buf) \in Nat
      BY <1>1, <1>2, <2>4, <2>6, <3>1
    <3>3. b[Len(t) + 1] = S!NUL
      <4>1. Len(v) + 1 \in 1 .. Len(q.buf) /\ a + z < Len(v) + 1
        BY <1>1, <1>2, <2>1, <3>1, <3>2
      <4> QED BY <1>1, <2>4, <2>6, <3>1, <4>1
    <3>4. ASSUME NEW i \in 1 .. Len(t) PROVE b[i] = t[i]
      <4>0. i \in 1 .. Len(v) /\ i \in 1 .. Len(u) /\ i \in 1 .. Len(q.buf)
        BY <1>1, <1>2, <2>4, <3>1, <3>2
      <4>1. CASE a < i /\ i <= a + z
        <5> DEFINE j == i - a
        <5>1. j \in 1 .. z /\ a + j = i
          BY <1>2, <2>1, <4>0, <4>1
        <5>2. t[i] = w[j]
          BY <2>5, <4>0, <4>1
        <5> HIDE DEF j
        <5>3. b[a + j] = w[j]
          BY <2>6, <5>1, SMTT(40)
        <5> QED BY <5>1, <5>2, <5>3
      <4>2. CASE ~(a < i /\ i <= a + z)
        <5>1. i <= a \/ a + z < i
          BY <1>2, <2>1, <4>0, <4>2
        <5> QED BY <2>5, <2>6, <3>1, <4>0, <4>2, <5>1
      <4> QED BY <4>1, <4>2
    <3> QED BY <3>2, <3>3, <3>4 DEF Ended
  <2>8. Split(g[1], t, a + z, g[a + z + 1])
    <3>1. \A i \in 0 .. Len(v) : g[i + 1] \in Seq(Letters)
      BY <1>2, BecomesStep
    <3>2. Carried(g, v, c, a)
      <4>1. a \in 0 .. Len(v) /\ c \in 0 .. a
        BY <1>1, <1>2, <2>1
      <4> QED BY <1>2, <2>2, <4>1, CarriedOver
    <3>3. /\ g[a + z + 1] \in Seq(Letters) /\ g[a + 1] \in Seq(Letters)
          /\ Len(g[a + 1]) = Len(w) + Len(g[a + z + 1])
          /\ \A i \in 1 .. Len(w) : g[a + 1][i] = w[i]
          /\ \A i \in 1 .. Len(g[a + z + 1]) : g[a + 1][Len(w) + i] = g[a + z + 1][i]
      <4>1. v \in Seq(Letters) /\ a \in Nat /\ S!occursAt(v, f, a) /\ z = Len(f)
        BY <1>2, <2>1 DEF z
      <4>2. TakesPlace(g, w, a, z)
        BY <4>1, PlaceTaken
      <4> QED BY <4>2 DEF TakesPlace
    <3> HIDE DEF g
    <3> DEFINE e == g[1]
               h == g[c + 1]
               m == g[a + 1]
               o == g[a + z + 1]
    <3>4. e \in Seq(Letters) /\ h \in Seq(Letters) /\ m \in Seq(Letters) /\ o \in Seq(Letters)
      <4>1. 0 \in 0 .. Len(v) /\ 0 + 1 = 1 /\ c \in 0 .. Len(v)
        BY <1>1, <1>2
      <4> QED BY <3>1, <3>3, <4>1
    <3>5. Split(e, u, c, h)
      BY <1>1
    <3>6. Len(h) = (a - c) + Len(m) /\ (\A i \in 1 .. a - c : h[i] = v[c + i]) /\ \A i \in 1 .. Len(m) : h[(a - c) + i] = m[i]
      BY <3>2 DEF Carried
    <3>7. Len(m) = z + Len(o) /\ (\A i \in 1 .. z : m[i] = w[i]) /\ \A i \in 1 .. Len(o) : m[z + i] = o[i]
      BY <1>2, <3>3
    <3> HIDE DEF e, h, m, o
    <3>8. Split(e, t, c + (a - c), m)
      <4> DEFINE k == a - c
      <4>1. k \in Nat
        BY <1>1, <2>1
      <4>2. \A i \in 1 .. c : t[i] = u[i]
        <5>1. \A i \in 1 .. c : i \in 1 .. Len(v) /\ ~(a < i)
          BY <1>1, <1>2, <2>1
        <5> QED BY <2>5, <5>1
      <4>3. \A i \in 1 .. k : h[i] = t[c + i]
        <5>1. \A i \in 1 .. k : c + i \in 1 .. Len(v) /\ ~(a < c + i) /\ c + i \in c + 1 .. Len(v)
          BY <1>1, <1>2, <2>1, SMTT(40)
        <5>2. \A i \in 1 .. k : t[c + i] = u[c + i] /\ u[c + i] = v[c + i]
          BY <1>1, <2>5, <5>1
        <5> QED BY <3>6, <5>2
      <4>4. Len(h) = k + Len(m) /\ \A i \in 1 .. Len(m) : h[k + i] = m[i]
        BY <3>6
      <4> HIDE DEF k
      <4>5. Split(e, t, c + k, m)
        BY <1>1, <3>4, <3>5, <4>1, <4>2, <4>3, <4>4, SplitOn
      <4> QED BY <4>5 DEF k
    <3>9. Split(e, t, a, m)
      <4>1. c + (a - c) = a
        BY <1>1, <2>1
      <4> QED BY <3>8, <4>1
    <3>10. \A i \in 1 .. z : m[i] = t[a + i]
      <4>1. \A i \in 1 .. z : a + i \in 1 .. Len(v) /\ a < a + i /\ a + i <= a + z /\ (a + i) - a = i
        BY <1>2, <2>1
      <4>2. \A i \in 1 .. z : t[a + i] = w[i]
        BY <2>5, <4>1
      <4> QED BY <3>7, <4>2
    <3>11. Split(e, t, a + z, o)
      BY <1>2, <2>1, <3>4, <3>7, <3>9, <3>10, SplitOn
    <3> QED BY <3>11 DEF e, o
  <2>9. r = [buf |-> b, from |-> a + z] /\ a + z \in Nat /\ a + z <= Len(v) /\ a + z > c
    BY <1>1, <1>2, <1>6, <1>8, <2>1 DEF b
  <2>10. \A i \in a + z + 1 .. Len(v) : t[i] = v[i]
    <3>1. \A i \in a + z + 1 .. Len(v) : i \in 1 .. Len(v) /\ ~(i <= a + z) /\ i \in c + 1 .. Len(v)
      BY <1>1, <1>2, <2>1
    <3> QED BY <1>1, <2>5, <3>1
  <2>11. r \in OverStates /\ r.buf = b /\ r.from = a + z
    BY <2>6, <2>9 DEF OverStates
  <2> HIDE DEF g
  <2>12. Over(r, t, x, v, f, w)
    BY <1>1, <2>4, <2>6, <2>7, <2>8, <2>9, <2>10, <2>11 DEF Over, g
  <2> QED BY <2>9, <2>11, <2>12 DEF r, c
<1> QED BY <1>7, <1>8

\* replace() by a text of the same length is the substitution.
LEMMA Overwritten ==
  ASSUME NEW x, NEW v, Holds(x, v), x.buf # <<>>, NEW f \in Seq(Letters), f # <<>>, NEW w \in Seq(Letters), Len(f) = Len(w)
  PROVE  LET b == S!overwrite(x, f, w) IN
         b \in Seq(Chars) /\ Len(b) = Len(x.buf) /\ Ended(b, S!substitute(v, f, w)) /\ S!substitute(v, f, w) \in Seq(Letters)
         /\ Len(S!substitute(v, f, w)) = Len(v)
<1> DEFINE L == Len(v)
           C == {q \in OverStates : \E u : Over(q, u, x, v, f, w)}
           d0 == [buf |-> x.buf, from |-> 0]
           G == [q \in C |-> S!overwriteNext(f, w, q)]
           Q(g) == [n \in Nat |-> IF n = 0 THEN d0 ELSE S!overwriteNext(f, w, g[n - 1])]
           g == OverRounds(x, f, w)
           b == Becomes(v, f, w)
           e == b[1]
<1>1. v \in Seq(Letters) /\ L \in Nat /\ x.len = L /\ x.buf \in Seq(Chars) /\ Ended(x.buf, v)
  BY HeldFacts
<1>21. e = S!substitute(v, f, w) /\ b[L + 1] = << >> /\ \A i \in 0 .. L : b[i + 1] \in Seq(Letters)
  BY <1>1, BecomesStep
<1> HIDE DEF b
<1>22. e \in Seq(Letters)
  <2>1. 0 \in 0 .. L /\ 0 + 1 = 1
    BY <1>1
  <2> QED BY <1>21, <2>1
<1> HIDE DEF e
<1>2. d0 \in C /\ d0.from = 0
  <2>1. d0 \in OverStates /\ d0.buf = x.buf /\ d0.from = 0
    BY <1>1 DEF OverStates
  <2> HIDE DEF d0
  <2>2. Split(e, v, 0, b[0 + 1])
    <3>1. 0 + 1 = 1 /\ Len(e) = 0 + Len(e) /\ \A i \in 1 .. Len(e) : 0 + i = i
      BY <1>22
    <3>2. 1 .. 0 = {}
      OBVIOUS
    <3> QED BY <3>1, <3>2 DEF Split, e
  <2>3. Over(d0, v, x, v, f, w)
    <3>1. 0 <= L
      BY <1>1
    <3> QED BY <1>1, <2>1, <2>2, <3>1 DEF Over, e, b
  <2> QED BY <2>1, <2>3
<1>3. ASSUME NEW q \in C
      PROVE  LET r == S!overwriteNext(f, w, q) IN
             /\ r \in C
             /\ r.from > q.from \/ (r = q /\ \A i \in Nat : q.from <= i => ~S!occursAt(v, f, i))
  <2> DEFINE r == S!overwriteNext(f, w, q)
  <2>1. PICK u : Over(q, u, x, v, f, w)
    OBVIOUS
  <2>2. \/ r = q /\ \A i \in Nat : q.from <= i => ~S!occursAt(v, f, i)
        \/ r.from > q.from /\ \E t : Over(r, t, x, v, f, w)
    BY <2>1, OverStep
  <2> HIDE DEF r
  <2>3. \A t : Over(r, t, x, v, f, w) => r \in OverStates
    BY DEF Over
  <2>4. r \in C
    BY <2>2, <2>3
  <2> HIDE DEF C
  <2> QED BY <2>2, <2>4 DEF r
<1>4. G \in [C -> C]
  <2> HIDE DEF C
  <2> QED BY <1>3
<1>0. \A q \in C : q.from \in Nat /\ q.from <= L
  BY DEF OverStates, Over
<1>5. PICK h \in [Nat -> C] : Loops(h, d0, G)
  <2> HIDE DEF G, C, d0
  <2> QED BY <1>2, <1>4, Repeats
<1> HIDE DEF C
<1>6. h = Q(h)
  <2> HIDE DEF d0
  <2>1. ASSUME NEW n \in Nat PROVE h[n] = IF n = 0 THEN d0 ELSE S!overwriteNext(f, w, h[n - 1])
    <3>1. n # 0 => n - 1 \in Nat
      OBVIOUS
    <3>2. n # 0 => h[n - 1] \in C
      BY <3>1, <1>5
    <3>3. n # 0 => G[h[n - 1]] = S!overwriteNext(f, w, h[n - 1])
      BY <3>2
    <3> HIDE DEF G
    <3> QED BY <1>5, <3>3 DEF Loops
  <2> QED BY <1>5, <2>1
<1>7. g = CHOOSE k : k = Q(k)
  BY DEF OverRounds
<1> HIDE DEF Q, g, d0
<1>8. g = Q(g)
  BY <1>6, <1>7
<1>9. \A n \in Nat : g[n] = IF n = 0 THEN d0 ELSE S!overwriteNext(f, w, g[n - 1])
  <2>1. \A n \in Nat : Q(g)[n] = IF n = 0 THEN d0 ELSE S!overwriteNext(f, w, g[n - 1])
    BY DEF Q
  <2> QED BY <1>8, <2>1
<1>10. g[0] = d0 /\ \A n \in Nat : g[n + 1] = S!overwriteNext(f, w, g[n])
  <2>1. \A n \in Nat : n + 1 \in Nat /\ n + 1 # 0 /\ (n + 1) - 1 = n
    OBVIOUS
  <2> QED BY <1>9, <2>1
<1> DEFINE T == {n \in Nat : g[n] \in C /\ (g[n].from >= n \/ g[n + 1] = g[n])}
<1>11. \A n \in Nat : n \in T
  <2>1. 0 \in T
    <3>1. g[0] \in C /\ g[0].from >= 0
      BY <1>2, <1>10
    <3> QED BY <3>1
  <2>2. ASSUME NEW n \in Nat, n \in T PROVE n + 1 \in T
    <3>1. g[n] \in C /\ (g[n].from >= n \/ g[n + 1] = g[n])
      BY <2>2
    <3> DEFINE m == n + 1
    <3>0. m \in Nat
      OBVIOUS
    <3> HIDE DEF m
    <3>2. g[n + 1] = S!overwriteNext(f, w, g[n]) /\ g[m + 1] = S!overwriteNext(f, w, g[m])
      BY <1>10, <3>0
    <3>3. g[m] = S!overwriteNext(f, w, g[n])
      BY <3>2 DEF m
    <3>4. g[m] \in C /\ (g[m] = g[n] \/ g[m].from > g[n].from)
      BY <1>3, <3>1, <3>3
    <3>5. CASE g[m] = g[n]
      <4>1. g[m + 1] = g[m]
        BY <3>2, <3>3, <3>5
      <4> QED BY <3>0, <3>4, <4>1 DEF m
    <3>6. CASE ~(g[m] = g[n])
      <4>1. g[n].from \in Nat /\ g[m].from \in Nat
        BY <1>0, <3>1, <3>4
      <4>2. g[n].from >= n
        BY <3>1, <3>6 DEF m
      <4>3. g[m].from >= m
        BY <3>4, <3>6, <4>1, <4>2 DEF m
      <4> QED BY <3>0, <3>4, <4>3 DEF m
    <3> QED BY <3>5, <3>6
  <2> HIDE DEF T
  <2> QED BY <2>1, <2>2, Induction
<1> DEFINE q == g[L]
<1>12. q \in C /\ (q.from >= L \/ g[L + 1] = q)
  BY <1>1, <1>11
<1>13. g[L + 1] = S!overwriteNext(f, w, q)
  BY <1>1, <1>10
<1>14. S!overwrite(x, f, w) = q.buf
  BY <1>1 DEF S!overwrite, S!iterate, OverRounds, g
<1> HIDE DEF q
<1>15. \A i \in Nat : q.from <= i /\ i < L => ~S!occursAt(v, f, i)
  <2>0. q.from \in Nat /\ q.from <= L
    BY <1>0, <1>12
  <2>1. CASE q.from >= L
    BY <1>1, <2>0, <2>1
  <2>2. CASE g[L + 1] = q
    <3> DEFINE r == S!overwriteNext(f, w, q)
    <3>1. r = q
      BY <1>13, <2>2
    <3>2. r.from > q.from \/ (r = q /\ \A i \in Nat : q.from <= i => ~S!occursAt(v, f, i))
      BY <1>3, <1>12
    <3> HIDE DEF r
    <3>3. ~(r.from > q.from)
      BY <2>0, <3>1
    <3> QED BY <3>2, <3>3
  <2> QED BY <1>12, <2>1, <2>2
<1>16. PICK u : Over(q, u, x, v, f, w)
  BY <1>12 DEF C
<1> DEFINE c == q.from
<1>17. /\ q.buf \in Seq(Chars) /\ c \in Nat /\ Len(q.buf) = Len(x.buf) /\ u \in Seq(Letters) /\ Len(u) = L
       /\ Ended(q.buf, u) /\ c <= L /\ (\A i \in c + 1 .. L : u[i] = v[i])
       /\ Split(e, u, c, b[c + 1])
  BY <1>16 DEF Over, OverStates, e, b
<1>18. Carried(b, v, c, L)
  <2>1. L \in 0 .. L /\ c \in 0 .. L
    BY <1>1, <1>17
  <2> QED BY <1>1, <1>15, <2>1, CarriedOver DEF b
<1> HIDE DEF c
<1> DEFINE r == b[c + 1]
<1>19. r \in Seq(Letters) /\ Len(r) = L - c /\ \A i \in 1 .. L - c : r[i] = v[c + i]
  <2>1. Len(<< >>) = 0
    OBVIOUS
  <2>2. Len(r) = (L - c) + Len(b[L + 1]) /\ \A i \in 1 .. L - c : r[i] = v[c + i]
    BY <1>18 DEF Carried
  <2>3. r \in Seq(Letters)
    <3>1. c \in 0 .. L
      BY <1>1, <1>17
    <3> QED BY <1>21, <3>1
  <2> HIDE DEF r
  <2> QED BY <1>1, <1>17, <1>21, <2>1, <2>2, <2>3, SMTT(40)
<1> HIDE DEF r
<1>20. u = e
  <2>1. Len(e) = c + Len(r) /\ (\A i \in 1 .. c : e[i] = u[i]) /\ \A i \in 1 .. Len(r) : e[c + i] = r[i]
    BY <1>17 DEF Split, r
  <2>2. Len(e) = L
    BY <1>1, <1>17, <1>19, <2>1
  <2>3. ASSUME NEW i \in 1 .. Len(e) PROVE u[i] = e[i]
    <3>1. CASE i <= c
      <4>1. i \in 1 .. c
        BY <1>17, <2>2, <3>1
      <4> QED BY <2>1, <4>1
    <3>2. CASE ~(i <= c)
      <4> DEFINE j == i - c
      <4>1. j \in 1 .. L - c /\ c + j = i /\ i \in c + 1 .. L
        BY <1>1, <1>17, <2>2, <3>2
      <4> HIDE DEF j
      <4>2. e[c + j] = r[j] /\ r[j] = v[c + j]
        BY <1>19, <2>1, <4>1
      <4> QED BY <1>17, <4>1, <4>2
    <3> QED BY <3>1, <3>2
  <2> QED BY <1>17, <1>22, <2>2, <2>3, SameSeq
<1> QED BY <1>14, <1>17, <1>20, <1>21, <1>22

\* What is counted as not there does not occur,
LEMMA NoneCounted ==
  ASSUME NEW x, NEW v, Holds(x, v), x.buf # <<>>, NEW f \in Seq(Letters), f # <<>>, S!occurrences(x, f) = 0,
         NEW i \in Nat
  PROVE  ~S!occursAt(v, f, i)
<1> DEFINE g == CountRounds(x, f)
<1>1. /\ g[0] = [from |-> 0, count |-> 0]
      /\ \A m \in Nat : /\ g[m] \in [from : 0 .. Len(v), count : Nat] /\ g[m].count <= S!occurrences(x, f)
                        /\ \A j \in Nat : g[m].from <= j /\ S!occursAt(v, f, j) =>
                             g[m + 1].from <= j + Len(f) /\ g[m + 1].count = g[m].count + 1
  BY Counting
<1> HIDE DEF g
<1> SUFFICES ASSUME S!occursAt(v, f, i) PROVE FALSE
  OBVIOUS
<1>2. 0 \in Nat /\ 0 <= i /\ 0 + 1 = 1 /\ 1 \in Nat
  OBVIOUS
<1>3. g[0].from = 0 /\ g[0].count = 0
  BY <1>1
<1>4. g[0 + 1].count = g[0].count + 1
  BY <1>1, <1>2, <1>3
<1>5. g[1].count = 1 /\ g[1].count <= 0
  BY <1>1, <1>2, <1>3, <1>4
<1> QED BY <1>5

\* and then the substitution changes nothing.
LEMMA NoneFound ==
  ASSUME NEW v \in Seq(Letters), NEW f \in Seq(Letters), f # <<>>, NEW w \in Seq(Letters),
         \A i \in Nat : i < Len(v) => ~S!occursAt(v, f, i)
  PROVE  S!substitute(v, f, w) = v
<1> DEFINE b == Becomes(v, f, w)
           L == Len(v)
           e == b[1]
<1>1. e = S!substitute(v, f, w) /\ b[L + 1] = << >> /\ \A i \in 0 .. L : b[i + 1] \in Seq(Letters)
  BY BecomesStep
<1>2. L \in Nat
  OBVIOUS
<1>3. Carried(b, v, 0, L)
  <2>1. L \in 0 .. L /\ 0 \in 0 .. L
    BY <1>2
  <2> QED BY <2>1, CarriedOver
<1> HIDE DEF b
<1>4. e \in Seq(Letters) /\ Len(e) = L /\ \A i \in 1 .. L : e[i] = v[i]
  <2>1. 0 \in 0 .. L /\ 0 + 1 = 1 /\ Len(<< >>) = 0 /\ L - 0 = L /\ L + 0 = L /\ \A i \in 1 .. L : 0 + i = i
    BY <1>2
  <2>2. e \in Seq(Letters)
    BY <1>1, <2>1
  <2>3. Len(b[0 + 1]) = (L - 0) + Len(b[L + 1]) /\ \A i \in 1 .. L - 0 : b[0 + 1][i] = v[0 + i]
    BY <1>3 DEF Carried
  <2> QED BY <1>1, <2>1, <2>2, <2>3
<1> HIDE DEF e
<1>5. e = v
  BY <1>2, <1>4, SameSeq
<1> QED BY <1>1, <1>5

\* replace() leaves a terminated text; what it leaves fits if the new text completes no find,
\* and is the substitution if, besides, no two finds overlap.
LEMMA ReplacedHolds ==
  ASSUME NEW x, NEW v, Holds(x, v), S!fits(x), NEW f \in Seq(Letters), NEW w \in Seq(Letters), NEW ok \in BOOLEAN
  PROVE  LET r == S!replaced(x, f, w, ok) IN
         \E u : /\ Holds(r, u)
                /\ ~S!cascades(f, w) => S!fits(r)
                /\ f # <<>> /\ ~S!cascades(f, w) /\ ~S!overlaps(f) => u = S!substitute(v, f, w) \/ (~ok /\ u = v)
<1> DEFINE d == Len(w) - Len(f)
           k == S!occurrences(x, f)
           n == x.len + k * d
           y == IF n > x.cap THEN S!changeBuffer(x, n) ELSE x
           r == S!replaced(x, f, w, ok)
<1>1. r = IF x.len = 0 \/ f = <<>> THEN x
          ELSE IF d = 0 THEN [x EXCEPT !.buf = S!overwrite(x, f, w)]
          ELSE IF k = 0 \/ (n > x.cap /\ ~ok) THEN x
          ELSE S!fromRight(y, f, w)
  BY DEF S!replaced
<1>2. /\ x \in Strings /\ v \in Seq(Letters) /\ Len(v) \in Nat /\ x.len = Len(v) /\ x.cap \in Nat /\ x.buf \in Seq(Chars)
      /\ x.buf = <<>> => Len(v) = 0
      /\ x.buf # <<>> => Len(v) <= x.cap /\ Len(x.buf) = x.cap + 1
  BY HeldFacts
<1>3. Len(w) \in Nat /\ Len(f) \in Nat /\ d \in Int
  <2>1. Len(w) \in Nat /\ Len(f) \in Nat
    OBVIOUS
  <2> QED BY <2>1
<1>4. d = 0 <=> Len(f) = Len(w)
  BY <1>3
<1> HIDE DEF r, d, k, n, y
<1>5. CASE x.len = 0 \/ f = <<>>
  <2>1. r = x
    BY <1>1, <1>5
  <2>2. ASSUME f # <<>> PROVE S!substitute(v, f, w) = v
    <3>1. Len(v) = 0
      BY <1>2, <1>5, <2>2
    <3>2. \A i \in Nat : ~(i < Len(v))
      BY <3>1
    <3> QED BY <1>2, <2>2, <3>2, NoneFound
  <2> QED BY <2>1, <2>2 DEF r
<1>6. CASE ~(x.len = 0 \/ f = <<>>)
  <2>0. x.buf # <<>> /\ f # <<>>
    BY <1>2, <1>6
  <2>1. CASE d = 0
    <3> DEFINE b == S!overwrite(x, f, w)
               u == S!substitute(v, f, w)
    <3>1. Len(f) = Len(w)
      BY <1>4, <2>1
    <3>2. b \in Seq(Chars) /\ Len(b) = Len(x.buf) /\ Ended(b, u) /\ u \in Seq(Letters) /\ Len(u) = Len(v)
      BY <2>0, <3>1, Overwritten
    <3>3. r = [x EXCEPT !.buf = b]
      BY <1>1, <1>6, <2>1
    <3> HIDE DEF b, u
    <3>4. r \in Strings /\ r.buf = b /\ r.len = Len(u) /\ r.cap = x.cap
      BY <1>2, <3>2, <3>3 DEF Strings
    <3>5. b # <<>>
      <4>1. Len(b) = x.cap + 1 /\ Len(b) # 0
        BY <1>2, <2>0, <3>2
      <4> QED BY <3>2, <4>1, NotEmpty
    <3>6. Holds(r, u)
      BY <3>2, <3>4, <3>5 DEF Holds
    <3>7. S!fits(r)
      BY <1>2, <2>0, <3>2, <3>4, <3>5 DEF S!fits
    <3> QED BY <3>6, <3>7 DEF r, u
  <2>2. CASE d # 0 /\ (k = 0 \/ (n > x.cap /\ ~ok))
    <3>1. r = x
      BY <1>1, <1>6, <2>2
    <3>2. ASSUME k = 0 PROVE S!substitute(v, f, w) = v
      <4>1. \A i \in Nat : ~S!occursAt(v, f, i)
        BY <2>0, <3>2, NoneCounted DEF k
      <4> QED BY <1>2, <2>0, <4>1, NoneFound
    <3> QED BY <2>2, <3>1, <3>2 DEF r
  <2>3. CASE d # 0 /\ ~(k = 0 \/ (n > x.cap /\ ~ok))
    <3>1. r = S!fromRight(y, f, w)
      BY <1>1, <1>6, <2>3
    <3>2. k \in Nat
      BY <2>0, Counting DEF k
    <3>3. k * d \in Int
      BY <1>3, <3>2, Multiples
    <3>4. n \in Int /\ n = Len(v) + k * d
      BY <1>2, <3>3 DEF n
    <3>5. Holds(y, v) /\ y.buf # <<>> /\ S!fits(y) /\ Len(v) <= y.cap /\ n <= y.cap
      <4>1. CASE n > x.cap
        <5>1. n \in Nat /\ Len(v) <= n
          BY <1>2, <2>0, <3>4, <4>1
        <5>2. y = S!changeBuffer(x, n)
          BY <4>1 DEF y
        <5>3. Holds(y, v) /\ S!fits(y) /\ y.cap = n
          BY <2>0, <5>1, <5>2, ChangedHolds
        <5>4. y.buf # <<>>
          BY <5>1, <5>2, ChangedBuffer
        <5> QED BY <5>1, <5>3, <5>4
      <4>2. CASE ~(n > x.cap)
        <5>1. y = x
          BY <4>2 DEF y
        <5> QED BY <1>2, <2>0, <3>4, <4>2, <5>1
      <4> QED BY <4>1, <4>2
    <3>6. Len(f) # Len(w)
      BY <1>4, <2>3
    <3>7. Len(v) + S!occurrences(x, f) * (Len(w) - Len(f)) <= y.cap
      BY <3>4, <3>5 DEF k, d
    <3>8. \E u : /\ Holds(S!fromRight(y, f, w), u) /\ S!fromRight(y, f, w).buf # <<>>
                 /\ ~S!cascades(f, w) => /\ S!fits(S!fromRight(y, f, w))
                                         /\ ~S!overlaps(f) => u = S!substitute(v, f, w)
      BY <2>0, <3>5, <3>6, <3>7, FromRight
    <3> QED BY <3>1, <3>8 DEF r
  <2> QED BY <2>1, <2>2, <2>3
<1> QED BY <1>5, <1>6

------------------------------------------------------------------------------
\* A part that ends before it begins is empty.
LEMMA EmptyPart ==
  ASSUME NEW C, NEW m \in Seq(C), NEW a \in Nat, NEW z \in Nat, a > z
  PROVE  SubSeq(m, a, z) = << >>
OBVIOUS

\* Nothing joined, and the whole taken.
LEMMA JoinedEmpty ==
  ASSUME NEW C, NEW m \in Seq(C) PROVE m \o << >> = m /\ SubSeq(m, 1, Len(m)) = m
OBVIOUS

\* The beginning and the end of a text.
LEMMA JoinedAgain ==
  ASSUME NEW m \in Seq(Letters), NEW k \in Nat, k <= Len(m)
  PROVE  SubSeq(m, 1, k) \o SubSeq(m, k + 1, Len(m)) = m
<1> DEFINE l == SubSeq(m, 1, k)
           r == SubSeq(m, k + 1, Len(m))
<1>1. l \in Seq(Letters) /\ Len(l) = k /\ \A i \in 1 .. k : l[i] = m[i]
  BY FirstPart
<1>2. r \in Seq(Letters) /\ Len(r) = Len(m) - k /\ \A i \in 1 .. Len(m) - k : r[i] = m[k + i]
  BY EndPart
<1>0. Len(m) \in Nat
  OBVIOUS
<1> HIDE DEF l, r
<1>3. l \o r \in Seq(Letters) /\ Len(l \o r) = Len(m)
  BY <1>0, <1>1, <1>2
<1>4. ASSUME NEW i \in 1 .. Len(m) PROVE (l \o r)[i] = m[i]
  <2>1. CASE i <= k
    <3>1. i \in 1 .. k /\ i \in 1 .. Len(l)
      BY <1>0, <1>1, <2>1
    <3>2. (l \o r)[i] = l[i]
      BY <1>1, <1>2, <3>1
    <3> QED BY <1>1, <3>1, <3>2
  <2>2. CASE ~(i <= k)
    <3>1. i - k \in 1 .. Len(m) - k /\ k + (i - k) = i
      BY <1>0, <2>2
    <3>2. (l \o r)[i] = r[i - k]
      BY <1>0, <1>1, <1>2, <2>2
    <3> QED BY <1>2, <3>1, <3>2
  <2> QED BY <2>1, <2>2
<1>5. l \o r = m
  BY <1>3, <1>4, SameSeq
<1> QED BY <1>5 DEF l, r

\* EditsAgree for copy(),
LEMMA CopyValue ==
  ASSUME NEW x, NEW v, Holds(x, v), S!fits(x), NEW t \in Seq(Letters), NEW ok \in BOOLEAN
  PROVE  S!Value(S!copy(x, t, ok)) \in {t} \cup (IF ok THEN {} ELSE {<<>>})
<1>1. CASE S!asks(x, Len(t)) /\ ~ok
  <2>1. S!Value(S!copy(x, t, ok)) = <<>>
    BY <1>1, CopyHolds, NothingHeld, ValueIs
  <2> QED BY <1>1, <2>1
<1>2. CASE ~(S!asks(x, Len(t)) /\ ~ok)
  <2>1. S!Value(S!copy(x, t, ok)) = t
    BY <1>2, CopyHolds, ValueIs
  <2> QED BY <2>1
<1> QED BY <1>1, <1>2

\* for concat(),
LEMMA ConcatValue ==
  ASSUME NEW x, NEW v, Holds(x, v), S!fits(x), NEW a, NEW t, Holds(a, t), NEW ok \in BOOLEAN
  PROVE  /\ S!Value(S!concat(x, a, ok)) \in {v \o t} \cup (IF ok THEN {} ELSE {v})
         /\ ~S!asks(x, x.len + Len(t)) => S!Value(S!concat(x, a, ok)) = v \o t
         /\ t = <<>> => S!Value(S!concat(x, a, ok)) = v
<1>0. S!Value(x) = v /\ v \in Seq(Letters)
  BY ValueIs, HeldFacts
<1>1. CASE t = <<>>
  <2>1. S!concat(x, a, ok) = x
    BY <1>1, ConcatHolds
  <2>2. v \o t = v
    BY <1>0, <1>1, JoinedEmpty
  <2> QED BY <1>0, <2>1, <2>2
<1>2. CASE t # <<>> /\ S!asks(x, x.len + Len(t)) /\ ~ok
  <2>1. S!concat(x, a, ok) = x
    BY <1>2, ConcatHolds
  <2> QED BY <1>0, <1>2, <2>1
<1>3. CASE t # <<>> /\ ~(S!asks(x, x.len + Len(t)) /\ ~ok)
  <2>0. Holds(S!concat(x, a, ok), v \o t)
    BY <1>3, ConcatHolds
  <2>1. S!Value(S!concat(x, a, ok)) = v \o t
    BY <2>0, ValueIs
  <2> QED BY <1>3, <2>1
<1> QED BY <1>1, <1>2, <1>3

\* for operator +,
LEMMA SumValue ==
  ASSUME NEW x, NEW v, Holds(x, v), S!fits(x), NEW a, NEW t, Holds(a, t), NEW ok \in BOOLEAN
  PROVE  LET y == S!sum(x, a, ok) IN
         /\ y = S!Null \/ y = S!concat(x, a, ok)
         /\ S!Value(y) \in {v \o t} \cup (IF a.buf # <<>> /\ ok THEN {} ELSE {<<>>})
<1> DEFINE y == S!sum(x, a, ok)
           z == S!concat(x, a, ok)
           fails == S!concatFails(x, a, ok)
<1>1. y = IF fails THEN S!Null ELSE z
  BY DEF S!sum
<1>2. fails <=> a.buf = <<>> \/ (a.len > 0 /\ S!asks(x, x.len + a.len) /\ ~ok)
  BY DEF S!concatFails
<1>3. /\ S!Value(z) \in {v \o t} \cup (IF ok THEN {} ELSE {v})
      /\ ~S!asks(x, x.len + Len(t)) => S!Value(z) = v \o t
      /\ t = <<>> => S!Value(z) = v
  BY ConcatValue
<1>4. /\ a.len = Len(t) /\ Len(t) \in Nat /\ (Len(t) = 0 => t = <<>>) /\ v \in Seq(Letters)
      /\ t \in Seq(Letters)
  BY HeldFacts
<1>5. S!Value(S!Null) = <<>>
  BY NothingHeld, ValueIs
<1> HIDE DEF y, z, fails
<1>6. ASSUME fails PROVE y = S!Null /\ S!Value(y) = <<>> /\ ~(a.buf # <<>> /\ ok)
  BY <1>1, <1>2, <1>5, <1>6
<1>7. ASSUME ~fails PROVE y = z /\ S!Value(y) = v \o t
  <2>1. S!Value(z) = v \o t
    <3>1. CASE ok
      BY <1>3, <3>1
    <3>2. CASE ~S!asks(x, x.len + Len(t))
      BY <1>3, <3>2
    <3>3. CASE Len(t) = 0
      <4>1. v \o << >> = v
        BY <1>4, JoinedEmpty
      <4> QED BY <1>3, <1>4, <3>3, <4>1
    <3> QED BY <1>2, <1>4, <1>7, <3>1, <3>2, <3>3
  <2> QED BY <1>1, <1>7, <2>1
<1> QED BY <1>1, <1>6, <1>7 DEF y, z

\* for s += s,
LEMMA DoubledHolds ==
  ASSUME NEW x, NEW v, Holds(x, v), S!fits(x), NEW ok \in BOOLEAN, NEW kept \in BOOLEAN
  PROVE  LET y == S!doubled(x, ok, kept) IN
         /\ \E u : Holds(y, u)
         /\ ok /\ (kept \/ ~S!asks(x, 2 * x.len)) => S!Value(y) = v \o v
<1> DEFINE junk == [i \in 1 .. x.len |-> S!Junk]
           a == S!argument(junk, TRUE)
           y == S!doubled(x, ok, kept)
<1>1. x.len \in Nat
  BY HeldFacts
<1>2. junk \in Seq(Letters)
  <2>1. S!Junk \in Letters
    BY Named
  <2>2. junk \in [1 .. x.len -> Letters]
    BY <2>1
  <2> HIDE DEF junk
  <2> QED BY <1>1, <2>2, SeqOf
<1> HIDE DEF junk
<1>3. Holds(a, junk)
  BY <1>2, ArgumentHolds
<1>4. y = IF S!asks(x, 2 * x.len) /\ ok /\ ~kept THEN S!concat(x, a, ok) ELSE S!concat(x, x, ok)
  BY DEF S!doubled, junk
<1> HIDE DEF a, y
<1>5. (\E u : Holds(S!concat(x, a, ok), u)) /\ \E u : Holds(S!concat(x, x, ok), u)
  BY <1>3, ConcatHolds
<1>6. ok => S!Value(S!concat(x, x, ok)) = v \o v
  <2>1. S!Value(S!concat(x, x, ok)) \in {v \o v} \cup (IF ok THEN {} ELSE {v})
    BY ConcatValue
  <2> QED BY <2>1
<1> QED BY <1>4, <1>5, <1>6 DEF y

\* for replace(),
LEMMA ReplacedValue ==
  ASSUME NEW x, NEW v, Holds(x, v), S!fits(x), NEW f \in Seq(Letters), NEW w \in Seq(Letters), NEW ok \in BOOLEAN,
         f # <<>>, ~S!cascades(f, w), ~S!overlaps(f)
  PROVE  S!Value(S!replaced(x, f, w, ok)) \in {S!substitute(v, f, w)} \cup (IF ok THEN {} ELSE {v})
<1>1. PICK u : Holds(S!replaced(x, f, w, ok), u) /\ (u = S!substitute(v, f, w) \/ (~ok /\ u = v))
  BY ReplacedHolds
<1>2. S!Value(S!replaced(x, f, w, ok)) = u
  BY <1>1, ValueIs
<1> QED BY <1>1, <1>2

\* for remove(), at any offset and count,
LEMMA RemovedValue ==
  ASSUME NEW x, NEW v, Holds(x, v), NEW k \in Nat, NEW n \in Nat
  PROVE  S!Value(S!removed(x, k, n)) = SubSeq(v, 1, S!Min({k, Len(v)})) \o SubSeq(v, k + n + 1, Len(v))
<1> DEFINE L == Len(v)
           m == S!Min({k, L})
<1>1. v \in Seq(Letters) /\ L \in Nat
  BY HeldFacts
<1>2. m = IF k <= L THEN k ELSE L
  <2>1. k \in Int /\ L \in Int
    BY <1>1
  <2> HIDE DEF L
  <2> QED BY <2>1, MaxOfTwo
<1> HIDE DEF m
<1>3. CASE k >= L
  <2>1. S!Value(S!removed(x, k, n)) = v
    BY <1>3, RemovedHolds, ValueIs
  <2>2. m = L /\ k + n + 1 \in Nat /\ k + n + 1 > L
    BY <1>1, <1>2, <1>3
  <2>3. SubSeq(v, 1, m) = v
    BY <1>1, <2>2, JoinedEmpty
  <2>4. SubSeq(v, k + n + 1, L) = << >>
    BY <1>1, <2>2, EmptyPart
  <2>5. v \o << >> = v
    BY <1>1, JoinedEmpty
  <2> QED BY <2>1, <2>3, <2>4, <2>5 DEF m
<1>4. CASE ~(k >= L) /\ n = 0
  <2>1. S!Value(S!removed(x, k, n)) = v
    BY <1>4, RemovedHolds, ValueIs
  <2>2. m = k /\ k + n + 1 = k + 1 /\ k <= L
    BY <1>1, <1>2, <1>4
  <2>3. SubSeq(v, 1, k) \o SubSeq(v, k + 1, Len(v)) = v
    BY <1>1, <2>2, JoinedAgain
  <2> QED BY <2>1, <2>2, <2>3 DEF m
<1>5. CASE ~(k >= L) /\ n # 0
  <2> DEFINE c == IF n <= L - k THEN n ELSE L - k
  <2>1. m = k /\ k < L
    BY <1>1, <1>2, <1>5
  <2>4. Holds(S!removed(x, k, n), SubSeq(v, 1, k) \o SubSeq(v, k + c + 1, Len(v)))
    BY <1>5, <2>1, RemovedHolds
  <2>2. S!Value(S!removed(x, k, n)) = SubSeq(v, 1, k) \o SubSeq(v, k + c + 1, Len(v))
    <3> HIDE DEF c
    <3> QED BY <2>4, ValueIs
  <2>3. SubSeq(v, k + c + 1, L) = SubSeq(v, k + n + 1, L)
    <3>1. CASE n <= L - k
      <4>1. c = n
        BY <3>1, SMTT(40)
      <4> HIDE DEF c
      <4> QED BY <4>1
    <3>2. CASE ~(n <= L - k)
      <4>1. k + c + 1 = L + 1 /\ k + n + 1 \in Nat /\ k + n + 1 > L /\ L + 1 \in Nat /\ L + 1 > L
        BY <1>1, <3>2
      <4> HIDE DEF c
      <4>2. SubSeq(v, L + 1, L) = << >> /\ SubSeq(v, k + n + 1, L) = << >>
        BY <1>1, <4>1, EmptyPart
      <4> QED BY <4>1, <4>2
    <3> QED BY <3>1, <3>2
  <2> QED BY <2>1, <2>2, <2>3 DEF m
<1> QED BY <1>3, <1>4, <1>5

\* and for substring().
LEMMA SubstringValue ==
  ASSUME NEW x, NEW v, Holds(x, v), NEW i \in Nat, NEW n \in Nat, i <= n, NEW made \in BOOLEAN, NEW ok \in BOOLEAN
  PROVE  S!Value(S!substring(x, i, n, made, ok)) \in
           {SubSeq(v, i + 1, S!Min({n, Len(v)}))} \cup (IF ok THEN {} ELSE {<<>>})
<1> DEFINE L == Len(v)
           m == S!Min({n, L})
           y == S!substring(x, i, n, made, ok)
<1>1. v \in Seq(Letters) /\ L \in Nat
  BY HeldFacts
<1>2. m = IF n <= L THEN n ELSE L
  <2>1. n \in Int /\ L \in Int
    BY <1>1
  <2> HIDE DEF L
  <2> QED BY <2>1, MaxOfTwo
<1> HIDE DEF m
<1>3. CASE i < L
  <2>1. Holds(y, SubSeq(v, i + 1, m)) \/ (~ok /\ y = S!Null)
    BY <1>2, <1>3, SubstringHolds
  <2> HIDE DEF y
  <2>2. Holds(y, SubSeq(v, i + 1, m)) => S!Value(y) = SubSeq(v, i + 1, m)
    BY ValueIs
  <2>3. S!Value(S!Null) = << >>
    BY NothingHeld, ValueIs
  <2> QED BY <2>1, <2>2, <2>3 DEF m, y
<1>4. CASE ~(i < L)
  <2>0. i >= L
    BY <1>1, <1>4
  <2>1. Holds(y, << >>)
    BY <2>0, SubstringHolds
  <2>2. S!Value(y) = << >>
    <3> HIDE DEF y
    <3> QED BY <2>1, ValueIs
  <2>3. m \in Nat /\ i + 1 > m /\ i + 1 \in Nat
    BY <1>1, <1>2, <1>4
  <2>4. SubSeq(v, i + 1, m) = << >>
    BY <1>1, <2>3, EmptyPart
  <2> QED BY <2>2, <2>4 DEF m
<1> QED BY <1>3, <1>4

\* Every change of a String that holds a text agrees with its definition.
LEMMA EditsHold ==
  ASSUME NEW v, Holds(s, v), MaxLen \in Nat
  PROVE  S!EditsAgree
<1>1. S!Value(s) = v
  BY ValueIs
<1> SUFFICES ASSUME S!fits(s)
    PROVE  /\ \A t \in Text, ok \in BOOLEAN :
                /\ S!Value(S!copy(s, t, ok)) \in {t} \cup (IF ok THEN {} ELSE {<<>>})
                /\ \A got \in BOOLEAN : LET a == S!argument(t, got) IN
                     /\ S!Value(S!concat(s, a, ok)) \in {v \o t} \cup (IF got /\ ok THEN {} ELSE {v})
                     /\ S!Value(S!sum(s, a, ok)) \in {v \o t} \cup (IF got /\ ok THEN {} ELSE {<<>>})
           /\ \A kept \in BOOLEAN : kept \/ ~S!asks(s, 2 * s.len) => S!Value(S!doubled(s, TRUE, kept)) = v \o v
           /\ \A f, w \in Text, ok \in BOOLEAN :
                f # <<>> /\ ~S!cascades(f, w) /\ ~S!overlaps(f) =>
                  S!Value(S!replaced(s, f, w, ok)) \in {S!substitute(v, f, w)} \cup (IF ok THEN {} ELSE {v})
           /\ \A i, n \in 0 .. MaxLen :
                /\ S!Value(S!removed(s, i, n)) = SubSeq(v, 1, S!Min({i, Len(v)})) \o SubSeq(v, i + n + 1, Len(v))
                /\ i <= n =>
                     LET t == SubSeq(v, i + 1, S!Min({n, Len(v)})) IN
                     \A made, ok \in BOOLEAN :
                       S!Value(S!substring(s, i, n, made, ok)) \in {t} \cup (IF ok THEN {} ELSE {<<>>})
           /\ LET t == S!Value(S!trimmed(s)) IN
                /\ t # <<>> => ~S!isspace(t[1]) /\ ~S!isspace(t[Len(t)])
                /\ \E i, j \in 0 .. Len(v) :
                     /\ t = SubSeq(v, i + 1, j)
                     /\ \A k \in DOMAIN v : k \in i + 1 .. j \/ S!isspace(v[k])
  BY <1>1 DEF S!EditsAgree
<1>2. \A t \in Text, ok \in BOOLEAN :
        /\ S!Value(S!copy(s, t, ok)) \in {t} \cup (IF ok THEN {} ELSE {<<>>})
        /\ \A got \in BOOLEAN : LET a == S!argument(t, got) IN
             /\ S!Value(S!concat(s, a, ok)) \in {v \o t} \cup (IF got /\ ok THEN {} ELSE {v})
             /\ S!Value(S!sum(s, a, ok)) \in {v \o t} \cup (IF got /\ ok THEN {} ELSE {<<>>})
  <2> SUFFICES ASSUME NEW t \in Text, NEW ok \in BOOLEAN, NEW got \in BOOLEAN
        PROVE  LET a == S!argument(t, got) IN
               /\ S!Value(S!copy(s, t, ok)) \in {t} \cup (IF ok THEN {} ELSE {<<>>})
               /\ S!Value(S!concat(s, a, ok)) \in {v \o t} \cup (IF got /\ ok THEN {} ELSE {v})
               /\ S!Value(S!sum(s, a, ok)) \in {v \o t} \cup (IF got /\ ok THEN {} ELSE {<<>>})
    OBVIOUS
  <2> DEFINE a == S!argument(t, got)
             u == IF got THEN t ELSE << >>
  <2>1. t \in Seq(Letters)
    BY TextsAreLetters
  <2>2. Holds(a, u) /\ (got => a.buf # <<>>) /\ (~got => a = S!Null)
    BY <2>1, ArgumentHolds
  <2>3. S!Value(S!copy(s, t, ok)) \in {t} \cup (IF ok THEN {} ELSE {<<>>})
    BY <2>1, CopyValue
  <2>5. S!Null.buf = <<>>
    BY NothingHeld
  <2> HIDE DEF a, u
  <2>4. /\ S!Value(S!concat(s, a, ok)) \in {v \o u} \cup (IF ok THEN {} ELSE {v})
        /\ u = <<>> => S!Value(S!concat(s, a, ok)) = v
        /\ S!Value(S!sum(s, a, ok)) \in {v \o u} \cup (IF a.buf # <<>> /\ ok THEN {} ELSE {<<>>})
    BY <2>2, ConcatValue, SumValue
  <2>6. CASE got
    BY <2>2, <2>3, <2>4, <2>6 DEF a, u
  <2>7. CASE ~got
    <3>1. S!Value(S!concat(s, a, ok)) = v
      BY <2>4, <2>7 DEF u
    <3>2. S!Value(S!sum(s, a, ok)) = <<>>
      <4>1. S!sum(s, a, ok) = S!Null
        BY <2>2, <2>5, <2>7 DEF S!sum, S!concatFails
      <4> QED BY <4>1, NothingHeld, ValueIs
    <3> QED BY <2>3, <2>7, <3>1, <3>2 DEF a
  <2> QED BY <2>6, <2>7
<1>6. \A kept \in BOOLEAN : kept \/ ~S!asks(s, 2 * s.len) => S!Value(S!doubled(s, TRUE, kept)) = v \o v
  BY DoubledHolds
<1>3. \A f, w \in Text, ok \in BOOLEAN :
        f # <<>> /\ ~S!cascades(f, w) /\ ~S!overlaps(f) =>
          S!Value(S!replaced(s, f, w, ok)) \in {S!substitute(v, f, w)} \cup (IF ok THEN {} ELSE {v})
  BY TextsAreLetters, ReplacedValue
<1>4. \A i, n \in 0 .. MaxLen :
        /\ S!Value(S!removed(s, i, n)) = SubSeq(v, 1, S!Min({i, Len(v)})) \o SubSeq(v, i + n + 1, Len(v))
        /\ i <= n =>
             LET t == SubSeq(v, i + 1, S!Min({n, Len(v)})) IN
             \A made, ok \in BOOLEAN :
               S!Value(S!substring(s, i, n, made, ok)) \in {t} \cup (IF ok THEN {} ELSE {<<>>})
  <2> SUFFICES ASSUME NEW i \in 0 .. MaxLen, NEW n \in 0 .. MaxLen
        PROVE  /\ S!Value(S!removed(s, i, n)) = SubSeq(v, 1, S!Min({i, Len(v)})) \o SubSeq(v, i + n + 1, Len(v))
               /\ i <= n =>
                    LET t == SubSeq(v, i + 1, S!Min({n, Len(v)})) IN
                    \A made, ok \in BOOLEAN :
                      S!Value(S!substring(s, i, n, made, ok)) \in {t} \cup (IF ok THEN {} ELSE {<<>>})
    OBVIOUS
  <2>1. i \in Nat /\ n \in Nat
    OBVIOUS
  <2>2. S!Value(S!removed(s, i, n)) = SubSeq(v, 1, S!Min({i, Len(v)})) \o SubSeq(v, i + n + 1, Len(v))
    BY <2>1, RemovedValue
  <2>3. i <= n =>
          LET t == SubSeq(v, i + 1, S!Min({n, Len(v)})) IN
          \A made, ok \in BOOLEAN :
            S!Value(S!substring(s, i, n, made, ok)) \in {t} \cup (IF ok THEN {} ELSE {<<>>})
    BY <2>1, SubstringValue
  <2> QED BY <2>2, <2>3
<1>5. LET t == S!Value(S!trimmed(s)) IN
        /\ t # <<>> => ~S!isspace(t[1]) /\ ~S!isspace(t[Len(t)])
        /\ \E i, j \in 0 .. Len(v) :
             /\ t = SubSeq(v, i + 1, j)
             /\ \A k \in DOMAIN v : k \in i + 1 .. j \/ S!isspace(v[k])
  <2>1. PICK i \in 0 .. Len(v), j \in 0 .. Len(v) :
           LET t == SubSeq(v, i + 1, j) IN
           /\ Holds(S!trimmed(s), t)
           /\ t # <<>> => ~S!isspace(t[1]) /\ ~S!isspace(t[Len(t)])
           /\ \A k \in DOMAIN v : k \in i + 1 .. j \/ S!isspace(v[k])
    BY TrimmedHolds
  <2>2. S!Value(S!trimmed(s)) = SubSeq(v, i + 1, j)
    BY <2>1, ValueIs
  <2> QED BY <2>1, <2>2
<1> QED BY <1>2, <1>3, <1>4, <1>5, <1>6

------------------------------------------------------------------------------
\* The text ends where len says, and replace() fits.
LEMMA TerminatedHold ==
  ASSUME NEW v, Holds(s, v)
  PROVE  S!Terminated
<1>1. ASSUME s.buf # <<>> PROVE S!strlen(s.buf, 0) = s.len
  <2>1. s.buf \in Seq(Chars) /\ v \in Seq(Letters) /\ Ended(s.buf, v) /\ Len(v) \in Nat /\ s.len = Len(v)
    BY <1>1, HeldFacts
  <2>2. 0 \in Nat /\ 0 <= Len(v) /\ Len(v) - 0 = Len(v)
    BY <2>1
  <2>3. S!strlen(s.buf, 0) = Len(v) - 0
    BY <2>1, <2>2, Strlen
  <2> QED BY <2>1, <2>2, <2>3
<1>2. ASSUME NEW f \in Text, NEW w \in Text, S!fits(s), ~S!cascades(f, w) PROVE S!fits(S!replaced(s, f, w, TRUE))
  <2>1. f \in Seq(Letters) /\ w \in Seq(Letters) /\ TRUE \in BOOLEAN
    BY TextsAreLetters
  <2> QED BY <1>2, <2>1, ReplacedHolds
<1> QED BY <1>1, <1>2 DEF S!Terminated

\* Whatever was called: both Strings hold a terminated text.
StringInv == (\E v : Holds(s, v)) /\ \E v : Holds(other, v)

\* At first there is no memory.
LEMMA StringStart == S!Init => StringInv
BY NothingHeld DEF S!Init, StringInv

\* Whatever memory there is, copy(),
LEMMA CopyKeeps ==
  ASSUME NEW x, NEW v, Holds(x, v), S!fits(x), NEW t \in Seq(Letters), NEW ok \in BOOLEAN
  PROVE  \E u : Holds(S!copy(x, t, ok), u)
BY CopyHolds, NothingHeld

\* concat(),
LEMMA ConcatKeeps ==
  ASSUME NEW x, NEW v, Holds(x, v), S!fits(x), NEW a, NEW t, Holds(a, t), NEW ok \in BOOLEAN
  PROVE  \E u : Holds(S!concat(x, a, ok), u)
BY ConcatHolds

\* remove()
LEMMA RemovedKeeps ==
  ASSUME NEW x, NEW v, Holds(x, v), NEW k \in Nat, NEW n \in Nat
  PROVE  \E u : Holds(S!removed(x, k, n), u)
<1>1. CASE k >= Len(v) \/ n = 0
  BY <1>1, RemovedHolds
<1>2. CASE ~(k >= Len(v) \/ n = 0)
  <2>1. k < Len(v) /\ n # 0
    BY <1>2, HeldFacts
  <2> QED BY <2>1, RemovedHolds
<1> QED BY <1>1, <1>2

\* and substring() leave a String that holds a text.
LEMMA SubstringKeeps ==
  ASSUME NEW x, NEW v, Holds(x, v), NEW left \in Nat, NEW right \in Nat, NEW made \in BOOLEAN, NEW ok \in BOOLEAN
  PROVE  \E u : Holds(S!substring(x, left, right, made, ok), u)
<1> DEFINE l == IF left <= right THEN left ELSE right
<1>1. l \in Nat /\ Len(v) \in Nat
  BY HeldFacts
<1>2. CASE l < Len(v)
  <2> DEFINE g == IF left <= right THEN right ELSE left
             r == IF g <= Len(v) THEN g ELSE Len(v)
             y == S!substring(x, left, right, made, ok)
  <2>1. Holds(y, SubSeq(v, l + 1, r)) \/ y = S!Null
    BY <1>2, SubstringHolds
  <2> HIDE DEF l, r, y
  <2> QED BY <2>1, NothingHeld DEF y
<1>3. CASE l >= Len(v)
  BY <1>3, SubstringHolds
<1> HIDE DEF l
<1> QED BY <1>1, <1>2, <1>3

\* Every call keeps that both Strings hold a text.
LEMMA StringStep ==
  ASSUME MaxLen \in Nat, StringInv, [S!Next]_stringVars
  PROVE  StringInv'
<1>1. PICK v : Holds(s, v)
  BY DEF StringInv
<1>2. PICK o : Holds(other, o)
  BY DEF StringInv
<1>3. ASSUME \E u : Holds(s', u), other' = other \/ other' = S!Null PROVE StringInv'
  BY <1>2, <1>3, NothingHeld DEF StringInv
<1>4. CASE UNCHANGED stringVars
  BY <1>1, <1>2, <1>4 DEF StringInv, stringVars
<1>5. CASE S!move
  BY <1>2, <1>5, NothingHeld DEF S!move, StringInv
<1>6. CASE S!destroy
  <2>1. s' = s /\ other' = S!Null
    BY <1>6 DEF S!destroy
  <2> QED BY <1>1, <1>3, <2>1
<1>7. CASE S!trim
  <2>1. s' = S!trimmed(s) /\ other' = other
    BY <1>7 DEF S!trim
  <2>2. \E u : Holds(S!trimmed(s), u)
    BY <1>1, TrimmedHolds
  <2> QED BY <1>3, <2>1, <2>2
<1>8. CASE S!toLowerCase
  <2>1. s' = S!eachChar(s, S!tolower) /\ other' = other
    BY <1>8 DEF S!toLowerCase
  <2>2. \E u : Holds(S!eachChar(s, S!tolower), u)
    BY <1>1, CaseHolds
  <2> QED BY <1>3, <2>1, <2>2
<1>9. CASE S!toUpperCase
  <2>1. s' = S!eachChar(s, S!toupper) /\ other' = other
    BY <1>9 DEF S!toUpperCase
  <2>2. \E u : Holds(S!eachChar(s, S!toupper), u)
    BY <1>1, CaseHolds
  <2> QED BY <1>3, <2>1, <2>2
<1>10. ASSUME NEW c, NEW d \in Letters, S!replaceChar(c, d) PROVE StringInv'
  <2>3. s' = CharReplaced(s, c, d) /\ other' = other
    BY <1>10 DEF S!replaceChar, CharReplaced, S!eachChar
  <2>4. \E u : Holds(CharReplaced(s, c, d), u)
    BY <1>1, ReplaceCharHolds
  <2> QED BY <1>3, <2>3, <2>4
<1>11. ASSUME NEW i \in 0 .. MaxLen, NEW c \in Letters, S!setCharAt(i, c) PROVE StringInv'
  <2>3. i \in Nat
    OBVIOUS
  <2>4. other' = other /\ s' = IF i < s.len THEN [s EXCEPT !.buf[i + 1] = c] ELSE s
    BY <1>11 DEF S!setCharAt
  <2>5. CASE i < s.len
    <3>1. Holds([s EXCEPT !.buf[i + 1] = c], [v EXCEPT ![i + 1] = c])
      BY <1>1, <2>3, <2>5, SetCharHolds
    <3>2. s' = [s EXCEPT !.buf[i + 1] = c]
      BY <2>4, <2>5
    <3> QED BY <1>3, <2>4, <3>1, <3>2
  <2>6. CASE ~(i < s.len)
    <3>1. s' = s
      BY <2>4, <2>6
    <3> QED BY <1>1, <1>3, <2>4, <3>1
  <2> QED BY <2>5, <2>6
<1>12. CASE \E i, n \in 0 .. MaxLen : S!remove(i, n)
  <2>1. PICK i \in 0 .. MaxLen, n \in 0 .. MaxLen : S!remove(i, n)
    BY <1>12
  <2>2. i \in Nat /\ n \in Nat
    OBVIOUS
  <2>3. s' = S!removed(s, i, n) /\ other' = other
    BY <2>1 DEF S!remove
  <2> QED BY <1>1, <1>3, <2>2, <2>3, RemovedKeeps
<1>13. ASSUME NEW ok \in BOOLEAN, S!assignOther(ok) PROVE StringInv'
  <2>1. S!fits(s) /\ other' = other /\ s' = IF other.buf = <<>> THEN S!Null ELSE S!copy(s, S!Value(other), ok)
    BY <1>13 DEF S!assignOther, S!Call
  <2>2. S!Value(other) = o /\ o \in Seq(Letters)
    BY <1>2, ValueIs, HeldFacts
  <2>3. \E u : Holds(S!copy(s, o, ok), u)
    BY <1>1, <2>1, <2>2, CopyKeeps
  <2>4. \E u : Holds(s', u)
    BY <2>1, <2>2, <2>3, NothingHeld
  <2> QED BY <1>3, <2>1, <2>4
<1>14. ASSUME NEW ok \in BOOLEAN, NEW kept \in BOOLEAN, S!appendSelf(ok, kept) PROVE StringInv'
  <2>1. S!fits(s) /\ other' = other /\ s' = S!doubled(s, ok, kept)
    BY <1>14 DEF S!appendSelf, S!Call
  <2>2. \E u : Holds(S!doubled(s, ok, kept), u)
    BY <1>1, <2>1, DoubledHolds
  <2> QED BY <1>3, <2>1, <2>2
<1>15. ASSUME NEW ok \in BOOLEAN, NEW t \in Text, S!construct(t, ok) PROVE StringInv'
  <2>1. other' = S!copy(S!Null, t, ok) /\ s' = s
    BY <1>15 DEF S!construct
  <2>2. \E u : Holds(S!copy(S!Null, t, ok), u)
    BY NothingHeld, TextsAreLetters, CopyKeeps
  <2> QED BY <1>1, <2>1, <2>2 DEF StringInv
<1>16. ASSUME NEW ok \in BOOLEAN, NEW t \in Text, S!assign(t, ok) PROVE StringInv'
  <2>1. S!fits(s) /\ s' = S!copy(s, t, ok) /\ other' = other
    BY <1>16 DEF S!assign, S!Call
  <2>2. \E u : Holds(S!copy(s, t, ok), u)
    BY <1>1, <2>1, TextsAreLetters, CopyKeeps
  <2> QED BY <1>3, <2>1, <2>2
<1>17. ASSUME NEW ok \in BOOLEAN, NEW got \in BOOLEAN, NEW t \in Text,
              S!append(S!argument(t, got), ok) \/ S!plus(S!argument(t, got), ok)
       PROVE StringInv'
  <2> DEFINE a == S!argument(t, got)
  <2>1. S!fits(s) /\ other' = other /\ (s' = S!concat(s, a, ok) \/ s' = S!Null)
    BY <1>17 DEF S!append, S!plus, S!Call, S!sum
  <2>4. \E u : Holds(a, u)
    BY TextsAreLetters, ArgumentHolds
  <2> HIDE DEF a
  <2>2. \E u : Holds(S!concat(s, a, ok), u)
    BY <1>1, <2>1, <2>4, ConcatKeeps
  <2>3. \E u : Holds(s', u)
    BY <2>1, <2>2, NothingHeld
  <2> QED BY <1>3, <2>1, <2>3
<1>18. ASSUME NEW ok \in BOOLEAN, NEW f \in Text, NEW w \in Text, S!replace(f, w, ok) PROVE StringInv'
  <2>1. S!fits(s) /\ s' = S!replaced(s, f, w, ok) /\ other' = other
    BY <1>18 DEF S!replace, S!Call
  <2>2. \E u : Holds(S!replaced(s, f, w, ok), u)
    BY <1>1, <2>1, TextsAreLetters, ReplacedHolds
  <2> QED BY <1>3, <2>1, <2>2
<1>19. ASSUME NEW ok \in BOOLEAN, NEW made \in BOOLEAN, NEW l \in 0 .. MaxLen, NEW r \in 0 .. MaxLen,
              S!takeSubstring(l, r, made, ok)
       PROVE StringInv'
  <2>1. s' = S!substring(s, l, r, made, ok) /\ other' = other
    BY <1>19 DEF S!takeSubstring
  <2>2. l \in Nat /\ r \in Nat
    OBVIOUS
  <2> QED BY <1>1, <1>3, <2>1, <2>2, SubstringKeeps
<1>20. \A c \in {"a", " "} : c \in Letters
  BY Named
<1> QED
  BY <1>20, <1>4, <1>5, <1>6, <1>7, <1>8, <1>9, <1>10, <1>11, <1>12, <1>13, <1>14, <1>15, <1>16, <1>17, <1>18, <1>19 DEF S!Next

\* What the invariant implies of the calls.
LEMMA StringEnd ==
  ASSUME MaxLen \in Nat, StringInv PROVE S!SearchesAgree /\ S!EditsAgree /\ S!Terminated
BY SearchesHold, EditsHold, TerminatedHold DEF StringInv

------------------------------------------------------------------------------
(* The text handling as a whole.                                           *)

\* One part runs, and the invariant of that part holds.
TextInv ==
  /\ part = "dns" => DnsInv
  /\ part = "print" => PrintInv
  /\ part = "stream" => StreamInv
  /\ part = "string" => StringInv

\* Every part begins in its invariant.
LEMMA TextStart == PartsInit => TextInv
BY DnsStart, PrintStart, StreamStart, StringStart DEF PartsInit, TextInv

\* A step of one part keeps its invariant and leaves the other parts alone.
LEMMA TextStep == TextInv /\ [PartsNext]_allVars => TextInv'
<1> SUFFICES ASSUME TextInv, [PartsNext]_allVars
             PROVE  TextInv'
  OBVIOUS
<1>1. part' = part
  BY DEF PartsNext, allVars
<1>2. CASE part = "dns"
  <2>1. [D!Next]_dnsVars
    BY <1>2 DEF PartsNext, allVars
  <2> QED BY <1>1, <1>2, <2>1, DnsStep DEF TextInv
<1>3. CASE part = "print"
  <2>1. [P!Next]_printVars
    BY <1>3 DEF PartsNext, allVars
  <2> QED BY <1>1, <1>3, <2>1, PrintStep DEF TextInv
<1>4. CASE part = "stream"
  <2>1. [I!Next]_streamVars
    BY <1>4 DEF PartsNext, allVars
  <2> QED BY <1>1, <1>4, <2>1, StreamStep DEF TextInv
<1>5. CASE part = "string"
  <2>1. [S!Next]_stringVars
    BY <1>5 DEF PartsNext, allVars
  <2>2. MaxLen \in Nat
    BY ParsingAssumption DEF S!ConstantsOK
  <2> QED BY <1>1, <1>5, <2>1, <2>2, StringStep DEF TextInv
<1> QED
  BY <1>1, <1>2, <1>3, <1>4, <1>5 DEF TextInv

(***************************************************************************)
(* For every set of packets and domains: a reply of DNSServer goes to the  *)
(* client that asked and carries the server's address only for a name of   *)
(* the domain, in any case and with or without "www.", or for one that     *)
(* runs past the end of its datagram, and always if the query is a plain   *)
(* one for the domain; a response that is not short of a header gets no    *)
(* reply (DNSServer.cpp, processNextRequest()).                            *)
(***************************************************************************)
THEOREM DnsSafe == PartsSpec => []AnswersItsDomain
<1>1. TextInv => AnswersItsDomain
  BY DEF TextInv, AnswersItsDomain, DnsInv
<1> QED
  BY <1>1, TextStart, TextStep, PTL DEF PartsSpec

(***************************************************************************)
(* For every number and every width of unsigned long, uint16_t and the     *)
(* buffer: what print() writes is the number, in its base, without leading *)
(* zeros and within the buffer, also where printULLNumber() puts it        *)
(* together from chunks (Print.cpp, printNumber(), printULLNumber()).      *)
(***************************************************************************)
THEOREM PrintSafe == PartsSpec => []TextIsNumber
<1>1. TextInv => TextIsNumber
  BY PrintEnd DEF TextInv, TextIsNumber
<1> QED
  BY <1>1, TextStart, TextStep, PTL DEF PartsSpec

(***************************************************************************)
(* For every target, terminator and sequence of bytes and timeouts:        *)
(* findMulti() stops at the first occurrence of a target, however it       *)
(* overlaps itself; parseInt() and parseFloat() return the value of the    *)
(* characters they took; the readers return what they took and never more  *)
(* than their buffer holds (Stream.cpp).                                   *)
(***************************************************************************)
THEOREM StreamSafe == PartsSpec => []StreamIsExact
<1>1. TextInv => StreamIsExact
  BY StreamEnd DEF TextInv, StreamIsExact
<1> QED
  BY <1>1, TextStart, TextStep, PTL DEF PartsSpec

(***************************************************************************)
(* For every set of texts and every order of calls, with memory for each   *)
(* String and its argument or without: the searches and comparisons of a   *)
(* String say what they say of its text; assignment, += of another String, *)
(* +, remove(), substring() and trim() give the text they should, or the   *)
(* old one or none without memory; the buffer stays terminated where len   *)
(* says.  replace() fits its buffer unless the new text completes a find,  *)
(* and is the substitution unless, besides, two finds overlap; s += s is   *)
(* the doubled text unless its buffer moves.  Nothing is said of indexOf() *)
(* of a String without a buffer (String.cpp).                              *)
(***************************************************************************)
THEOREM StringSafe == PartsSpec => []StringIsExact
<1>1. TextInv => StringIsExact
  <2>1. MaxLen \in Nat
    BY ParsingAssumption DEF S!ConstantsOK
  <2> QED BY <2>1, StringEnd DEF TextInv, StringIsExact
<1> QED
  BY <1>1, TextStart, TextStep, PTL DEF PartsSpec
===============================================================================
