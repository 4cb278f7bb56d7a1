------------------------------ MODULE SerialRx -------------------------------
(***************************************************************************)
(* The receive side of HardwareSerial: RingBufferN, filled by the UART     *)
(* interrupt handler and emptied by the task that runs loop().             *)
(*                                                                         *)
(* An action of the task is one access that the interrupt handler can      *)
(* tell apart: pc is the task's position inside read_char(), peek(),       *)
(* begin() or end().  The handler itself is never interrupted, so storing  *)
(* one byte is one action; a handler run that drains several bytes is      *)
(* several such actions in a row.                                          *)
(***************************************************************************)
EXTENDS Integers, Sequences

CONSTANTS N,           \* the size of the ring (256 for HardwareSerial)
          MaxWire,     \* bound: bytes that arrive on the wire in a behaviour
          FifoDepth,   \* bound: bytes the UART holds for the handler
          IsrPreempts, \* may the handler run in the middle of a call?
          Rebegins,    \* does the sketch call begin() on a started port?
          PrintfPort   \* is this the UART that the SDK prints its log on?

ASSUME NAssumption == N \in Nat \ {0}
ASSUME BoundAssumption == MaxWire \in Nat /\ FifoDepth \in Nat \ {0}
ASSUME FlagAssumption == {IsrPreempts, Rebegins, PrintfPort} \subseteq BOOLEAN

VARIABLES
  buf, head, tail, num, \* RingBufferN: _aucBuffer, _iHead, _iTail, _numElems
  started,              \* m_started
  attached,             \* s_serialByUart[id] is this object
  fifo,                 \* bytes the UART holds, oldest first
  wire,                 \* number of bytes that have arrived so far
  pc,                   \* where the task is inside a call, "idle" outside
  op,                   \* the call it is inside: begin() or end()
  tmp,                  \* the value of _numElems that read_char() loaded
  answer,               \* what read() or peek() answered last
  stored, taken         \* history: bytes stored and read since the last clear()

ring == <<buf, head, tail, num>>
task == <<pc, op, tmp>>
vars == <<buf, head, tail, num, started, attached, fifo, wire, pc, op, tmp,
          answer, stored, taken>>

(***************************************************************************)
(* Bytes are told apart by the order in which they arrived.  0 is what the *)
(* constructor's memset leaves in the buffer, -1 is "no data".             *)
(***************************************************************************)
Byte == 1 .. MaxWire
NoData == -1

Index == 0 .. N - 1
nextIndexShort(i) == (i + 1) % (N - 1) \* mutant: the last slot is never used
nextIndex(i) == (i + 1) % N
isFull == num = N
isEmptyNever == FALSE     \* mutant: the test is dropped
isEmpty == num = 0
availableForStore == N - num
available == IF started THEN num ELSE 0

PC == {"idle", "value", "load", "store", "peek",
       "detach", "clearHead", "clearTail", "clearNum", "finish"}

Init ==
  /\ buf = [i \in Index |-> 0]
  /\ head = 0 /\ tail = 0 /\ num = 0
  /\ started = FALSE /\ attached = FALSE
  /\ fifo = <<>> /\ wire = 0
  /\ pc = "idle" /\ op = "begin" /\ tmp = 0
  /\ answer = NoData
  /\ stored = <<>> /\ taken = <<>>

------------------------------------------------------------------------------
(* The wire and the interrupt handler.                                     *)

Arrive ==
  /\ wire < MaxWire /\ Len(fifo) < FifoDepth
  /\ wire' = wire + 1
  /\ fifo' = Append(fifo, wire + 1)
  /\ UNCHANGED <<ring, started, attached, task, answer, stored, taken>>

store_char(c) ==
  IF isFull
  THEN UNCHANGED <<buf, head, num, stored>>
  ELSE /\ buf' = [buf EXCEPT ![head] = c]
       /\ head' = nextIndex(head)
       /\ num' = num + 1
       /\ stored' = Append(stored, c)

storeRxChar(c) ==
  IF availableForStore > 0
  THEN store_char(c)
  ELSE UNCHANGED <<buf, head, num, stored>>

RxIsr ==
  /\ IsrPreempts \/ pc = "idle"
  /\ attached
  /\ fifo # <<>>
  /\ storeRxChar(Head(fifo))
  /\ fifo' = Tail(fifo)
  /\ UNCHANGED <<tail, started, attached, wire, task, answer, taken>>

------------------------------------------------------------------------------
(* read() and peek(), called by the sketch.                                *)

ReadEmpty ==
  /\ pc = "idle"
  /\ ~started \/ isEmpty
  /\ answer' = NoData
  /\ UNCHANGED <<ring, started, attached, fifo, wire, task, stored, taken>>

ReadTest ==
  /\ pc = "idle" /\ started /\ ~isEmpty
  /\ pc' = "value"
  /\ UNCHANGED <<ring, started, attached, fifo, wire, op, tmp, answer, stored, taken>>

ReadValue ==
  /\ pc = "value"
  /\ answer' = buf[tail]
  /\ taken' = Append(taken, buf[tail])
  /\ tail' = nextIndex(tail)
  /\ pc' = "load"
  /\ UNCHANGED <<buf, head, num, started, attached, fifo, wire, op, tmp, stored>>

ReadLoad ==
  /\ pc = "load"
  /\ tmp' = num
  /\ pc' = "store"
  /\ UNCHANGED <<ring, started, attached, fifo, wire, op, answer, stored, taken>>

\* mutant: the count is written back without the decrement
ReadStoreForgets ==
  /\ pc = "store"
  /\ num' = tmp
  /\ pc' = "idle"
  /\ UNCHANGED <<buf, head, tail, started, attached, fifo, wire, op, tmp, answer,
                 stored, taken>>

ReadStore ==
  /\ pc = "store"
  /\ num' = tmp - 1
  /\ pc' = "idle"
  /\ UNCHANGED <<buf, head, tail, started, attached, fifo, wire, op, tmp, answer,
                 stored, taken>>

PeekTest ==
  /\ pc = "idle" /\ started /\ ~isEmpty
  /\ pc' = "peek"
  /\ UNCHANGED <<ring, started, attached, fifo, wire, op, tmp, answer, stored, taken>>

PeekValue ==
  /\ pc = "peek"
  /\ answer' = buf[tail]
  /\ pc' = "idle"
  /\ UNCHANGED <<ring, started, attached, fifo, wire, op, tmp, stored, taken>>

------------------------------------------------------------------------------
(* begin(), write() and end().  begin() may be called while started; write *)
(* calls it when the port is not started.  clear() is three stores.        *)

Begin ==
  /\ pc = "idle"
  /\ Rebegins \/ ~started
  /\ op' = "begin" /\ pc' = "clearHead"
  /\ UNCHANGED <<ring, started, attached, fifo, wire, tmp, answer, stored, taken>>

Write ==
  /\ ~started
  /\ Begin

End ==
  /\ pc = "idle" /\ started
  /\ op' = "end" /\ pc' = "detach"
  /\ UNCHANGED <<ring, started, attached, fifo, wire, tmp, answer, stored, taken>>

\* mutant: end() empties the ring before it takes the object from the handler
EndDetachLate ==
  /\ pc = "detach"
  /\ pc' = "clearHead"
  /\ UNCHANGED <<ring, started, attached, fifo, wire, op, tmp, answer, stored, taken>>

EndDetach ==
  /\ pc = "detach"
  /\ attached' = FALSE
  /\ fifo' \in IF PrintfPort THEN {fifo} ELSE {fifo, <<>>}
  /\ pc' = "clearHead"
  /\ UNCHANGED <<ring, started, wire, op, tmp, answer, stored, taken>>

ClearHead ==
  /\ pc = "clearHead"
  /\ head' = 0
  /\ stored' = <<>>
  /\ pc' = "clearTail"
  /\ UNCHANGED <<buf, tail, num, started, attached, fifo, wire, op, tmp, answer, taken>>

ClearTail ==
  /\ pc = "clearTail"
  /\ tail' = 0
  /\ taken' = <<>>
  /\ pc' = "clearNum"
  /\ UNCHANGED <<buf, head, num, started, attached, fifo, wire, op, tmp, answer, stored>>

ClearNum ==
  /\ pc = "clearNum"
  /\ num' = 0
  /\ pc' = "finish"
  /\ UNCHANGED <<buf, head, tail, started, attached, fifo, wire, op, tmp, answer,
                 stored, taken>>

Finish ==
  /\ pc = "finish"
  /\ attached' = (op = "begin")
  /\ started' = (op = "begin")
  /\ pc' = "idle"
  /\ UNCHANGED <<ring, fifo, wire, op, tmp, answer, stored, taken>>

------------------------------------------------------------------------------
Next ==
  \/ Arrive \/ RxIsr
  \/ ReadEmpty \/ ReadTest \/ ReadValue \/ ReadLoad \/ ReadStore
  \/ PeekTest \/ PeekValue
  \/ Begin \/ Write \/ End \/ EndDetach
  \/ ClearHead \/ ClearTail \/ ClearNum \/ Finish

Spec == Init /\ [][Next]_vars

------------------------------------------------------------------------------
TypeOK ==
  /\ buf \in [Index -> Nat]
  /\ head \in Index /\ tail \in Index /\ num \in 0 .. N
  /\ started \in BOOLEAN /\ attached \in BOOLEAN
  /\ fifo \in Seq(Byte) /\ wire \in Nat
  /\ pc \in PC /\ op \in {"begin", "end"} /\ tmp \in 0 .. N
  /\ answer \in Nat \cup {NoData}
  /\ stored \in Seq(Byte) /\ taken \in Seq(Nat)

reading == pc \in {"load", "store"}
clearing == pc \in {"clearTail", "clearNum"}
unread == Len(stored) - Len(taken)

(***************************************************************************)
(* available() never promises a byte that has not been received: between   *)
(* two calls, and inside read_char() and peek(), _numElems is at most the  *)
(* number of bytes stored and not yet read, whatever the handler does to   *)
(* read_char()'s load and store of _numElems or to clear()'s three stores. *)
(***************************************************************************)
CountNeverAhead ==
  /\ ~clearing => num <= unread + (IF reading THEN 1 ELSE 0)
  /\ pc = "store" => tmp <= num

(***************************************************************************)
(* A port that is not started holds nothing: end() takes the object away   *)
(* from the handler before it empties the ring, so no byte can slip in     *)
(* behind clear() and greet the next begin().                              *)
(***************************************************************************)
StoppedIsEmpty ==
  pc = "idle" /\ ~started => num = 0 /\ head = tail /\ stored = taken

(***************************************************************************)
(* store_char() never writes over a byte that has not been read: "we're    *)
(* about to overflow the buffer and so we don't write the character or     *)
(* advance the head".                                                      *)
(***************************************************************************)
NoOverwrite == ~clearing => unread <= N

(***************************************************************************)
(* The ring implements a bounded FIFO.  Inside read_char() the byte has    *)
(* left the queue once _iTail has moved; inside clear() the queue is empty *)
(* from the first store on.                                                *)
(***************************************************************************)
Window(t, k) == [i \in 1 .. k |-> buf[(t + i - 1) % N]]
queue == IF clearing THEN <<>>
         ELSE Window(tail, IF reading THEN num - 1 ELSE num)

Fifo == INSTANCE BoundedFifo WITH Capacity <- N, NoByte <- NoData

(***************************************************************************)
(* Seen from the sketch, the receive side of HardwareSerial is a bounded   *)
(* FIFO when the handler never runs inside a call.                         *)
(***************************************************************************)
ImplementsFifo == Fifo!Spec

==============================================================================
