----------------------------- MODULE BoundedFifo -----------------------------
(***************************************************************************)
(* What a receive buffer promises its reader: a first-in first-out queue   *)
(* of at most Capacity bytes.  A byte that arrives when the queue is full  *)
(* is dropped and disturbs nothing; a read takes the oldest byte, or says  *)
(* NoByte when there is none; a reset empties the queue.                   *)
(***************************************************************************)
EXTENDS Naturals, Sequences

CONSTANTS Capacity,  \* the number of bytes the buffer holds
          Byte,      \* the bytes that may arrive
          NoByte     \* what a read of an empty queue answers (-1 in the code)

VARIABLES queue,     \* the bytes received and not yet read
          answer     \* what the last read (or peek) answered

vars == <<queue, answer>>

Init == queue = <<>> /\ answer = NoByte

Put(c) == /\ queue' = IF Len(queue) < Capacity THEN Append(queue, c) ELSE queue
          /\ UNCHANGED answer

Get == /\ queue # <<>>
       /\ answer' = Head(queue)
       /\ queue' = Tail(queue)

Look == /\ answer' = IF queue = <<>> THEN NoByte ELSE Head(queue)
        /\ UNCHANGED queue

Reset == queue' = <<>> /\ UNCHANGED answer

Next == Get \/ Look \/ Reset \/ \E c \in Byte : Put(c)

Spec == Init /\ [][Next]_vars
==============================================================================
