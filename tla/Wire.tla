---------------------------------- MODULE Wire ---------------------------------
(***************************************************************************)
(* TwoWire: the sketch's calls, and in slave mode the thread that serves   *)
(* the bus and calls onReceive() and onRequest().  The I2C driver, its     *)
(* event queue and the RTOS are external: a transfer that the driver       *)
(* reports done has an event, which may come later than the thread waits.  *)
(***************************************************************************)
EXTENDS Integers, Sequences

CONSTANTS BufferSize,  \* sizeof(m_tx_buffer) and sizeof(m_rx_buffer), 64 in the code
          MessageLen,  \* lengths of the master's messages
          MaxCalls, MaxMessages \* bounds: calls that bring the bus up or down; transfers

\* What the constants have to be; the module of a run assumes it.
ConstantsOK ==
  /\ BufferSize \in Nat /\ MessageLen \subseteq Nat
  /\ MaxCalls \in Nat /\ MaxMessages \in Nat

VARIABLES
  m_initialized, m_slave_mode, m_slave_thread_running,
  thread,        \* m_slave_thread # nullptr
  queue,         \* the events in m_i2c_queue; NoQueue while not m_queue_init
  m_next_slave_event_write,
  m_tx_length, m_rx_length, m_rx_index,
  m_on_receive, m_on_request,   \* whether they are set
  pc, tpc,       \* where the sketch and the thread are
  left,          \* what the thread has still to try in this round, and if it handled an event
  wants,         \* what the master is at: "write", "read" or "nothing"
  due,           \* events that the driver has yet to post
  buffer,        \* history: the length of the message in m_rx_buffer
  verdict,       \* history: what became of the last message: "ok", "dropped", "wrong"
  late, calls, messages \* history: an event has come late; calls; transfers

bus == <<m_initialized, m_slave_mode>>
rx == <<m_rx_length, m_rx_index, buffer, verdict>>
callbacks == <<m_on_receive, m_on_request>>
driver == <<queue, due, late>>
round == <<tpc, left, m_next_slave_event_write>>
vars == <<bus, m_slave_thread_running, thread, driver, round, m_tx_length, rx, callbacks, pc,
          wants, calls, messages>>

NoQueue == <<[mode |-> "none", len |-> 0]>>
Event == [mode : {"read", "write"}, len : MessageLen \cup {0}]
NoRound == [stages |-> <<>>, handled |-> FALSE]

Init ==
  /\ m_initialized = FALSE /\ m_slave_mode = FALSE /\ m_slave_thread_running = FALSE
  /\ thread = FALSE /\ queue = NoQueue /\ m_next_slave_event_write = FALSE
  /\ m_tx_length = 0 /\ m_rx_length = 0 /\ m_rx_index = 0
  /\ m_on_receive = FALSE /\ m_on_request = FALSE
  /\ pc = "idle" /\ tpc = "none" /\ left = NoRound /\ wants = "nothing" /\ due = <<>>
  /\ buffer = 0 /\ verdict = "ok" /\ late = FALSE /\ calls = 0 /\ messages = 0

------------------------------------------------------------------------------
(* The sketch.                                                             *)

\* initSlaveEventQueue() and the thread; made: rtos_create_thread() succeeds.
serve(made) ==
  /\ queue' = IF queue = NoQueue THEN <<>> ELSE queue
  /\ IF thread THEN UNCHANGED <<m_slave_thread_running, thread, tpc>>
     ELSE /\ m_slave_thread_running' = TRUE /\ thread' = made
          /\ tpc' = IF made THEN "top" ELSE tpc
  /\ UNCHANGED <<due, late>>

noService == UNCHANGED <<queue, due, late, m_slave_thread_running, thread, tpc>>

\* beginMaster() and beginSlave(); ok: the driver and the queue come up.
up(slave, ok, made) ==
  /\ m_initialized' = ok /\ m_slave_mode' = slave
  /\ IF ok /\ slave /\ (m_on_receive \/ m_on_request) THEN serve(made) ELSE noService

\* begin(address) and setClock() end the bus first.
begin(slave, ok, made) ==
  /\ pc = "idle" /\ calls < MaxCalls /\ calls' = calls + 1
  /\ IF m_initialized
     THEN /\ pc' = IF slave THEN "endSlave" ELSE "endMaster"
          /\ m_slave_mode' = slave /\ m_slave_thread_running' = FALSE
          /\ UNCHANGED <<m_initialized, thread, driver, tpc>>
     ELSE up(slave, ok, made) /\ UNCHANGED pc
  /\ UNCHANGED <<left, m_next_slave_event_write, m_tx_length, rx, callbacks, wants, messages>>

\* begin() keeps the mode and does not end the bus.
beginAgain(ok, made) ==
  /\ pc = "idle" /\ calls < MaxCalls /\ calls' = calls + 1
  /\ up(m_slave_mode, ok, made)
  /\ UNCHANGED <<left, m_next_slave_event_write, m_tx_length, rx, callbacks, pc, wants, messages>>

\* onReceive() and onRequest(), with a function
register(receive, request, made) ==
  /\ pc = "idle" /\ calls < MaxCalls /\ calls' = calls + 1
  /\ m_on_receive' = (m_on_receive \/ receive) /\ m_on_request' = (m_on_request \/ request)
  /\ IF m_initialized /\ m_slave_mode THEN serve(made) ELSE noService
  /\ UNCHANGED <<bus, left, m_next_slave_event_write, m_tx_length, rx, pc, wants, messages>>

end ==
  /\ pc = "idle" /\ m_initialized /\ calls < MaxCalls /\ calls' = calls + 1
  /\ m_slave_thread_running' = FALSE /\ pc' = "end"
  /\ UNCHANGED <<bus, thread, driver, round, m_tx_length, rx, callbacks, wants, messages>>

\* mutant: the queue goes without a look at the thread
notJoined == TRUE

\* rtos_thread_join(), for a thread that runs
joined == tpc \in {"none", "stuck"}

\* The queue and the bus go down; a begin() or setClock() brings the bus up again.
ended(ok, made) ==
  /\ pc \in {"end", "endSlave", "endMaster"} /\ joined
  /\ due' = <<>> /\ late' = FALSE
  /\ IF pc = "end" \/ ~ok
     THEN /\ m_initialized' = FALSE /\ thread' = (tpc = "stuck") /\ queue' = NoQueue
          /\ UNCHANGED <<m_slave_mode, m_slave_thread_running, tpc>>
     ELSE /\ m_initialized' = TRUE /\ UNCHANGED m_slave_mode
          /\ IF m_slave_mode /\ (m_on_receive \/ m_on_request)
             THEN /\ queue' = <<>>
                  /\ IF tpc = "stuck" THEN UNCHANGED <<m_slave_thread_running, thread, tpc>>
                     ELSE /\ m_slave_thread_running' = TRUE /\ thread' = made
                          /\ tpc' = IF made THEN "top" ELSE "none"
             ELSE /\ queue' = NoQueue /\ thread' = (tpc = "stuck")
                  /\ UNCHANGED <<m_slave_thread_running, tpc>>
  /\ pc' = "idle"
  /\ UNCHANGED <<left, m_next_slave_event_write, m_tx_length, rx, callbacks, wants, calls, messages>>

\* As a master: beginTransmission(), write(), endTransmission(), requestFrom().
\* bound: the sketch does not do so as a slave.
master == pc = "idle" /\ m_initialized /\ ~m_slave_mode

write(k) ==
  /\ master
  /\ m_tx_length' = IF m_tx_length + k > BufferSize THEN BufferSize ELSE m_tx_length + k
  /\ UNCHANGED <<bus, m_slave_thread_running, thread, driver, round, rx, callbacks, pc, wants, calls,
                 messages>>

endTransmission ==
  /\ master /\ m_tx_length' = 0
  /\ UNCHANGED <<bus, m_slave_thread_running, thread, driver, round, rx, callbacks, pc, wants, calls,
                 messages>>

requestFrom(k, ok) ==
  /\ master /\ m_rx_index' = 0
  /\ m_rx_length' = IF ~ok THEN 0 ELSE IF k > BufferSize THEN BufferSize ELSE k
  /\ UNCHANGED <<bus, m_slave_thread_running, thread, driver, round, m_tx_length, buffer, verdict,
                 callbacks, pc, wants, calls, messages>>

\* read(), from the sketch's loop or from onReceive()
read ==
  /\ pc = "idle" \/ tpc = "onReceive"
  /\ m_rx_index < m_rx_length /\ m_rx_index' = m_rx_index + 1
  /\ UNCHANGED <<bus, m_slave_thread_running, thread, driver, round, m_tx_length, m_rx_length,
                 buffer, verdict, callbacks, pc, wants, calls, messages>>

------------------------------------------------------------------------------
(* The bus.                                                                *)

Master(what) ==
  /\ m_initialized /\ wants = "nothing" /\ messages < MaxMessages /\ messages' = messages + 1
  /\ wants' = what
  /\ UNCHANGED <<bus, m_slave_thread_running, thread, driver, round, m_tx_length, rx, callbacks, pc,
                 calls>>

Posted ==
  /\ due # <<>> /\ queue # NoQueue
  /\ queue' = Append(queue, Head(due)) /\ due' = Tail(due)
  /\ UNCHANGED <<bus, m_slave_thread_running, thread, late, round, m_tx_length, rx, callbacks, pc,
                 wants, calls, messages>>

------------------------------------------------------------------------------
(* slaveServiceTask(): one round of the loop.                              *)

idle == <<bus, m_slave_thread_running, thread, callbacks, pc, calls>>

\* mutant: the loop's condition is m_initialized, which end() clears last
runsWhileUp == m_initialized

runs == m_slave_thread_running

exit ==
  /\ tpc = "top" /\ ~runs /\ tpc' = "none"
  /\ UNCHANGED <<idle, driver, left, m_next_slave_event_write, m_tx_length, rx, wants, messages>>

top ==
  /\ tpc = "top" /\ runs /\ m_initialized /\ m_slave_mode
  /\ left' = [stages |-> IF m_next_slave_event_write THEN <<"request", "receive">>
                         ELSE <<"receive", "request">>, handled |-> FALSE]
  /\ tpc' = "stage"
  /\ UNCHANGED <<idle, driver, m_next_slave_event_write, m_tx_length, rx, wants, messages>>

skipped(stage) == left.handled \/ ~(IF stage = "receive" THEN m_on_receive ELSE m_on_request)

stage ==
  /\ tpc = "stage"
  /\ IF left.stages = <<>>
     THEN /\ tpc' = "top" /\ left' = NoRound
          /\ m_next_slave_event_write' = (m_next_slave_event_write # left.handled)
          /\ UNCHANGED <<m_tx_length, m_rx_length>>
     ELSE /\ left' = [left EXCEPT !.stages = Tail(@)]
          /\ IF skipped(Head(left.stages)) THEN UNCHANGED <<tpc, m_tx_length, m_rx_length>>
             ELSE IF Head(left.stages) = "receive"
                  THEN tpc' = "slaveRead" /\ m_rx_length' = 0 /\ UNCHANGED m_tx_length
                  ELSE tpc' = "onRequest" /\ m_tx_length' = 0 /\ UNCHANGED m_rx_length
          /\ UNCHANGED m_next_slave_event_write
  /\ UNCHANGED <<idle, driver, m_rx_index, buffer, verdict, wants, messages>>

\* m_on_request() writes k bytes, or ends the bus it runs on: the join waits
\* for itself.
onRequest(k) ==
  /\ tpc = "onRequest" /\ m_tx_length' = k
  /\ tpc' = IF k > 0 THEN "slaveWrite" ELSE "stage"
  /\ UNCHANGED <<idle, driver, left, m_next_slave_event_write, rx, wants, messages>>

endInCallback ==
  /\ tpc \in {"onRequest", "onReceive"} /\ m_slave_thread_running
  /\ m_slave_thread_running' = FALSE /\ tpc' = "stuck"
  /\ UNCHANGED <<bus, thread, callbacks, pc, calls, driver, left, m_next_slave_event_write,
                 m_tx_length, rx, wants, messages>>

\* bk_i2c_slave_write(): the master reads, or 100 ms pass.
slaveWrite(ok) ==
  /\ tpc = "slaveWrite" /\ (ok => wants = "read")
  /\ IF ok THEN /\ wants' = "nothing" /\ due' = Append(due, [mode |-> "write", len |-> 0])
                /\ tpc' = "popWrite"
     ELSE tpc' = "stage" /\ UNCHANGED <<wants, due>>
  /\ m_tx_length' = IF ok THEN m_tx_length ELSE 0
  /\ UNCHANGED <<idle, queue, late, left, m_next_slave_event_write, rx, messages>>

slaveRead(ok) ==
  /\ tpc = "slaveRead" /\ (ok => wants = "write")
  /\ IF ok THEN /\ wants' = "nothing" /\ tpc' = "popRead"
                /\ \E n \in MessageLen : /\ buffer' = n
                                         /\ due' = Append(due, [mode |-> "read", len |-> n])
     ELSE tpc' = "stage" /\ UNCHANGED <<wants, due, buffer>>
  /\ UNCHANGED <<idle, queue, late, left, m_next_slave_event_write, m_tx_length, m_rx_length,
                 m_rx_index, verdict, messages>>

\* rtos_pop_from_queue(): the oldest event, or none in 100 ms.
popped == IF queue # <<>> THEN Head(queue) ELSE [mode |-> "timeout", len |-> 0]
afterPop == IF queue # <<>> THEN Tail(queue) ELSE queue

\* mutant: the event of a write stays in the queue
leftThere == queue

takenByWrite == afterPop

popWrite ==
  /\ tpc = "popWrite" /\ tpc' = "stage" /\ queue' = takenByWrite
  /\ left' = [left EXCEPT !.handled = (popped.mode = "write")]
  /\ late' = (late \/ queue = <<>>) /\ m_tx_length' = 0
  /\ UNCHANGED <<idle, due, m_next_slave_event_write, rx, wants, messages>>

popRead ==
  LET n == IF popped.mode = "read" /\ popped.len <= BufferSize THEN popped.len ELSE 0 IN
  /\ tpc = "popRead" /\ queue' = afterPop /\ late' = (late \/ queue = <<>>)
  /\ m_rx_length' = n /\ m_rx_index' = 0
  /\ left' = [left EXCEPT !.handled = TRUE]
  /\ tpc' = IF n > 0 /\ m_on_receive THEN "onReceive" ELSE "stage"
  /\ verdict' = IF late' \/ buffer = 0 \/ buffer > BufferSize THEN "ok"
                ELSE IF n = buffer THEN "ok" ELSE IF n = 0 THEN "dropped" ELSE "wrong"
  /\ UNCHANGED <<idle, due, m_next_slave_event_write, m_tx_length, buffer, wants, messages>>

\* m_on_receive() returns
received ==
  /\ tpc = "onReceive" /\ tpc' = "stage"
  /\ UNCHANGED <<idle, driver, left, m_next_slave_event_write, m_tx_length, rx, wants, messages>>

------------------------------------------------------------------------------
Thread ==
  \/ exit \/ top \/ stage \/ popWrite \/ popRead \/ received
  \/ \E k \in {0, 1} : onRequest(k)
  \/ \E ok \in BOOLEAN : slaveWrite(ok) \/ slaveRead(ok)
Ended == \E ok, made \in BOOLEAN : ended(ok, made)

Sketch ==
  \/ \E slave, ok, made \in BOOLEAN : begin(slave, ok, made) \/ beginAgain(ok, made)
  \/ \E made \in BOOLEAN : register(TRUE, FALSE, made) \/ register(FALSE, TRUE, made)
  \/ end \/ endTransmission \/ read
  \/ \E k \in MessageLen : write(k) \/ \E ok \in BOOLEAN : requestFrom(k, ok)

Next ==
  \/ Sketch \/ Ended \/ Thread \/ endInCallback \/ Posted
  \/ \E what \in {"write", "read"} : Master(what)

Spec == Init /\ [][Next]_vars /\ WF_vars(Thread) /\ WF_vars(Ended)

------------------------------------------------------------------------------
\* A message that the bus has received reaches onReceive() with its own length,
\* whatever transfers came before it; excepted is one while an event that came
\* too late is about.
MessageDelivered == verdict = "ok"

\* The thread takes events from a queue that exists, whoever ends the bus and
\* brings it up again meanwhile.
QueueLives == tpc \in {"popRead", "popWrite"} => queue # NoQueue

\* end(), and a begin() or setClock() that ends the bus first, return, although
\* no master ever comes.
EndReturns == pc # "idle" ~> pc = "idle"

\* available() is the number of bytes that read() will give.
AvailableIsCount == m_rx_length >= m_rx_index
=============================================================================
