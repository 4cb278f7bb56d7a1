------------------------------ MODULE MCBoard ------------------------------
(* Two HardwareTimers on one timer, three armings of a Ticker, a few calls *)
(* and edges of a pin, and messages up to one byte longer than the buffer. *)
EXTENDS Board

MCTimerId == [t |-> 0, u |-> 0]

MCMessageLen == 1 .. 3
============================================================================
