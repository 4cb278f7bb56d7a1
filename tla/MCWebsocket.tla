---------------------------- MODULE MCWebsocket ----------------------------
(* Two requests and two responses of each kind, two frames and messages.   *)
EXTENDS Websocket

\* Responses with a length, in chunks, and after a "100 Continue" with neither.
MCResponse ==
  { [info |-> FALSE, len |-> 2, chunked |-> FALSE, body |-> 2],
    [info |-> FALSE, len |-> -1, chunked |-> TRUE, body |-> 1],
    [info |-> TRUE, len |-> -1, chunked |-> FALSE, body |-> 1] }

Single == [type |-> "ping", final |-> TRUE, long |-> FALSE, masked |-> FALSE, size |-> 1]

MCFrame ==
  { [Single EXCEPT !.type = "text", !.final = FALSE, !.masked = TRUE, !.size = 2],
    [Single EXCEPT !.type = "continuation", !.long = TRUE],
    Single,
    [Single EXCEPT !.type = "pong"],
    [Single EXCEPT !.type = "close", !.size = 0] }

============================================================================
