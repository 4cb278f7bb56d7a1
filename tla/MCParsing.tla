----------------------------- MODULE MCParsing -----------------------------
(* Short texts over two letters and a blank, targets that begin again      *)
(* inside themselves, numbers around the limits of the widths, and queries *)
(* for names in both cases.                                                *)
EXTENDS Parsing

MCText == {<<>>, <<"a">>, <<" ">>, <<"a", "A">>, <<"A", "a", "A">>}
MCMade == {<<"a">>}

MCTarget == {<<>>, <<"1">>, <<"1", "1", "2">>, <<"1", "2", "1", "1">>}

\* Numbers around zero, the limits of the widths and the powers of a base.
MCNumber ==
  (-32 .. 130) \cup {255, 256, 257, 999, 1000, 1001, 1023, 1024, 1025, 4095}

Query == [from |-> "c", ID |-> "c", QR |-> 0, OPCode |-> 0, QD |-> 1, AN |-> 0, AR |-> 0,
          name |-> <<"site">>, form |-> "whole"]
FromD == [Query EXCEPT !.from = "d", !.ID = "d"]

\* Queries for names in both cases, with "www." and without; a response, an
\* inverse query, one with an additional record (EDNS), an empty datagram, a
\* short one and one whose name does not end.
MCPacket ==
  { [Query EXCEPT !.name = <<"WWW", ".", "Site">>],
    [FromD EXCEPT !.AR = 1],
    [FromD EXCEPT !.name = <<"x", ".", "www", ".", "site">>],
    [FromD EXCEPT !.name = <<"x", ".", "site">>],
    [Query EXCEPT !.QR = 1],
    [Query EXCEPT !.OPCode = 1],
    [FromD EXCEPT !.name = <<>>, !.form = "short"],
    [Query EXCEPT !.name = <<>>, !.form = "unterminated"],
    [FromD EXCEPT !.name = <<>>, !.form = "empty"] }
MCDomain == {<<"*">>, <<"www", ".", "site">>, <<"Site">>}
============================================================================
