------------------------------- MODULE MCHttp -------------------------------
(* HTTPClient with two hosts and the kinds of response that sendRequest()  *)
(* and writeToStream() tell apart, and a jar with two headers.             *)
EXTENDS Http

MCSite == {<<"a", 443>>, <<"b", 80>>}

Plain == [code |-> "ok", location |-> NoLocation, keep |-> TRUE, te |-> "identity",
          len |-> 1, body |-> 1]

MCResponse ==
  { Plain,
    [Plain EXCEPT !.code = "moved", !.location = Path, !.te = "chunked", !.len = -1],
    [Plain EXCEPT !.code = "found", !.location = <<"b", 80>>, !.te = "other", !.len = -1, !.body = 0],
    [Plain EXCEPT !.code = "found", !.location = <<"b", 80>>, !.keep = FALSE, !.len = -1] }

\* A time in the past and one in the future.
MCDate == {-1, 5}

\* A site and a host of it, label by label.
MCHost == {<<"a", "site", "com">>, <<"site", "com">>}

=============================================================================
