----------------------------- MODULE MCWireless -----------------------------
(* WiFiMulti with two names and two strengths, BLE with three services,   *)
(* four scans, and seven calls of the station.                            *)
EXTENDS Wireless

MCService == <<<<"c1", "c2">>, <<"c3">>, <<"c5", "c4">>>>

MCRssi == {-70, -50}
=============================================================================
