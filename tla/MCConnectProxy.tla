---------------------------- MODULE MCConnectProxy ----------------------------
(* ConnectProxy on a small instance: streams of two bytes.                 *)
EXTENDS ConnectProxy

MCClientBytes   == <<"c1", "c2">>
MCUpstreamBytes == <<"u1", "u2">>
=============================================================================
