---------------------------- MODULE MCTcpPingPong ----------------------------
(* The server's third accept() waits for ever. *)
EXTENDS TcpPingPong

CONSTANTS server, c1, c2, r1, r2, r3

MCResults == <<r1, r2, r3>>
=============================================================================
