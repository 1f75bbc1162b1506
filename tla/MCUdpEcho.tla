------------------------------ MODULE MCUdpEcho ------------------------------
(* Two clients and a server whose first and last octets do not fit a byte. *)
EXTENDS UdpEcho

CONSTANTS server, c1, c2

MCServerIp == <<200, 0, 2, 129>>
MCNames == {MCServerIp}
=============================================================================
