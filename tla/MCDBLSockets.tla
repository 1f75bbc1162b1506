---------------------------- MODULE MCDBLSockets ----------------------------
(* DBLSockets on a small instance. *)
EXTENDS DBLSockets, TLC

CONSTANTS s1, s2, h1, h2

SockSymmetry == Permutations({s1, s2}) \cup Permutations({h1, h2})
=============================================================================
