---------------------------- MODULE MCDBLProtocol ---------------------------
(* DBLProtocol on a small instance. *)
EXTENDS DBLProtocol, TLC

CONSTANTS s1, s2, s3, h1, h2

SockSymmetry == Permutations({s1, s2, s3}) \cup Permutations({h1, h2})
=============================================================================
