---------------------------- MODULE MCHandleRace ----------------------------
(* Two sockets of one address and a third of another. *)
EXTENDS HandleRace, TLC

CONSTANTS t1, t2, t3, h1, h2

MCHostOf == (t1 :> h1) @@ (t2 :> h1) @@ (t3 :> h2)
MCSymmetry == Permutations({t1, t2})
=============================================================================
