----------------------------- MODULE MCKernelUDP -----------------------------
(* A socket that receives and one that sends to it, over one more address. *)
EXTENDS KernelUDP

CONSTANTS s1, s2, a1
=============================================================================
