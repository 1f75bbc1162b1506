---------------------------- MODULE MCKernelSockets ---------------------------
(* KernelSockets on a small instance. *)
EXTENDS KernelSockets, TLC

CONSTANTS o1, o2, o3

ObjSymmetry == Permutations(Objs)
=============================================================================
