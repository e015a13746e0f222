----------------------------- MODULE MCRingPtr -----------------------------
(* A small ring for TLC: the threads are interchangeable. *)
EXTENDS RingPtr, TLC

CONSTANTS a, b

ThreadSymmetry == Permutations(Threads)
=============================================================================
