----------------------------- MODULE MCProcess -----------------------------
(* A small instance of Process for TLC: two threads.                       *)
EXTENDS Process

CONSTANTS a, b
=============================================================================
