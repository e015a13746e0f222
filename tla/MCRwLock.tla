------------------------------ MODULE MCRwLock ------------------------------
(***************************************************************************)
(* Model checking of RwLock.  The initial state picks one of two instances *)
(* which share the variables and differ by who may do what: anyone may     *)
(* call anything, or one thread writes while the others read, one of which *)
(* is unknown to the core.                                                 *)
(***************************************************************************)
EXTENDS RwLock

CONSTANTS r1, r2, r3, w
VARIABLE instance

OneWriter == INSTANCE RwLock WITH
    Readers <- {r1, r2, r3}, Writers <- {w}, TryWriters <- {w}, Unattached <- {r3}

MCInit == Init /\ instance \in {"mixed", "one writer"}

(* The mixed instance may stop: the program aborts when an assertion fails, *)
(* and orphaned writers sleep for ever.                                     *)
Stop == instance = "mixed" /\ UNCHANGED vars

MCNext ==
    /\ \/ instance = "mixed" /\ Next
       \/ Stop
       \/ instance = "one writer" /\ OneWriter!Next
    /\ UNCHANGED instance

(* Liveness is asked of the second instance only. *)
MCSpec ==
    /\ MCInit /\ [][MCNext]_<<vars, instance>>
    /\ \A t \in Threads :
           WF_vars(instance = "one writer" /\ At("assert") = {} /\ OneWriter!Proceed(t))

(* With a single writer, evl_lock_write reaches the critical section once  *)
(* it registered, however many readers come and are interrupted.           *)
OnlyWriterServed ==
    \A t \in Threads :
        instance = "one writer" /\ pc[t] \in {"wr_wait", "wr_sleep"} ~> pc[t] = "writing"
=============================================================================
