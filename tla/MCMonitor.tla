----------------------------- MODULE MCMonitor -----------------------------
(***************************************************************************)
(* Model checking of Monitor.  The initial state picks one of two          *)
(* instances, which share the variables: three threads nest their locks,   *)
(* one of which may be interrupted and takes the slow path, or two threads *)
(* use a plain mutex, without interruptions.                               *)
(***************************************************************************)
EXTENDS Monitor

CONSTANTS t1, t2, t3
VARIABLE instance

Pair == INSTANCE Monitor WITH
    Tryers <- {t1, t2}, Waiters <- {t1, t2}, Interruptible <- {}, Recursive <- FALSE

MCInit == Init /\ instance \in {"nested", "pair"}

(* The third thread stays out of the second instance. *)
MCNext ==
    /\ \/ instance = "nested" /\ Next
       \/ instance = "pair" /\ Pair!Next /\ pc'[t3] = "idle" /\ depth'[t3] = 0
    /\ UNCHANGED instance

(* Liveness is asked of the second instance only. *)
MCSpec ==
    /\ MCInit /\ [][MCNext]_<<vars, instance>>
    /\ \A t \in {t1, t2} :
           /\ WF_vars(instance = "pair" /\ Pair!Proceed(t))
           /\ SF_vars(instance = "pair" /\ Pair!Unlock(t))

(* Of two threads on a plain mutex, a sleeper which was notified by a      *)
(* broadcast, or by name, returns (evl_wait_event).                        *)
PairNotifiedReturn == \A t \in {t1, t2} : instance = "pair" /\ t \in due ~> pc[t] = "idle"
=============================================================================
