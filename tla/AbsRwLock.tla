----------------------------- MODULE AbsRwLock -----------------------------
(***************************************************************************)
(* What a read-write lock of libevl promises to its callers, whatever the  *)
(* lock word and the wake-up events behind it: readers share, a writer is  *)
(* alone, and a writer which has to queue bars every later reader until it *)
(* was served ("Priority to writers in getting a released lock",           *)
(* src/lib/rwlock.c).  A queued writer is never overtaken by a thread that *)
(* did not queue.                                                          *)
(***************************************************************************)
CONSTANT Threads

VARIABLES
    readers,    \* threads holding the lock for reading
    writers,    \* threads holding the lock for writing
    queued      \* writers that asked for the lock and were not served yet

absVars == <<readers, writers, queued>>

AbsInit ==
    /\ readers = {}
    /\ writers = {}
    /\ queued = {}

Busy == readers \cup writers \cup queued

(* A reader is admitted when no writer holds or awaits the lock. *)
AcquireRead(t) ==
    /\ t \notin Busy
    /\ writers = {} /\ queued = {}
    /\ readers' = readers \cup {t}
    /\ UNCHANGED <<writers, queued>>

ReleaseRead(t) ==
    /\ t \in readers
    /\ readers' = readers \ {t}
    /\ UNCHANGED <<writers, queued>>

(* A writer finds the lock free... *)
AcquireWrite(t) ==
    /\ Busy = {}
    /\ writers' = {t}
    /\ UNCHANGED <<readers, queued>>

(* ...or has to wait for the threads before it. *)
QueueWrite(t) ==
    /\ Busy # {}
    /\ t \notin Busy
    /\ queued' = queued \cup {t}
    /\ UNCHANGED <<readers, writers>>

GrantWrite(t) ==
    /\ t \in queued
    /\ readers = {} /\ writers = {}
    /\ writers' = {t}
    /\ queued' = queued \ {t}
    /\ UNCHANGED readers

ReleaseWrite(t) ==
    /\ t \in writers
    /\ writers' = writers \ {t}
    /\ UNCHANGED <<readers, queued>>

AbsNext ==
    \E t \in Threads :
        \/ AcquireRead(t) \/ ReleaseRead(t)
        \/ AcquireWrite(t) \/ QueueWrite(t) \/ GrantWrite(t) \/ ReleaseWrite(t)

AbsSpec == AbsInit /\ [][AbsNext]_absVars
=============================================================================
