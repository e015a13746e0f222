------------------------------- MODULE RwLock -------------------------------
(***************************************************************************)
(* The read-write lock of libevl (src/lib/rwlock.c, include/evl/rwlock.h). *)
(*                                                                         *)
(* The lock is one atomic word, a signed count and a reader-pending bit,   *)
(* updated by compare-and-swap only; threads which cannot proceed sleep on *)
(* an event flag group of the EVL core with one bit for readers (RD) and   *)
(* one for writers (WR).                                                   *)
(*                                                                         *)
(*    count = WRBIAS      free                                             *)
(*    0 < count < WRBIAS  WRBIAS - count readers hold the lock             *)
(*    count = 0           one writer holds it, or is being handed it       *)
(*    count < 0           writers are registered behind the holder(s)      *)
(*                                                                         *)
(* A step is one access to memory shared by the threads: a load, a         *)
(* successful compare-and-swap, or one call to the EVL core.  A loop "load;*)
(* cmpxchg_weak; retry if it failed" is one step, because the exchange     *)
(* succeeds only on the value which was loaded; the trylock calls, which   *)
(* give up when the exchange fails, are two.                               *)
(*                                                                         *)
(* The flag group is part of the EVL core and external.                    *)
(***************************************************************************)
EXTENDS Integers, FiniteSets

CONSTANTS
    Threads,            \* the threads sharing the lock
    Readers,            \* those which may call evl_lock_read, evl_trylock_read
    Writers,            \* those which may call evl_lock_write
    TryWriters,         \* those which may call evl_trylock_write
    Unattached,         \* those which did not attach to the EVL core
    WRBIAS,             \* __EVL_RWLOCK_WRBIAS, 2^30-1 in the code
    BroadcastLatches    \* may a broadcast without waiter stay pending?

ASSUME RolesAssumption ==
    /\ Readers \subseteq Threads /\ Writers \subseteq Threads
    /\ TryWriters \subseteq Threads /\ Unattached \subseteq Threads
    /\ BroadcastLatches \subseteq BOOLEAN /\ BroadcastLatches # {}

(* Fewer threads than a 31-bit counter can tell apart. *)
ASSUME BiasAssumption ==
    /\ IsFiniteSet(Threads)
    /\ WRBIAS \in Nat
    /\ Cardinality(Threads) < WRBIAS

VARIABLES
    count,      \* rwlock->u.inner.u.count
    rdpend,     \* rwlock->u.inner.u.rdpend
    bits,       \* rwlock->event: the bits pending in the flag group
    pc,         \* where each thread is
    prev        \* the word a trylock call loaded before its cmpxchg

vars == <<count, rdpend, bits, pc, prev>>

RD == "RD"
WR == "WR"

(* A 31-bit two's complement bit-field: WRBIAS is its largest value. *)
CountRange == -(WRBIAS + 1) .. WRBIAS

Wrap(n) ==
    IF n \in CountRange THEN n
    ELSE IF n > WRBIAS THEN n - 2 * (WRBIAS + 1) ELSE n + 2 * (WRBIAS + 1)

Word == [count : CountRange, rdpend : BOOLEAN]
FreeWord == [count |-> WRBIAS, rdpend |-> FALSE]
LoadedWord == [count |-> count, rdpend |-> rdpend]

Locations ==
    { "idle",           \* outside of the lock
      "rd_retry",       \* evl_lock_read: about to (re)try the exchange
      "rd_wait",        \* evl_lock_read: about to wait for RD
      "rd_sleep",       \* asleep in the EVL core, waiting for RD
      "reading",        \* holds the lock for reading
      "wr_wait",        \* evl_lock_write: registered, about to wait for WR
      "wr_sleep",       \* asleep in the EVL core, waiting for WR
      "writing",        \* holds the lock for writing
      "tryrd_cas",      \* evl_trylock_read: about to exchange
      "trywr_cas",      \* evl_trylock_write: about to exchange
      "post_wr",        \* unlock: about to post WR
      "bcast_rd",       \* evl_unlock_write: about to broadcast RD
      "assert" }        \* an assert() of rwlock.c failed

At(l) == {t \in Threads : pc[t] = l}
Go(t, l) == pc' = [pc EXCEPT ![t] = l]

Init ==
    /\ count = WRBIAS /\ rdpend = FALSE
    /\ bits = {}
    /\ pc = [t \in Threads |-> "idle"]
    /\ prev = [t \in Threads |-> FreeWord]

-----------------------------------------------------------------------------
(* The event flag group, as rwlock.c uses it.                              *)

(* evl_wait_exact_flags(): consume the bit if it is pending, else sleep. *)
WaitFlag(t, b, awake, asleep) ==
    IF b \in bits
      THEN bits' = bits \ {b} /\ Go(t, awake)
      ELSE UNCHANGED bits /\ Go(t, asleep)

(* evl_post_flags(WR): hand the bit to one sleeper, keep it otherwise. *)
PostWriter(t) ==
    IF At("wr_sleep") = {}
      THEN bits' = bits \cup {WR} /\ Go(t, "idle")
      ELSE \E w \in At("wr_sleep") :
               /\ pc' = [pc EXCEPT ![t] = "idle", ![w] = "writing"]
               /\ UNCHANGED bits

(* evl_broadcast_flags(RD): hand the bit to every sleeper. *)
BroadcastReaders(t) ==
    IF At("rd_sleep") = {}
      THEN /\ \E latch \in BroadcastLatches :
                  bits' = IF latch THEN bits \cup {RD} ELSE bits
           /\ Go(t, "idle")
      ELSE /\ pc' = [u \in Threads |-> IF u = t THEN "idle"
                                       ELSE IF u \in At("rd_sleep") THEN "rd_retry"
                                       ELSE pc[u]]
           /\ UNCHANGED bits

-----------------------------------------------------------------------------
(* evl_lock_read() *)

(* Readers do not take part in negative counting, they raise rdpend. *)
TryRead(t) ==
    /\ IF count <= 0
         THEN /\ rdpend' = TRUE
              /\ Go(t, "rd_wait")
              /\ UNCHANGED count
         ELSE IF rdpend
           THEN Go(t, "assert") /\ UNCHANGED <<count, rdpend>>
           ELSE /\ count' = Wrap(count - 1)
                /\ Go(t, "reading")
                /\ UNCHANGED rdpend
    /\ UNCHANGED <<bits, prev>>

LockRead(t) == t \in Readers /\ pc[t] = "idle" /\ TryRead(t)

(* Readers get no ownership with the wake-up: they compete again. *)
RetryRead(t) == pc[t] = "rd_retry" /\ TryRead(t)

WaitRead(t) ==
    /\ pc[t] = "rd_wait" /\ t \notin Unattached
    /\ WaitFlag(t, RD, "rd_retry", "rd_sleep")
    /\ UNCHANGED <<count, rdpend, prev>>

(* evl_trylock_read() *)
TryLockRead(t) ==
    /\ t \in Readers /\ pc[t] = "idle"
    /\ count > 0                        \* else -EAGAIN, nothing changes
    /\ prev' = [prev EXCEPT ![t] = LoadedWord]
    /\ Go(t, IF rdpend THEN "assert" ELSE "tryrd_cas")
    /\ UNCHANGED <<count, rdpend, bits>>

(* Mutant: the word is stored without comparing it. *)
TryLockReadStore(t) ==
    /\ pc[t] = "tryrd_cas"
    /\ count' = Wrap(prev[t].count - 1)
    /\ rdpend' = FALSE
    /\ Go(t, "reading")
    /\ prev' = [prev EXCEPT ![t] = FreeWord]
    /\ UNCHANGED bits

TryLockReadCas(t) ==
    /\ pc[t] = "tryrd_cas"
    /\ IF LoadedWord = prev[t]
         THEN /\ count' = Wrap(prev[t].count - 1)
              /\ rdpend' = FALSE
              /\ Go(t, "reading")
         ELSE Go(t, "idle") /\ UNCHANGED <<count, rdpend>>
    /\ prev' = [prev EXCEPT ![t] = FreeWord]
    /\ UNCHANGED bits

(* Mutants: every release on a contended lock posts; the previous count is *)
(* tested instead of the next one.                                         *)
UnlockReadPostsEarly(t) ==
    /\ pc[t] = "reading"
    /\ count' = Wrap(count + 1)
    /\ Go(t, IF count' <= 0 THEN "post_wr" ELSE "idle")
    /\ UNCHANGED <<rdpend, bits, prev>>

UnlockReadTestsPrevious(t) ==
    /\ pc[t] = "reading"
    /\ count' = Wrap(count + 1)
    /\ Go(t, IF count = 0 THEN "post_wr" ELSE "idle")
    /\ UNCHANGED <<rdpend, bits, prev>>

(* evl_unlock_read(): whoever brings the count to zero wakes up a writer. *)
UnlockRead(t) ==
    /\ pc[t] = "reading"
    /\ count' = Wrap(count + 1)
    /\ Go(t, IF count' = 0 THEN "post_wr" ELSE "idle")
    /\ UNCHANGED <<rdpend, bits, prev>>

-----------------------------------------------------------------------------
(* evl_lock_write() *)

(* Mutant: a writer that owns an uncontended lock is mistaken for readers. *)
RegisteredCountOffByOne ==
    IF count < 0 THEN Wrap(count - 1) ELSE Wrap(count - WRBIAS)

RegisteredCount == IF count <= 0 THEN Wrap(count - 1) ELSE Wrap(count - WRBIAS)

LockWrite(t) ==
    /\ t \in Writers /\ pc[t] = "idle"
    /\ count' = RegisteredCount
    /\ Go(t, IF count' > 0 THEN "assert"
             ELSE IF count' = 0 THEN "writing" ELSE "wr_wait")
    /\ UNCHANGED <<rdpend, bits, prev>>

(* A successful wait for WR grants ownership. *)
WaitWrite(t) ==
    /\ pc[t] = "wr_wait" /\ t \notin Unattached
    /\ WaitFlag(t, WR, "writing", "wr_sleep")
    /\ UNCHANGED <<count, rdpend, prev>>

(* evl_trylock_write() *)
TryLockWrite(t) ==
    /\ t \in TryWriters /\ pc[t] = "idle"
    /\ LET next == Wrap(count - WRBIAS) IN
        /\ next >= 0                    \* else -EAGAIN, nothing changes
        /\ Go(t, IF next > 0 THEN "assert" ELSE "trywr_cas")
    /\ prev' = [prev EXCEPT ![t] = LoadedWord]
    /\ UNCHANGED <<count, rdpend, bits>>

TryLockWriteCas(t) ==
    /\ pc[t] = "trywr_cas"
    /\ IF LoadedWord = prev[t]
         THEN /\ count' = Wrap(prev[t].count - WRBIAS)
              /\ Go(t, "writing")
         ELSE Go(t, "idle") /\ UNCHANGED count
    /\ prev' = [prev EXCEPT ![t] = FreeWord]
    /\ UNCHANGED <<rdpend, bits>>

(* Mutants: the free value is one too large; rdpend survives the release;  *)
(* the released lock is open while a writer is being woken.                *)
UnlockWriteWideBias(t) ==
    /\ pc[t] = "writing"
    /\ count' = IF count < 0 THEN count + 1 ELSE WRBIAS + 1
    /\ rdpend' = (rdpend /\ count < 0)
    /\ Go(t, IF count < 0 THEN "post_wr" ELSE IF rdpend THEN "bcast_rd" ELSE "idle")
    /\ UNCHANGED <<bits, prev>>

UnlockWriteOpens(t) ==
    /\ pc[t] = "writing"
    /\ count' = WRBIAS
    /\ rdpend' = FALSE
    /\ Go(t, IF count < 0 THEN "post_wr" ELSE IF rdpend THEN "bcast_rd" ELSE "idle")
    /\ UNCHANGED <<bits, prev>>

(* evl_unlock_write(): pass the lock to a writer, else open it to all. *)
UnlockWrite(t) ==
    /\ pc[t] = "writing"
    /\ IF count < 0
         THEN /\ count' = Wrap(count + 1)
              /\ Go(t, "post_wr")
              /\ UNCHANGED rdpend
         ELSE IF count # 0
           THEN Go(t, "assert") /\ UNCHANGED <<count, rdpend>>
           ELSE /\ count' = WRBIAS
                /\ rdpend' = FALSE
                /\ Go(t, IF rdpend THEN "bcast_rd" ELSE "idle")
    /\ UNCHANGED <<bits, prev>>

Post(t) ==
    /\ pc[t] = "post_wr"
    /\ PostWriter(t)
    /\ UNCHANGED <<count, rdpend, prev>>

Broadcast(t) ==
    /\ pc[t] = "bcast_rd"
    /\ BroadcastReaders(t)
    /\ UNCHANGED <<count, rdpend, prev>>

-----------------------------------------------------------------------------
(* Mutant: an interrupted wait is not restarted. *)
InterruptReturns(t) ==
    /\ pc[t] \in {"rd_sleep", "wr_sleep"}
    /\ Go(t, "idle")
    /\ UNCHANGED <<count, rdpend, bits, prev>>

(* evl_unblock_thread() or a signal: the wait returns -EINTR, and both lock *)
(* calls wait again.                                                        *)
Interrupt(t) ==
    /\ pc[t] \in {"rd_sleep", "wr_sleep"}
    /\ Go(t, IF pc[t] = "rd_sleep" THEN "rd_wait" ELSE "wr_wait")
    /\ UNCHANGED <<count, rdpend, bits, prev>>

(* Any other status of the wait is returned to the caller as it is, -EPERM *)
(* for a thread the EVL core does not know.                                *)
WaitRefused(t) ==
    /\ pc[t] \in {"rd_wait", "wr_wait"} /\ t \in Unattached
    /\ Go(t, "idle")
    /\ UNCHANGED <<count, rdpend, bits, prev>>

Acquire(t) ==
    \/ LockRead(t) \/ TryLockRead(t)
    \/ LockWrite(t) \/ TryLockWrite(t)

(* What a thread does once it called into the lock, and unlocking. *)
Proceed(t) ==
    \/ RetryRead(t) \/ WaitRead(t) \/ TryLockReadCas(t) \/ UnlockRead(t)
    \/ WaitWrite(t) \/ TryLockWriteCas(t) \/ UnlockWrite(t)
    \/ Post(t) \/ Broadcast(t) \/ WaitRefused(t)

(* A failed assertion aborts the process. *)
Next ==
    /\ At("assert") = {}
    /\ \E t \in Threads : Acquire(t) \/ Proceed(t) \/ Interrupt(t)

Spec == Init /\ [][Next]_vars

(* The scheduler runs every ready thread and critical sections end, but no *)
(* thread has to ask for the lock and nobody has to interrupt a sleeper.   *)
Fairness == \A t \in Threads : WF_vars(At("assert") = {} /\ Proceed(t))

FairSpec == Spec /\ Fairness

-----------------------------------------------------------------------------
Holders == At("writing")
Queue == At("wr_wait") \cup At("wr_sleep")

(* Ownership on its way to a writer: posted, or about to be. *)
Grants == Cardinality(At("post_wr")) + (IF WR \in bits THEN 1 ELSE 0)

TypeOK ==
    /\ count \in CountRange
    /\ rdpend \in BOOLEAN
    /\ bits \subseteq {RD, WR}
    /\ pc \in [Threads -> Locations]
    /\ prev \in [Threads -> Word]

(* A writer is alone: two threads never hold the lock for writing, and     *)
(* none does while a reader holds it (evl_lock_write, evl_trylock_write,   *)
(* the hand-off of evl_unlock_read and evl_unlock_write).                  *)
Exclusion ==
    /\ \A t, u \in At("writing") : t = u
    /\ At("writing") = {} \/ At("reading") = {}

(* Ownership is handed over once: the WR bit is never posted while a       *)
(* previous one was not consumed, where both would coalesce and strand a   *)
(* writer, and never while somebody holds the lock.                        *)
SingleGrant ==
    /\ Grants <= 1
    /\ Grants = 1 => At("writing") = {} /\ At("reading") = {} /\ Queue # {}

(* The assertions of rwlock.c about the word hold wherever they are        *)
(* evaluated (lines 95, 142, 217, 251 and 281).                            *)
NoAssertFails == At("assert") = {}

(* A registered writer can count on somebody to serve it: a thread holds   *)
(* the lock and will release it, or its wake-up is under way               *)
(* (evl_unlock_read: "release one of them when the last reader has         *)
(* released the lock").                                                    *)
NoOrphanedWriter ==
    Queue # {} => Holders # {} \/ At("reading") # {} \/ Grants > 0

(* A writer which is alone in the queue, whoever came and went before it,  *)
(* has somebody to serve it; and the assertions can only fail in           *)
(* evl_trylock_write, behind a registered writer (rwlock.c:250).           *)
LoneWriterIsSafe ==
    /\ \A t \in Threads : Queue = {t} =>
          Holders # {} \/ At("reading") # {} \/ Grants > 0
    /\ At("assert") # {} => At("assert") \subseteq TryWriters /\ Queue # {}

(* The four uses of the lock word.  Free to readers: they are counted down *)
(* from WRBIAS and nobody waits.                                           *)
OpenToReaders ==
    /\ count > 0 /\ count = WRBIAS - Cardinality(At("reading")) /\ ~rdpend
    /\ Holders = {} /\ Queue = {}
    /\ At("post_wr") = {} /\ WR \notin bits

(* Readers hold it, registered writers wait for the last one to leave. *)
ReadersLeaving ==
    /\ count < 0 /\ count = 1 - Cardinality(Queue) - Cardinality(At("reading"))
    /\ Holders = {} /\ Queue # {}
    /\ At("post_wr") = {} /\ WR \notin bits

(* One writer holds it, others are registered below zero. *)
HeldByWriter ==
    /\ count = -Cardinality(Queue)
    /\ At("reading") = {} /\ \E t \in Threads : Holders = {t}
    /\ At("post_wr") = {} /\ WR \notin bits

(* It belongs to a queued writer which was not woken up yet. *)
HandedOver ==
    /\ count = 1 - Cardinality(Queue)
    /\ At("reading") = {} /\ Holders = {} /\ Queue # {}
    /\ \/ At("post_wr") = {} /\ WR \in bits
       \/ (\E t \in Threads : At("post_wr") = {t}) /\ WR \notin bits

(* At any time the word has the meaning the comments of rwlock.c give it,  *)
(* also while ownership is in transit and whatever exchange is pending:    *)
(* "clear it from the count as we pass it ownership" (evl_unlock_write).   *)
CountMeaning == OpenToReaders \/ ReadersLeaving \/ HeldByWriter \/ HandedOver

(* evl_lock_write reaches the critical section once it registered. *)
WriterServed ==
    \A t \in Threads : pc[t] \in {"wr_wait", "wr_sleep"} ~> pc[t] = "writing"

(* A reader is kept out for ever only by writers that keep coming: while   *)
(* it waits the lock is taken for writing again and again ("Wake up all    *)
(* readers.", evl_unlock_write).                                           *)
ReaderNotForgotten ==
    \A t \in Threads :
        <>[](pc[t] \in {"rd_wait", "rd_sleep", "rd_retry"}) => []<>(count <= 0)

Abs == INSTANCE AbsRwLock WITH
    readers <- At("reading"), writers <- Holders, queued <- Queue

(* The lock word, the asynchronous wake-ups and the retries implement the  *)
(* abstract read-write lock: writer exclusion, and no reader or late       *)
(* writer overtakes a registered writer.                                   *)
Implements == Abs!AbsSpec
=============================================================================
