-------------------------------- MODULE Sem --------------------------------
(***************************************************************************)
(* The counting semaphore of libevl (src/lib/sem.c).                       *)
(*                                                                         *)
(* The value lives in memory shared with the EVL core.  While it is not    *)
(* negative and nobody polls, callers change it by compare-and-swap and no *)
(* system call is made (the fast path); otherwise they issue a request to  *)
(* the core (the slow path), which counts the sleepers below zero.  A step *)
(* is one access to the shared state or one request; "load; compare-and-   *)
(* swap; retry" is one step, because the exchange succeeds only on the     *)
(* value that was loaded.  The core's side of a request is external and    *)
(* atomic.                                                                 *)
(***************************************************************************)
EXTENDS Integers, FiniteSets

CONSTANTS
    Threads,
    Getters,        \* EVL threads which may wait for a token
    InBand,         \* those of the threads which run in-band, not weakly
    Putters,        \* threads which may post, attached to the core or not
    Pollers,        \* threads which may evl_poll() the semaphore
    Closers,        \* threads which may close it
    InitVal,        \* initval of evl_create_sem()
    MaxPuts         \* bound: how many posts are issued

ASSUME SemAssumption ==
    /\ IsFiniteSet(Threads)
    /\ Getters \subseteq Threads /\ InBand \subseteq Threads
    /\ Putters \subseteq Threads /\ Pollers \subseteq Threads
    /\ Closers \subseteq Threads
    /\ InitVal \in Nat /\ MaxPuts \in Nat

VARIABLES
    value,      \* state->u.event.value
    life,       \* how far evl_close_sem() went: fd, state pointer, magic
    pc,         \* where each thread is
    result,     \* the last get of each thread: a status which says that the
                \* semaphore is closed, or "open" (0, -EAGAIN, -ETIMEDOUT, -EINTR)
    issued,     \* history: posts issued so far
    posted,     \* history: posts that took effect
    taken       \* history: tokens handed to getters

vars == <<value, life, pc, result, issued, posted, taken>>

Lives == {"active", "fd_closed", "state_null", "dead"}
Results == {"open", "EIDRM", "EBADF", "EINVAL"}
Locations ==
    { "idle",
      "get_try",        \* evl_timedget_sem: fast path, about to try_get()
      "get_wait",       \* about to issue EVL_MONIOC_WAIT
      "get_sleep",      \* asleep in the core, counted below zero
      "put_load",       \* evl_put_sem: about to load the state pointer
      "put_test",       \* about to test for sleepers and pollers
      "put_cas",        \* fast path, about to increment
      "put_polled",     \* incremented, about to test for pollers again
      "put_signal",     \* slow path, about to issue EVL_MONIOC_SIGNAL of 1
      "put_notify",     \* about to issue EVL_MONIOC_SIGNAL of 0
      "poll_check",     \* evl_poll: registered, about to test the value
      "poll_sleep",     \* asleep in evl_poll()
      "crash" }         \* dereferenced the null state pointer

At(l) == {t \in Threads : pc[t] = l}
Go(t, l) == pc' = [pc EXCEPT ![t] = l]
Return(t, r) == Go(t, "idle") /\ result' = [result EXCEPT ![t] = r]

Sleepers == At("get_sleep")

(* pollrefs counts the threads which registered for polling. *)
Polled == At("poll_check") \cup At("poll_sleep") # {}

Init ==
    /\ value = InitVal
    /\ life = "active"
    /\ pc = [t \in Threads |-> "idle"]
    /\ result = [t \in Threads |-> "open"]
    /\ issued = 0 /\ posted = 0 /\ taken = 0

-----------------------------------------------------------------------------
(* evl_timedget_sem() and evl_get_sem() *)

(* check_sanity(), then the fast path unless the caller runs in-band: it   *)
(* has to switch oob prior to decrementing the semaphore.                  *)
Get(t) ==
    /\ t \in Getters /\ pc[t] = "idle"
    /\ IF life = "dead"
         THEN Return(t, "EINVAL")
         ELSE Go(t, IF t \in InBand THEN "get_wait" ELSE "get_try")
              /\ UNCHANGED result
    /\ UNCHANGED <<value, life, issued, posted, taken>>

(* Mutant: zero counts as a token. *)
TryGetOffByOne(t) ==
    /\ pc[t] = "get_try"
    /\ IF value >= 0
         THEN value' = value - 1 /\ taken' = taken + 1 /\ Return(t, "open")
         ELSE Go(t, "get_wait") /\ UNCHANGED <<value, result, taken>>
    /\ UNCHANGED <<life, issued, posted>>

TryGet(t) ==
    /\ pc[t] = "get_try"
    /\ IF life \in {"state_null", "dead"}
         THEN Go(t, "crash") /\ UNCHANGED <<value, result, taken>>
         ELSE IF value > 0
           THEN /\ value' = value - 1
                /\ taken' = taken + 1
                /\ Return(t, "open")
           ELSE Go(t, "get_wait") /\ UNCHANGED <<value, result, taken>>
    /\ UNCHANGED <<life, issued, posted>>

(* evl_tryget_sem(): give up instead of waiting.  What may come in between *)
(* check_sanity() and try_get() is the matter of Get and TryGet.           *)
TryGetOnly(t) ==
    /\ t \in Getters /\ pc[t] = "idle"
    /\ \/ life = "dead" /\ Return(t, "EINVAL") /\ UNCHANGED <<value, taken>>
       \/ life = "state_null" /\ Go(t, "crash") /\ UNCHANGED <<value, result, taken>>
       \/ /\ life \in {"active", "fd_closed"} /\ Return(t, "open")
          /\ IF value > 0
             THEN value' = value - 1 /\ taken' = taken + 1
             ELSE UNCHANGED <<value, taken>>
    /\ UNCHANGED <<life, issued, posted>>

(* EVL_MONIOC_WAIT: take a token, or sleep. *)
WaitRequest(t) ==
    /\ pc[t] = "get_wait"
    /\ IF life # "active"
         THEN Return(t, "EBADF") /\ UNCHANGED <<value, taken>>
         ELSE /\ value' = value - 1
              /\ IF value > 0
                   THEN Return(t, "open") /\ taken' = taken + 1
                   ELSE Go(t, "get_sleep") /\ UNCHANGED <<result, taken>>
    /\ UNCHANGED <<life, issued, posted>>

(* The timeout elapses, or a signal unblocks the sleeper: it is not        *)
(* counted as one any more.                                                *)
StopWaiting(t) ==
    /\ pc[t] = "get_sleep"
    /\ value' = value + 1
    /\ Return(t, "open")
    /\ UNCHANGED <<life, issued, posted, taken>>

-----------------------------------------------------------------------------
(* evl_put_sem() *)

Put(t) ==
    /\ t \in Putters /\ pc[t] = "idle" /\ issued < MaxPuts
    /\ life # "dead"                            \* else -EINVAL
    /\ issued' = issued + 1
    /\ Go(t, "put_load")
    /\ UNCHANGED <<value, life, result, posted, taken>>

PutLoad(t) ==
    /\ pc[t] = "put_load"
    /\ Go(t, IF life \in {"state_null", "dead"} THEN "crash" ELSE "put_test")
    /\ UNCHANGED <<value, life, result, issued, posted, taken>>

PutTest(t) ==
    /\ pc[t] = "put_test"
    /\ Go(t, IF value < 0 \/ Polled THEN "put_signal" ELSE "put_cas")
    /\ UNCHANGED <<value, life, result, issued, posted, taken>>

(* Mutant: the exchange loop does not look for sleepers again. *)
PutCasBlind(t) ==
    /\ pc[t] = "put_cas"
    /\ value' = value + 1
    /\ posted' = posted + 1
    /\ Go(t, "put_polled")
    /\ UNCHANGED <<life, result, issued, taken>>

(* The exchange loop: a value that became negative needs the slow path. *)
PutCas(t) ==
    /\ pc[t] = "put_cas"
    /\ IF value < 0
         THEN Go(t, "put_signal") /\ UNCHANGED <<value, posted>>
         ELSE /\ value' = value + 1
              /\ posted' = posted + 1
              /\ Go(t, "put_polled")
    /\ UNCHANGED <<life, result, issued, taken>>

(* Mutant: pollers are looked for only before the increment. *)
PutPolledSkipped(t) ==
    /\ pc[t] = "put_polled"
    /\ Go(t, "idle")
    /\ UNCHANGED <<value, life, result, issued, posted, taken>>

PutPolled(t) ==
    /\ pc[t] = "put_polled"
    /\ Go(t, IF Polled THEN "put_notify" ELSE "idle")
    /\ UNCHANGED <<value, life, result, issued, posted, taken>>

(* EVL_MONIOC_SIGNAL: add what the request says, hand a token to a sleeper *)
(* if there is one, wake up the pollers otherwise.                         *)
SignalRequest(t) ==
    /\ pc[t] \in {"put_signal", "put_notify"}
    /\ LET sigval == IF pc[t] = "put_signal" THEN 1 ELSE 0
           awake == [u \in Threads |-> IF u = t \/ pc[u] = "poll_sleep" THEN "idle"
                                       ELSE pc[u]]
       IN IF life # "active"
            THEN Go(t, "idle") /\ UNCHANGED <<value, result, posted, taken>>
            ELSE /\ value' = value + sigval
                 /\ posted' = posted + sigval
                 /\ IF sigval = 1 /\ Sleepers # {}
                      THEN \E w \in Sleepers :
                             /\ pc' = [pc EXCEPT ![t] = "idle", ![w] = "idle"]
                             /\ result' = [result EXCEPT ![w] = "open"]
                             /\ taken' = taken + 1
                      ELSE /\ pc' = awake
                           /\ UNCHANGED <<result, taken>>
    /\ UNCHANGED <<life, issued>>

-----------------------------------------------------------------------------
(* evl_flush_sem(): every sleeper leaves with -EAGAIN. *)
WakeAll(r) ==
    /\ value' = value + Cardinality(Sleepers)
    /\ result' = [u \in Threads |-> IF u \in Sleepers THEN r ELSE result[u]]

Flush(t) ==
    /\ t \in Putters /\ pc[t] = "idle" /\ life = "active"
    /\ WakeAll("open")
    /\ pc' = [u \in Threads |-> IF u \in Sleepers THEN "idle" ELSE pc[u]]
    /\ UNCHANGED <<life, issued, posted, taken>>

(* evl_close_sem(): close() unblocks the sleepers, then the descriptor of   *)
(* the semaphore is cleared field by field.                                *)
CloseFd(t) ==
    /\ t \in Closers /\ pc[t] = "idle" /\ life = "active"
    /\ life' = "fd_closed"
    /\ WakeAll("EIDRM")
    /\ pc' = [u \in Threads |-> IF pc[u] \in {"get_sleep", "poll_sleep"}
                                THEN "idle" ELSE pc[u]]
    /\ UNCHANGED <<issued, posted, taken>>

CloseState == life = "fd_closed" /\ life' = "state_null"
CloseMagic == life = "state_null" /\ life' = "dead"

CloseDescriptor ==
    /\ CloseState \/ CloseMagic
    /\ UNCHANGED <<value, pc, result, issued, posted, taken>>

-----------------------------------------------------------------------------
(* evl_poll() on the semaphore: register, then test, then sleep. *)
Poll(t) ==
    /\ t \in Pollers /\ pc[t] = "idle" /\ life = "active"
    /\ Go(t, "poll_check")
    /\ UNCHANGED <<value, life, result, issued, posted, taken>>

PollCheck(t) ==
    /\ pc[t] = "poll_check"
    /\ Go(t, IF value > 0 \/ life # "active" THEN "idle" ELSE "poll_sleep")
    /\ UNCHANGED <<value, life, result, issued, posted, taken>>

Step(t) ==
    \/ Get(t) \/ TryGet(t) \/ TryGetOnly(t) \/ WaitRequest(t) \/ StopWaiting(t)
    \/ Put(t) \/ PutLoad(t) \/ PutTest(t) \/ PutCas(t) \/ PutPolled(t)
    \/ SignalRequest(t) \/ Flush(t) \/ CloseFd(t)
    \/ Poll(t) \/ PollCheck(t)

Next ==
    /\ At("crash") = {}
    /\ CloseDescriptor \/ \E t \in Threads : Step(t)

Spec == Init /\ [][Next]_vars

-----------------------------------------------------------------------------
TypeOK ==
    /\ value \in -Cardinality(Getters) .. InitVal + MaxPuts
    /\ life \in Lives
    /\ pc \in [Threads -> Locations]
    /\ result \in [Threads -> Results]
    /\ issued \in 0..MaxPuts /\ posted \in 0..MaxPuts
    /\ taken \in 0..InitVal + MaxPuts

(* Posts which were issued and did not take effect yet. *)
InFlight == At("put_load") \cup At("put_test") \cup At("put_cas") \cup At("put_signal")

(* No token is lost or made up between the two paths, and nobody sleeps on *)
(* an available token: the value is what was posted and not taken, minus   *)
(* the sleepers, and there are sleepers only when nothing is left          *)
(* (try_get, evl_put_sem, EVL_MONIOC_WAIT and EVL_MONIOC_SIGNAL).          *)
Conservation ==
    /\ value = InitVal + posted - taken - Cardinality(Sleepers)
    /\ Sleepers # {} => InitVal + posted = taken

(* A post which took the fast path does not miss a poller: if one sleeps   *)
(* while a token is there, the thread that posted it is about to notice    *)
(* (evl_put_sem tests is_polled() before and after the increment).         *)
PollNotMissed ==
    (At("poll_sleep") # {} /\ value > 0) =>
        At("put_polled") \cup At("put_notify") # {}

Abs == INSTANCE AbsSem WITH
    tokens <- IF value > 0 THEN value ELSE 0, waiting <- Sleepers

(* The two paths together implement a counting semaphore: a put serves one *)
(* sleeper or adds one token, a token is never given while others sleep.   *)
Implements == Abs!AbsSpec
=============================================================================
