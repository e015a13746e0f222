------------------------------ MODULE Monitor ------------------------------
(***************************************************************************)
(* The monitor of libevl: a mutex (src/lib/mutex.c) which gates an event    *)
(* (src/lib/event.c), the condition variable of EVL.                        *)
(*                                                                         *)
(* The lock word, the nesting count and the flags of the gate, the flags   *)
(* and the gate offset of the event live in memory shared with the EVL     *)
(* core.  An uncontended mutex changes hands by compare-and-swap on the    *)
(* lock word; otherwise the core is asked to (EVL_MONIOC_ENTER, TRYENTER,  *)
(* EXIT).  Signalling makes no request either: it leaves a note in the     *)
(* flags, which whoever releases the gate has the core deliver.  A step is *)
(* one access to the shared state or one request; the words which only     *)
(* the owner of the gate writes are written in one step.  The core's side  *)
(* of a request is external and atomic.                                    *)
(***************************************************************************)
EXTENDS Integers, FiniteSets

CONSTANTS
    Threads,
    NoHandle,       \* EVL_NO_HANDLE
    SlowThreads,    \* those which may run in-band, weakly or under WOLI
    Tryers,         \* those which call evl_trylock_mutex()
    Waiters,        \* those which wait for the event
    Interruptible,  \* those which may be unblocked by a signal, or cancelled
    Recursive,      \* gst->u.gate.recursive
    NestMod         \* the nesting count is an integer modulo this (2^32)

ASSUME MonitorAssumption ==
    /\ IsFiniteSet(Threads) /\ NoHandle \notin Threads
    /\ SlowThreads \subseteq Threads /\ Tryers \subseteq Threads
    /\ Waiters \subseteq Threads /\ Interruptible \subseteq Threads
    /\ Recursive \in BOOLEAN
    /\ NestMod \in Nat /\ NestMod >= 2

VARIABLES
    owner,      \* gst->u.gate.owner: the handle...
    contended,  \* ...and the bit the core sets when someone waits for the gate
    nesting,    \* gst->u.gate.nesting
    gflags,     \* EVL_MONITOR_SIGNALED in gst->flags
    eflags,     \* what est->flags says of the event, and the targeted threads
    tracked,    \* est->u.event.gate_offset # EVL_MONITOR_NOGATE
    pc,         \* where each thread is
    depth,      \* successful locks minus unlocks of each thread, as its
                \* program counts them
    due,        \* history: sleepers which were notified, by name or together
    dueOne      \* history: evl_signal_event() notified some sleeper

vars == <<owner, contended, nesting, gflags, eflags, tracked, pc, depth, due, dueOne>>
gate == <<owner, contended>>
event == <<gflags, eflags, tracked, due, dueOne>>

(* Waiting for the gate: in EVL_MONIOC_ENTER, WAIT and UNWAIT. *)
GateWaits == {"enter_wait", "reenter_wait", "unwait_wait"}
Locations == GateWaits \cup
    { "idle",
      "lock_init",      \* owns the gate by the fast path, about to reset it
      "enter",          \* about to issue EVL_MONIOC_ENTER
      "tryenter",       \* about to issue EVL_MONIOC_TRYENTER
      "entered",        \* owns the gate by EVL_MONIOC_ENTER
      "unlock",         \* about to test EVL_MONITOR_SIGNALED
      "unlock_cas",     \* about to release the lock word
      "exit",           \* about to issue EVL_MONIOC_EXIT
      "signal", "broadcast", "target",      \* about to raise the flags
      "asleep",         \* asleep on the event
      "reenter",        \* notified, the core is about to get it the gate back
      "unwait" }        \* about to issue EVL_MONIOC_UNWAIT

At(l) == {t \in Threads : pc[t] = l}
Go(t, l) == pc' = [pc EXCEPT ![t] = l]
Count(t, n) == depth' = [depth EXCEPT ![t] = @ + n]

Sleepers == At("asleep")
GateWaiters == {t \in Threads : pc[t] \in GateWaits}

Quiet == [signaled |-> FALSE, broadcast |-> FALSE, targets |-> {}]

Init ==
    /\ owner = NoHandle /\ contended = FALSE
    /\ nesting = 0
    /\ gflags = FALSE /\ eflags = Quiet /\ tracked = FALSE
    /\ pc = [t \in Threads |-> "idle"]
    /\ depth = [t \in Threads |-> 0]
    /\ due = {} /\ dueOne = FALSE

-----------------------------------------------------------------------------
(* evl_lock_mutex(), evl_timedlock_mutex() and evl_trylock_mutex() *)

(* Mutant: the nesting count wraps around. *)
NestWrapping(t) ==
    /\ IF ~Recursive THEN UNCHANGED <<nesting, depth>>
       ELSE nesting' = (nesting + 1) % NestMod /\ Count(t, 1)
    /\ UNCHANGED <<gate, pc>>

(* The caller owns the mutex already: -EDEADLK unless it is recursive,     *)
(* -EAGAIN if the nesting count would wrap around.                         *)
Nest(t) ==
    /\ LET n == (nesting + 1) % NestMod
       IN IF ~Recursive THEN UNCHANGED <<nesting, depth>>
          ELSE IF n = 0 THEN nesting' = NestMod - 1 /\ UNCHANGED depth
          ELSE nesting' = n /\ Count(t, 1)
    /\ UNCHANGED <<gate, pc>>

(* try_lock(): the fast path, unless the mode of the thread forbids it. *)
TryLock(t, request, fast) ==
    /\ IF owner = t THEN Nest(t)
       ELSE IF fast /\ owner = NoHandle
         THEN /\ owner' = t /\ contended' = FALSE
              /\ Go(t, "lock_init")
              /\ UNCHANGED <<nesting, depth>>
         ELSE /\ Go(t, request)
              /\ UNCHANGED <<gate, nesting, depth>>
    /\ UNCHANGED event

Fast(t) == IF t \in SlowThreads THEN BOOLEAN ELSE {TRUE}

Lock(t) ==
    /\ pc[t] = "idle"
    /\ \E fast \in Fast(t) : TryLock(t, "enter", fast)

Trylock(t) ==
    /\ t \in Tryers /\ pc[t] = "idle"
    /\ \E fast \in Fast(t) : TryLock(t, "tryenter", fast)

(* try_lock(), once the exchange gave the mutex to the caller. *)
LockInit(t) ==
    /\ pc[t] = "lock_init"
    /\ nesting' = 1
    /\ gflags' = FALSE
    /\ Count(t, 1) /\ Go(t, "idle")
    /\ UNCHANGED <<gate, eflags, tracked, due, dueOne>>

(* EVL_MONIOC_TRYENTER; evl_trylock_mutex() leaves the nesting count alone. *)
TryEnterRequest(t) ==
    /\ pc[t] = "tryenter"
    /\ IF owner = NoHandle
         THEN owner' = t /\ Count(t, 1)
         ELSE UNCHANGED <<owner, depth>>
    /\ Go(t, "idle")
    /\ UNCHANGED <<contended, nesting, event>>

(* The core gives the gate to a thread which entered, or got it back after *)
(* a wait, at location l of its request.                                   *)
AfterGrant(l) == IF l \in {"enter", "enter_wait"} THEN "entered" ELSE "idle"
GrantCount(l) == IF l \in {"enter", "enter_wait"} THEN 0 ELSE 1

WaitFor(l) ==
    CASE l = "enter" -> "enter_wait"
      [] l = "reenter" -> "reenter_wait"
      [] l = "unwait" -> "unwait_wait"

(* EVL_MONIOC_ENTER, and how EVL_MONIOC_WAIT and UNWAIT get the gate back. *)
EnterRequest(t) ==
    /\ pc[t] \in {"enter", "reenter", "unwait"}
    /\ IF owner = NoHandle
         THEN /\ owner' = t
              /\ Go(t, AfterGrant(pc[t])) /\ Count(t, GrantCount(pc[t]))
              /\ UNCHANGED contended
         ELSE /\ contended' = TRUE
              /\ Go(t, WaitFor(pc[t]))
              /\ UNCHANGED <<owner, depth>>
    /\ UNCHANGED <<nesting, event>>

(* evl_timedlock_mutex() after EVL_MONIOC_ENTER. *)
Entered(t) ==
    /\ pc[t] = "entered"
    /\ nesting' = 1
    /\ Count(t, 1) /\ Go(t, "idle")
    /\ UNCHANGED <<gate, event>>

-----------------------------------------------------------------------------
(* evl_unlock_mutex() *)

Unlock(t) ==
    /\ pc[t] = "idle"
    /\ owner = t                                \* else -EPERM
    /\ IF nesting > 1
         THEN nesting' = nesting - 1 /\ Count(t, -1) /\ UNCHANGED pc
         ELSE Go(t, "unlock") /\ UNCHANGED <<nesting, depth>>
    /\ UNCHANGED <<gate, event>>

(* Mutant: the note which the signals leave on the gate is not looked at. *)
UnlockTestBlind(t) ==
    /\ pc[t] = "unlock"
    /\ \E fast \in Fast(t) : Go(t, IF fast THEN "unlock_cas" ELSE "exit")
    /\ UNCHANGED <<gate, nesting, depth, event>>

(* Waiters on a signaled event are for the core to wake up. *)
UnlockTest(t) ==
    /\ pc[t] = "unlock"
    /\ \E fast \in Fast(t) :
         Go(t, IF fast /\ ~gflags THEN "unlock_cas" ELSE "exit")
    /\ UNCHANGED <<gate, nesting, depth, event>>

(* Mutant: only the handle is compared, not the whole lock word. *)
FastUnlockBlind(t) ==
    /\ pc[t] = "unlock_cas"
    /\ owner' = NoHandle /\ contended' = FALSE
    /\ Go(t, "idle") /\ Count(t, -1)
    /\ UNCHANGED <<nesting, event>>

(* fast_unlock_mutex(): fails if someone waits for the gate. *)
FastUnlock(t) ==
    /\ pc[t] = "unlock_cas"
    /\ IF contended
         THEN Go(t, "exit") /\ UNCHANGED <<owner, depth>>
         ELSE owner' = NoHandle /\ Go(t, "idle") /\ Count(t, -1)
    /\ UNCHANGED <<contended, nesting, event>>

(* Which sleepers the core wakes up when the gate is released. *)
Woken ==
    IF ~gflags \/ ~tracked \/ ~eflags.signaled THEN {{}}
    ELSE IF eflags.broadcast THEN {Sleepers}
    ELSE IF eflags.targets \cap Sleepers # {} THEN {eflags.targets \cap Sleepers}
    ELSE {{u} : u \in Sleepers}

(* The core releases the gate for t, which goes to dest: it delivers the    *)
(* signals, then hands the gate over to one of those which wait for it.    *)
Release(t, dest) ==
    /\ \E woken \in Woken :
         /\ tracked' = (Sleepers \ woken # {} \/ dest = "asleep")
         /\ due' = due \ woken
         /\ dueOne' = (dueOne /\ woken = {})
         /\ \E next \in IF GateWaiters = {} THEN {NoHandle} ELSE GateWaiters :
              /\ owner' = next
              /\ contended' = (GateWaiters \ {next} # {})
              /\ pc' = [u \in Threads |-> IF u = t THEN dest
                                          ELSE IF u \in woken THEN "reenter"
                                          ELSE IF u = next THEN AfterGrant(pc[u])
                                          ELSE pc[u]]
              /\ depth' = [u \in Threads |-> IF u = t THEN depth[u] - 1
                                             ELSE IF u = next THEN depth[u] + GrantCount(pc[u])
                                             ELSE depth[u]]
    /\ gflags' = FALSE
    /\ eflags' = IF gflags /\ tracked THEN Quiet ELSE eflags
    /\ UNCHANGED nesting

ExitRequest(t) ==
    /\ pc[t] = "exit"
    /\ Release(t, "idle")

-----------------------------------------------------------------------------
(* evl_wait_event(), evl_timedwait_event() *)

(* EVL_MONIOC_WAIT.  The core releases the gate whatever the nesting count *)
(* is, so the program is assumed to hold a recursive mutex once.           *)
Wait(t) ==
    /\ t \in Waiters /\ pc[t] = "idle"
    /\ owner = t                                \* else -EPERM
    /\ depth[t] = 1
    /\ Release(t, "asleep")

(* The end of a sleep by timeout, or by a signal: the core stops tracking  *)
(* the event once nobody sleeps on it, and the gate was not got back.      *)
Leave(t) ==
    /\ tracked' = (Sleepers \ {t} # {})
    /\ due' = due \ {t}
    /\ dueOne' = (dueOne /\ Sleepers \ {t} # {})

(* Mutant: a wait which failed does not get the mutex back. *)
StopSleepingUnlocked(t) ==
    /\ pc[t] = "asleep"
    /\ Go(t, "idle") /\ Count(t, 1) /\ Leave(t)
    /\ UNCHANGED <<gate, nesting, gflags, eflags>>

(* evl_timedwait_event() then issues EVL_MONIOC_UNWAIT. *)
StopSleeping(t) ==
    /\ pc[t] = "asleep"
    /\ Go(t, "unwait") /\ Leave(t)
    /\ UNCHANGED <<gate, nesting, gflags, eflags, depth>>

(* The end of a wait for the gate.  -EINTR restarts ENTER and UNWAIT, and   *)
(* turns WAIT into UNWAIT; the timeout makes evl_timedlock_mutex() return.  *)
StopEntering(t) ==
    /\ \/ pc[t] = "enter_wait" /\ Go(t, "idle")
       \/ t \in Interruptible /\ pc[t] = "enter_wait" /\ Go(t, "enter")
       \/ t \in Interruptible /\ pc[t] \in {"reenter_wait", "unwait_wait"} /\ Go(t, "unwait")
    /\ contended' = (GateWaiters \ {t} # {})
    /\ UNCHANGED <<owner, nesting, depth, event>>

-----------------------------------------------------------------------------
(* evl_signal_event(), evl_broadcast_event() and evl_signal_thread(), by    *)
(* the owner of the mutex: get_lock_state(), nothing to do if nobody waits. *)
Post(t, kind) ==
    /\ pc[t] = "idle" /\ owner = t
    /\ Go(t, IF tracked THEN kind ELSE "idle")
    /\ UNCHANGED <<gate, nesting, depth, event>>

RaiseSignal(t) ==
    /\ pc[t] = "signal"
    /\ gflags' = TRUE
    /\ eflags' = [eflags EXCEPT !.signaled = TRUE]
    /\ dueOne' = (dueOne \/ Sleepers # {})
    /\ Go(t, "idle")
    /\ UNCHANGED <<gate, nesting, depth, tracked, due>>

RaiseBroadcast(t) ==
    /\ pc[t] = "broadcast"
    /\ gflags' = TRUE
    /\ eflags' = [eflags EXCEPT !.signaled = TRUE, !.broadcast = TRUE]
    /\ due' = due \cup Sleepers
    /\ Go(t, "idle")
    /\ UNCHANGED <<gate, nesting, depth, tracked, dueOne>>

(* EVL_THRIOC_SIGNAL notes the target if it sleeps on the event. *)
RaiseTarget(t) ==
    /\ pc[t] = "target"
    /\ gflags' = TRUE
    /\ \E u \in Threads :
         IF u \in Sleepers
           THEN /\ eflags' = [eflags EXCEPT !.signaled = TRUE, !.targets = @ \cup {u}]
                /\ due' = due \cup {u}
           ELSE UNCHANGED <<eflags, due>>
    /\ Go(t, "idle")
    /\ UNCHANGED <<gate, nesting, depth, tracked, dueOne>>

-----------------------------------------------------------------------------
(* What a thread does on its own once it has called. *)
Proceed(t) ==
    \/ LockInit(t) \/ TryEnterRequest(t) \/ EnterRequest(t) \/ Entered(t)
    \/ UnlockTest(t) \/ FastUnlock(t) \/ ExitRequest(t)
    \/ RaiseSignal(t) \/ RaiseBroadcast(t) \/ RaiseTarget(t)

Next ==
    \E t \in Threads :
        \/ Lock(t) \/ Trylock(t) \/ Unlock(t) \/ Wait(t)
        \/ \E kind \in {"signal", "broadcast", "target"} : Post(t, kind)
        \/ Proceed(t)
        \/ StopSleeping(t) \/ StopEntering(t)

Spec == Init /\ [][Next]_vars

(* The calls in progress complete, and a program does not keep the mutex.  *)
Fairness == \A t \in Threads : WF_vars(Proceed(t)) /\ SF_vars(Unlock(t))

FairSpec == Spec /\ Fairness

-----------------------------------------------------------------------------
TypeOK ==
    /\ owner \in Threads \cup {NoHandle} /\ contended \in BOOLEAN
    /\ nesting \in 0..NestMod-1
    /\ gflags \in BOOLEAN /\ tracked \in BOOLEAN
    /\ eflags \in [signaled : BOOLEAN, broadcast : BOOLEAN, targets : SUBSET Threads]
    /\ pc \in [Threads -> Locations]
    /\ depth \in [Threads -> 0..NestMod-1]
    /\ due \in SUBSET Threads /\ dueOne \in BOOLEAN

(* A thread which locked more often than it unlocked owns the mutex, also  *)
(* after a wait however it ended: no two threads are in the critical       *)
(* section (monitor-recursive.c counts the same way, "+1", "+2", "free").  *)
HeldIsOwned == \A t \in Threads : depth[t] > 0 => owner = t

(* Nobody waits for a free gate, nor behind an owner which would release   *)
(* it by the fast path (evl_unlock_mutex, EVL_MONIOC_ENTER).               *)
NobodyStranded == GateWaiters # {} => owner # NoHandle /\ contended

(* Whoever leaves the gate, by unlocking it or by waiting, delivers what   *)
(* was signalled under it: the notified sleepers are awake by then         *)
(* (evl_signal_event only leaves a note; mutex.c:368).                     *)
DeliveredOnRelease ==
    [][owner # NoHandle /\ owner' # owner => due' = {} /\ ~dueOne']_vars

(* A sleeper which was notified by a broadcast, or by name, returns.       *)
NotifiedReturn == \A t \in Threads : t \in due ~> pc[t] = "idle"
=============================================================================
