--------------------------- MODULE MonitorProofs ---------------------------
(***************************************************************************)
(* For any number of threads, Monitor excludes: whoever counts itself in   *)
(* the critical section owns the lock word, nobody is stranded behind it,  *)
(* and no notification is left behind when the gate is released.           *)
(***************************************************************************)
EXTENDS Monitor, TLAPS

(* Where a thread owns the gate, and where it does not. *)
Initializing == {"lock_init", "entered"}
Releasing == {"unlock", "unlock_cas", "exit"}
Inside == Initializing \cup Releasing \cup {"signal", "broadcast", "target"}
Waiting == {"asleep", "reenter", "unwait", "reenter_wait", "unwait_wait"}
Outside == Waiting \cup {"enter", "tryenter", "enter_wait"}

ControlInv == \A t \in Threads :
    /\ pc[t] \in Inside => owner = t
    /\ pc[t] \in Outside => owner # t
    /\ (owner = t /\ pc[t] \notin Initializing) => depth[t] >= 1
    /\ (owner # t \/ pc[t] \in Initializing) => depth[t] = 0

(* The nesting count is what the program counts; it only lags behind until *)
(* a new owner resets it, and evl_trylock_mutex() which does not reset it  *)
(* finds that someone did before.                                          *)
NestInv ==
    /\ owner = NoHandle => nesting <= 1
    /\ \A t \in Threads :
         /\ (owner = t /\ pc[t] \notin Initializing)
              => (IF Recursive THEN depth[t] = nesting ELSE depth[t] = 1)
         /\ pc[t] \in Releasing => nesting <= 1
         /\ (Recursive /\ pc[t] \in Waiting) => nesting >= 1
         /\ (Recursive /\ pc[t] = "tryenter")
              => (nesting >= 1 \/ \E u \in Threads : owner = u /\ pc[u] \in Initializing)
    /\ ~Recursive => nesting <= 1

QueueInv ==
    /\ contended = (GateWaiters # {})
    /\ contended => owner # NoHandle

NotifyInv ==
    /\ tracked = (Sleepers # {})
    /\ due \subseteq Sleepers
    /\ dueOne => Sleepers # {}
    /\ (due # {} \/ dueOne) => (gflags /\ eflags.signaled)
    /\ due \subseteq eflags.targets \/ eflags.broadcast
    /\ gflags => owner # NoHandle
    /\ \A t \in Threads : pc[t] \in Initializing \cup {"unlock_cas"} => ~gflags

IndInv == TypeOK /\ ControlInv /\ NestInv /\ QueueInv /\ NotifyInv

-----------------------------------------------------------------------------
(* What the handles of a location say, once the definitions are expanded. *)
LEMMA GrantFacts ==
    /\ \A l \in Locations : AfterGrant(l) \in {"entered", "idle"} /\ GrantCount(l) \in {0, 1}
    /\ \A l \in {"enter", "enter_wait"} : AfterGrant(l) = "entered" /\ GrantCount(l) = 0
    /\ \A l \in {"reenter", "unwait", "reenter_wait", "unwait_wait"} :
          AfterGrant(l) = "idle" /\ GrantCount(l) = 1
    /\ WaitFor("enter") = "enter_wait" /\ WaitFor("reenter") = "reenter_wait"
    /\ WaitFor("unwait") = "unwait_wait"
BY DEF AfterGrant, GrantCount, WaitFor

LEMMA LockInitInv ==
    ASSUME IndInv, NEW t \in Threads, LockInit(t)
    PROVE  IndInv'
<1> USE MonitorAssumption DEF IndInv, Go, Count, gate, event,
    Initializing, Releasing, Inside, Waiting, Outside, At, GateWaits, Sleepers, GateWaiters
<1>1. TypeOK'
  <2>1. depth' = [depth EXCEPT ![t] = 1] /\ 1 \in 0..NestMod-1
    <3>1. depth[t] = 0 /\ depth' = [depth EXCEPT ![t] = depth[t] + 1]
      BY DEF LockInit, ControlInv
    <3>2. 0 + 1 = 1 /\ 1 \in 0..NestMod-1
      OBVIOUS
    <3> QED
      BY <3>1, <3>2
  <2>2. nesting' \in 0..NestMod-1 /\ depth' \in [Threads -> 0..NestMod-1]
    BY <2>1 DEF LockInit, TypeOK
  <2> QED
    BY <2>2 DEF LockInit, TypeOK, Locations
<1>2. ControlInv'
  BY DEF TypeOK, ControlInv, QueueInv, LockInit, Locations
<1>3. NestInv'
  BY DEF TypeOK, ControlInv, NestInv, LockInit
<1>4. QueueInv'
  BY DEF TypeOK, ControlInv, QueueInv, LockInit
<1>5. NotifyInv'
  BY DEF TypeOK, ControlInv, NotifyInv, QueueInv, LockInit, Quiet
<1> QED
  BY <1>1, <1>2, <1>3, <1>4, <1>5

LEMMA TryEnterInv ==
    ASSUME IndInv, NEW t \in Threads, TryEnterRequest(t)
    PROVE  IndInv'
<1> USE MonitorAssumption DEF IndInv, Go, Count, gate, event,
    Initializing, Releasing, Inside, Waiting, Outside, At, GateWaits, Sleepers, GateWaiters
<1>1. TypeOK'
  BY DEF TypeOK, ControlInv, NestInv, NotifyInv, TryEnterRequest, Locations, Quiet
<1>2. ControlInv'
  BY DEF TypeOK, ControlInv, QueueInv, TryEnterRequest, Locations
<1>3. NestInv'
  BY DEF TypeOK, ControlInv, NestInv, TryEnterRequest
<1>4. QueueInv'
  BY DEF TypeOK, ControlInv, QueueInv, TryEnterRequest
<1>5. NotifyInv'
  BY DEF TypeOK, ControlInv, NotifyInv, QueueInv, TryEnterRequest, Quiet
<1> QED
  BY <1>1, <1>2, <1>3, <1>4, <1>5

LEMMA EnterTypes ==
    ASSUME TypeOK, ControlInv, NEW t \in Threads, EnterRequest(t)
    PROVE  TypeOK'
<1>1. pc[t] \in {"enter", "reenter", "unwait"}
  BY DEF EnterRequest
<1>2. /\ AfterGrant(pc[t]) \in Locations /\ WaitFor(pc[t]) \in Locations
      /\ GrantCount(pc[t]) \in {0, 1}
  <2>1. pc[t] \in Locations
    BY DEF TypeOK
  <2>2. {"entered", "idle", "enter_wait", "reenter_wait", "unwait_wait"} \subseteq Locations
    BY DEF Locations, GateWaits
  <2> QED
    BY <1>1, <2>1, <2>2, GrantFacts
<1>3. CASE owner = NoHandle
  <2>1. /\ owner' = t /\ contended' = contended
        /\ pc' = [pc EXCEPT ![t] = AfterGrant(pc[t])]
        /\ depth' = [depth EXCEPT ![t] = depth[t] + GrantCount(pc[t])]
    BY <1>3 DEF EnterRequest, Go, Count
  <2>2. depth[t] = 0
    BY <1>1, <1>3, MonitorAssumption DEF ControlInv
  <2>3. depth[t] + GrantCount(pc[t]) \in 0..NestMod-1
    BY <1>2, <2>2, MonitorAssumption
  <2> QED
    BY <1>2, <2>1, <2>3 DEF TypeOK, EnterRequest, event
<1>4. CASE owner # NoHandle
  <2>1. /\ owner' = owner /\ contended' = TRUE /\ depth' = depth
        /\ pc' = [pc EXCEPT ![t] = WaitFor(pc[t])]
    BY <1>4 DEF EnterRequest, Go
  <2> QED
    BY <1>2, <2>1 DEF TypeOK, EnterRequest, event
<1> QED
  BY <1>3, <1>4

LEMMA EnterInv ==
    ASSUME IndInv, NEW t \in Threads, EnterRequest(t)
    PROVE  IndInv'
<1> USE MonitorAssumption, GrantFacts DEF IndInv, Go, Count, gate, event,
    Initializing, Releasing, Inside, Waiting, Outside, At, GateWaits, Sleepers, GateWaiters
<1>1. TypeOK'
  BY EnterTypes
<1>2. ControlInv'
  BY DEF TypeOK, ControlInv, QueueInv, EnterRequest, Locations
<1>3. NestInv'
  BY DEF TypeOK, ControlInv, NestInv, EnterRequest
<1>4. QueueInv'
  <2>1. CASE owner = NoHandle
    <3>1. GateWaiters = {} /\ contended = FALSE
      BY <2>1 DEF QueueInv
    <3>2. pc'[t] \notin GateWaits /\ \A u \in Threads \ {t} : pc'[u] = pc[u]
      BY <2>1 DEF EnterRequest, TypeOK
    <3>3. GateWaiters' = {}
      BY <3>1, <3>2
    <3> QED
      BY <2>1, <3>1, <3>3 DEF EnterRequest, QueueInv
  <2>2. CASE owner # NoHandle
    <3>1. t \in GateWaiters'
      BY <2>2 DEF EnterRequest, TypeOK
    <3> QED
      BY <2>2, <3>1 DEF EnterRequest, QueueInv
  <2> QED
    BY <2>1, <2>2
<1>5. NotifyInv'
  BY DEF TypeOK, ControlInv, NotifyInv, QueueInv, EnterRequest, Quiet
<1> QED
  BY <1>1, <1>2, <1>3, <1>4, <1>5

LEMMA EnteredInv ==
    ASSUME IndInv, NEW t \in Threads, Entered(t)
    PROVE  IndInv'
<1> USE MonitorAssumption DEF IndInv, Go, Count, gate, event,
    Initializing, Releasing, Inside, Waiting, Outside, At, GateWaits, Sleepers, GateWaiters
<1>1. TypeOK'
  BY DEF TypeOK, ControlInv, NestInv, NotifyInv, Entered, Locations, Quiet
<1>2. ControlInv'
  BY DEF TypeOK, ControlInv, QueueInv, Entered, Locations
<1>3. NestInv'
  BY DEF TypeOK, ControlInv, NestInv, Entered
<1>4. QueueInv'
  BY DEF TypeOK, ControlInv, QueueInv, Entered
<1>5. NotifyInv'
  BY DEF TypeOK, ControlInv, NotifyInv, QueueInv, Entered, Quiet
<1> QED
  BY <1>1, <1>2, <1>3, <1>4, <1>5

LEMMA UnlockInv ==
    ASSUME IndInv, NEW t \in Threads, Unlock(t)
    PROVE  IndInv'
<1> USE MonitorAssumption DEF IndInv, Go, Count, gate, event,
    Initializing, Releasing, Inside, Waiting, Outside, At, GateWaits, Sleepers, GateWaiters
<1>1. TypeOK'
  BY DEF TypeOK, ControlInv, NestInv, NotifyInv, Unlock, Locations, Quiet
<1>2. ControlInv'
  BY DEF TypeOK, ControlInv, NestInv, Unlock, Locations
<1>3. NestInv'
  BY DEF TypeOK, ControlInv, NestInv, Unlock
<1>4. QueueInv'
  BY DEF TypeOK, ControlInv, QueueInv, Unlock
<1>5. NotifyInv'
  BY DEF TypeOK, ControlInv, NotifyInv, QueueInv, Unlock, Quiet
<1> QED
  BY <1>1, <1>2, <1>3, <1>4, <1>5

LEMMA UnlockTestInv ==
    ASSUME IndInv, NEW t \in Threads, UnlockTest(t)
    PROVE  IndInv'
<1> USE MonitorAssumption DEF IndInv, Go, Count, gate, event,
    Initializing, Releasing, Inside, Waiting, Outside, At, GateWaits, Sleepers, GateWaiters
<1>1. TypeOK'
  BY DEF TypeOK, ControlInv, NestInv, NotifyInv, UnlockTest, Locations, Quiet
<1>2. ControlInv'
  BY DEF TypeOK, ControlInv, QueueInv, UnlockTest, Locations
<1>3. NestInv'
  BY DEF TypeOK, ControlInv, NestInv, UnlockTest
<1>4. QueueInv'
  BY DEF TypeOK, ControlInv, QueueInv, UnlockTest
<1>5. NotifyInv'
  BY DEF TypeOK, ControlInv, NotifyInv, QueueInv, UnlockTest, Quiet
<1> QED
  BY <1>1, <1>2, <1>3, <1>4, <1>5

LEMMA FastUnlockInv ==
    ASSUME IndInv, NEW t \in Threads, FastUnlock(t)
    PROVE  IndInv'
<1> USE MonitorAssumption DEF IndInv, Go, Count, gate, event,
    Initializing, Releasing, Inside, Waiting, Outside, At, GateWaits, Sleepers, GateWaiters
<1>1. TypeOK'
  BY DEF TypeOK, ControlInv, NestInv, NotifyInv, FastUnlock, Locations, Quiet
<1>2. ControlInv'
  BY DEF TypeOK, ControlInv, NestInv, FastUnlock, Locations
<1>3. NestInv'
  BY DEF TypeOK, ControlInv, NestInv, FastUnlock
<1>4. QueueInv'
  BY DEF TypeOK, ControlInv, QueueInv, FastUnlock
<1>5. NotifyInv'
  BY DEF TypeOK, ControlInv, NotifyInv, QueueInv, FastUnlock, Quiet
<1> QED
  BY <1>1, <1>2, <1>3, <1>4, <1>5

LEMMA StopSleepingInv ==
    ASSUME IndInv, NEW t \in Threads, StopSleeping(t)
    PROVE  IndInv'
<1> USE MonitorAssumption DEF IndInv, Go, Count, gate, event,
    Initializing, Releasing, Inside, Waiting, Outside, At, GateWaits, Sleepers, GateWaiters
<1>1. TypeOK'
  BY DEF TypeOK, ControlInv, NestInv, NotifyInv, StopSleeping, Leave, Locations, Quiet
<1>2. ControlInv'
  BY DEF TypeOK, ControlInv, QueueInv, StopSleeping, Leave, Locations
<1>3. NestInv'
  BY DEF TypeOK, ControlInv, NestInv, StopSleeping, Leave
<1>4. QueueInv'
  BY DEF TypeOK, ControlInv, QueueInv, StopSleeping, Leave
<1>5. NotifyInv'
  <2>1. pc' = [pc EXCEPT ![t] = "unwait"] /\ pc \in [Threads -> Locations]
    BY DEF TypeOK, StopSleeping
  <2>2. Sleepers' = Sleepers \ {t}
    BY <2>1
  <2> QED
    BY <2>1, <2>2 DEF NotifyInv, StopSleeping, Leave
<1> QED
  BY <1>1, <1>2, <1>3, <1>4, <1>5

LEMMA StopEnteringInv ==
    ASSUME IndInv, NEW t \in Threads, StopEntering(t)
    PROVE  IndInv'
<1> USE MonitorAssumption DEF IndInv, Go, Count, gate, event,
    Initializing, Releasing, Inside, Waiting, Outside, At, GateWaits, Sleepers, GateWaiters
<1>1. TypeOK'
  BY DEF TypeOK, ControlInv, NestInv, NotifyInv, StopEntering, Locations, Quiet
<1>2. ControlInv'
  BY DEF TypeOK, ControlInv, QueueInv, StopEntering, Locations
<1>3. NestInv'
  BY DEF TypeOK, ControlInv, NestInv, StopEntering
<1>4. QueueInv'
  BY DEF TypeOK, ControlInv, QueueInv, StopEntering
<1>5. NotifyInv'
  BY DEF TypeOK, ControlInv, NotifyInv, QueueInv, StopEntering, Quiet
<1> QED
  BY <1>1, <1>2, <1>3, <1>4, <1>5

LEMMA PostInv ==
    ASSUME IndInv, NEW t \in Threads, NEW kind \in {"signal", "broadcast", "target"}, Post(t, kind)
    PROVE  IndInv'
<1> USE MonitorAssumption DEF IndInv, Go, Count, gate, event,
    Initializing, Releasing, Inside, Waiting, Outside, At, GateWaits, Sleepers, GateWaiters
<1>1. TypeOK'
  BY DEF TypeOK, ControlInv, NestInv, NotifyInv, Post, Locations, Quiet
<1>2. ControlInv'
  BY DEF TypeOK, ControlInv, QueueInv, Post, Locations
<1>3. NestInv'
  BY DEF TypeOK, ControlInv, NestInv, Post
<1>4. QueueInv'
  BY DEF TypeOK, ControlInv, QueueInv, Post
<1>5. NotifyInv'
  BY DEF TypeOK, ControlInv, NotifyInv, QueueInv, Post, Quiet
<1> QED
  BY <1>1, <1>2, <1>3, <1>4, <1>5

LEMMA RaiseSignalInv ==
    ASSUME IndInv, NEW t \in Threads, RaiseSignal(t)
    PROVE  IndInv'
<1> USE MonitorAssumption DEF IndInv, Go, Count, gate, event,
    Initializing, Releasing, Inside, Waiting, Outside, At, GateWaits, Sleepers, GateWaiters
<1>1. TypeOK'
  BY DEF TypeOK, ControlInv, NestInv, NotifyInv, RaiseSignal, Locations, Quiet
<1>2. ControlInv'
  BY DEF TypeOK, ControlInv, QueueInv, RaiseSignal, Locations
<1>3. NestInv'
  BY DEF TypeOK, ControlInv, NestInv, RaiseSignal
<1>4. QueueInv'
  BY DEF TypeOK, ControlInv, QueueInv, RaiseSignal
<1>5. NotifyInv'
  BY DEF TypeOK, ControlInv, NotifyInv, QueueInv, RaiseSignal, Quiet
<1> QED
  BY <1>1, <1>2, <1>3, <1>4, <1>5

LEMMA RaiseBroadcastInv ==
    ASSUME IndInv, NEW t \in Threads, RaiseBroadcast(t)
    PROVE  IndInv'
<1> USE MonitorAssumption DEF IndInv, Go, Count, gate, event,
    Initializing, Releasing, Inside, Waiting, Outside, At, GateWaits, Sleepers, GateWaiters
<1>1. TypeOK'
  BY DEF TypeOK, ControlInv, NestInv, NotifyInv, RaiseBroadcast, Locations, Quiet
<1>2. ControlInv'
  BY DEF TypeOK, ControlInv, QueueInv, RaiseBroadcast, Locations
<1>3. NestInv'
  BY DEF TypeOK, ControlInv, NestInv, RaiseBroadcast
<1>4. QueueInv'
  BY DEF TypeOK, ControlInv, QueueInv, RaiseBroadcast
<1>5. NotifyInv'
  BY DEF TypeOK, ControlInv, NotifyInv, QueueInv, RaiseBroadcast, Quiet
<1> QED
  BY <1>1, <1>2, <1>3, <1>4, <1>5

LEMMA RaiseTargetInv ==
    ASSUME IndInv, NEW t \in Threads, RaiseTarget(t)
    PROVE  IndInv'
<1> USE MonitorAssumption DEF IndInv, Go, Count, gate, event,
    Initializing, Releasing, Inside, Waiting, Outside, At, GateWaits, Sleepers, GateWaiters
<1>1. TypeOK'
  <2>1. eflags' \in [signaled : BOOLEAN, broadcast : BOOLEAN, targets : SUBSET Threads]
    <3>1. PICK u \in Threads :
             eflags' = (IF u \in Sleepers
                          THEN [eflags EXCEPT !.signaled = TRUE, !.targets = @ \cup {u}]
                          ELSE eflags)
      BY DEF RaiseTarget
    <3> QED
      BY <3>1 DEF TypeOK
  <2>2. due' \in SUBSET Threads
    BY DEF RaiseTarget, TypeOK
  <2> QED
    BY <2>1, <2>2 DEF RaiseTarget, TypeOK, Locations
<1>2. ControlInv'
  BY DEF TypeOK, ControlInv, QueueInv, RaiseTarget, Locations
<1>3. NestInv'
  BY DEF TypeOK, ControlInv, NestInv, RaiseTarget
<1>4. QueueInv'
  BY DEF TypeOK, ControlInv, QueueInv, RaiseTarget
<1>5. NotifyInv'
  <2>1. owner = t /\ owner # NoHandle /\ pc'[t] = "idle"
    BY DEF RaiseTarget, TypeOK, ControlInv
  <2>2. Sleepers' = Sleepers
    BY DEF RaiseTarget, TypeOK
  <2>3. PICK u \in Threads :
           IF u \in Sleepers
             THEN /\ eflags' = [eflags EXCEPT !.signaled = TRUE, !.targets = @ \cup {u}]
                  /\ due' = due \cup {u}
             ELSE UNCHANGED <<eflags, due>>
    BY DEF RaiseTarget
  <2>4. due' \subseteq Sleepers /\ (due' # {} \/ dueOne => eflags'.signaled)
    BY <2>3 DEF NotifyInv, TypeOK
  <2>5. due' \subseteq eflags'.targets \/ eflags'.broadcast
    <3>1. CASE u \in Sleepers
      <4>1. eflags'.broadcast = eflags.broadcast /\ eflags'.targets = eflags.targets \cup {u}
        BY <2>3, <3>1 DEF TypeOK
      <4> QED
        BY <2>3, <3>1, <4>1 DEF NotifyInv
    <3>2. CASE u \notin Sleepers
      BY <2>3, <3>2 DEF NotifyInv
    <3> QED
      BY <3>1, <3>2
  <2>6. \A w \in Threads : pc'[w] \notin Initializing \cup {"unlock_cas"}
    BY <2>1 DEF RaiseTarget, TypeOK, ControlInv
  <2> QED
    BY <2>1, <2>2, <2>4, <2>5, <2>6 DEF RaiseTarget, NotifyInv
<1> QED
  BY <1>1, <1>2, <1>3, <1>4, <1>5

LEMMA TryLockInv ==
    ASSUME IndInv, NEW t \in Threads, pc[t] = "idle",
           NEW fast \in BOOLEAN, NEW request \in {"enter", "tryenter"},
           request = "tryenter" => (fast \/ ~Recursive), TryLock(t, request, fast)
    PROVE  IndInv'
<1> USE MonitorAssumption DEF IndInv, Go, Count, gate, event,
    Initializing, Releasing, Inside, Waiting, Outside, At, GateWaits, Sleepers, GateWaiters
<1>1. TypeOK'
  <2>1. nesting' \in 0..NestMod-1 /\ depth' \in [Threads -> 0..NestMod-1]
    <3>1. CASE owner = t /\ Recursive /\ (nesting + 1) % NestMod # 0
      <4>1. /\ depth[t] = nesting /\ nesting + 1 \in 0..NestMod-1
            /\ (nesting + 1) % NestMod = nesting + 1
        BY <3>1 DEF TypeOK, NestInv
      <4> QED
        BY <3>1, <4>1 DEF TryLock, Nest, TypeOK
    <3>2. CASE ~(owner = t /\ Recursive /\ (nesting + 1) % NestMod # 0)
      BY <3>2 DEF TryLock, Nest, TypeOK
    <3> QED
      BY <3>1, <3>2
  <2>2. /\ owner' \in Threads \cup {NoHandle} /\ contended' \in BOOLEAN
        /\ pc' \in [Threads -> Locations]
    BY DEF TryLock, Nest, TypeOK, Locations
  <2> QED
    BY <2>1, <2>2 DEF TryLock, TypeOK
<1>2. ControlInv'
  BY DEF TypeOK, ControlInv, QueueInv, TryLock, Nest, Locations
<1>3. NestInv'
  BY DEF TypeOK, ControlInv, NestInv, TryLock, Nest
<1>4. QueueInv'
  BY DEF TypeOK, ControlInv, QueueInv, TryLock, Nest
<1>5. NotifyInv'
  BY DEF TypeOK, ControlInv, NotifyInv, QueueInv, TryLock, Nest, Quiet
<1> QED
  BY <1>1, <1>2, <1>3, <1>4, <1>5

(* The core's release of the gate, the heart of evl_unlock_mutex() and     *)
(* evl_wait_event().                                                       *)
LEMMA ReleaseInv ==
    ASSUME IndInv, NEW t \in Threads, NEW dest \in {"idle", "asleep"},
           owner = t, depth[t] = 1, pc[t] \in {"idle", "exit"}, nesting <= 1,
           Recursive => nesting = 1,
           Release(t, dest)
    PROVE  IndInv' /\ due' = {} /\ ~dueOne'
<1> USE MonitorAssumption DEF IndInv
<1>1. PICK woken \in Woken : \E next \in Threads \cup {NoHandle} :
        /\ tracked' = (Sleepers \ woken # {} \/ dest = "asleep")
        /\ due' = due \ woken
        /\ dueOne' = (dueOne /\ woken = {})
        /\ next \in IF GateWaiters = {} THEN {NoHandle} ELSE GateWaiters
        /\ owner' = next
        /\ contended' = (GateWaiters \ {next} # {})
        /\ pc' = [u \in Threads |-> IF u = t THEN dest
                                    ELSE IF u \in woken THEN "reenter"
                                    ELSE IF u = next THEN AfterGrant(pc[u])
                                    ELSE pc[u]]
        /\ depth' = [u \in Threads |-> IF u = t THEN depth[u] - 1
                                       ELSE IF u = next THEN depth[u] + GrantCount(pc[u])
                                       ELSE depth[u]]
  <2>1. PICK woken \in Woken :
         /\ tracked' = (Sleepers \ woken # {} \/ dest = "asleep")
         /\ due' = due \ woken
         /\ dueOne' = (dueOne /\ woken = {})
         /\ \E next \in IF GateWaiters = {} THEN {NoHandle} ELSE GateWaiters :
              /\ owner' = next
              /\ contended' = (GateWaiters \ {next} # {})
              /\ pc' = [u \in Threads |-> IF u = t THEN dest
                                          ELSE IF u \in woken THEN "reenter"
                                          ELSE IF u = next THEN AfterGrant(pc[u])
                                          ELSE pc[u]]
              /\ depth' = [u \in Threads |-> IF u = t THEN depth[u] - 1
                                             ELSE IF u = next THEN depth[u] + GrantCount(pc[u])
                                             ELSE depth[u]]
    BY DEF Release
  <2>2. (IF GateWaiters = {} THEN {NoHandle} ELSE GateWaiters) \subseteq Threads \cup {NoHandle}
    BY DEF GateWaiters
  <2> QED
    BY <2>1, <2>2
<1>2. PICK next \in Threads \cup {NoHandle} :
        /\ tracked' = (Sleepers \ woken # {} \/ dest = "asleep")
        /\ due' = due \ woken
        /\ dueOne' = (dueOne /\ woken = {})
        /\ next \in IF GateWaiters = {} THEN {NoHandle} ELSE GateWaiters
        /\ owner' = next
        /\ contended' = (GateWaiters \ {next} # {})
        /\ pc' = [u \in Threads |-> IF u = t THEN dest
                                    ELSE IF u \in woken THEN "reenter"
                                    ELSE IF u = next THEN AfterGrant(pc[u])
                                    ELSE pc[u]]
        /\ depth' = [u \in Threads |-> IF u = t THEN depth[u] - 1
                                       ELSE IF u = next THEN depth[u] + GrantCount(pc[u])
                                       ELSE depth[u]]
  BY <1>1
<1>3. /\ gflags' = FALSE /\ nesting' = nesting
      /\ eflags' = IF gflags /\ tracked THEN Quiet ELSE eflags
  BY DEF Release
<1>4. woken \subseteq Sleepers /\ t \notin Sleepers /\ t \notin GateWaiters
  <2>1. woken \subseteq Sleepers
    BY DEF Woken
  <2> QED
    BY <2>1 DEF Sleepers, At, GateWaiters, GateWaits
<1>5. due' = {} /\ ~dueOne'
  <2>1. CASE due = {} /\ ~dueOne
    BY <1>2, <2>1
  <2>2. CASE due # {} \/ dueOne
    <3>1. gflags /\ eflags.signaled /\ tracked /\ Sleepers # {}
      BY <2>2 DEF NotifyInv
    <3>2. CASE eflags.broadcast
      BY <1>2, <3>1, <3>2 DEF Woken, NotifyInv
    <3>3. CASE ~eflags.broadcast
      <4>1. due \subseteq eflags.targets \cap Sleepers
        BY <3>3 DEF NotifyInv
      <4>2. CASE eflags.targets \cap Sleepers # {}
        BY <1>2, <3>1, <3>3, <4>1, <4>2 DEF Woken
      <4>3. CASE eflags.targets \cap Sleepers = {}
        BY <1>2, <3>1, <3>3, <4>1, <4>3 DEF Woken
      <4> QED
        BY <4>2, <4>3
    <3> QED
      BY <3>2, <3>3
  <2> QED
    BY <2>1, <2>2
(* Who is granted the gate, and what it does next. *)
<1>6. \A u \in Threads : u \in GateWaiters =>
        /\ pc[u] \in GateWaits /\ depth[u] = 0
        /\ AfterGrant(pc[u]) = (IF pc[u] = "enter_wait" THEN "entered" ELSE "idle")
        /\ GrantCount(pc[u]) = (IF pc[u] = "enter_wait" THEN 0 ELSE 1)
  BY DEF GateWaiters, GateWaits, ControlInv, Outside, Waiting, AfterGrant, GrantCount
<1>7. next # t /\ (next \in Threads => next \in GateWaiters /\ next \notin woken)
      /\ (next \notin Threads => next = NoHandle /\ GateWaiters = {})
  BY <1>2, <1>4 DEF Sleepers, At, GateWaiters, GateWaits
<1>8. \A u \in Threads :
        /\ u = t => pc'[u] = dest /\ depth'[u] = 0
        /\ (u \in woken) => pc'[u] = "reenter" /\ pc[u] = "asleep" /\ depth'[u] = depth[u]
        /\ (u = next) => /\ pc[u] \in GateWaits
                        /\ pc'[u] = (IF pc[u] = "enter_wait" THEN "entered" ELSE "idle")
                        /\ depth'[u] = (IF pc[u] = "enter_wait" THEN 0 ELSE 1)
        /\ (u # t /\ u \notin woken /\ u # next) => pc'[u] = pc[u] /\ depth'[u] = depth[u]
  <2> SUFFICES ASSUME NEW u \in Threads
               PROVE  /\ u = t => pc'[u] = dest /\ depth'[u] = 0
                      /\ (u \in woken) => /\ pc'[u] = "reenter" /\ pc[u] = "asleep"
                                          /\ depth'[u] = depth[u]
                      /\ (u = next) =>
                           /\ pc[u] \in GateWaits
                           /\ pc'[u] = (IF pc[u] = "enter_wait" THEN "entered" ELSE "idle")
                           /\ depth'[u] = (IF pc[u] = "enter_wait" THEN 0 ELSE 1)
                      /\ (u # t /\ u \notin woken /\ u # next)
                           => pc'[u] = pc[u] /\ depth'[u] = depth[u]
    OBVIOUS
  <2>1. pc'[u] = (IF u = t THEN dest ELSE IF u \in woken THEN "reenter"
                  ELSE IF u = next THEN AfterGrant(pc[u]) ELSE pc[u])
    BY <1>2
  <2>2. depth'[u] = (IF u = t THEN depth[u] - 1
                     ELSE IF u = next THEN depth[u] + GrantCount(pc[u]) ELSE depth[u])
    BY <1>2
  <2>3. u \in woken => pc[u] = "asleep" /\ u # t /\ u # next
    BY <1>4, <1>7 DEF Sleepers, At
  <2>4. u = t => pc'[u] = dest /\ depth'[u] = 0
    BY <2>1, <2>2
  <2>5. u = next => /\ pc[u] \in GateWaits
                    /\ pc'[u] = (IF pc[u] = "enter_wait" THEN "entered" ELSE "idle")
                    /\ depth'[u] = (IF pc[u] = "enter_wait" THEN 0 ELSE 1)
    BY <1>6, <1>7, <2>1, <2>2
  <2> QED
    BY <2>1, <2>2, <2>3, <2>4, <2>5
<1>9. TypeOK'
  <2>1. \A u \in Threads : pc'[u] \in Locations /\ depth'[u] \in 0..NestMod-1
    BY <1>8 DEF TypeOK, Locations
  <2>2. /\ pc' \in [Threads -> Locations] /\ depth' \in [Threads -> 0..NestMod-1]
    BY <1>2, <2>1
  <2> QED
    BY <1>2, <1>3, <1>5, <2>2 DEF TypeOK, Quiet
<1>10. ControlInv'
  BY <1>2, <1>7, <1>8 DEF ControlInv, Inside, Outside, Initializing, Releasing, Waiting, GateWaits
<1>11. NestInv'
  BY <1>2, <1>3, <1>7, <1>8 DEF TypeOK, NestInv, ControlInv, Inside, Initializing, Releasing,
     Waiting, GateWaits
<1>12. QueueInv'
  <2>1. GateWaiters' = GateWaiters \ {next}
    BY <1>4, <1>7, <1>8 DEF GateWaiters, GateWaits, Sleepers, At
  <2> QED
    BY <1>2, <1>7, <2>1 DEF QueueInv
<1>13. NotifyInv'
  <2>1. Sleepers' = (Sleepers \ woken) \cup (IF dest = "asleep" THEN {t} ELSE {})
    BY <1>4, <1>7, <1>8 DEF Sleepers, At, GateWaits
  <2> QED
    BY <1>2, <1>3, <1>5, <2>1 DEF NotifyInv
<1> QED
  BY <1>5, <1>9, <1>10, <1>11, <1>12, <1>13

LEMMA ExitInv ==
    ASSUME IndInv, NEW t \in Threads, ExitRequest(t)
    PROVE  IndInv' /\ due' = {} /\ ~dueOne'
<1>1. owner = t /\ depth[t] = 1 /\ nesting <= 1 /\ (Recursive => nesting = 1)
  BY DEF IndInv, TypeOK, ExitRequest, ControlInv, NestInv, Inside, Initializing, Releasing
<1> QED
  BY <1>1, ReleaseInv DEF ExitRequest

LEMMA WaitInv ==
    ASSUME IndInv, NEW t \in Threads, Wait(t)
    PROVE  IndInv' /\ due' = {} /\ ~dueOne'
<1>1. nesting <= 1 /\ (Recursive => nesting = 1)
  BY DEF IndInv, TypeOK, Wait, NestInv, Initializing
<1> QED
  BY <1>1, ReleaseInv DEF Wait

-----------------------------------------------------------------------------
LEMMA InitInv == Init => IndInv
<1> SUFFICES ASSUME Init
             PROVE  IndInv
  OBVIOUS
<1>1. TypeOK
  <2>1. 0 \in 0..NestMod-1
    BY MonitorAssumption
  <2>2. eflags \in [signaled : BOOLEAN, broadcast : BOOLEAN, targets : SUBSET Threads]
    BY DEF Init, Quiet
  <2>3. pc \in [Threads -> Locations] /\ depth \in [Threads -> 0..NestMod-1]
    BY <2>1 DEF Init, Locations
  <2> QED
    BY <2>1, <2>2, <2>3 DEF Init, TypeOK
<1>2. Sleepers = {} /\ GateWaiters = {}
  BY DEF Init, Sleepers, GateWaiters, GateWaits, At
<1>3. ControlInv /\ NestInv
  BY MonitorAssumption DEF Init, ControlInv, NestInv, Initializing, Releasing, Inside, Waiting,
     Outside
<1>4. QueueInv /\ NotifyInv
  BY <1>2 DEF Init, QueueInv, NotifyInv
<1> QED
  BY <1>1, <1>3, <1>4 DEF IndInv

LEMMA StepInv ==
    ASSUME Recursive => Tryers \cap SlowThreads = {}
    PROVE  IndInv /\ [Next]_vars => IndInv'
<1> SUFFICES ASSUME IndInv, [Next]_vars
             PROVE  IndInv'
  OBVIOUS
<1>1. CASE Next
  <2> SUFFICES ASSUME NEW t \in Threads,
                      \/ Lock(t) \/ Trylock(t) \/ Unlock(t) \/ Wait(t)
                      \/ \E kind \in {"signal", "broadcast", "target"} : Post(t, kind)
                      \/ Proceed(t)
                      \/ StopSleeping(t) \/ StopEntering(t)
               PROVE  IndInv'
    BY <1>1 DEF Next
  <2>1. CASE Lock(t)
    BY <2>1, TryLockInv DEF Lock, Fast
  <2>2. CASE Trylock(t)
    <3>1. PICK fast \in Fast(t) : TryLock(t, "tryenter", fast)
      BY <2>2 DEF Trylock
    <3>2. fast \in BOOLEAN /\ (fast \/ ~Recursive)
      BY <2>2, MonitorAssumption DEF Fast, Trylock
    <3> QED
      BY <2>2, <3>1, <3>2, TryLockInv DEF Trylock
  <2>3. CASE Unlock(t) \/ Wait(t)
    BY <2>3, UnlockInv, WaitInv
  <2>4. CASE \E kind \in {"signal", "broadcast", "target"} : Post(t, kind)
    BY <2>4, PostInv
  <2>5. CASE Proceed(t)
    BY <2>5, LockInitInv, TryEnterInv, EnterInv, EnteredInv, UnlockTestInv, FastUnlockInv,
       ExitInv, RaiseSignalInv, RaiseBroadcastInv, RaiseTargetInv DEF Proceed
  <2>6. CASE StopSleeping(t) \/ StopEntering(t)
    BY <2>6, StopSleepingInv, StopEnteringInv
  <2> QED
    BY <2>1, <2>2, <2>3, <2>4, <2>5, <2>6
<1>2. CASE UNCHANGED vars
  BY <1>2 DEF vars, IndInv, TypeOK, ControlInv, NestInv, QueueInv, NotifyInv, Sleepers,
     GateWaiters, At
<1> QED
  BY <1>1, <1>2

LEMMA Inductive ==
    ASSUME Recursive => Tryers \cap SlowThreads = {}
    PROVE  Spec => []IndInv
BY InitInv, StepInv, PTL DEF Spec

(* The types hold, the nesting count never wraps around: -EAGAIN from       *)
(* try_lock() is what keeps the program's count within the counter.        *)
THEOREM MonitorTypeCorrect ==
    ASSUME Recursive => Tryers \cap SlowThreads = {}
    PROVE  Spec => []TypeOK
<1>1. IndInv => TypeOK
  BY DEF IndInv
<1> QED
  BY <1>1, Inductive, PTL

(* Mutual exclusion of the monitor: a thread inside the critical section,  *)
(* back from a wait or not, is the one the lock word names.                *)
THEOREM CriticalSectionIsOwned ==
    ASSUME Recursive => Tryers \cap SlowThreads = {}
    PROVE  Spec => []HeldIsOwned
<1>1. IndInv => HeldIsOwned
  BY DEF IndInv, HeldIsOwned, ControlInv, TypeOK
<1> QED
  BY <1>1, Inductive, PTL

(* Nobody waits for a free gate, or for one which may be released without  *)
(* the core knowing (fast_unlock_mutex).                                   *)
THEOREM GateIsHandedOver ==
    ASSUME Recursive => Tryers \cap SlowThreads = {}
    PROVE  Spec => []NobodyStranded
<1>1. IndInv => NobodyStranded
  BY DEF IndInv, NobodyStranded, QueueInv, TypeOK
<1> QED
  BY <1>1, Inductive, PTL

(* Every notification is delivered by the release of the gate which        *)
(* follows it, whatever path the release takes.                            *)
THEOREM NotificationsAreDelivered ==
    ASSUME Recursive => Tryers \cap SlowThreads = {}
    PROVE  Spec => DeliveredOnRelease
<1>1. ASSUME IndInv, [Next]_vars
      PROVE  [owner # NoHandle /\ owner' # owner => due' = {} /\ ~dueOne']_vars
  <2> SUFFICES ASSUME Next, owner # NoHandle, owner' # owner
               PROVE  due' = {} /\ ~dueOne'
    BY <1>1
  <2>1. PICK t \in Threads :
          \/ Lock(t) \/ Trylock(t) \/ Unlock(t) \/ Wait(t)
          \/ \E kind \in {"signal", "broadcast", "target"} : Post(t, kind)
          \/ Proceed(t)
          \/ StopSleeping(t) \/ StopEntering(t)
    BY DEF Next
  <2>2. CASE Wait(t) \/ ExitRequest(t)
    BY <1>1, <2>2, WaitInv, ExitInv
  <2>3. CASE FastUnlock(t)
    <3>1. ~gflags
      BY <1>1, <2>3 DEF IndInv, NotifyInv, FastUnlock
    <3> QED
      BY <1>1, <2>3, <3>1 DEF IndInv, NotifyInv, FastUnlock, event
  <2>4. CASE ~(Wait(t) \/ ExitRequest(t) \/ FastUnlock(t))
    BY <2>1, <2>4 DEF Lock, Trylock, TryLock, Nest, Unlock, Post, Proceed, StopSleeping,
       StopEntering, LockInit, TryEnterRequest, EnterRequest, Entered, UnlockTest, RaiseSignal,
       RaiseBroadcast, RaiseTarget, gate
  <2> QED
    BY <2>2, <2>3, <2>4
<1> QED
  BY <1>1, Inductive, PTL DEF Spec, DeliveredOnRelease
=============================================================================
