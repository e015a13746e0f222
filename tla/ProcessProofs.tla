--------------------------- MODULE ProcessProofs ---------------------------
(***************************************************************************)
(* For any number of threads and of forks: whoever gets 0 from evl_init()  *)
(* finds the library set up, a thread which believes to be attached is     *)
(* attached, and no call disturbs the stage of its caller.                 *)
(***************************************************************************)
EXTENDS Process, TLAPS

(* The steps of do_init(), and those at which it has the control device or *)
(* the shared memory, not published yet.                                   *)
DoInit == {"mlock", "ctl", "mono", "real", "mmap", "register", "publish", "proxies"}
ReadyNow == once = "done" /\ status = "ok"
BothOpen == [mono |-> "open", real |-> "open"]
CtlHeld == ctl \/ \E t \in Threads : pc[t] \in {"mono", "real", "mmap", "register", "publish"}
MapHeld == shm \/ \E t \in Threads : pc[t] \in {"register", "publish"}

(* do_init() is run by the thread which holds init_once. *)
OnceInv == \A t \in Threads : pc[t] \in DoInit <=> once = t

(* What is published, and what do_init() has done so far. *)
StartInv ==
    /\ shm = ctl
    /\ ctl => "unmap" \in handlers
    /\ once = "new" => ~ ctl
    /\ once = "done" => status \in {"ok", "failed"}
    /\ once = "done" /\ status = "failed" => ~ ctl
    /\ ReadyNow => ctl /\ clocks = BothOpen
    /\ \A t \in Threads :
         /\ pc[t] \in DoInit \ {"proxies"} => ~ ctl
         /\ pc[t] = "proxies" => ctl
         /\ pc[t] = "real" => clocks.mono = "open"
         /\ pc[t] \in {"mmap", "register", "publish", "proxies"} => clocks = BothOpen
         /\ pc[t] = "publish" => "unmap" \in handlers

(* Descriptors and mappings: what a fork finds in the middle of do_init()  *)
(* is there in the child, too, and never given back.                       *)
HeldInv ==
    /\ CtlHeld => opened.ctl >= 1
    /\ MapHeld => opened.map >= 1
    /\ forks = 0 => /\ ~ CtlHeld => opened.ctl = 0
                    /\ ~ MapHeld => opened.map = 0
                    /\ opened.ctl <= 1

AttachInv ==
    /\ tlsOnce => "tls" \in handlers
    /\ \A t \in Threads :
         /\ pc[t] \in {"attach", "settls", "atfork", "setsched"} => ReadyNow
         /\ cur[t] => ReadyNow /\ window[t] /\ (bound[t] \/ pc[t] = "forget")
         /\ window[t] => cur[t]
         /\ pc[t] = "settls" => bound[t] /\ ~ cur[t]
         /\ cur[t] /\ pc[t] # "atfork" => "tls" \in handlers

CallInv == \A t \in Threads :
    /\ weak[t] => stage[t] = "inband"
    /\ pc[t] = "detach" => ~ woss[t]
    /\ pc[t] = "call" =>
         /\ call[t].group = "oob" => call[t].via = "oob"
         /\ call[t].group \in {"conforming", "woss", "policy", "proxy"} /\ call[t].via = "oob"
              => cur[t]
         /\ call[t].group \in {"conforming", "woss", "proxy"} /\ cur[t] /\ stage[t] = "oob"
              => call[t].via = "oob"

IndInv == TypeOK /\ OnceInv /\ StartInv /\ HeldInv /\ AttachInv /\ CallInv

-----------------------------------------------------------------------------
(* The steps of do_init().                                                 *)
LEMMA LockMemoryInv ==
    ASSUME IndInv, NEW t \in Threads, LockMemory(t)
    PROVE  IndInv'
<1> USE ProcessAssumption DEF IndInv, TypeOK, LockMemory, InitFails, Goto, init, tls,
    kernel
<1>1. TypeOK'
  <2>1. pc' \in [Threads -> Locations]
    BY DEF Locations
  <2>2. once' \in {"new", "done"} \cup Threads /\ status' \in {"none", "ok", "failed"}
    OBVIOUS
  <2>3. /\ cur' \in [Threads -> BOOLEAN] /\ window' \in [Threads -> BOOLEAN]
        /\ bound' \in [Threads -> BOOLEAN]
    OBVIOUS
  <2>4. weak' \in [Threads -> BOOLEAN] /\ stage' \in [Threads -> {"inband", "oob"}]
    OBVIOUS
  <2> QED
    BY <2>1, <2>2, <2>3, <2>4
<1>2. OnceInv'
  BY DEF OnceInv, DoInit, StartInv, Locations
<1>3. StartInv'
  BY DEF OnceInv, StartInv, DoInit, ReadyNow, BothOpen, ClockVars, Locations
<1>4. HeldInv'
  BY DEF OnceInv, StartInv, HeldInv, CtlHeld, MapHeld, DoInit, Locations
<1>5. AttachInv'
  BY DEF OnceInv, StartInv, AttachInv, ReadyNow, DoInit, Locations
<1>6. CallInv'
  BY DEF CallInv, AttachInv, Locations, Groups
<1> QED
  BY <1>1, <1>2, <1>3, <1>4, <1>5, <1>6

LEMMA OpenControlInv ==
    ASSUME IndInv, NEW t \in Threads, OpenControl(t)
    PROVE  IndInv'
<1> USE ProcessAssumption DEF IndInv, TypeOK, OpenControl, InitFails, Goto, init, tls,
    kernel
<1>1. TypeOK'
  <2>1. opened' \in [ctl : Nat, map : Nat]
    BY DEF HeldInv, CtlHeld
  <2>2. /\ pc' \in [Threads -> Locations] /\ status' \in {"none", "ok", "failed"}
        /\ once' \in {"new", "done"} \cup Threads
    BY DEF Locations
  <2>3. clocks' \in ClockVars
    BY DEF ClockVars
  <2> QED
    BY <2>1, <2>2, <2>3
<1>2. OnceInv'
  BY DEF OnceInv, DoInit, StartInv, Locations
<1>3. StartInv'
  BY DEF OnceInv, StartInv, DoInit, ReadyNow, BothOpen, ClockVars, Locations
<1>4. HeldInv'
  BY DEF OnceInv, StartInv, HeldInv, CtlHeld, MapHeld, DoInit, Locations
<1>5. AttachInv'
  BY DEF OnceInv, StartInv, AttachInv, ReadyNow, DoInit, Locations
<1>6. CallInv'
  BY DEF CallInv, AttachInv, Locations, Groups
<1> QED
  BY <1>1, <1>2, <1>3, <1>4, <1>5, <1>6

LEMMA OpenMonoInv ==
    ASSUME IndInv, NEW t \in Threads, OpenMono(t)
    PROVE  IndInv'
<1> USE ProcessAssumption DEF IndInv, TypeOK, OpenMono, CloseControl, InitFails, Goto,
    init, tls, kernel
<1>1. TypeOK'
  <2>1. opened' \in [ctl : Nat, map : Nat]
    BY DEF HeldInv, CtlHeld
  <2>2. /\ pc' \in [Threads -> Locations] /\ status' \in {"none", "ok", "failed"}
        /\ once' \in {"new", "done"} \cup Threads
    BY DEF Locations
  <2>3. clocks' \in ClockVars
    BY DEF ClockVars
  <2> QED
    BY <2>1, <2>2, <2>3
<1>2. OnceInv'
  BY DEF OnceInv, DoInit, StartInv, Locations
<1>3. StartInv'
  BY DEF OnceInv, StartInv, DoInit, ReadyNow, BothOpen, ClockVars, Locations
<1>4. HeldInv'
  BY DEF OnceInv, StartInv, HeldInv, CtlHeld, MapHeld, DoInit, Locations
<1>5. AttachInv'
  BY DEF OnceInv, StartInv, AttachInv, ReadyNow, DoInit, Locations
<1>6. CallInv'
  BY DEF CallInv, AttachInv, Locations, Groups
<1> QED
  BY <1>1, <1>2, <1>3, <1>4, <1>5, <1>6

LEMMA OpenRealInv ==
    ASSUME IndInv, NEW t \in Threads, OpenReal(t)
    PROVE  IndInv'
<1> USE ProcessAssumption DEF IndInv, TypeOK, OpenReal, CloseControl, InitFails, Goto,
    init, tls, kernel
<1>1. TypeOK'
  <2>1. opened' \in [ctl : Nat, map : Nat]
    BY DEF HeldInv, CtlHeld
  <2>2. /\ pc' \in [Threads -> Locations] /\ status' \in {"none", "ok", "failed"}
        /\ once' \in {"new", "done"} \cup Threads
    BY DEF Locations
  <2>3. clocks' \in ClockVars
    BY DEF ClockVars
  <2> QED
    BY <2>1, <2>2, <2>3
<1>2. OnceInv'
  BY DEF OnceInv, DoInit, StartInv, Locations
<1>3. StartInv'
  BY DEF OnceInv, StartInv, DoInit, ReadyNow, BothOpen, ClockVars, Locations
<1>4. HeldInv'
  BY DEF OnceInv, StartInv, HeldInv, CtlHeld, MapHeld, DoInit, Locations
<1>5. AttachInv'
  BY DEF OnceInv, StartInv, AttachInv, ReadyNow, DoInit, Locations
<1>6. CallInv'
  BY DEF CallInv, AttachInv, Locations, Groups
<1> QED
  BY <1>1, <1>2, <1>3, <1>4, <1>5, <1>6

LEMMA MapMemoryInv ==
    ASSUME IndInv, NEW t \in Threads, MapMemory(t)
    PROVE  IndInv'
<1> USE ProcessAssumption DEF IndInv, TypeOK, MapMemory, CloseControl, InitFails, Goto,
    init, tls, kernel
<1>1. TypeOK'
  <2>1. opened' \in [ctl : Nat, map : Nat]
    BY DEF HeldInv, CtlHeld
  <2>2. /\ pc' \in [Threads -> Locations] /\ status' \in {"none", "ok", "failed"}
        /\ once' \in {"new", "done"} \cup Threads
    BY DEF Locations
  <2>3. clocks' \in ClockVars
    BY DEF ClockVars
  <2> QED
    BY <2>1, <2>2, <2>3
<1>2. OnceInv'
  BY DEF OnceInv, DoInit, StartInv, Locations
<1>3. StartInv'
  BY DEF OnceInv, StartInv, DoInit, ReadyNow, BothOpen, ClockVars, Locations
<1>4. HeldInv'
  <2>1. CASE CloseControl(t)
    BY <2>1 DEF OnceInv, StartInv, HeldInv, CtlHeld, MapHeld, DoInit, Locations
  <2>2. CASE ~ CloseControl(t)
    <3>1. opened'.ctl = opened.ctl /\ opened'.map = opened.map + 1
      BY <2>2
    <3>2. pc'[t] = "register" /\ \A u \in Threads \ {t} : pc'[u] = pc[u] /\ pc[u] \notin DoInit
      BY <2>2 DEF OnceInv, DoInit
    <3>3. ~ MapHeld /\ CtlHeld /\ MapHeld' /\ CtlHeld'
      BY <2>2, <3>2 DEF OnceInv, StartInv, CtlHeld, MapHeld, DoInit
    <3> QED
      BY <2>2, <3>1, <3>3 DEF HeldInv
  <2> QED
    BY <2>1, <2>2
<1>5. AttachInv'
  BY DEF OnceInv, StartInv, AttachInv, ReadyNow, DoInit, Locations
<1>6. CallInv'
  BY DEF CallInv, AttachInv, Locations, Groups
<1> QED
  BY <1>1, <1>2, <1>3, <1>4, <1>5, <1>6

LEMMA RegisterUnmapInv ==
    ASSUME IndInv, NEW t \in Threads, RegisterUnmap(t)
    PROVE  IndInv'
<1> USE ProcessAssumption DEF IndInv, TypeOK, RegisterUnmap, Goto, init, tls, kernel
<1>1. TypeOK'
  BY DEF OnceInv, StartInv, HeldInv, CtlHeld, MapHeld, DoInit, Locations, Groups, ClockVars
<1>2. OnceInv'
  BY DEF OnceInv, DoInit, StartInv, Locations
<1>3. StartInv'
  BY DEF OnceInv, StartInv, DoInit, ReadyNow, BothOpen, ClockVars, Locations
<1>4. HeldInv'
  BY DEF OnceInv, StartInv, HeldInv, CtlHeld, MapHeld, DoInit, Locations
<1>5. AttachInv'
  BY DEF OnceInv, StartInv, AttachInv, ReadyNow, DoInit, Locations
<1>6. CallInv'
  BY DEF CallInv, AttachInv, Locations, Groups
<1> QED
  BY <1>1, <1>2, <1>3, <1>4, <1>5, <1>6

LEMMA PublishInv ==
    ASSUME IndInv, NEW t \in Threads, Publish(t)
    PROVE  IndInv'
<1> USE ProcessAssumption DEF IndInv, TypeOK, Publish, Goto, init, tls, kernel
<1>1. TypeOK'
  BY DEF OnceInv, StartInv, HeldInv, CtlHeld, MapHeld, DoInit, Locations, Groups, ClockVars
<1>2. OnceInv'
  BY DEF OnceInv, DoInit, StartInv, Locations
<1>3. StartInv'
  BY DEF OnceInv, StartInv, DoInit, ReadyNow, BothOpen, ClockVars, Locations
<1>4. HeldInv'
  BY DEF OnceInv, StartInv, HeldInv, CtlHeld, MapHeld, DoInit, Locations
<1>5. AttachInv'
  BY DEF OnceInv, StartInv, AttachInv, ReadyNow, DoInit, Locations
<1>6. CallInv'
  BY DEF CallInv, AttachInv, Locations, Groups
<1> QED
  BY <1>1, <1>2, <1>3, <1>4, <1>5, <1>6

LEMMA SetupProxiesInv ==
    ASSUME IndInv, NEW t \in Threads, SetupProxies(t)
    PROVE  IndInv'
<1> USE ProcessAssumption DEF IndInv, TypeOK, SetupProxies, Goto, init, tls, kernel
<1>1. TypeOK'
  BY DEF OnceInv, StartInv, HeldInv, CtlHeld, MapHeld, DoInit, Locations, Groups, ClockVars
<1>2. OnceInv'
  BY DEF OnceInv, DoInit, StartInv, Locations
<1>3. StartInv'
  <2>1. ctl /\ shm /\ clocks = BothOpen /\ "unmap" \in handlers
    BY DEF StartInv, DoInit
  <2>2. \A u \in Threads : pc'[u] \notin DoInit
    BY DEF OnceInv, DoInit
  <2> QED
    BY <2>1, <2>2 DEF StartInv, DoInit, ReadyNow
<1>4. HeldInv'
  BY DEF OnceInv, StartInv, HeldInv, CtlHeld, MapHeld, DoInit, Locations
<1>5. AttachInv'
  BY DEF OnceInv, StartInv, AttachInv, ReadyNow, DoInit, Locations
<1>6. CallInv'
  BY DEF CallInv, AttachInv, Locations, Groups
<1> QED
  BY <1>1, <1>2, <1>3, <1>4, <1>5, <1>6

LEMMA RunOnceInv ==
    ASSUME IndInv, NEW t \in Threads, RunOnce(t)
    PROVE  IndInv'
<1> USE ProcessAssumption DEF IndInv, TypeOK, RunOnce, NoCall, Goto, init, tls, kernel
<1>1. TypeOK'
  <2>1. pc' \in [Threads -> Locations]
    BY DEF Locations
  <2>2. call' \in [Threads -> [via : {"none", "inband", "oob"}, group : Groups]]
    BY DEF Groups
  <2>3. once' \in {"new", "done"} \cup Threads
    OBVIOUS
  <2> QED
    BY <2>1, <2>2, <2>3
<1>2. OnceInv'
  BY DEF OnceInv, DoInit, StartInv, Locations
<1>3. StartInv'
  BY DEF OnceInv, StartInv, DoInit, ReadyNow, BothOpen, ClockVars, Locations
<1>4. HeldInv'
  BY DEF OnceInv, StartInv, HeldInv, CtlHeld, MapHeld, DoInit, Locations
<1>5. AttachInv'
  BY DEF OnceInv, StartInv, AttachInv, ReadyNow, DoInit, Locations
<1>6. CallInv'
  BY DEF CallInv, AttachInv, Locations, Groups
<1> QED
  BY <1>1, <1>2, <1>3, <1>4, <1>5, <1>6

(* Calling, attaching, detaching.                                          *)
LEMMA EvlInitInv ==
    ASSUME IndInv, NEW t \in Threads, EvlInit(t)
    PROVE  IndInv'
<1> USE ProcessAssumption DEF IndInv, TypeOK, EvlInit, NoCall, Goto, init, tls, kernel
<1>1. TypeOK'
  BY DEF OnceInv, StartInv, HeldInv, CtlHeld, MapHeld, DoInit, Locations, Groups, ClockVars
<1>2. OnceInv'
  BY DEF OnceInv, DoInit, StartInv, Locations
<1>3. StartInv'
  BY DEF OnceInv, StartInv, DoInit, ReadyNow, BothOpen, ClockVars, Locations
<1>4. HeldInv'
  BY DEF OnceInv, StartInv, HeldInv, CtlHeld, MapHeld, DoInit, Locations
<1>5. AttachInv'
  BY DEF OnceInv, StartInv, AttachInv, ReadyNow, DoInit, Locations
<1>6. CallInv'
  BY DEF CallInv, AttachInv, Locations, Groups
<1> QED
  BY <1>1, <1>2, <1>3, <1>4, <1>5, <1>6

LEMMA CreateThreadInv ==
    ASSUME IndInv, NEW t \in Threads, CreateThread(t)
    PROVE  IndInv'
<1> USE ProcessAssumption DEF IndInv, TypeOK, CreateThread, Goto, init, tls, kernel
<1>1. TypeOK'
  <2>1. pc' \in [Threads -> Locations]
    BY DEF Locations
  <2>2. once' \in {"new", "done"} \cup Threads /\ status' \in {"none", "ok", "failed"}
    OBVIOUS
  <2>3. /\ cur' \in [Threads -> BOOLEAN] /\ window' \in [Threads -> BOOLEAN]
        /\ bound' \in [Threads -> BOOLEAN]
    OBVIOUS
  <2>4. weak' \in [Threads -> BOOLEAN] /\ stage' \in [Threads -> {"inband", "oob"}]
    OBVIOUS
  <2> QED
    BY <2>1, <2>2, <2>3, <2>4
<1>2. OnceInv'
  BY DEF OnceInv, DoInit, StartInv, Locations
<1>3. StartInv'
  BY DEF OnceInv, StartInv, DoInit, ReadyNow, BothOpen, ClockVars, Locations
<1>4. HeldInv'
  BY DEF OnceInv, StartInv, HeldInv, CtlHeld, MapHeld, DoInit, Locations
<1>5. AttachInv'
  BY DEF OnceInv, StartInv, AttachInv, ReadyNow, DoInit, Locations
<1>6. CallInv'
  BY DEF CallInv, AttachInv, Locations, Groups
<1> HIDE DEF TypeOK
<1> QED
  BY <1>1, <1>2, <1>3, <1>4, <1>5, <1>6

LEMMA SetTlsInv ==
    ASSUME IndInv, NEW t \in Threads, SetTls(t)
    PROVE  IndInv'
<1> USE ProcessAssumption DEF IndInv, TypeOK, SetTls, Goto, init, tls, kernel
<1>1. TypeOK'
  BY DEF OnceInv, StartInv, HeldInv, CtlHeld, MapHeld, DoInit, Locations, Groups, ClockVars
<1>2. OnceInv'
  BY DEF OnceInv, DoInit, StartInv, Locations
<1>3. StartInv'
  BY DEF OnceInv, StartInv, DoInit, ReadyNow, BothOpen, ClockVars, Locations
<1>4. HeldInv'
  BY DEF OnceInv, StartInv, HeldInv, CtlHeld, MapHeld, DoInit, Locations
<1>5. AttachInv'
  BY DEF OnceInv, StartInv, AttachInv, ReadyNow, DoInit, Locations
<1>6. CallInv'
  <2>1. \A u \in Threads \ {t} : cur'[u] = cur[u] /\ pc'[u] = pc[u]
    OBVIOUS
  <2>2. pc'[t] = "atfork" /\ weak' = weak /\ stage' = stage /\ woss' = woss /\ call' = call
    OBVIOUS
  <2> QED
    BY <2>1, <2>2 DEF CallInv
<1> QED
  BY <1>1, <1>2, <1>3, <1>4, <1>5, <1>6

LEMMA RegisterTlsInv ==
    ASSUME IndInv, NEW t \in Threads, RegisterTls(t)
    PROVE  IndInv'
<1> USE ProcessAssumption DEF IndInv, TypeOK, RegisterTls, Goto, init, tls, kernel
<1>1. TypeOK'
  BY DEF OnceInv, StartInv, HeldInv, CtlHeld, MapHeld, DoInit, Locations, Groups, ClockVars
<1>2. OnceInv'
  BY DEF OnceInv, DoInit, StartInv, Locations
<1>3. StartInv'
  BY DEF OnceInv, StartInv, DoInit, ReadyNow, BothOpen, ClockVars, Locations
<1>4. HeldInv'
  BY DEF OnceInv, StartInv, HeldInv, CtlHeld, MapHeld, DoInit, Locations
<1>5. AttachInv'
  BY DEF OnceInv, StartInv, AttachInv, ReadyNow, DoInit, Locations
<1>6. CallInv'
  BY DEF CallInv, AttachInv, Locations, Groups
<1> QED
  BY <1>1, <1>2, <1>3, <1>4, <1>5, <1>6

LEMMA SetSchedInv ==
    ASSUME IndInv, NEW t \in Threads, SetSched(t)
    PROVE  IndInv'
<1> USE ProcessAssumption DEF IndInv, TypeOK, SetSched, ClearTls, Goto, init, tls, kernel
<1>1. TypeOK'
  <2>1. pc' \in [Threads -> Locations]
    BY DEF Locations
  <2>2. cur' \in [Threads -> BOOLEAN] /\ window' \in [Threads -> BOOLEAN]
    OBVIOUS
  <2>3. weak' \in [Threads -> BOOLEAN] /\ stage' \in [Threads -> {"inband", "oob"}]
    <3>1. CASE UNCHANGED <<weak, stage>>
      BY <3>1
    <3>2. ASSUME NEW w \in BOOLEAN, weak' = [weak EXCEPT ![t] = w],
                 stage' = [stage EXCEPT ![t] = IF w THEN "inband" ELSE "oob"]
          PROVE  weak' \in [Threads -> BOOLEAN] /\ stage' \in [Threads -> {"inband", "oob"}]
      BY <3>2, Zenon
    <3> QED
      BY <3>1, <3>2
  <2> QED
    BY <2>1, <2>2, <2>3
<1>2. OnceInv'
  BY DEF OnceInv, DoInit, StartInv, Locations
<1>3. StartInv'
  BY DEF OnceInv, StartInv, DoInit, ReadyNow, BothOpen, ClockVars, Locations
<1>4. HeldInv'
  BY DEF OnceInv, StartInv, HeldInv, CtlHeld, MapHeld, DoInit, Locations
<1>5. AttachInv'
  BY DEF OnceInv, StartInv, AttachInv, ReadyNow, DoInit, Locations
<1>6. CallInv'
  BY DEF CallInv, AttachInv, Locations, Groups
<1> QED
  BY <1>1, <1>2, <1>3, <1>4, <1>5, <1>6

LEMMA GetSchedFailsInv ==
    ASSUME IndInv, NEW t \in Threads, GetSchedFails(t)
    PROVE  IndInv'
<1> USE ProcessAssumption DEF IndInv, TypeOK, GetSchedFails, ClearTls, Goto, init, tls, kernel
<1>1. TypeOK'
  BY DEF Locations
<1>2. OnceInv'
  BY DEF OnceInv, DoInit, StartInv, Locations
<1>3. StartInv'
  BY DEF OnceInv, StartInv, DoInit, ReadyNow, BothOpen, ClockVars, Locations
<1>4. HeldInv'
  BY DEF OnceInv, StartInv, HeldInv, CtlHeld, MapHeld, DoInit, Locations
<1>5. AttachInv'
  BY DEF OnceInv, StartInv, AttachInv, ReadyNow, DoInit, Locations
<1>6. CallInv'
  BY DEF CallInv, AttachInv, Locations, Groups
<1> QED
  BY <1>1, <1>2, <1>3, <1>4, <1>5, <1>6

LEMMA ClearWossInv ==
    ASSUME IndInv, NEW t \in Threads, ClearWoss(t)
    PROVE  IndInv'
<1> USE ProcessAssumption DEF IndInv, TypeOK, ClearWoss, Goto, init, tls, kernel
<1>1. TypeOK'
  BY DEF OnceInv, StartInv, HeldInv, CtlHeld, MapHeld, DoInit, Locations, Groups, ClockVars
<1>2. OnceInv'
  BY DEF OnceInv, DoInit, StartInv, Locations
<1>3. StartInv'
  BY DEF OnceInv, StartInv, DoInit, ReadyNow, BothOpen, ClockVars, Locations
<1>4. HeldInv'
  BY DEF OnceInv, StartInv, HeldInv, CtlHeld, MapHeld, DoInit, Locations
<1>5. AttachInv'
  BY DEF OnceInv, StartInv, AttachInv, ReadyNow, DoInit, Locations
<1>6. CallInv'
  BY DEF CallInv, AttachInv, Locations, Groups
<1> QED
  BY <1>1, <1>2, <1>3, <1>4, <1>5, <1>6

LEMMA DetachSelfInv ==
    ASSUME IndInv, NEW t \in Threads, DetachSelf(t)
    PROVE  IndInv'
<1> USE ProcessAssumption DEF IndInv, TypeOK, DetachSelf, Goto, init, tls, kernel
<1>1. TypeOK'
  <2>1. pc' \in [Threads -> Locations]
    BY DEF Locations
  <2>2. once' \in {"new", "done"} \cup Threads /\ status' \in {"none", "ok", "failed"}
    OBVIOUS
  <2>3. /\ cur' \in [Threads -> BOOLEAN] /\ window' \in [Threads -> BOOLEAN]
        /\ bound' \in [Threads -> BOOLEAN]
    OBVIOUS
  <2>4. weak' \in [Threads -> BOOLEAN] /\ stage' \in [Threads -> {"inband", "oob"}]
    OBVIOUS
  <2> QED
    BY <2>1, <2>2, <2>3, <2>4
<1>2. OnceInv'
  BY DEF OnceInv, DoInit, StartInv, Locations
<1>3. StartInv'
  BY DEF OnceInv, StartInv, DoInit, ReadyNow, BothOpen, ClockVars, Locations
<1>4. HeldInv'
  BY DEF OnceInv, StartInv, HeldInv, CtlHeld, MapHeld, DoInit, Locations
<1>5. AttachInv'
  BY DEF OnceInv, StartInv, AttachInv, ReadyNow, DoInit, Locations
<1>6. CallInv'
  BY DEF CallInv, AttachInv, Locations, Groups
<1> QED
  BY <1>1, <1>2, <1>3, <1>4, <1>5, <1>6

LEMMA ForgetInv ==
    ASSUME IndInv, NEW t \in Threads, Forget(t)
    PROVE  IndInv'
<1> USE ProcessAssumption DEF IndInv, TypeOK, Forget, ClearTls, Goto, init, tls, kernel
<1>1. TypeOK'
  BY DEF OnceInv, StartInv, HeldInv, CtlHeld, MapHeld, DoInit, Locations, Groups, ClockVars
<1>2. OnceInv'
  BY DEF OnceInv, DoInit, StartInv, Locations
<1>3. StartInv'
  BY DEF OnceInv, StartInv, DoInit, ReadyNow, BothOpen, ClockVars, Locations
<1>4. HeldInv'
  BY DEF OnceInv, StartInv, HeldInv, CtlHeld, MapHeld, DoInit, Locations
<1>5. AttachInv'
  BY DEF OnceInv, StartInv, AttachInv, ReadyNow, DoInit, Locations
<1>6. CallInv'
  BY DEF CallInv, AttachInv, Locations, Groups
<1> QED
  BY <1>1, <1>2, <1>3, <1>4, <1>5, <1>6

(* What the core and fork do.                                              *)
LEMMA DemoteInv ==
    ASSUME IndInv, NEW t \in Threads, Demote(t)
    PROVE  IndInv'
<1> USE ProcessAssumption DEF IndInv, TypeOK, Demote, Goto, init, tls, kernel
<1>1. TypeOK'
  BY DEF OnceInv, StartInv, HeldInv, CtlHeld, MapHeld, DoInit, Locations, Groups, ClockVars
<1>2. OnceInv'
  BY DEF OnceInv, DoInit, StartInv, Locations
<1>3. StartInv'
  BY DEF OnceInv, StartInv, DoInit, ReadyNow, BothOpen, ClockVars, Locations
<1>4. HeldInv'
  BY DEF OnceInv, StartInv, HeldInv, CtlHeld, MapHeld, DoInit, Locations
<1>5. AttachInv'
  BY DEF OnceInv, StartInv, AttachInv, ReadyNow, DoInit, Locations
<1>6. CallInv'
  BY DEF CallInv, AttachInv, Locations, Groups
<1> QED
  BY <1>1, <1>2, <1>3, <1>4, <1>5, <1>6

LEMMA ForkInv ==
    ASSUME IndInv, NEW t \in Threads, Fork(t)
    PROVE  IndInv'
<1> USE ProcessAssumption DEF IndInv, TypeOK, Fork, UnmapShmem, ClearTlsOfChild,
    NoCall, Goto, init, tls, kernel
<1>1. TypeOK'
  <2>1. opened' \in [ctl : Nat, map : Nat]
    BY DEF HeldInv, CtlHeld, MapHeld, StartInv
  <2>2. /\ pc' \in [Threads -> Locations]
        /\ call' \in [Threads -> [via : {"none", "inband", "oob"}, group : Groups]]
    BY DEF Locations, Groups
  <2>3. once' \in {"new", "done"} \cup Threads /\ forks' \in 0..MaxForks
    OBVIOUS
  <2>4. /\ cur' \in [Threads -> BOOLEAN] /\ window' \in [Threads -> BOOLEAN]
        /\ tlsOnce' \in BOOLEAN
    OBVIOUS
  <2>5. ctl' \in BOOLEAN /\ shm' \in BOOLEAN
    OBVIOUS
  <2> QED
    BY <2>1, <2>2, <2>3, <2>4, <2>5
<1>2. OnceInv'
  BY DEF OnceInv, DoInit, StartInv, Locations
<1>3. StartInv'
  <2>1. \A u \in Threads : pc'[u] = "idle"
    OBVIOUS
  <2>2. CASE "unmap" \in handlers
    BY <2>1, <2>2 DEF StartInv, DoInit, ReadyNow
  <2>3. CASE "unmap" \notin handlers
    BY <2>1, <2>3 DEF StartInv, DoInit, ReadyNow
  <2> QED
    BY <2>2, <2>3
<1>4. HeldInv'
  BY DEF OnceInv, StartInv, HeldInv, CtlHeld, MapHeld, DoInit, Locations
<1>5. AttachInv'
  BY DEF OnceInv, StartInv, AttachInv, ReadyNow, DoInit, Locations
<1>6. CallInv'
  BY DEF CallInv, AttachInv, Locations, Groups
<1> QED
  BY <1>1, <1>2, <1>3, <1>4, <1>5, <1>6

LEMMA SystemCallInv ==
    ASSUME IndInv, NEW t \in Threads, SystemCall(t)
    PROVE  IndInv'
<1> USE ProcessAssumption DEF IndInv, TypeOK, SystemCall, NoCall, StageAfter, Goto,
    init, tls, kernel
<1>1. TypeOK'
  <2>1. /\ pc' \in [Threads -> Locations]
        /\ call' \in [Threads -> [via : {"none", "inband", "oob"}, group : Groups]]
    BY DEF Locations, Groups
  <2>2. woss' \in [Threads -> BOOLEAN] /\ weak' \in [Threads -> BOOLEAN]
    OBVIOUS
  <2>3. stage' \in [Threads -> {"inband", "oob"}]
    OBVIOUS
  <2>4. misreported' \in [Threads -> BOOLEAN]
    OBVIOUS
  <2> QED
    BY <2>1, <2>2, <2>3, <2>4
<1>2. OnceInv'
  BY DEF OnceInv, DoInit, StartInv, Locations
<1>3. StartInv'
  BY DEF OnceInv, StartInv, DoInit, ReadyNow, BothOpen, ClockVars, Locations
<1>4. HeldInv'
  BY DEF OnceInv, StartInv, HeldInv, CtlHeld, MapHeld, DoInit, Locations
<1>5. AttachInv'
  BY DEF OnceInv, StartInv, AttachInv, ReadyNow, DoInit, Locations
<1>6. CallInv'
  BY DEF CallInv, AttachInv, Locations, Groups
<1> QED
  BY <1>1, <1>2, <1>3, <1>4, <1>5, <1>6

(* What a service may issue, given its caller.                             *)
Fits(t, g, v) ==
    /\ g \in Groups \ {"none", "inited", "attach"} /\ v \in {"inband", "oob"}
    /\ g = "oob" => v = "oob"
    /\ g \in {"conforming", "woss", "policy", "proxy"} /\ v = "oob" => cur[t]
    /\ g \in {"conforming", "woss", "proxy"} /\ v = "inband" /\ cur[t] => stage[t] = "inband"

LEMMA IssueInv ==
    ASSUME IndInv, NEW t \in Threads, NEW g, NEW v, Issue(t, g, v), Fits(t, g, v)
    PROVE  IndInv'
<1> USE ProcessAssumption DEF IndInv, TypeOK, Issue, Goto, init, tls, kernel
<1>1. TypeOK'
  BY DEF Fits, Locations, Groups
<1>2. OnceInv'
  BY DEF OnceInv, DoInit
<1>3. StartInv'
  BY DEF StartInv, DoInit, ReadyNow
<1>4. HeldInv'
  BY DEF HeldInv, CtlHeld, MapHeld
<1>5. AttachInv'
  BY DEF AttachInv, ReadyNow
<1>6. CallInv'
  BY DEF CallInv, Fits
<1> QED
  BY <1>1, <1>2, <1>3, <1>4, <1>5, <1>6

(* A caller whose window says out-of-band is attached; one which is        *)
(* attached and whose window says in-band runs in-band.                    *)
LEMMA ModeOfCaller ==
    ASSUME IndInv, NEW t \in Threads
    PROVE  /\ ~ IsInband(t) => cur[t]
           /\ IsInband(t) /\ cur[t] => stage[t] = "inband"
           /\ Conforming(t) \in {"inband", "oob"}
           /\ Conforming(t) = "oob" => cur[t]
           /\ Conforming(t) = "inband" /\ cur[t] => stage[t] = "inband"
           /\ IsWeak(t) => stage[t] = "inband"
BY DEF IndInv, AttachInv, CallInv, IsInband, Conforming, IsWeak

LEMMA ServiceInv ==
    ASSUME IndInv, NEW t \in Threads, Service(t)
    PROVE  IndInv'
<1>1. ASSUME NEW g, NEW v, Fits(t, g, v), Issue(t, g, v)
      PROVE  IndInv'
  BY <1>1, IssueInv
<1>2. \A g \in {"conforming", "woss", "policy", "proxy"} : Fits(t, g, Conforming(t))
  BY ModeOfCaller DEF Fits, Groups
<1>3. Fits(t, "inband", "inband") /\ Fits(t, "stderr", "inband") /\ Fits(t, "oob", "oob")
  BY DEF Fits, Groups
<1>4. Fits(t, "conforming", IF cur[t] /\ ~ IsInband(t) THEN "oob" ELSE "inband")
  BY ModeOfCaller DEF Fits, Groups
<1>5. Fits(t, "conforming", IF WantsOob(t) THEN "oob" ELSE "inband")
  <2>1. WantsOob(t) => cur[t]
    BY DEF WantsOob
  <2>2. ~ WantsOob(t) /\ cur[t] => stage[t] = "inband"
    BY ModeOfCaller DEF WantsOob
  <2> QED
    BY <2>1, <2>2 DEF Fits, Groups
<1> QED
  BY <1>1, <1>2, <1>3, <1>4, <1>5 DEF Service, ThreadCall, SetWoss, SetPolicy, SchedCall,
     ClockCall, TimerCall, NewTimer, Subscribe, FlagsCall, FlagsWait, PollCall, SleepUntil,
     Yield, ObservableCall, SwitchOob, SwitchInband, PrintProxy

-----------------------------------------------------------------------------
LEMMA InitInv == Init => IndInv
<1> SUFFICES ASSUME Init PROVE IndInv
  OBVIOUS
<1> USE ProcessAssumption DEF Init
<1>1. TypeOK
  <2>1. call \in [Threads -> [via : {"none", "inband", "oob"}, group : Groups]]
    BY DEF Groups, NoCall
  <2>2. /\ pc \in [Threads -> Locations] /\ clocks \in ClockVars
        /\ opened \in [ctl : Nat, map : Nat]
    BY DEF Locations, ClockVars
  <2>3. /\ forks \in 0..MaxForks /\ status \in {"none", "ok", "failed"}
        /\ handlers \subseteq {"unmap", "tls"}
    OBVIOUS
  <2>4. /\ cur \in [Threads -> BOOLEAN] /\ window \in [Threads -> BOOLEAN]
        /\ weak \in [Threads -> BOOLEAN] /\ woss \in [Threads -> BOOLEAN]
        /\ bound \in [Threads -> BOOLEAN] /\ misreported \in [Threads -> BOOLEAN]
    OBVIOUS
  <2>5. stage \in [Threads -> {"inband", "oob"}] /\ once \in {"new", "done"} \cup Threads
    OBVIOUS
  <2> QED
    BY <2>1, <2>2, <2>3, <2>4, <2>5 DEF TypeOK
<1>2. \A t \in Threads : pc[t] = "idle" /\ ~ cur[t] /\ ~ window[t] /\ ~ weak[t]
  OBVIOUS
<1>3. OnceInv /\ CallInv
  BY <1>2 DEF OnceInv, CallInv, DoInit
<1>4. StartInv /\ AttachInv
  BY <1>2 DEF StartInv, AttachInv, DoInit, ReadyNow
<1>5. HeldInv
  BY <1>2 DEF HeldInv, CtlHeld, MapHeld
<1> QED
  BY <1>1, <1>3, <1>4, <1>5 DEF IndInv

LEMMA StutterInv == IndInv /\ UNCHANGED vars => IndInv'
BY DEF IndInv, TypeOK, OnceInv, StartInv, HeldInv, AttachInv, CallInv, DoInit, ReadyNow,
   CtlHeld, MapHeld, vars, init, tls, kernel

LEMMA NextInv == IndInv /\ [Next]_vars => IndInv'
<1> SUFFICES ASSUME IndInv, [Next]_vars PROVE IndInv'
  OBVIOUS
<1>1. CASE UNCHANGED vars
  BY <1>1, StutterInv
<1>2. ASSUME NEW t \in Threads, InitStep(t)
      PROVE  IndInv'
  BY <1>2, RunOnceInv, LockMemoryInv, OpenControlInv, OpenMonoInv, OpenRealInv, MapMemoryInv,
     RegisterUnmapInv, PublishInv, SetupProxiesInv DEF InitStep
<1>3. ASSUME NEW t \in Threads, AttachStep(t)
      PROVE  IndInv'
  BY <1>3, CreateThreadInv, SetTlsInv, RegisterTlsInv, GetSchedFailsInv, SetSchedInv DEF AttachStep
<1>4. ASSUME NEW t \in Threads, DetachSelf(t) \/ Forget(t) \/ SystemCall(t)
      PROVE  IndInv'
  BY <1>4, DetachSelfInv, ForgetInv, SystemCallInv
<1>5. ASSUME NEW t \in Threads,
             EvlInit(t) \/ ClearWoss(t) \/ Service(t) \/ Demote(t) \/ Fork(t)
      PROVE  IndInv'
  BY <1>5, EvlInitInv, ClearWossInv, ServiceInv, DemoteInv, ForkInv
<1> QED
  BY <1>1, <1>2, <1>3, <1>4, <1>5 DEF Next, Running

(* The invariant which the other theorems are drawn from: what do_init()   *)
(* and evl_attach_thread() have done so far, and the mode of each caller.  *)
THEOREM Inductive == Spec => []IndInv
BY InitInv, NextInv, PTL DEF Spec

(* Any number of threads may call evl_init(), attach, detach and fork, and *)
(* one thread at most is in do_init().                                     *)
THEOREM ProcessTypeCorrect == Spec => []TypeOK
<1>1. IndInv => TypeOK
  BY DEF IndInv
<1> QED
  BY <1>1, Inductive, PTL

(* When evl_init() returns 0, what do_init() sets up is there, in every    *)
(* child, too; a failed do_init() gives back what it took.                 *)
THEOREM ReadyWhenInitialized == Spec => []InitializedIsReady
<1>1. ASSUME IndInv PROVE ReadyWhenDone
  BY <1>1 DEF IndInv, StartInv, AttachInv, ReadyNow, ReadyWhenDone, BothOpen
<1>2. ASSUME IndInv PROVE NothingHeldTwice
  <2> SUFFICES ASSUME forks = 0 PROVE NothingHeldTwice
    BY DEF NothingHeldTwice
  <2>1. opened.ctl \in Nat /\ opened.map \in Nat
    BY <1>2 DEF IndInv, TypeOK
  <2>2. opened.ctl = IF CtlHeld THEN 1 ELSE 0
    BY <1>2, <2>1 DEF IndInv, HeldInv
  <2>3. once = "done" /\ status = "failed" => ~ MapHeld
    BY <1>2, ProcessAssumption DEF IndInv, StartInv, OnceInv, MapHeld, DoInit
  <2>4. once = "done" /\ status = "failed" => opened.map = 0
    BY <1>2, <2>3 DEF IndInv, HeldInv
  <2> QED
    BY <2>2, <2>4 DEF NothingHeldTwice, CtlHeld
<1> QED
  BY <1>1, <1>2, Inductive, PTL DEF InitializedIsReady

(* A thread whose evl_current() is set is attached in the core, and its    *)
(* window lies in the memory this process has mapped, also after a fork.   *)
THEOREM AttachedIsBound == Spec => []TlsMatchesCore
<1>1. IndInv => TlsMatchesCore
  BY DEF IndInv, StartInv, AttachInv, ReadyNow, TlsMatchesCore
<1> QED
  BY <1>1, Inductive, PTL

(* evl_detach_thread() does not trigger SIGDEBUG, and a service which has  *)
(* an in-band way uses it for a thread which is not attached.              *)
THEOREM CallsSuitCallers == Spec => []CallsFitTheirCaller
<1>1. IndInv => CallsFitTheirCaller
  BY DEF IndInv, CallInv, CallsFitTheirCaller, QuietDetach, ForeignersStayInband
<1> QED
  BY <1>1, Inductive, PTL

(* A service which conforms to the stage of its caller leaves it there.    *)
THEOREM NobodyIsDemoted == Spec => NeverDemoted
<1> DEFINE Kept == \A t \in Threads :
          pc[t] = "call" /\ pc'[t] = "idle" /\ forks' = forks
          /\ call[t].group \in {"conforming", "woss", "proxy", "oob"}
          /\ cur[t] /\ stage[t] = "oob" => stage'[t] = "oob"
<1>1. ASSUME IndInv, Next PROVE Kept
  <2> SUFFICES ASSUME NEW t \in Threads, pc[t] = "call", pc'[t] = "idle", forks' = forks,
                      call[t].group \in {"conforming", "woss", "proxy", "oob"},
                      cur[t], stage[t] = "oob"
               PROVE  stage'[t] = "oob"
    OBVIOUS
  <2>1. bound[t] /\ ~ weak[t] /\ call[t].via = "oob"
    BY <1>1 DEF IndInv, AttachInv, CallInv
  <2>2. PICK u \in Threads :
          EvlInit(u) \/ ClearWoss(u) \/ Service(u) \/ Running(u) \/ Demote(u) \/ Fork(u)
    BY <1>1 DEF Next
  <2>3. SystemCall(t)
    <3>1. CASE Service(u)
      <4>1. PICK g, v : Issue(u, g, v)
        BY <3>1 DEF Service, ThreadCall, SetWoss, SetPolicy, SchedCall, ClockCall, TimerCall,
           NewTimer, Subscribe, FlagsCall, FlagsWait, PollCall, SleepUntil, Yield,
           ObservableCall, SwitchOob, SwitchInband, PrintProxy
      <4> QED
        BY <1>1, <4>1 DEF Issue, Goto, IndInv, TypeOK
    <3>2. CASE Fork(u)
      BY <1>1, <3>2 DEF Fork, IndInv, TypeOK
    <3>3. CASE ~ (Service(u) \/ Fork(u))
      <4>1. CASE SystemCall(u)
        <5>1. pc \in [Threads -> Locations] /\ pc' = [pc EXCEPT ![u] = "idle"]
          BY <1>1, <4>1 DEF SystemCall, Goto, IndInv, TypeOK
        <5>2. u = t
          BY <5>1
        <5> QED
          BY <4>1, <5>2
      <4>2. CASE InitStep(u)
        BY <1>1, <4>2 DEF InitStep, RunOnce, LockMemory, OpenControl, OpenMono, OpenReal,
           MapMemory, RegisterUnmap, Publish, SetupProxies, InitFails, CloseControl, Goto,
           IndInv, TypeOK
      <4>3. CASE AttachStep(u) \/ DetachSelf(u) \/ Forget(u)
        BY <1>1, <4>3 DEF AttachStep, CreateThread, SetTls, RegisterTls, GetSchedFails, SetSched,
           DetachSelf, Forget, ClearTls, Goto, IndInv, TypeOK
      <4>4. CASE EvlInit(u) \/ ClearWoss(u) \/ Demote(u)
        BY <1>1, <4>4 DEF EvlInit, ClearWoss, Demote, Goto, IndInv, TypeOK
      <4> QED
        BY <2>2, <3>3, <4>1, <4>2, <4>3, <4>4 DEF Running
    <3> QED
      BY <3>1, <3>2, <3>3
  <2>4. \/ stage' = [stage EXCEPT ![t] =
                           IF weak'[t] THEN "inband" ELSE StageAfter(t, call[t].via)]
        \/ stage' = [stage EXCEPT ![t] = StageAfter(t, call[t].via)]
    BY <2>3 DEF SystemCall
  <2>5. ~ weak'[t]
    BY <1>1, <2>1, <2>3 DEF SystemCall, IndInv, TypeOK
  <2>6. StageAfter(t, call[t].via) = "oob"
    BY <2>1 DEF StageAfter
  <2>7. stage \in [Threads -> {"inband", "oob"}]
    BY <1>1 DEF IndInv, TypeOK
  <2> QED
    BY <2>4, <2>5, <2>6, <2>7
<1>2. ASSUME IndInv, [Next]_vars PROVE [Kept]_vars
  BY <1>1, <1>2
<1> QED
  BY <1>2, Inductive, PTL DEF Spec, NeverDemoted
=============================================================================
