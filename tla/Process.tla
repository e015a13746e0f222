------------------------------ MODULE Process ------------------------------
(***************************************************************************)
(* A process which uses libevl: its one-time initialization, the threads   *)
(* which attach to the EVL core and detach from it, the stage they run on, *)
(* in-band (Linux) or out-of-band (EVL), the way each service reaches the  *)
(* core from there, and fork (lib/init.c, lib/thread.c, lib/internal.h and *)
(* the services of lib/clock.c, timer.c, sched.c, poll.c, observable.c,    *)
(* proxy.c and flags.c).                                                   *)
(*                                                                         *)
(* A fork replaces the process by its child, where only the forking thread *)
(* is left; the parent is not affected.  pthread_once(), pthread_atfork(), *)
(* the system calls and the core are external: an init routine which was   *)
(* running in another thread at the time of the fork runs again in the     *)
(* child, and the handlers are run in the child by fork itself.            *)
(***************************************************************************)
EXTENDS Integers, FiniteSets

CONSTANTS
    Threads,     \* the threads of the process
    MaxForks     \* bound: how many times the process forks

ASSUME ProcessAssumption ==
    MaxForks \in Nat /\ {"new", "done"} \cap Threads = {}

Nobody == "nobody"

VARIABLES
    once,        \* init_once: "new", "done", or the thread which runs do_init()
    status,      \* init_status: what evl_init() returns once done
    ctl, shm,    \* __evl_ctlfd and __evl_shared_memory are set
    clocks,      \* __evl_mono_clockfd, __evl_real_clockfd: see ClockVars
    outfd,       \* evl_outfd is a proxy
    handlers,    \* the fork handlers registered: "unmap" and "tls"
    tlsOnce,     \* atfork_once has run
    opened,      \* ctl descriptors and mappings which exist in the process
    cur, window, \* __evl_current and __evl_current_window are set, per thread
    pc,          \* what each thread does next
    call,        \* the system call a thread is about to issue
    stage, weak, woss, \* what the core knows of each thread
    bound,       \* whether the core has the thread attached
    misreported, \* the last call wrote to a proxy, and did not return the count
    forks

init == <<once, status, ctl, shm, clocks, outfd, handlers, opened>>
tls == <<cur, window, tlsOnce>>
kernel == <<stage, weak, woss, bound>>
vars == <<init, tls, pc, call, kernel, misreported, forks>>

(* A clock variable holds no descriptor, an open one, or the number of one *)
(* which was closed.                                                       *)
ClockVars == [mono : {"none", "open", "stale"}, real : {"none", "open", "stale"}]

NoCall == [via |-> "none", group |-> "none"]
Goto(t, l) == pc' = [pc EXCEPT ![t] = l]

Init ==
    /\ once = "new" /\ status = "none" /\ ctl = FALSE /\ shm = FALSE
    /\ clocks = [mono |-> "none", real |-> "none"] /\ outfd = FALSE
    /\ handlers = {} /\ tlsOnce = FALSE /\ opened = [ctl |-> 0, map |-> 0]
    /\ cur = [t \in Threads |-> FALSE] /\ window = [t \in Threads |-> FALSE]
    /\ pc = [t \in Threads |-> "idle"] /\ call = [t \in Threads |-> NoCall]
    /\ stage = [t \in Threads |-> "inband"] /\ weak = [t \in Threads |-> FALSE]
    /\ woss = [t \in Threads |-> FALSE] /\ bound = [t \in Threads |-> FALSE]
    /\ misreported = [t \in Threads |-> FALSE] /\ forks = 0

-----------------------------------------------------------------------------
(* evl_init(), on its own or from evl_attach_thread(): the first caller    *)
(* runs do_init(), the others wait for it, and all get its status.         *)
EvlInit(t) ==
    /\ pc[t] = "idle"
    /\ \E after \in {"inited", "attach"} :
           /\ call' = [call EXCEPT ![t] = [NoCall EXCEPT !.group = after]]
           /\ Goto(t, "once")
    /\ UNCHANGED <<init, tls, kernel, misreported, forks>>

RunOnce(t) ==
    /\ pc[t] = "once"
    /\ \/ once = "new" /\ once' = t /\ Goto(t, "mlock") /\ UNCHANGED call
       \/ /\ once = "done" /\ UNCHANGED once
          /\ IF status = "ok" /\ call[t].group = "attach"
             THEN Goto(t, "attach") ELSE Goto(t, "idle")
          /\ call' = [call EXCEPT ![t] = NoCall]
    /\ UNCHANGED <<status, ctl, shm, clocks, outfd, handlers, opened, tls, kernel, misreported, forks>>

(* Mutant: a failed initialization is tried again. *)
InitFailsRetried(t) ==
    UNCHANGED <<once, status>> /\ Goto(t, "mlock")

InitFails(t) ==
    once' = "done" /\ status' = "failed" /\ Goto(t, "once")

(* do_init(): the memory is locked; generic_init(): the control device is  *)
(* opened and the ABI checked, which closes it when it fails.              *)
LockMemory(t) ==
    /\ pc[t] = "mlock"
    /\ \/ Goto(t, "ctl") /\ UNCHANGED <<once, status>>
       \/ InitFails(t)
    /\ UNCHANGED <<ctl, shm, clocks, outfd, handlers, opened, tls, call, kernel, misreported, forks>>

OpenControl(t) ==
    /\ pc[t] = "ctl"
    /\ \/ Goto(t, "mono") /\ opened' = [opened EXCEPT !.ctl = @ + 1] /\ UNCHANGED <<once, status>>
       \/ InitFails(t) /\ UNCHANGED opened
    /\ UNCHANGED <<ctl, shm, clocks, outfd, handlers, tls, call, kernel, misreported, forks>>

CloseControl(t) == InitFails(t) /\ opened' = [opened EXCEPT !.ctl = @ - 1]

(* __evl_attach_clocks(): when the second clock fails the first one is     *)
(* closed, but its variable still holds the number.                        *)
OpenMono(t) ==
    /\ pc[t] = "mono"
    /\ \/ Goto(t, "real") /\ clocks' = [clocks EXCEPT !.mono = "open"]
          /\ UNCHANGED <<once, status, opened>>
       \/ CloseControl(t) /\ clocks' = [clocks EXCEPT !.mono = "none"]
    /\ UNCHANGED <<ctl, shm, outfd, handlers, tls, call, kernel, misreported, forks>>

OpenReal(t) ==
    /\ pc[t] = "real"
    /\ \/ Goto(t, "mmap") /\ clocks' = [clocks EXCEPT !.real = "open"]
          /\ UNCHANGED <<once, status, opened>>
       \/ CloseControl(t) /\ clocks' = [mono |-> "stale", real |-> "none"]
    /\ UNCHANGED <<ctl, shm, outfd, handlers, tls, call, kernel, misreported, forks>>

MapMemory(t) ==
    /\ pc[t] = "mmap"
    /\ \/ Goto(t, "register") /\ opened' = [opened EXCEPT !.map = @ + 1]
          /\ UNCHANGED <<once, status>>
       \/ CloseControl(t)
    /\ UNCHANGED <<ctl, shm, clocks, outfd, handlers, tls, call, kernel, misreported, forks>>

RegisterUnmap(t) ==
    /\ pc[t] = "register"
    /\ handlers' = handlers \cup {"unmap"} /\ Goto(t, "publish")
    /\ UNCHANGED <<once, status, ctl, shm, clocks, outfd, opened, tls, call, kernel, misreported, forks>>

Publish(t) ==
    /\ pc[t] = "publish"
    /\ ctl' = TRUE /\ shm' = TRUE /\ Goto(t, "proxies")
    /\ UNCHANGED <<once, status, clocks, outfd, handlers, opened, tls, call, kernel, misreported, forks>>

(* __evl_setup_proxies(), whose failure is ignored, ends do_init().        *)
SetupProxies(t) ==
    /\ pc[t] = "proxies"
    /\ outfd' \in BOOLEAN
    /\ once' = "done" /\ status' = "ok" /\ Goto(t, "once")
    /\ UNCHANGED <<ctl, shm, clocks, handlers, opened, tls, call, kernel, misreported, forks>>

-----------------------------------------------------------------------------
(* evl_attach_thread(): the core refuses a thread which it has attached    *)
(* already.                                                                *)
CreateThread(t) ==
    /\ pc[t] = "attach"
    /\ \/ /\ cur[t] = FALSE /\ bound[t] = FALSE
          /\ bound' = [bound EXCEPT ![t] = TRUE]
          /\ Goto(t, "settls")
       \/ Goto(t, "idle") /\ UNCHANGED bound
    /\ UNCHANGED <<init, tls, call, stage, weak, woss, misreported, forks>>

SetTls(t) ==
    /\ pc[t] = "settls"
    /\ cur' = [cur EXCEPT ![t] = TRUE] /\ window' = [window EXCEPT ![t] = shm]
    /\ Goto(t, "atfork")
    /\ UNCHANGED <<init, tlsOnce, call, kernel, misreported, forks>>

ClearTls(t) == cur' = [cur EXCEPT ![t] = FALSE] /\ window' = [window EXCEPT ![t] = FALSE]

(* Mutant: no fork handler clears the thread-local variables. *)
RegisterTlsNot(t) ==
    /\ pc[t] = "atfork"
    /\ Goto(t, "setsched")
    /\ UNCHANGED <<init, tls, call, kernel, misreported, forks>>

RegisterTls(t) ==
    /\ pc[t] = "atfork"
    /\ tlsOnce' = TRUE
    /\ handlers' = IF tlsOnce THEN handlers ELSE handlers \cup {"tls"}
    /\ Goto(t, "setsched")
    /\ UNCHANGED <<once, status, ctl, shm, clocks, outfd, opened, cur, window, call, kernel,
                   misreported, forks>>

(* Before the fork handler is registered, pthread_getschedparam() may fail. *)
GetSchedFails(t) ==
    /\ pc[t] = "atfork"
    /\ ClearTls(t) /\ Goto(t, "idle")
    /\ UNCHANGED <<init, tlsOnce, call, kernel, misreported, forks>>

(* The scheduling parameters are applied by an out-of-band request, which  *)
(* makes the thread leave the in-band stage unless it is weak.  When it    *)
(* fails, closing its descriptor does not detach the thread from the core. *)
SetSched(t) ==
    /\ pc[t] = "setsched"
    /\ \/ /\ \E w \in BOOLEAN :
                 /\ weak' = [weak EXCEPT ![t] = w]
                 /\ stage' = [stage EXCEPT ![t] = IF w THEN "inband" ELSE "oob"]
          /\ UNCHANGED <<cur, window>>
       \/ ClearTls(t) /\ UNCHANGED <<weak, stage>>
    /\ Goto(t, "idle")
    /\ UNCHANGED <<init, tlsOnce, call, woss, bound, misreported, forks>>

(* Mutant: WOSS is left as it is. *)
ClearWossNot(t) ==
    /\ pc[t] = "idle" /\ cur[t]
    /\ stage' = [stage EXCEPT ![t] = IF weak[t] THEN "inband" ELSE "oob"]
    /\ Goto(t, "detach")
    /\ UNCHANGED <<init, tls, call, weak, woss, bound, misreported, forks>>

(* evl_detach_thread(): WOSS is turned off first, so that the in-band      *)
(* request which follows does not cause SIGDEBUG.  The result is ignored:  *)
(* the core grants this request to the thread itself.                      *)
ClearWoss(t) ==
    /\ pc[t] = "idle" /\ cur[t]
    /\ woss' = [woss EXCEPT ![t] = FALSE]
    /\ stage' = [stage EXCEPT ![t] = IF weak[t] THEN "inband" ELSE "oob"]
    /\ Goto(t, "detach")
    /\ UNCHANGED <<init, tls, call, weak, bound, misreported, forks>>

DetachSelf(t) ==
    /\ pc[t] = "detach"
    /\ stage' = [stage EXCEPT ![t] = "inband"]
    /\ \/ /\ bound' = [bound EXCEPT ![t] = FALSE] /\ weak' = [weak EXCEPT ![t] = FALSE]
          /\ Goto(t, "forget")
       \/ Goto(t, "idle") /\ UNCHANGED <<bound, weak>>
    /\ UNCHANGED <<init, tls, call, woss, misreported, forks>>

Forget(t) ==
    /\ pc[t] = "forget"
    /\ ClearTls(t) /\ Goto(t, "idle")
    /\ UNCHANGED <<init, tlsOnce, call, kernel, misreported, forks>>

-----------------------------------------------------------------------------
(* The mode of the caller, from the window it shares with the core.        *)
IsInband(t) == window[t] => stage[t] = "inband"
IsWeak(t) == window[t] /\ weak[t]

(* A service reads the mode of its caller, then issues a system call, on   *)
(* the stage it has chosen.                                                *)
Issue(t, g, v) ==
    /\ pc[t] = "idle"
    /\ call' = [call EXCEPT ![t] = [via |-> v, group |-> g]] /\ Goto(t, "call")
    /\ misreported' = [misreported EXCEPT ![t] = FALSE]
    /\ UNCHANGED <<init, tls, kernel, forks>>

(* Mutant: the stage of the caller is ignored. *)
ConformingNot(t) == "inband"

Conforming(t) == IF IsInband(t) THEN "inband" ELSE "oob"

(* evl_get_state(), evl_unblock_thread(), evl_set_thread_mode()...         *)
ThreadCall(t) == Issue(t, "conforming", Conforming(t))
(* evl_set_thread_mode() for WOSS, evl_set_schedattr() to or from SCHED_WEAK *)
SetWoss(t) == bound[t] /\ Issue(t, "woss", Conforming(t))
SetPolicy(t) == bound[t] /\ Issue(t, "policy", Conforming(t))
(* evl_control_sched(), evl_get_cpustate()                                 *)
SchedCall(t) == ctl /\ Issue(t, "conforming", Conforming(t))
(* evl_set_clock(), evl_get_clock_resolution()                             *)
ClockCall(t) == Issue(t, "conforming", Conforming(t))
(* evl_set_timer(), evl_get_timer()                                        *)
TimerCall(t) == Issue(t, "conforming", Conforming(t))
(* evl_new_timer() tests that the monotonic clock was opened.              *)
NewTimer(t) == clocks.mono # "none" /\ Issue(t, "inband", "inband")
(* evl_subscribe(), evl_unsubscribe()                                      *)
Subscribe(t) == Issue(t, "inband", "inband")
(* evl_trywait_flags(), evl_post_flags()                                   *)
FlagsCall(t) == Issue(t, "conforming", IF cur[t] /\ ~ IsInband(t) THEN "oob" ELSE "inband")
(* evl_wait_flags() and the other calls which may sleep.                   *)
FlagsWait(t) == cur[t] /\ Issue(t, "oob", "oob")
(* evl_poll(), evl_add_pollfd()...: anyone may ask, the core refuses.      *)
PollCall(t) == Issue(t, "oob", "oob")
SleepUntil(t) == Issue(t, "oob", "oob")
Yield(t) == cur[t] /\ Issue(t, "oob", "oob")

(* evl_update_observable(), evl_read_observable()                          *)
WantsOob(t) == cur[t] /\ ~ IsWeak(t)
ObservableCall(t) == Issue(t, "conforming", IF WantsOob(t) THEN "oob" ELSE "inband")
(* evl_switch_oob(), evl_switch_inband()                                   *)
SwitchOob(t) == cur[t] /\ IsInband(t) /\ Issue(t, "oob", "oob")
SwitchInband(t) == ~ IsInband(t) /\ Issue(t, "inband", "inband")

(* evl_vprint_proxy(): without a proxy, an in-band caller writes to the    *)
(* standard error output; evl_write_proxy() otherwise.                     *)
PrintProxy(t) ==
    \/ outfd /\ Issue(t, "proxy", Conforming(t))
    \/ ~ outfd /\ IsInband(t) /\ Issue(t, "stderr", "inband")

(* What the core does of a system call: an in-band call demotes an out-of- *)
(* band caller, an out-of-band call promotes an attached one, for good     *)
(* unless it is weak, and is refused to the others.                        *)
StageAfter(t, v) == IF v = "inband" \/ weak[t] \/ ~ bound[t] THEN "inband" ELSE "oob"
Performs(t, v) == v = "inband" \/ bound[t]

(* __evl_conforming_io(): any non-zero result is turned into -errno, which *)
(* a call that goes well leaves as it was.                                 *)
ConformingResult(r, errno) == IF r # 0 THEN - errno ELSE 0

(* evl_write_proxy(), and the write(2) of the fallback, which return a     *)
(* count of 1 here.                                                        *)
WriteResult(g, errno) ==
    LET r == IF g = "proxy" THEN ConformingResult(1, errno) ELSE 1
    IN IF r < 0 THEN - errno ELSE r

SystemCall(t) ==
    /\ pc[t] = "call"
    /\ \/ /\ Performs(t, call[t].via)
          /\ woss' = [woss EXCEPT ![t] = @ \/ call[t].group = "woss"]
          /\ weak' = [weak EXCEPT ![t] = @ # (call[t].group = "policy")]
          /\ stage' = [stage EXCEPT ![t] = IF weak'[t] THEN "inband" ELSE StageAfter(t, call[t].via)]
          /\ \E errno \in {0, 1} :
                 misreported' = [misreported EXCEPT ![t] =
                     call[t].group \in {"proxy", "stderr"} /\ WriteResult(call[t].group, errno) # 1]
       \/ /\ stage' = [stage EXCEPT ![t] = StageAfter(t, call[t].via)]
          /\ UNCHANGED <<woss, weak, misreported>>
    /\ call' = [call EXCEPT ![t] = NoCall] /\ Goto(t, "idle")
    /\ UNCHANGED <<init, tls, bound, forks>>

(* A signal or a fault demotes an out-of-band thread at any time.          *)
Demote(t) ==
    /\ stage[t] = "oob"
    /\ stage' = [stage EXCEPT ![t] = "inband"]
    /\ UNCHANGED <<init, tls, pc, call, weak, woss, bound, misreported, forks>>

-----------------------------------------------------------------------------
(* Mutant: the child keeps the result of the initialization. *)
UnmapShmemOnly ==
    /\ ctl' = FALSE /\ shm' = FALSE
    /\ once' = IF once \in Threads THEN "new" ELSE once
    /\ opened' = [ctl |-> opened.ctl - (IF ctl THEN 1 ELSE 0),
                  map |-> opened.map - (IF shm THEN 1 ELSE 0)]

(* Mutant: the handler is always there, and closes what was never opened. *)
UnmapShmemAlways ==
    /\ once' = "new" /\ ctl' = FALSE /\ shm' = FALSE
    /\ opened' = [ctl |-> opened.ctl - 1, map |-> opened.map - 1]

(* The fork handlers of the child, in the order of their registration:     *)
(* atfork_unmap_shmem(), then atfork_clear_tls() which only serves the     *)
(* thread which forks.  A service of the child starts from scratch, except *)
(* for what no handler resets: the clocks and the proxies.                 *)
UnmapShmem ==
    IF "unmap" \in handlers
    THEN /\ once' = "new" /\ ctl' = FALSE /\ shm' = FALSE
         /\ opened' = [ctl |-> opened.ctl - (IF ctl THEN 1 ELSE 0),
                       map |-> opened.map - (IF shm THEN 1 ELSE 0)]
    ELSE /\ once' = IF once \in Threads THEN "new" ELSE once
         /\ UNCHANGED <<ctl, shm, opened>>

ClearTlsOfChild(t) ==
    /\ cur' = [u \in Threads |-> u = t /\ cur[t] /\ "tls" \notin handlers]
    /\ window' = [u \in Threads |-> u = t /\ window[t] /\ "tls" \notin handlers]
    /\ tlsOnce' = (tlsOnce /\ "tls" \notin handlers)

Fork(t) ==
    /\ pc[t] = "idle" /\ forks < MaxForks
    /\ forks' = forks + 1
    /\ UnmapShmem /\ ClearTlsOfChild(t)
    /\ UNCHANGED <<status, clocks, outfd, handlers>>
    /\ pc' = [u \in Threads |-> "idle"] /\ call' = [u \in Threads |-> NoCall]
    /\ stage' = [u \in Threads |-> "inband"]
    /\ weak' = [u \in Threads |-> FALSE] /\ woss' = [u \in Threads |-> FALSE]
    /\ bound' = [u \in Threads |-> FALSE]
    /\ misreported' = [u \in Threads |-> FALSE]

-----------------------------------------------------------------------------
InitStep(t) ==
    \/ RunOnce(t) \/ LockMemory(t) \/ OpenControl(t) \/ OpenMono(t) \/ OpenReal(t)
    \/ MapMemory(t) \/ RegisterUnmap(t) \/ Publish(t) \/ SetupProxies(t)

AttachStep(t) == CreateThread(t) \/ SetTls(t) \/ RegisterTls(t) \/ GetSchedFails(t) \/ SetSched(t)

Service(t) ==
    \/ ThreadCall(t) \/ SetWoss(t) \/ SetPolicy(t) \/ SchedCall(t) \/ ClockCall(t)
    \/ TimerCall(t) \/ NewTimer(t) \/ Subscribe(t) \/ FlagsCall(t) \/ FlagsWait(t)
    \/ PollCall(t) \/ SleepUntil(t) \/ Yield(t) \/ ObservableCall(t) \/ SwitchOob(t)
    \/ SwitchInband(t) \/ PrintProxy(t)

Running(t) == InitStep(t) \/ AttachStep(t) \/ DetachSelf(t) \/ Forget(t) \/ SystemCall(t)

Next == \E t \in Threads :
    EvlInit(t) \/ ClearWoss(t) \/ Service(t) \/ Running(t) \/ Demote(t) \/ Fork(t)

Spec == Init /\ [][Next]_vars

(* A thread which has started a call is run until the call returns.        *)
FairSpec == Spec /\ \A t \in Threads : WF_vars(Running(t))

-----------------------------------------------------------------------------
Locations == {"idle", "once", "mlock", "ctl", "mono", "real", "mmap", "register", "publish",
              "proxies", "attach", "settls", "atfork", "setsched", "detach", "forget", "call"}
Groups == {"none", "inited", "attach", "conforming", "woss", "policy", "oob", "inband",
           "proxy", "stderr"}

(* The types of the variables; do_init() is run by at most one thread, the *)
(* one which holds init_once.                                              *)
TypeOK ==
    /\ once \in {"new", "done"} \cup Threads /\ status \in {"none", "ok", "failed"}
    /\ ctl \in BOOLEAN /\ shm \in BOOLEAN /\ clocks \in ClockVars /\ outfd \in BOOLEAN
    /\ handlers \subseteq {"unmap", "tls"} /\ tlsOnce \in BOOLEAN
    /\ opened \in [ctl : Nat, map : Nat]
    /\ cur \in [Threads -> BOOLEAN] /\ window \in [Threads -> BOOLEAN]
    /\ pc \in [Threads -> Locations]
    /\ call \in [Threads -> [via : {"none", "inband", "oob"}, group : Groups]]
    /\ stage \in [Threads -> {"inband", "oob"}] /\ weak \in [Threads -> BOOLEAN]
    /\ woss \in [Threads -> BOOLEAN] /\ bound \in [Threads -> BOOLEAN]
    /\ misreported \in [Threads -> BOOLEAN] /\ forks \in 0..MaxForks

(* Once evl_init() returns 0, the shared memory, the control device and    *)
(* the clocks are there, in the process which calls it: a child of fork    *)
(* never takes over the result of its parent.  A failed initialization     *)
(* gives back the control device and the shared memory, and no process has *)
(* them twice, unless it was forked while another thread was in do_init(). *)
ReadyWhenDone ==
    /\ once = "done" /\ status = "ok" => ctl /\ shm /\ clocks = [mono |-> "open", real |-> "open"]
    /\ once # "done" => \A t \in Threads : ~ cur[t]

NothingHeldTwice ==
    forks = 0 =>
        /\ opened.ctl = IF ctl \/ \E t \in Threads : pc[t] \in {"mono", "real", "mmap", "register", "publish"}
                        THEN 1 ELSE 0
        /\ once = "done" /\ status = "failed" => opened.map = 0

InitializedIsReady == ReadyWhenDone /\ NothingHeldTwice

(* A thread which believes to be attached is attached in the core, and its *)
(* window is in the memory shared by this process, whatever the process    *)
(* forked in the meantime.                                                 *)
TlsMatchesCore ==
    \A t \in Threads : cur[t] => shm /\ window[t] /\ (bound[t] \/ pc[t] = "forget")

(* No call disturbs its caller: the detaching request never demotes a      *)
(* thread which wants SIGDEBUG for being demoted, and the services which   *)
(* have an in-band way never make a thread which is not attached issue an  *)
(* out-of-band call.                                                       *)
QuietDetach == \A t \in Threads : pc[t] = "detach" => ~ woss[t]

ForeignersStayInband ==
    \A t \in Threads : pc[t] = "call" /\ call[t].group \in {"conforming", "woss", "policy", "proxy"}
                        /\ call[t].via = "oob" => cur[t]

CallsFitTheirCaller == QuietDetach /\ ForeignersStayInband

(* The services which conform to the stage of their caller, and those      *)
(* which are meant for the out-of-band stage, never send an attached thread *)
(* in-band.                                                                *)
NeverDemoted ==
    [][\A t \in Threads :
          pc[t] = "call" /\ pc'[t] = "idle" /\ forks' = forks
          /\ call[t].group \in {"conforming", "woss", "proxy", "oob"}
          /\ cur[t] /\ stage[t] = "oob" => stage'[t] = "oob"]_vars

(* Every call returns: in particular the threads which wait for another    *)
(* one to run do_init() are released, whether it succeeds or not.          *)
CallsReturn == \A t \in Threads : pc[t] # "idle" ~> pc[t] = "idle"

(* A successful write to a proxy returns the number of bytes written, as   *)
(* the return expression of evl_write_proxy() and the write(2) of the      *)
(* fallback say.                                                           *)
WriteReportsCount == \A t \in Threads : ~ misreported[t]
=============================================================================
