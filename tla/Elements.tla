------------------------------ MODULE Elements ------------------------------
(***************************************************************************)
(* How libevl creates, opens, uses and closes the elements of the EVL core *)
(* on behalf of the threads of one process (lib/sys.c, and the creation,   *)
(* binding and closing code of the mutexes, events, semaphores and flags). *)
(*                                                                         *)
(* An element lives in the core and is reached through a file descriptor,  *)
(* a number which the system gives again once it is closed.  The user's    *)
(* object is plain shared memory: a magic word, a pointer to the state the *)
(* core shares and the descriptor, in a union with the declared attributes *)
(* of a static object, which its first user creates.  The threads access   *)
(* the object without any lock; each memory access and each system call is *)
(* one step, in program order.                                             *)
(***************************************************************************)
EXTENDS Naturals, FiniteSets, FiniteSetsExt

CONSTANTS
    Users,         \* threads which use the shared object
    Owner,         \* the thread which closes it, opens or creates it anew
    ObjectKinds,   \* the kinds the shared object may be of
    OtherProtocols,\* the protocols of the other monitors of the process
    FdCount,       \* bound: how many descriptors the process may have
    MaxElements,   \* bound: how many elements are ever created
    NoFile, Factory, Lost  \* a free descriptor, a clone device, an open descriptor
                   \* whose number nobody knows

ElementsConstants ==
    /\ Owner \notin Users
    /\ ObjectKinds \subseteq {"mutex", "event", "sem", "flags"}
    /\ OtherProtocols # {} /\ OtherProtocols \subseteq {"pi", "pp", "gated", "count", "mask"}
    /\ FdCount \in Nat \ {0} /\ MaxElements \in Nat \ {0}
    /\ \A f \in {NoFile, Factory, Lost} : f \notin Nat
    /\ NoFile # Factory /\ NoFile # Lost /\ Factory # Lost

Callers == Users \cup {Owner}
Ids == 1..MaxElements
Fds == 1..FdCount
None == 0          \* NULL for a state pointer, -1 for a descriptor

(* What tells the kinds of objects apart: the protocols of the elements    *)
(* they may be bound to, the descriptor being cleared before it is closed  *)
(* or not at all, the shared state being used besides the descriptor, and  *)
(* the shared memory being checked for before an element is opened.        *)
MutexTraits == [accepts |-> {"pi", "pp"}, clearsFirst |-> TRUE,
                readsState |-> TRUE, checksMemory |-> FALSE]
EventTraits == [accepts |-> {"gated"}, clearsFirst |-> TRUE,
                readsState |-> TRUE, checksMemory |-> FALSE]
SemTraits == [accepts |-> {"count"}, clearsFirst |-> FALSE,
              readsState |-> TRUE, checksMemory |-> TRUE]
FlagsTraits == [accepts |-> {"mask"}, clearsFirst |-> FALSE,
                readsState |-> FALSE, checksMemory |-> FALSE]
TraitsOf(k) == CASE k = "mutex" -> MutexTraits [] k = "event" -> EventTraits
                 [] k = "sem" -> SemTraits [] k = "flags" -> FlagsTraits
Protocols == UNION {TraitsOf(k).accepts : k \in {"mutex", "event", "sem", "flags"}}

VARIABLES
    kind,      \* the kind of the shared object
    mapped,    \* whether evl_init() has mapped the shared memory
    fd,        \* the descriptor table of the process
    made,      \* the number of elements created so far
    kept,      \* elements kept by something else than a known descriptor
    public,    \* elements which have a device in the /dev hierarchy
    magic,     \* "uninit", "active" or "dead"
    state,     \* the element whose state the object points to
    efd,       \* the descriptor in the object
    pc,        \* what each thread does next
    lv,        \* the local variables of each thread
    protocol,  \* the protocol of each element
    garbled,   \* elements created with attributes read too late
    raced,     \* whether two threads created the object at once, in its
               \* present life
    torn,      \* whether a close cut in on one of them
    overlapped,\* threads whose call overlapped with a close, or with a
               \* creation by another thread
    faulted    \* threads which have dereferenced a bad pointer

traits == TraitsOf(kind)
object == <<magic, state, efd>>
core == <<made, kept, public, protocol, garbled>>
ghosts == <<raced, torn, overlapped, faulted>>
vars == <<kind, mapped, fd, core, object, pc, lv, ghosts>>

(* A call is made for the shared object, or for another element such as a  *)
(* cross-buffer, whose creation returns the descriptor to its caller.      *)
NoCall == [other |-> FALSE, pub |-> FALSE, late |-> FALSE,
           ffd |-> None, efd |-> None, elt |-> None]

FreeFds(table) == {n \in Fds : table[n] = NoFile}
NewFd(table) == Min(FreeFds(table))

(* The elements which exist: the last close of a descriptor deletes one.   *)
Live == kept \cup {e \in Ids : \E n \in Fds : fd[n] = e}

Creating(t) == pc[t] \in {"factory", "clone", "device", "flip", "unwind",
                          "state", "efd", "magic"}
               /\ ~ lv[t].other

Closing == pc[Owner] \in {"close", "clear", "bury"}

(* What a running call has opened, or is about to close.                   *)
Holds(t, n) == n \in {lv[t].ffd, lv[t].efd} /\ pc[t] \notin {"clear", "bury"}

Goto(t, l) == pc' = [pc EXCEPT ![t] = l]
Set(t, f, v) == lv' = [lv EXCEPT ![t][f] = v]
Return(t) == Goto(t, "idle") /\ lv' = [lv EXCEPT ![t] = NoCall]
Fault(t) == Goto(t, "faulted") /\ faulted' = faulted \cup {t}

-----------------------------------------------------------------------------
(* A static object in a process which has called evl_init(), or a blank    *)
(* one in a process which has not, next to a public element of another     *)
(* process.                                                                *)
Init ==
    /\ kind \in ObjectKinds /\ mapped \in BOOLEAN
    /\ fd = [n \in Fds |-> NoFile]
    /\ \/ mapped /\ magic = "uninit" /\ made = 0
       \/ ~ mapped /\ magic = "dead" /\ made = 1
    /\ kept = 1..made /\ public = 1..made
    /\ \E p \in TraitsOf(kind).accepts : protocol = [e \in Ids |-> p]
    /\ state = None /\ efd = None
    /\ pc = [t \in Callers |-> "idle"] /\ lv = [t \in Callers |-> NoCall]
    /\ garbled = {} /\ raced = FALSE /\ torn = FALSE
    /\ overlapped = {} /\ faulted = {}

(* Where a thread goes on once the object has passed the check.            *)
Checked == IF traits.readsState THEN "deref" ELSE "request"

(* A thread calls a service which uses the object: its magic is checked,   *)
(* and a static object is created by whoever finds it uninitialized.       *)
CheckSanity(t) ==
    /\ pc[t] = "idle" /\ t \in Users
    /\ \/ /\ magic = "uninit" /\ mapped
          /\ Goto(t, "factory")
          /\ LET others == {u \in Users \ {t} : Creating(u)} IN
             /\ raced' = (raced \/ others # {})
             /\ overlapped' = IF others = {} THEN overlapped \ {t}
                              ELSE overlapped \cup others \cup {t}
       \/ /\ magic = "active"
          /\ Goto(t, Checked)
          /\ overlapped' = IF Closing \/ torn THEN overlapped \cup {t} ELSE overlapped \ {t}
          /\ UNCHANGED raced
    /\ UNCHANGED <<kind, mapped, fd, core, object, lv, torn, faulted>>

(* The owner begins the next life of the object.  A creator of its first   *)
(* life which is still at work will meddle with it.                        *)
NewLife ==
    LET late == {u \in Users : Creating(u)}
    IN raced' = (late # {}) /\ torn' = (late # {})

(* evl_create_*() on an object which was closed, by its owner.             *)
CreateAgain(t) ==
    /\ pc[t] = "idle" /\ t = Owner /\ magic = "dead" /\ mapped
    /\ Goto(t, "factory")
    /\ \E p \in BOOLEAN : Set(t, "pub", p)
    /\ NewLife
    /\ UNCHANGED <<kind, mapped, fd, core, object, overlapped, faulted>>

(* The creation of another element: evl_create_xbuf(), evl_create_proxy(), *)
(* evl_create_observable(), or that of an object of another kind.          *)
CreateOther(t) ==
    /\ pc[t] = "idle" /\ t = Owner
    /\ \E p \in BOOLEAN : lv' = [lv EXCEPT ![t] = [NoCall EXCEPT !.other = TRUE, !.pub = p]]
    /\ Goto(t, "factory")
    /\ UNCHANGED <<kind, mapped, fd, core, object, ghosts>>

(* The declared attributes are read, which share a union with the fields   *)
(* of the active object: once another thread has stored these they are     *)
(* garbage, a wild name pointer among them.  The clone device is opened.   *)
OpenFactory(t) ==
    /\ pc[t] = "factory"
    /\ LET late == ~ lv[t].other /\ t \in Users /\ state # None
       IN \/ Return(t) /\ UNCHANGED <<fd, faulted>>     \* ENOMEM, or no such device
          \/ late /\ Fault(t) /\ UNCHANGED <<fd, lv>>
          \/ /\ FreeFds(fd) # {}
             /\ fd' = [fd EXCEPT ![NewFd(fd)] = Factory]
             /\ lv' = [lv EXCEPT ![t].ffd = NewFd(fd), ![t].late = late]
             /\ Goto(t, "clone") /\ UNCHANGED faulted
    /\ UNCHANGED <<kind, mapped, core, object, raced, torn, overlapped>>

(* An anonymous element cannot be public: the error returns at once, and   *)
(* leaves the clone device open.                                           *)
AnonymousPublic(t) ==
    /\ pc[t] = "clone" /\ lv[t].other /\ lv[t].pub
    /\ fd' = [fd EXCEPT ![lv[t].ffd] = Lost]
    /\ Return(t)
    /\ UNCHANGED <<kind, mapped, core, object, ghosts>>

(* ioctl(EVL_IOC_CLONE) makes the element, and a descriptor on it unless   *)
(* it is public.                                                           *)
Clone(t) ==
    /\ pc[t] = "clone"
    /\ \/ Goto(t, "unwind") /\ UNCHANGED <<fd, core, lv>>     \* ENXIO, EEXIST, EINVAL
       \/ LET e == made + 1 IN
          /\ e \in Ids /\ made' = e
          /\ garbled' = IF lv[t].late THEN garbled \cup {e} ELSE garbled
          /\ \E p \in IF lv[t].other THEN OtherProtocols ELSE traits.accepts :
                 protocol' = [protocol EXCEPT ![e] = p]
          /\ IF lv[t].pub
             THEN /\ kept' = kept \cup {e} /\ public' = public \cup {e}
                  /\ Goto(t, "device") /\ Set(t, "elt", e) /\ UNCHANGED fd
             ELSE /\ FreeFds(fd) # {}
                  /\ fd' = [fd EXCEPT ![NewFd(fd)] = e]
                  /\ lv' = [lv EXCEPT ![t].elt = e, ![t].efd = NewFd(fd)]
                  /\ Goto(t, "flip") /\ UNCHANGED <<kept, public>>
    /\ UNCHANGED <<kind, mapped, object, ghosts>>

(* The device of a public element is opened; when this fails the element   *)
(* stays, with no descriptor on it.                                        *)
OpenDevice(t) ==
    /\ pc[t] = "device"
    /\ \/ Goto(t, "unwind") /\ UNCHANGED <<fd, kept, lv>>
       \/ /\ FreeFds(fd) # {}
          /\ fd' = [fd EXCEPT ![NewFd(fd)] = lv[t].elt]
          /\ kept' = kept \ {lv[t].elt}
          /\ Set(t, "efd", NewFd(fd)) /\ Goto(t, "flip")
    /\ UNCHANGED <<kind, mapped, made, public, protocol, garbled, object, ghosts>>

(* flip_fd_flags(), for O_CLOEXEC and for O_NONBLOCK if asked for: on      *)
(* failure the call returns the error and forgets the descriptor.          *)
FlipFlags(t) ==
    /\ pc[t] = "flip"
    /\ Goto(t, "unwind")
    /\ \/ UNCHANGED <<fd, kept, lv>>
       \/ /\ fd' = [fd EXCEPT ![lv[t].efd] = Lost] /\ kept' = kept \cup {lv[t].elt}
          /\ Set(t, "efd", None)
    /\ UNCHANGED <<kind, mapped, made, public, protocol, garbled, object, ghosts>>

(* The clone device is closed whatever happened.                           *)
CloseFactory(t) ==
    /\ pc[t] = "unwind"
    /\ fd' = [fd EXCEPT ![lv[t].ffd] = NoFile]
    /\ IF lv[t].efd = None THEN Return(t)
       ELSE Goto(t, IF lv[t].other THEN "held" ELSE "state") /\ Set(t, "ffd", None)
    /\ UNCHANGED <<kind, mapped, core, object, ghosts>>

-----------------------------------------------------------------------------
(* evl_open_*(): the device of a public element is opened, flagged and     *)
(* bound; an element of another type or protocol is refused.               *)
OpenByName(t) ==
    /\ pc[t] = "idle" /\ t = Owner /\ magic = "dead"
    /\ mapped \/ ~ traits.checksMemory
    /\ FreeFds(fd) # {}
    /\ \E e \in public \cap Live :
           /\ fd' = [fd EXCEPT ![NewFd(fd)] = e]
           /\ lv' = [lv EXCEPT ![t] = [NoCall EXCEPT !.elt = e, !.efd = NewFd(fd)]]
    /\ Goto(t, "bind") /\ NewLife
    /\ UNCHANGED <<kind, mapped, core, object, overlapped, faulted>>

(* Mutant: the descriptor of a refused element is not closed. *)
BindForgets(t) ==
    /\ pc[t] = "bind"
    /\ \/ protocol[lv[t].elt] \in traits.accepts /\ Goto(t, "state") /\ UNCHANGED lv
       \/ Return(t)
    /\ UNCHANGED <<kind, mapped, fd, core, object, ghosts>>

Bind(t) ==
    /\ pc[t] = "bind"
    /\ \/ protocol[lv[t].elt] \in traits.accepts /\ Goto(t, "state") /\ UNCHANGED <<fd, lv>>
       \/ fd' = [fd EXCEPT ![lv[t].efd] = NoFile] /\ Return(t)
    /\ UNCHANGED <<kind, mapped, core, object, ghosts>>

(* Mutant: the magic word is stored with the first field. *)
StoreStateActive(t) ==
    /\ pc[t] = "state"
    /\ state' = lv[t].elt /\ magic' = "active"
    /\ IF mapped THEN Goto(t, "efd") /\ UNCHANGED faulted ELSE Fault(t)
    /\ UNCHANGED <<kind, mapped, fd, core, efd, lv, raced, torn, overlapped>>

(* Mutant: the magic word is stored before the state. *)
StoreStateLate(t) ==
    /\ pc[t] = "state"
    /\ magic' = "active" /\ Goto(t, "efd")
    /\ UNCHANGED <<kind, mapped, fd, core, state, efd, lv, ghosts>>

(* The fields of the object, the magic word last.  The state is touched at *)
(* once, so that its page is mapped.                                       *)
StoreState(t) ==
    /\ pc[t] = "state"
    /\ state' = lv[t].elt
    /\ IF mapped THEN Goto(t, "efd") /\ UNCHANGED faulted ELSE Fault(t)
    /\ UNCHANGED <<kind, mapped, fd, core, magic, efd, lv, raced, torn, overlapped>>

(* Two creators of a static object overwrite each other's descriptor, or   *)
(* one leaves its own in an object which is being closed: a descriptor     *)
(* which is in nobody's hands any more is lost.                            *)
Orphan(n) == n # None /\ fd[n] \in Ids /\ \A u \in Callers : ~ Holds(u, n)
Drop(n) ==
    /\ fd' = [fd EXCEPT ![n] = Lost] /\ kept' = kept \cup {fd[n]}
    /\ UNCHANGED <<made, public, protocol, garbled>>

StoreEfd(t) ==
    /\ pc[t] = "efd"
    /\ efd' = lv[t].efd /\ Goto(t, "magic")
    /\ IF raced /\ Orphan(efd)
       THEN Drop(efd) ELSE UNCHANGED <<fd, core>>
    /\ UNCHANGED <<kind, mapped, magic, state, lv, ghosts>>

(* The creator of a static object goes on to use it.                       *)
StoreMagic(t) ==
    /\ pc[t] = "magic"
    /\ magic' = "active"
    /\ lv' = [lv EXCEPT ![t] = NoCall]
    /\ Goto(t, IF t = Owner THEN "idle" ELSE Checked)
    /\ IF raced /\ efd # lv[t].efd /\ fd[lv[t].efd] \in Ids
             /\ \A u \in Callers \ {t} : ~ Holds(u, lv[t].efd)
       THEN Drop(lv[t].efd) ELSE UNCHANGED <<fd, core>>
    /\ UNCHANGED <<kind, mapped, state, efd, ghosts>>

-----------------------------------------------------------------------------
(* The use of an object which passed the check: the shared state is read,  *)
(* which may be enough, then the descriptor is passed to a system call.    *)
ReadState(t) ==
    /\ pc[t] = "deref"
    /\ IF state = None THEN Fault(t)
       ELSE pc' \in {[pc EXCEPT ![t] = l] : l \in {"idle", "request"}} /\ UNCHANGED faulted
    /\ UNCHANGED <<kind, mapped, fd, core, object, lv, raced, torn, overlapped>>

Request(t) ==
    /\ pc[t] = "request"
    /\ Goto(t, "idle")
    /\ UNCHANGED <<kind, mapped, fd, core, object, lv, ghosts>>

(* Every call which is running overlaps with the close which begins.       *)
CutIn ==
    /\ torn' = (torn \/ \E u \in Users : Creating(u))
    /\ overlapped' = overlapped \cup {u \in Users : pc[u] # "idle"}

(* Mutant: the descriptor is closed before it is cleared, everywhere. *)
BeginCloseUncleared(t) ==
    /\ pc[t] = "idle" /\ t = Owner /\ magic = "active"
    /\ lv' = [lv EXCEPT ![t] = [NoCall EXCEPT !.efd = efd]]
    /\ Goto(t, "close") /\ CutIn
    /\ UNCHANGED <<kind, mapped, fd, core, object, raced, faulted>>

(* evl_close_*().  The core deletes the element at the last close.         *)
BeginClose(t) ==
    /\ pc[t] = "idle" /\ t = Owner /\ magic = "active"
    /\ lv' = [lv EXCEPT ![t] = [NoCall EXCEPT !.efd = efd]]
    /\ efd' = IF traits.clearsFirst THEN None ELSE efd
    /\ Goto(t, "close") /\ CutIn
    /\ UNCHANGED <<kind, mapped, fd, core, magic, state, raced, faulted>>

CloseEfd(t) ==
    /\ pc[t] = "close"
    /\ IF lv[t].efd # None /\ fd[lv[t].efd] # NoFile
       THEN fd' = [fd EXCEPT ![lv[t].efd] = NoFile] /\ Goto(t, "clear") /\ UNCHANGED lv
       ELSE /\ UNCHANGED fd                                           \* EBADF
            /\ IF traits.clearsFirst THEN Goto(t, "clear") /\ UNCHANGED lv ELSE Return(t)
    /\ UNCHANGED <<kind, mapped, core, object, ghosts>>

ClearState(t) ==
    /\ pc[t] = "clear"
    /\ state' = None /\ Goto(t, "bury")
    /\ UNCHANGED <<kind, mapped, fd, core, magic, efd, lv, ghosts>>

Bury(t) ==
    /\ pc[t] = "bury"
    /\ magic' = "dead" /\ Return(t)
    /\ IF torn /\ Orphan(efd) THEN Drop(efd) ELSE UNCHANGED <<fd, core>>
    /\ UNCHANGED <<kind, mapped, state, efd, ghosts>>

-----------------------------------------------------------------------------
(* The owner of another element closes its descriptor.                     *)
CloseOther(t) ==
    /\ pc[t] = "held"
    /\ fd' = [fd EXCEPT ![lv[t].efd] = NoFile] /\ Return(t)
    /\ UNCHANGED <<kind, mapped, core, object, ghosts>>

Create(t) == OpenFactory(t) \/ AnonymousPublic(t) \/ Clone(t) \/ OpenDevice(t)
             \/ FlipFlags(t) \/ CloseFactory(t)
Store(t) == StoreState(t) \/ StoreEfd(t) \/ StoreMagic(t)
Use(t) == CheckSanity(t) \/ ReadState(t) \/ Request(t)
Open(t) == OpenByName(t) \/ Bind(t)
Close(t) == BeginClose(t) \/ CloseEfd(t) \/ ClearState(t) \/ Bury(t)

Next ==
    \E t \in Callers : Create(t) \/ Store(t) \/ Use(t) \/ Open(t) \/ Close(t)
                      \/ CreateAgain(t) \/ CreateOther(t) \/ CloseOther(t)

Spec == Init /\ [][Next]_vars

-----------------------------------------------------------------------------
Locations == {"idle", "factory", "clone", "device", "flip", "unwind", "bind", "state", "efd", "magic", "deref", "request", "close",
              "clear", "bury", "held", "faulted"}

(* The types of the variables; an object which is not static any more is   *)
(* never static again.                                                     *)
TypeOK ==
    /\ kind \in ObjectKinds /\ mapped \in BOOLEAN
    /\ fd \in [Fds -> Ids \cup {NoFile, Factory, Lost}]
    /\ made \in 0..MaxElements
    /\ kept \subseteq 1..made /\ public \subseteq 1..made
    /\ protocol \in [Ids -> Protocols] /\ garbled \subseteq 1..made
    /\ magic \in {"uninit", "active", "dead"}
    /\ state \in 0..made /\ efd \in Fds \cup {None}
    /\ pc \in [Callers -> Locations]
    /\ lv \in [Callers -> [other : BOOLEAN, pub : BOOLEAN, late : BOOLEAN,
                           ffd : Fds \cup {None}, efd : Fds \cup {None}, elt : 0..made]]
    /\ raced \in BOOLEAN /\ torn \in BOOLEAN /\ overlapped \subseteq Users
    /\ faulted = {t \in Callers : pc[t] = "faulted"}

(* Whatever step of a creation, an opening or a closing fails, every       *)
(* descriptor which libevl opened is in an object which can be closed or   *)
(* in the hands of a running call, except those which the error returns of *)
(* evl_create_element() and racing creators lose.                          *)
DescriptorsAccounted ==
    \A n \in Fds : fd[n] \in Ids \cup {Factory} =>
        \/ n = efd /\ magic # "dead"
        \/ \E t \in Callers : Holds(t, n)

(* An object which looks active is bound to an element of its own type and *)
(* protocol; unless it is being closed, or a close cut in on its creation, *)
(* it has a state and a descriptor, even when two threads raced to create  *)
(* it; without a race they are those of one element, made as declared.     *)
(* What happened in an earlier life of the object makes no difference.     *)
ActiveIsWhole ==
    magic = "active" =>
        /\ state # None => protocol[state] \in traits.accepts
        /\ ~ torn /\ ~ Closing =>
              /\ state # None /\ efd # None
              /\ fd[efd] \in {e \in Ids : protocol[e] \in traits.accepts}
        /\ ~ raced /\ ~ Closing => fd[efd] = state /\ state \notin garbled

(* A bad pointer is only ever followed by a thread whose present call      *)
(* overlapped with a close or with another creation of the object, or      *)
(* which uses an object such an overlap left torn, and by the owner in a   *)
(* process which opens an element without having called evl_init().        *)
FaultsExplained == \A t \in faulted : t \in overlapped \/ (t = Owner /\ ~ mapped)

(* Once evl_close_mutex() or evl_close_event() has run close(), the object *)
(* holds no descriptor: a thread which still is in a call cannot fetch one *)
(* which the system may have given to another file, even though threads    *)
(* raced (a lost descriptor stays open, and its number is not given).      *)
ClosedBeforeReuse ==
    traits.clearsFirst /\ efd # None =>
        fd[efd] \in {Lost} \cup {e \in Ids : protocol[e] \in traits.accepts}
=============================================================================
