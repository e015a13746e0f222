# libevl: models and proofs

libevl is the user-space side of the EVL real-time core. An application thread calls the
library; the library works on words which it shares with other threads, often with the
core too, and issues a request (`ioctl`, `oob_ioctl`) when these words do not suffice.
This directory holds TLA+ models of the parts of `src/lib`, `src/include/evl`,
`src/latmus` and `src/utils` which keep state or run an algorithm of their own, the TLC
configurations that check them on small instances, and proofs of the main properties of
the concurrent parts and of the heap for every instance.

## The system

| component (source) | state | operations | what is hard | what makes it correct |
|---|---|---|---|---|
| read-write lock (`lib/rwlock.c`) | one atomic word: signed count and reader-pending bit; two bits of an event flag group | lock, trylock and unlock, for reading and writing | ownership is handed over in the word before the wake-up; readers compete again after one; interrupted waits | writers are alone; one hand-over at a time; the word keeps its meaning; a registered writer is served |
| semaphore (`lib/sem.c`) | a value and a poller count shared with the core | get, timed get, tryget, put, flush, poll, close | a fast path by compare-and-swap and a slow path in the core which meet on the same word | no token is lost or made up; nobody sleeps on a token; pollers are told |
| mutex (`lib/mutex.c`) | lock word, nesting count, flags of the gate | lock, timed lock, trylock, unlock | same two paths; recursion; the flag by which signals divert an unlock to the core | exclusion; nobody waits for a free gate |
| event (`lib/event.c`) | flags and gate offset, shared with the core | wait, timed wait, signal, broadcast, signal to a thread | a signal is a note that whoever releases the mutex must have delivered; timeouts, interruptions | each notification is delivered when the mutex is released; a notified sleeper returns with the mutex |
| event flags (`lib/flags.c`) | a value shared with the core | wait, trywait, post, broadcast | as the semaphore | a posted bit is consumed once |
| heap (`lib/heap.c`) | page map, bucket lists, used size, free page ranges in two AVL trees | init, extend, allocate, free | long sequences of splits and merges, hand-linked lists, node memory which is reused | blocks are disjoint, free memory is merged back, the indexes agree |
| pointer ring (`include/evl/ring_ptr.h`) | head, tail, threshold, cells | enqueue, dequeue | lock-free: a caller may be delayed between any two accesses | values come out once, in order; "empty" means it; "full" only after as many values as entries |
| objects and descriptors (mutex, event, sem and flags; `lib/sys.c`) | magic number, descriptor, pointer to the shared state, in a union with static attributes; the open files | create, create on first use, open by name, use, close | two first users at once; closing while in use; every system call of a creation may fail | one whole element behind an active object; nothing is left open |
| threads, initialization (`lib/thread.c`, `lib/init.c`) | once control and status, control device, clocks, shared memory mapping; the thread's own descriptor and window | init, attach, detach, set modes and scheduling, switch stage, fork handlers | threads which wait for another one's initialization; failure of each step; fork at any time | a success of `evl_init()` is never stale; library and core agree on who is attached |
| services (`lib/internal.h`, `proxy.c`, `observable.c`, `poll.c`, `clock.c`, `timer.c`, `sched.c`, `flags.c`) | none beyond descriptors | one request each, on the stage of the caller | which system call is legal where | nobody is demoted by a service that conforms to the caller's stage |
| network ports (`lib/net.c`) | open files | enable, open, disable, query a port, set its filter, solicit | failure of each step | files are closed |
| vDSO parser (`lib/parse_vdso.c`) | what was found of the image | parse, look up a function | missing tables, two hash tables, versions | the function asked for, or none |
| latmus (`latmus/*.c`) | the statistics of a test, the plan of the command line | timer tests, network test, tuning, options | threads which sum up the same figures, signals, packets which are lost, late, repeated or from a peer which was restarted | a latency is counted once, a lost packet too; the tests which are named run |
| `evl ps`, `evl check`, `evl net` (`utils/*.c`) | the report | list the threads, check a kernel configuration, drive the network | threads which terminate meanwhile, the grammar of check lists, refusals of the core | what is reported is there; success means done |

Interactions. The read-write lock sleeps on event flags, whose waiting and posting are
part of its model. An event is gated by a mutex: signals write to both, and a mutex
release may go through the core because of an event; one module holds both. The heap
serializes its calls with a mutex, so one call is one step there; its free pages are
kept by the page pool, a component of its own with an abstract specification which the
heap works on. Every object of the library is created, opened and closed by the same
protocol, and reaches the core through the descriptors of `lib/sys.c`: `Elements` holds
both. Every service reads the window which `evl_attach_thread()` maps in order to choose
its system call, and a fork invalidates it: `Process` holds initialization, attachment,
services and fork. The two tests of latmus share its statistics. The core is external to
all of them: a request is one atomic step which does what the library relies on.

## Modules

* `RwLock` models the read-write lock, `AbsRwLock` what it promises, `RwLockProofs`
  proves its invariants and that it implements `AbsRwLock`.
* `Sem`, `AbsSem`, `SemProofs`: the same for the semaphore.
* `Monitor`, `MonitorProofs`: the mutex and the event it gates.
* `Elements`: creation, opening, use and closing of mutexes, events, semaphores and
  flags, with the descriptors of the process. `SemProofs` proves its invariants too, as
  part of `MCSem`.
* `Process`, `ProcessProofs`: initialization, threads, stages, services and fork.
* `Heap`: the heap. Its free pages are a set of ranges; `Ranges` holds the operators on
  such sets. `HeapProofs` proves its invariants, and that it uses the page pool as
  `AbsRanges` promises it.
* `Avl`: the AVL trees, node by node, as operators from trees to trees. `RangeTrees`: the
  page pool made of two such trees; `AbsRanges`: the pool as a set of ranges. The steps
  of `AbsRanges` are the operators of `Ranges`, those which `Heap` uses. `PoolProofs`
  proves that the trees stay sound and that the page pool implements `AbsRanges`.
* `RingPtr`, `RingPtrProofs`: the pointer ring.
* `VdsoParser`: the vDSO parser.
* `TimerTest`, `NetTest`, on top of `Statistics`, and `LatmusOptions`: latmus.
  `MCToolsProofs` proves the invariants of both tests and of the command lines, as parts
  of `MCTools`.
* `EvlPs`, `EvlCheck`, `EvlNet`: the commands, the last one with `lib/net.c`.

Modules whose name starts with `MC` give constants their values. Where one of them runs
several modules, or a module with several sets of parameters, the initial state picks one
(`part`, `instance`) which the others do not disturb: `MCRwLock` (any call by anyone, or
one writer), `MCMonitor` (three threads, or a pair), `MCSem` (`Sem`, `Elements`),
`MCHeap` (`Heap`, `RangeTrees`), `MCTools` (the programs and the parser). Where a comment
says "Mutant", the definition below it is a wrong version of the next one, which a
property of the module tells from the right one.

### RwLock

`count` and `rdpend` are the fields of the lock word, `bits` the flag group of the core,
`pc` the place where each thread is, `prev` the word which a trylock call loaded. A loop
which loads the word, computes and exchanges is one step (`LockRead`, `LockWrite`,
`UnlockRead`, `UnlockWrite`), because the exchange succeeds only on the word that was
loaded; the trylock calls, which give up when the exchange fails, are two steps
(`TryLockReadCas`, `TryLockWriteCas`). The posts which follow a release are steps of
their own (`Post`, `Broadcast`), as is the wait which follows a registration (`WaitRead`,
`WaitWrite`). `Interrupt` is `-EINTR`, which both calls retry; `WaitRefused` the error
which a thread unknown to the core gets. A failed `assert` is the location `"assert"`,
where the program stops. What a broadcast does when nobody waits belongs to the core:
`BroadcastLatches` has both answers.

### Sem

`value` is the word shared with the core, negative when threads sleep. `Get`, `TryGet`,
`WaitRequest` are `evl_timedget_sem()`, `PutLoad`, `PutTest`, `PutCas`, `PutPolled`,
`SignalRequest` are `evl_put_sem()`, where each access to the shared words is a step;
`StopWaiting` is a timeout or a signal. `life` follows `evl_close_sem()`, which clears
the descriptor field by field under threads which may be using it; the model stops when
one of them would dereference the cleared pointer (`"crash"`).

### Monitor

`owner` and `contended` are the lock word, `nesting` the nesting count, `gflags` and
`eflags` the flags of the gate and of the event, `tracked` says whether the event has a
gate. `depth` counts what the program did, one up for a lock and one down for an unlock.
`Fast(t)` is whether a thread may use the fast path, which threads in `SlowThreads` may
or may not do each time. `Release` is the core's side of `EVL_MONIOC_EXIT` and
`EVL_MONIOC_WAIT`: deliver the notifications, pass the gate to one of those who wait for
it. `due` and `dueOne` remember which sleepers were notified.

### Elements

`magic`, `state` and `efd` are the shared object, `fd` the table of descriptors, where a
number which is closed is given again; `protocol`, `kept` and `public` are what the core
knows of the elements, `garbled` those whose attributes were overwritten while they were
read. `TraitsOf` lists in what the four kinds of objects differ: the protocols they
accept, and whether closing clears the descriptor first. `CheckSanity` looks at the magic
number and starts a creation on first use; `OpenFactory`, `AnonymousPublic`, `Clone`,
`OpenDevice`, `FlipFlags` and `CloseFactory` are the system calls of
`evl_create_element()`, each of which may fail; `OpenByName` and `Bind` are those of
`evl_open_*()`. `StoreState`, `StoreEfd` and `StoreMagic` fill the object one store at a
time, and `BeginClose`, `CloseEfd`, `ClearState`, `Bury` take it down. `ReadState` and
`Request` are a user which passed the check and goes on with what is there by then:
`"faulted"` is a thread which followed a pointer that is not there. `CreateOther`,
`CloseOther` are the other monitors of the process and its other files, `Drop` marks a
descriptor which nobody has any more. Three history variables record overlaps, each no
longer than it matters. `raced`: two threads created the object at once, in its present
life; the owner's next creation or opening starts a new life (`NewLife`), which is clean
unless a creator of the old one is still at work. `torn`: a close cut in on such a
creation. `overlapped`: the threads whose present call a close or another creation
overlapped; a thread leaves it with its next undisturbed call. The properties depend on
them as little as the code allows. Even a race leaves an active object with a state and
an open descriptor of its type (`ActiveIsWhole`); a fault needs an overlap with the very
call which meets it (`FaultsExplained`).

### Process

`once` and `status` are `init_once` and its result, `ctl`, `shm`, `clocks`, `outfd` what
`do_init()` leaves in global variables, `cur` and `window` the thread-local ones,
`opened` the control devices and mappings which the process really holds. `EvlInit`,
`RunOnce`, `LockMemory`, `OpenControl`, `OpenMono`, `OpenReal`, `MapMemory`,
`RegisterUnmap`, `Publish`, `SetupProxies` are the steps of the initialization, with
their error paths; `CreateThread`, `SetTls`, `RegisterTls`, `SetSched` those of
`evl_attach_thread()`; `ClearWoss`, `DetachSelf`, `Forget` those of
`evl_detach_thread()`. A service is two steps: it reads the window to choose a system
call, then issues it (`SystemCall`), and the core may have moved the thread in between
(`Demote`). `stage`, `weak`, `woss` and `bound` are the core's view. `Fork` replaces the
process by its child, in which the handlers registered so far run, and the forking thread
is alone.

### Heap

An extent is a set of pages with an entry each: `pagemap` has the type, map or size and
list links of `struct evl_heap_pgentry`, the union included by clearing the field which
is not in use; `buckets` the heading page of each list. `AllocPages`, `AllocFromHead` and
`AllocFromNewPage` are the three ways through `evl_alloc_block()`, `FreePages` and
`FreeSmall` the two through `evl_free_block()`, `Extend` is `evl_extend_heap()`. The
circular lists are linked as the code links them (`AddFront`, `Remove`, `MoveFront`,
`MoveBack`). Which range of the best size is split is left open, as the shape of the
trees decides. `live` remembers the blocks which the program owns. With `MixedUse` FALSE
the program does not use small blocks in a heap of several extents, see below.

### Avl and RangeTrees

A tree is a record: the links, the side and the balance of each node, both ends, the
count and the height. `Search`, `Inorder`, `Nearest`, `Rotate`, `Rebalance`,
`InsertInner`, `DeleteLeaf`, `DeleteOneChild`, `Delete` and `Replace` follow the C
functions link by link; `Walk` is the loop of the searches, `Climb` that of insertion and
deletion, which climbs until a height is settled. Nodes live in the free pages: one which
leaves the tree has the balance `Junk`, so that a missing `avlh_init()` shows. A
comparison is the function from nodes to the side of them on which the key is.
`RangeTrees` has one action per operation of the pool: `Reserve` (`reserve_page_range()`) and `Release`
(`release_page_range()` with its three searches and its four ways to update the tree of
addresses).

### RingPtr

One step per access to the ring, named after the access which comes next
(`EnqueueClaim`, `EnqueueLoad`, ...); cycles, the busy and unsafe flags, the threshold,
the cursors of the callers, the catch-up of the tail and the clearing of a taken cell are
all there. History variables remember when each value was issued, added and taken, from
which the order of the values and the answers of the calls are judged.

### VdsoParser

`ParseVdso` is `evl_init_vdso()` on an image of the kernel, of which any table may be
missing; `Lookup`, `Probe` follow the chain of a bucket symbol by symbol, in the SysV or
the GNU table, checking kind, binding, name and version (`CheckSym`, `MatchVersion`);
`Request` is `evl_request_vdso()`, which exits without the function. Hash values are
small numbers.

### Latmus

`Statistics` has the sums, extremes and histograms of `stats.c`. In `TimerTest` the
driver (external) measures (`Tick`, `Pulse`) and writes a bulk per second (`EndBulk`),
the logger reads and sums bulks up (`LogRead`, `LogBegin`, `LogEnd`), the main thread
waits for a signal, stops the sitter and the logger (`Stop`), sums up the last bulk
(`LogLast`, `LogLastEnd`) and reports. Summing up is two steps in each thread, as the
logger is detached and nothing keeps it from running along with the main thread;
`overlap` remembers that they did. In `NetTest` the runner sends and receives one packet
per round, fetches the timestamps of sent packets and checks the sequence of received
ones (`Parse`, `LostAfter`). The network is UDP: packets on their way are a set, from
which the host may take any (`Receive`), they may be lost, garbled or delivered twice
(`Repeat`), and the peer may start late, leave, and start again from serial 0
(`PeerExits`); `late` and `back` remember how many packets were overtaken and how far
the serials went back. `LatmusOptions` reads any `MaxOptions` options, remembers the tests
by the names which `usage()` gives them (`asked`), checks them as `main()` does
(`Refuse`), picks the CPU (`ResponderCpu`) and the tests (`Flagged`, `Tests`, `Run`).

### Commands

`EvlPs`: options, then the walk over the directories of sysfs (`Collect`, `EnterDir`,
`ScanThread`), during which threads may `Terminate`: the files which are left then cannot
be read, or `nftw()` hands them over as `FTW_NS`, or not at all. Then `Sort`, with the
comparison as C does it, difference cut down to an int, and `Display` with the layout
tables (`Links`, `Columns`, `StateLetters`). `EvlCheck`: the hash table of the configuration
(`HashConfig`), then each line of the check list, whose words are read by the grammar of
the code (`Negation`, `Valued`, `Conditional`, ...). `EvlNet`: the requests of a command
line in their fixed order, each through the files it opens; the core may refuse any.

## Runs

| run | instance | what it shows |
|---|---|---|
| `RwLock_calls` | four threads, any call; or three readers, one unknown to the core, and one writer | `Exclusion`, `SingleGrant`, `CountMeaning`, refinement of `AbsRwLock`; `LoneWriterIsSafe`; with one writer, under fairness, `OnlyWriterServed` |
| `RwLock_orphaned_writer` | one reader, two writers | violated: both writers sleep on a lock nobody holds |
| `RwLock_forgotten_reader` | two readers, one writer | violated: a reader sleeps for ever on a free lock |
| `Sem_and_objects` | two getters, one in-band, both polling, two posters, one closing; or an event or a semaphore shared by two users and an owner | `Conservation`, `PollNotMissed`, refinement of `AbsSem`; `ObjectsAreWhole`, `DescriptorsAccounted`, `FaultsExplained`, `ClosedBeforeReuse` |
| `Monitor_calls` | three threads on a recursive mutex; or two on a plain one, without interruption | `HeldIsOwned`, `NobodyStranded`, `DeliveredOnRelease`; of the pair, `PairNotifiedReturn` under fairness |
| `Monitor_trylock` | two threads, recursive mutex, slow trylock | violated: one unlock releases a mutex held twice |
| `Heap_blocks` | three pages, two block sizes, two extents; or a pool of eleven pages | `BlocksAreDisjoint`, `NothingLeaks`, `BlocksAreTracked`; `PoolTreesAreSound` (ordered AVL trees on the same ranges), `PoolImplements` (refinement of `AbsRanges`) |
| `Heap_extended` | two extents of two pages, small blocks | violated: a block is handed out inside a busy one |
| `RingPtr_calls` | two threads, two entries, seven calls | `ValuesReachable`, `FifoOrder`, `StatusIsHonest` |
| `Process_lifecycle` | two threads, one fork, a failure of any step | `InitializedIsReady`, `TlsMatchesCore`, `CallsFitTheirCaller`, `NeverDemoted`; `CallsReturn` under fairness |
| `Process_proxy` | one thread | violated: a successful write to a proxy does not return its count |
| `Tools` | the seven programs below, one at a time | `LatenciesCountedOnce`, `LossesAreHonest`, `CommandsDoAsAsked`, `ReportsAreTrue` |

Each passing run checks a type invariant too, except `Tools`, whose modules have none of
their own. The mixed instance of
`RwLock_calls` includes the schedules in which the two defects of the lock strike: its
safety holds in them as well.

Bounds, and why they are enough.

* `WRBIAS` is 7: the count is a 4-bit field of the same shape as the 31-bit one, wider
  than the threads but narrow enough for arithmetic on a wrong value to wrap around.
  With four threads a word can be free, shared, held, and queued behind by two.
* `MaxPuts` 3 with one initial token and two getters: the value goes through negative,
  zero and positive values, and comes back.
* `NestMod` 4 stands for 2^32: the nesting count meets its limit.
* Two users and the owner of an object: two first users race while the third closes or
  creates anew. `FdCount` 3 lets two creations go on at once and leave an element each
  (the clone device of one is closed before the other one needs its last descriptor),
  lets a number be given again, and runs out beyond; `MaxElements` 2 is what a race takes. `ObjectKinds` has an event
  and a semaphore: a mutex differs from the event by its protocols and flags from the
  semaphore by theirs (`TraitsOf`), nothing else.
* Two threads and `MaxForks` 1 in `Process`: one thread waits for, forks from, or shares
  the memory of the other one. The proofs hold for any number of both.
* Three pages of two or three blocks: a bucket list of three pages, a page leaving from
  the front, middle and back of it, and ranges that merge on the left, the right and both
  sides. Requests of 1 to 3 pages.
* Eleven pages make up to six free ranges: the smallest trees on which a double rotation
  has to look at the balance of the inner node, and more than the five which a deletion
  needs for a rotation around a node in balance. `MaxHeight` bounds the loops, and is
  no restriction: the assumption on the constants (`AvlConstants`) is that an AVL tree one
  level higher would need more nodes than there are pages (`Fewest`; 12 for five levels,
  one more than `MaxHeight`), and `WalkStops` and `ClimbSettles` of `PoolProofs` show
  that no loop needs more steps.
* Seven calls on a ring of two entries, four cells: enough to fill the ring, to wrap
  around it and to leave a cell unsafe for a late enqueue. The code requires that no more
  threads use the ring than it has entries (`RingAssumption`).
* Timer test: an early latency, a short one and one beyond the threshold of 2
  (`Threshold`, -A), cells of `Micro` 2 units, four samples (`MaxSamples`): a bulk is in
  the cross-buffer, one in the logger and one with the sitter at the same time. `Far` 10
  is beyond any latency, as 10 million is in the code.
* Network test: a report every second round (`RoundsPerSec`), four rounds (`MaxRounds`),
  as a gap after the first serials takes serial 3; one packet lost, garbled or late to
  leave (`MaxFaults`) beyond those sent to a host which is not there; one repeated, one
  overtaking others or one restart of the peer (`MaxStrays`); one packet with timestamps
  on each way (`MaxTimestamps`). Both branches of `LostAfter` for a packet out of sequence
  are reached: without the term `late` or the term `back` the bound of
  `LossesNotOvercounted` is violated in this run. The proofs hold for any bounds.
* Two CPUs and three options (`MaxOptions`) of latmus: options which contradict or repeat
  each other, with each list of CPUs empty, or holding one or both.
* `evl ps`: two threads of three files, CPU times further apart than `IntLimit` 4
  allows, two option words. `evl check`: three lines of configuration (a symbol set
  twice, a header) and one assertion of any form; assertions are independent of each
  other. The parser: three symbols in one bucket, two of one name.

Deadlock is checked except where the system may stop: `Sem_and_objects` (the semaphore is
closed, or elements are used up), `RingPtr_calls` (calls are used up) and `Tools`
(programs end). `Stop` in `MCRwLock` lets the mixed instance end: after a failed
assertion, or when orphaned writers are the only threads left. The one-writer instance,
the monitor, the heap and the process never stop.

Fairness. A thread which is inside a call goes on: weak fairness of `Proceed`, or
`Running` in `Process`, as the scheduler of the core, or of Linux, runs every ready
thread, by time. A thread in a critical section leaves it: this is part of `Proceed` in
`RwLock`, and strong fairness of `Unlock` in `Monitor`, where the same thread could
instead signal or wait for ever, each time without unlocking. Nothing else is fair: no
thread has to call, no timeout elapses, no signal comes, nobody has to fork. Liveness of
the monitor is asked of two threads, because the core chooses whom to hand the gate to,
by priority, and may keep a third one waiting for ever.

## Proofs

The proof modules hold for any number of threads and every value of the constants
within the named assumptions. Each has an inductive invariant (`IndInv`, unless its name
is given), a lemma per action or kind of step, and theorems drawn from it.

* `RwLockProofs`: `TypeCorrect` needs nothing more. `WordKeepsMeaning` (`CountMeaning`),
  `WriterIsAlone` (`Exclusion`) and `OneGrantAtATime` (`SingleGrant`) assume that threads
  which write-lock are known to the core (`Writers \cap Unattached = {}`). `CountMeaning`
  says that the word is in one of four uses, each of which counts readers, holders,
  queue and grants in flight; it is inductive with `CasReady`, what a trylock call knows
  of the word it loaded. Exclusion is a consequence: it is not inductive itself, as it
  says nothing of the count. Threads are fewer than `WRBIAS` (`BiasAssumption`), as
  otherwise the count wraps around. `LoneWriterIsServed` (`LoneWriterIsSafe`) is about the
  orphans of `RwLock_orphaned_writer`: it takes a second writer in the queue to strand
  one. A count which is queued behind by one writer alone is minus the readers, so the
  last of them posts. `OnlyWriterIsSafe` draws the conclusion for programs which have one
  writer: nobody is orphaned and no assertion fails. `RwLockImplements` maps each step of the lock to one
  of `AbsRwLock`, or to none, under `IndInv`: the word tells the holders from those who
  wait, so the abstract guards hold where the code tests the word.
* `SemProofs`: `TokensAreConserved` (`Conservation`), `PollersAreNotified`
  (`PollNotMissed`), `SemTypeCorrect` (`TypeOK`). The bounds of the value follow from the
  books: posts in flight and done are at most the posts issued, sleepers are getters,
  and nobody sleeps once the semaphore is closed. `SemImplements`: the exchange on the
  fast path and the core's request are the linearization points of `AbsSem`.
  The second half is about `Elements`: `WholeObjects` (`ObjectsAreWhole`),
  `AccountedDescriptors` (`DescriptorsAccounted`), `ExplainedFaults` (`FaultsExplained`),
  `NoDescriptorIsReused` (`ClosedBeforeReuse`) and `ElementsTypes`, for any number of
  users, descriptors and elements (`ElementsConstants`: the owner is none of the users,
  and the marks of the table of descriptors are different). They are stated of a
  specification whose steps are those of `Elements`, or leave the object alone, as those
  of the run do. `ObjectIndInv` says what a call has at each of its steps (`LocalInv`,
  `FactoryHeld`), whom the magic number allows to be at work (`MagicInv`, `AloneInv`),
  whether the descriptor in the object is open (`EfdInv`), which element the object will
  get (`ProtocolInv`) and what its users may find (`StateInv`). That a descriptor is held
  by one call and refers to the element which the call made (`OwnInv`) holds unless a
  close cut in on a creation; what a mutex or an event needs for `ClosedBeforeReuse`
  holds even then, because their closing clears the descriptor first (`ClearedInv`).
* `MonitorProofs`: `MonitorTypeCorrect`, `CriticalSectionIsOwned` (`HeldIsOwned`),
  `GateIsHandedOver` (`NobodyStranded`), `NotificationsAreDelivered`
  (`DeliveredOnRelease`). `IndInv` joins where a thread owns the gate (`ControlInv`), what
  the nesting count means and when it is stale (`NestInv`), who waits (`QueueInv`) and
  what a pending notification has left in the flags (`NotifyInv`). They assume that a
  recursive mutex is not tried by a thread which may take the slow path: the case of
  `Monitor_trylock`, where `NestInv` breaks.
* `ProcessProofs`: `ProcessTypeCorrect`, `ReadyWhenInitialized` (`InitializedIsReady`),
  `AttachedIsBound` (`TlsMatchesCore`), `CallsSuitCallers` (`CallsFitTheirCaller`),
  `NobodyIsDemoted` (`NeverDemoted`), for any number of threads and forks. `IndInv` says
  who may be inside `do_init()` (`OnceInv`), what is there at each of its steps
  (`StartInv`), what a failing step has to give back (`HeldInv`), that an attached thread
  is bound in the core and the handler which will clear it in a child is registered
  (`AttachInv`), and that a thread about to issue an out-of-band call was attached when
  it chose it (`CallInv`). The handlers are the crux: a fork may come between any two
  steps of an attachment.

* `HeapProofs`: `HeapTypes` (`TypeOK`), `HeapBlocksAreDisjoint` (`BlocksAreDisjoint`),
  `HeapNothingLeaks` (`NothingLeaks`), `HeapBlocksAreTracked` (`BlocksAreTracked`), for
  heaps of any number of pages, block sizes and extents. They assume `MixedUse = FALSE`,
  without which blocks do overlap (`Heap_extended`). `IndInv` says that free ranges never
  touch each other (`RangeInv`), that free and used pages share out the extent (`MemInv`),
  that the entry of a page tells the blocks in it (`EntryInv`), that the pages of a bucket
  are one circle (`ListInv`) and that the counters are cardinalities (`CountInv`). A
  circle is a set of pages whose links are inverse to each other and which no smaller set
  is closed under: a form which splicing a page in and out can be shown to keep without
  induction over the length of the list. Lemmas about `Reserved` and `Released` say
  what a reservation and a release do to the pages covered. `HeapUsesThePool`: each step
  of the heap is one of `AbsRanges` on its first extent, or a stutter. With
  `PoolProofs`, the chain from the heap to the trees is complete.
* `PoolProofs`: `TreesStaySound` (`PoolTreesAreSound`) and `TreesImplementRanges`
  (`PoolImplements`), of `MCSpec`, for pools of any number of pages and requests of any
  size (`PoolAssumption`). The inductive invariant (`PoolInv`, theorem `TreesInvariant`)
  says that free ranges are disjoint, apart from each other and from what is handed out,
  and that both trees are sound and in their orders (`PoolGood`). A tree is `Sound` if
  there is a numbering of its nodes, from first to last, in which the nodes below each
  one are an interval around it, whose bounds are the edges (`Shape`, `Kid`): a form
  which says in terms of one node and its children what would otherwise need a recursion
  over the tree, and which each operation can be shown to keep by giving the new numbers
  and edges. Heights are a function too: each node is one higher than the higher one of
  its children, and its balance is the difference (`Even`).
  The lemmas follow the functions of the code. `RotateLinks` and `TurnedShape`: a
  rotation keeps the order. `RebalancedOnce`, `RebalancedTwice`: rebalancing a node which
  is two levels off makes it even, of the height which the caller assumes. While
  insertion or deletion climbs, the heights are right but for one link, where the subtree
  is one higher, or lower, than the balance of its parent says (`Hole`, `Climbing`), and a
  level of the loop moves the hole up or closes it (`ClimbStep`). `GrownTree` to
  `InsertedBack` put a node in, `DeletedLeaf` to `Deleted` take one out, where the place
  of an inner node is taken by its neighbour, which is deleted first; `Replacement` puts
  a new node in the place of another one. `Searched`, `InorderFound` and `NearestFound` say what the searches
  find, from an argument on intervals: what is below the present node shrinks around the
  place which is looked for. `FewestNodes` and `LowEnough` bound the height by the number
  of nodes, so that no loop is cut short.
  Last, `PoolReserves` and `PoolReleases` keep the invariant: a range which shrinks stays
  at its place among the addresses, and the node of a range which grows to the left is
  replaced there by one between the same neighbours. The ranges of the sizes are then
  shown to be those which `AbsRanges` makes (`ReservedRanges`, `ReleasedRanges`).
  Loops of the model are recursive functions. `SetInduction`, stated of sets of numbers as
  the provers cannot take an operator for a parameter, gives `Loop`: a step can be
  repeated any number of times. Each of these functions is shown to be the one which
  `Loop` gives.
* `RingPtrProofs`: `RingTypes` (`TypeOK`), `NoValueIsLost` (`ValuesReachable`),
  `FirstInFirstOut` (`FifoOrder`), for rings of any order, any number of calls and of
  threads up to the number of entries (`RingAssumption`). The 20 actions are first shown
  to be eleven moves (`Moves`), which say of each variable what the invariant asks, and
  `Map` to take the indexes of a cell to different cycles (`OrderedHolds`);
  `PowersAssumption` holds the laws of exponents which that takes, instances of
  arithmetic which the provers do not know. An index is `Settled` once the dequeue which claimed it
  is through with its cell. `IndInv` says: claims are unique (`ClaimInv`); a busy cell
  has the value of its cycle (`CellInv`); no value has a settled index (`AheadInv`); a
  settled index finds its cell in its cycle, or in a later one, or unsafe (`SpoilInv`);
  an empty cell of a cycle was left by the dequeue of that cycle (`EmptyInv`); an enqueue
  whose exchange would succeed has an index which is not settled, because an empty cell
  never comes back the same (`CasInv`); indexes respect the order of the calls
  (`OrderInv`). `ThresholdInv` counts the dequeues which are in the loop: each lowers the
  threshold once at most before it looks at it again.
  `AnswersAreHonest` (`StatusIsHonest`) rests on a second invariant, `HonestInv`
  (theorem `RingAnswers`). The threshold is worth at least the distance from the head to
  each value added, plus one for each dequeue which has claimed an index and has not
  paid for it (`CreditInv`), so a dequeue which reads a negative threshold overlooks
  nothing. The tail exceeds head + n only by indexes which enqueues claimed on an old
  view, one for each thread (`RoomInv`, `TailBound`), so a value is never out of reach of
  the threshold. An enqueue leaves an index without a value only if its cell had been
  written already, or a dequeue was ahead of it (`UsedInv`, `FreshInv`): when an enqueue
  fails for the first time, more cells have been written than the ring has entries.

* `MCToolsProofs`: `LossesAreCounted` (`LossesAreHonest`) and `LatenciesAreCounted`
  (`LatenciesCountedOnce`), of `MCSpec`, for any latencies, cells, threshold, rounds,
  samples and faults (`ToolsAssumption`). Three invariants carry them.
  `NetInv`: a gap in the sequence replaces the count of the packets lost, so `lost` is no
  sum which could be followed step by step. `LossInv` says that there are a serial `high`,
  which no valid packet received was beyond and which exceeds the last one by no more than
  the serials went back, and a set of serials which were lost or garbled, such that each
  serial below a packet on its way, or sent by the peer, is up to `high`, in the set, or on
  a packet which was put on its way earlier. A gap before a packet is then made of serials
  which were read before (`back`), lost (`missed`) or overtaken (`late`):
  `GapIsAccounted`. `TokenInv` counts the packets and the turns to send one: at least two,
  less those which were lost, so that both hosts wait only after two losses.
  `NetCount`: each sample of a histogram is in the statistics or in the bulk which will be
  added there, unless the runner measured while the main thread reported.
  `TimerInv`: the samples which are not in the statistics yet (`Left`) are with the
  driver, in the cross-buffer, with the logger or with the sitter. A thread which has read
  the statistics may write them back after the other one added a bulk: what it read
  then plus what is left is at most the histogram (`TimerCount`), so that samples may get
  lost but not be counted twice. `TimerExtremes` says that the statistics cover the bulk
  of the logger and stay below the threshold; a bulk is `Sane` if its sum lies between so
  many times its extremes, hence its average between them (`Averages`), and the check of
  `more_timer_data()` can only fail after two updates at once. The threshold
  holds with overlapping updates too, which the property of the run does not ask.
  `CommandsObey` (`CommandsDoAsAsked`): `OptionsInv` needs the types of the options and
  what `test_netlat` says of the tests which were named (`NetlatFollows`); the argument is
  in `RunFollows` (which tests run, of those named), `OrderIs` (they run once each) and
  `ResponderSuits` (the CPU is the least of the first set which is not empty). `NetctlInv`
  says of `evl net` which files are open at each step of a request, and what the
  interface is like after the requests which are done (`Interface`): those are the
  first ones in the order of `main()`, so that no port is disabled after it was needed.

Only model-checked: the liveness properties (`OnlyWriterServed`, `PairNotifiedReturn`,
`CallsReturn`), which need fairness and ENABLED; and, of `Tools`, the reports
(`ReportsAreTrue`), whose lists are built by folds over sequences.

## Where the code disagrees with what it says

* `evl_unlock_read()` wakes up a writer only when the count becomes zero. With two
  registered writers it becomes -1 or less, and both sleep on (`RwLock_orphaned_writer`).
* `evl_unlock_write()` wakes up the readers which sleep, not those between raising the
  pending bit and sleeping (`RwLock_forgotten_reader`).
* `evl_trylock_mutex()` does not set the nesting count when it gets the mutex from the
  core (`Monitor_trylock`).
* Bucket heads are page numbers kept per heap, but each extent numbers its pages from
  zero (`Heap_extended`). `Heap_blocks` keeps clear of it with `MixedUse` FALSE.
* `__evl_conforming_io()` turns any result but zero into `-errno`: `evl_write_proxy()`,
  `evl_read_proxy()` and `evl_printf()` do not return the count of a successful transfer
  (`Process_proxy`).

No run is made to fail for the following ones: the properties of `Tools` state what holds
instead, and name the cases in which it is not what the text promises.

* `usage()` of latmus describes -z and -Z as the response to GPIO events
  (`latmus/latmus.c:563-564`), but both set `test_netlat`, and the network test runs
  (`latmus/latmus.c:614-617`); `test_gpiolat` is never set (`PlanFollowsOptions`).
* `--net` measures "out-of-band UDP delay" (`latmus/latmus.c:569`), but sets `test_netlat`
  to `true`, the value of `INBAND_MODE` (`latmus/latmus.c:619-620`, `719`): the test is
  placed as an in-band one, on a CPU which may not run out-of-band threads
  (`CpuFitsTest`).
* `-n` is to "disable packet sequence check" (`latmus/latmus.c:571`), but the check is only
  made when it is given (`latmus/net.c:629`; `plan.checkSequence`).
* The count of invalid or lost packets is replaced by each gap, not added to
  (`latmus/net.c:295`), and counts packets which are late as lost. When the peer is
  restarted or repeats a packet, the next serial which goes up counts as lost what had
  been received before (`latmus/net.c:293-298`; `LossesNotOvercounted`).
* "Ignore stale threads, but mark them as !parse_ok" (`utils/evl-ps.c:243`): not if the
  files of a thread which terminates are handed over as `FTW_NS`, for which
  `scan_thread()` returns before it marks anything (`utils/evl-ps.c:227`): the thread is
  displayed, with zeroes for what was not read (`ListedIsWhole`).
* `collect_statistics()` converts six fields and accepts five (`utils/evl-ps.c:152`): a
  thread whose statistics are read last is not displayed (`ResidentsListed`).
* The difference of two figures is truncated to an int (`utils/evl-ps.c:303`): the order is
  only that of the sort key while the figures differ by less (`SortedByKey`).
* `-w` with `-s` or `-t` drops columns of these, as each display handler is in the chain
  once (`utils/evl-ps.c:655-668`; `ColumnsEnd`).
* The grammar of the check lists has `"!" symbol "=" tristate`
  (`utils/kconf-checklist.evl:11-17`): `evl check` fails `!SYM=y` when SYM is m, and
  `!SYM=n` always (`utils/evl-check.c:210-226`; `ChecksAreTrue`).

## Observations

Some are hazards which a model includes but no property is about, others lie next to what
is modelled. Line numbers are those of `src`.

Locks and events
* `evl_trylock_write()` subtracts the bias from any count. With readers holding the lock
  and a writer registered, the field wraps around, and the assertion at `lib/rwlock.c:251`
  fails instead of the call. The mixed instance includes these states, and
  `LoneWriterIsSafe` says that no other call fails an assertion; with one writer they do
  not arise (theorem `OnlyWriterIsSafe` of `RwLockProofs`).
* A write lock whose wait fails leaves its registration in the word, for a writer which
  is not there (`lib/rwlock.c:236`, `WaitRefused`).
* Nothing limits the value of a semaphore: 2^31 posts make it negative, which stands for
  sleepers (`lib/sem.c:247`). The nesting count of a mutex wraps (`lib/mutex.c:289`).
* A wait with a recursive mutex held more than once: the core releases the mutex whatever
  the nesting count says (`lib/event.c:228`).
* A thread which signals an event without owning the mutex races with the fast path of a
  new owner, which resets the flags of the gate (`lib/mutex.c:274`).
* A contended trylock of a priority-protected mutex leaves the pending ceiling set
  (`lib/mutex.c:268`).
* A closed semaphore returns `-EINVAL` once its magic is cleared;
  `tests/sem-close-unblock.c` expects `-EBADF`.

Objects
* Two first users of a static object create an element each, and the object may keep the
  state of one with the descriptor of the other (`lib/event.c:167`, the same in the
  other kinds); the loser's element is leaked. `ActiveIsWhole` then only promises a state
  and a descriptor of the right type.
* A call which a close overlaps may follow the pointer which the close clears
  (`lib/sem.c:122`), and so may those on an object whose creation it cut in on; nothing
  in the code prevents it. `FaultsExplained` says that no other call may.
* The value of a public element is stored again after the element was published
  (`lib/sem.c:60`, `lib/mutex.c:111-113`): a post through the other name is overwritten.
* Creating an anonymous public element leaks the descriptor of the clone device
  (`lib/sys.c:93-95`), a failure to set the descriptor flags that of the element
  (`lib/sys.c:129-136`).
* Closing a semaphore or flags never clears the descriptor in the object, so that a
  thread in a call may pass on a number which was given to another file. `ClosedBeforeReuse`
  holds for mutexes and events, which clear it first.
* Opening a mutex, an event or flags by name without `evl_init()` dereferences the
  shared memory which is not mapped.

Process
* A failed `EVL_THRIOC_SET_SCHEDPARAM` in `evl_attach_thread()` closes the descriptor and
  forgets the thread, which the core still has attached; a failure of
  `pthread_getschedparam()` is returned as a positive number, which looks like a
  descriptor.
* If the monotonic clock opens and the other one does not, the variable of the first
  keeps the number which was closed; both stay open if the shared memory cannot be
  mapped. A failed initialization is never tried again. A child of fork inherits the
  clocks and proxies of its parent.
* A failure to detach leaves the warning on stage switches off. The result of the request
  which turns it off is ignored (`lib/thread.c:156`); in the model the core grants it.
* A message longer than 1023 characters is written past the end of what was formatted
  (`lib/proxy.c:100`).

Heap and ring
* `lib/heap.c:1026-1031` says that no page of a bucket has room when the heading one
  has none. With three pages it may be otherwise: `add_page_front()` links a page between
  the former head and its successor, a full page may so come to the front while one
  behind it has room, and the heap then takes another page from the pool. This costs
  memory; the blocks are right all the same.
* Sizes near the limit wrap around when they are rounded (`lib/heap.c:1010`).
* An enqueue may be refused on a ring which is almost empty. A dequeue which claimed an
  index and has not come to its cell yet leaves a busy cell of an old cycle there; an
  enqueue which meets it gives up its index (`include/evl/ring_ptr.h:151`), so that the
  tail moves on without a value. Fill the four cells of a ring of order 1 as far as it
  lets, then repeat: a dequeue claims its index, an enqueue gives up that of the same
  cell and fails, the dequeue takes its value. Nine calls do it, two more than those of
  `RingPtr_calls`; after twelve the ring may be empty and idle with the tail n ahead of
  the head, and stays refused until the next dequeue moves the head. `StatusIsHonest`
  therefore counts the values stored in all, which is what `ring-spray.c` relies on.
* The test for a full ring compares indexes as plain numbers, wrong after 2^32 calls where
  words have 32 bits (`include/evl/ring_ptr.h:154`).

latmus
* The short options -i, -k, -u, -s and -S are announced but have no case, and are refused.
  -C does what -c does.
* `LossesAreHonest` bounds the count of lost packets from above only. After two lost
  packets both hosts wait for ever. The net runner is not stopped before the statistics
  are freed.
* Threads which were created detached are joined. What is left in the cross-buffer is not
  part of the report. Background mode ignores SIGHUP, which is what ends a test on an
  unexpected switch to in-band mode.

Commands
* In `evl ps`, timeouts of 5 us and 5 ms look alike; an empty range of -c selects every
  CPU; a directory which vanishes before it is opened ends the walk.
* In `evl check`, 256 failures give the exit status 0.
* `evl net -F` with a module which has no program succeeds and installs nothing. A failure
  to set the VLAN filters is passed to `error()` with the wrong sign.
* `evl -h command` runs the command.

## Assumptions

Atomics are sequentially consistent, and plain stores are seen in program order. Whoever
signals an event owns its mutex, and waits with the mutex held once. A release of the gate
by a wait delivers notifications as an unlock does (`tests/monitor-event-sigrel.c`).
Programs free what they allocated, once. Static objects have
private names. `mark_pages()` does nothing in an optimized build. Sizes are rounded
already when they reach the heap model. `pthread_once()` and the fork handlers do as POSIX
says; an initialization which another thread was running at the time of a fork runs again
in the child. Names of threads are not reused during `evl ps`. The image of the vDSO is
well-formed where it is there.

## Not modelled

* Sockets (`lib/socket.c`), the system call glue and version numbers: one request each, no
  state. Of clocks, timers, observables, polling and scheduling, the choice of the system
  call is in `Process`; the rest is the core's.
* Lists and atomics (`include/evl/list.h`, `atomic.h`): sequential helpers.
* Priority ceilings, waiting with two mutexes, exact waits on event flags, rounding and
  `evl_check_block()` of the heap, creation and closing of a read-write lock.
* Text: formatting of messages, reports and plots, except the columns of `evl ps`.
* The GPIO test of latmus, which cannot be started; tuning, which is a request to the
  driver.
* The `evl` dispatcher, the tidbits and the tests, which were read as statements of what
  the library promises; the vendored valgrind header.

## Plan

Done: `RwLock`, `Sem`, `Monitor` with their invariants and the refinement of the first
two proved; `Heap`, `Avl` and `RangeTrees`, `RingPtr`; `Elements`; `Process` with its
proofs; the proofs of the heap, of its page pool and trees, of `Elements` and of the
ring; latmus with the proofs of its tests, the commands and the vDSO parser. Next, in
order of interest:

1. Proofs: the reports of `Tools` (`ReportsAreTrue`).
2. Event flags with their own calls (exact waits, trywait, peek) and an abstract
   specification; lazy priority ceilings of the mutex with two gates.
3. Rounding of block sizes and `evl_check_block()`.
