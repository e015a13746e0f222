---------------------------- MODULE RwLockProofs ----------------------------
(***************************************************************************)
(* The lock word of RwLock keeps its meaning for any number of threads and *)
(* any width of the counter, and with it writers are alone.                *)
(***************************************************************************)
EXTENDS RwLock, FiniteSetTheorems, TLAPS

(* What a thread about to exchange the word learnt from the word it loaded. *)
CasReady ==
    \A t \in Threads :
        /\ pc[t] = "tryrd_cas" => prev[t].count > 0 /\ ~prev[t].rdpend
        /\ pc[t] = "trywr_cas" => prev[t].count = WRBIAS

(* The inductive invariant. *)
IndInv ==
    /\ TypeOK
    /\ CountMeaning
    /\ CasReady
    /\ Queue \subseteq Writers

-----------------------------------------------------------------------------
LEMMA WrapIdentity ==
    ASSUME NEW n \in CountRange
    PROVE  Wrap(n) = n
BY DEF Wrap

(* Every value an exchange may compute fits the bit-field once truncated. *)
LEMMA WrapNeighbours ==
    /\ WRBIAS \in CountRange
    /\ \A n \in CountRange : /\ Wrap(n - 1) \in CountRange
                             /\ Wrap(n + 1) \in CountRange
                             /\ Wrap(n - WRBIAS) \in CountRange
BY BiasAssumption DEF Wrap, CountRange

(* Sets of threads can be counted. *)
LEMMA ThreadSets ==
    ASSUME NEW S \in SUBSET Threads
    PROVE  /\ IsFiniteSet(S)
           /\ Cardinality(S) \in Nat
           /\ Cardinality(S) < WRBIAS
           /\ Cardinality(S) = 0 <=> S = {}
<1>1. IsFiniteSet(S) /\ Cardinality(S) <= Cardinality(Threads)
  BY BiasAssumption, FS_Subset
<1>2. Cardinality(S) \in Nat /\ Cardinality(Threads) \in Nat
  BY <1>1, BiasAssumption, FS_CardinalityType
<1>3. Cardinality(S) = 0 <=> S = {}
  BY <1>1, FS_EmptySet
<1> QED
  BY <1>1, <1>2, <1>3, BiasAssumption

LEMMA ThreadJoins ==
    ASSUME NEW S \in SUBSET Threads, NEW t \in Threads, t \notin S
    PROVE  Cardinality(S \cup {t}) = Cardinality(S) + 1
BY ThreadSets, FS_AddElement

LEMMA ThreadLeaves ==
    ASSUME NEW S \in SUBSET Threads, NEW t \in S
    PROVE  Cardinality(S \ {t}) = Cardinality(S) - 1
BY ThreadSets, FS_RemoveElement

(* Readers and queued writers together are threads as well. *)
LEMMA DisjointSets ==
    ASSUME NEW S \in SUBSET Threads, NEW T \in SUBSET Threads, S \cap T = {}
    PROVE  Cardinality(S) + Cardinality(T) < WRBIAS
<1>1. Cardinality(S \cup T) = Cardinality(S) + Cardinality(T) - Cardinality({})
  BY ThreadSets, FS_Union
<1>2. Cardinality(S \cup T) < WRBIAS /\ Cardinality(S) \in Nat /\ Cardinality(T) \in Nat
  BY ThreadSets, S \cup T \in SUBSET Threads
<1> QED
  BY <1>1, <1>2, FS_EmptySet

-----------------------------------------------------------------------------
LEMMA InitType == Init => TypeOK
<1>1. FreeWord \in Word
  BY BiasAssumption DEF FreeWord, Word, CountRange
<1>2. WRBIAS \in CountRange
  BY BiasAssumption DEF CountRange
<1> QED
  BY <1>1, <1>2 DEF Init, TypeOK, Locations

LEMMA StepType == TypeOK /\ [Next]_vars => TypeOK'
<1> SUFFICES ASSUME TypeOK, [Next]_vars PROVE TypeOK'
  OBVIOUS
<1> USE BiasAssumption DEF TypeOK, Locations, Go, At
<1>1. FreeWord \in Word /\ LoadedWord \in Word
  BY DEF FreeWord, LoadedWord, Word, CountRange
<1>2. /\ Wrap(count - 1) \in CountRange
      /\ Wrap(count + 1) \in CountRange
      /\ Wrap(count - WRBIAS) \in CountRange
      /\ WRBIAS \in CountRange
  BY WrapNeighbours
<1>3. \A t \in Threads : /\ Wrap(prev[t].count - 1) \in CountRange
                         /\ Wrap(prev[t].count - WRBIAS) \in CountRange
  BY WrapNeighbours DEF Word
<1>4. CASE UNCHANGED vars
  BY <1>4 DEF vars
<1>5. ASSUME NEW t \in Threads, Acquire(t) PROVE TypeOK'
  <2>1. CASE LockRead(t)
    BY <2>1, <1>2 DEF LockRead, TryRead
  <2>2. CASE TryLockRead(t)
    BY <2>2, <1>1 DEF TryLockRead
  <2>3. CASE LockWrite(t)
    BY <2>3, <1>2 DEF LockWrite, RegisteredCount
  <2>4. CASE TryLockWrite(t)
    BY <2>4, <1>1 DEF TryLockWrite
  <2> QED
    BY <1>5, <2>1, <2>2, <2>3, <2>4 DEF Acquire
<1>6. ASSUME NEW t \in Threads, Proceed(t) PROVE TypeOK'
  <2>1. CASE RetryRead(t)
    BY <2>1, <1>2 DEF RetryRead, TryRead
  <2>2. CASE WaitRead(t)
    BY <2>2 DEF WaitRead, WaitFlag, RD, WR
  <2>3. CASE TryLockReadCas(t)
    BY <2>3, <1>1, <1>3 DEF TryLockReadCas
  <2>4. CASE UnlockRead(t)
    BY <2>4, <1>2 DEF UnlockRead
  <2>5. CASE WaitWrite(t)
    BY <2>5 DEF WaitWrite, WaitFlag, RD, WR
  <2>6. CASE TryLockWriteCas(t)
    BY <2>6, <1>1, <1>3 DEF TryLockWriteCas
  <2>7. CASE UnlockWrite(t)
    BY <2>7, <1>2 DEF UnlockWrite
  <2>8. CASE Post(t)
    BY <2>8 DEF Post, PostWriter
  <2>9. CASE Broadcast(t)
    BY <2>9 DEF Broadcast, BroadcastReaders
  <2>10. CASE WaitRefused(t)
    BY <2>10 DEF WaitRefused
  <2> QED
    BY <1>6, <2>1, <2>2, <2>3, <2>4, <2>5, <2>6, <2>7, <2>8, <2>9, <2>10 DEF Proceed
<1>7. ASSUME NEW t \in Threads, Interrupt(t) PROVE TypeOK'
  BY <1>7 DEF Interrupt
<1> QED
  BY <1>4, <1>5, <1>6, <1>7 DEF Next

(* Type correctness of the lock: in particular the count never leaves its  *)
(* 31 bits, whoever calls the lock (struct evl_rwlock, rwlock.h).          *)
THEOREM TypeCorrect == Spec => []TypeOK
BY InitType, StepType, PTL DEF Spec

-----------------------------------------------------------------------------
(* Steps that touch nothing CountMeaning speaks of. *)
LEMMA Unaffected ==
    ASSUME CountMeaning, count' = count,
           count <= 0 \/ rdpend' = rdpend,
           (WR \in bits') = (WR \in bits),
           At("reading")' = At("reading"), Holders' = Holders,
           Queue' = Queue, At("post_wr")' = At("post_wr")
    PROVE  CountMeaning'
<1> USE DEF CountMeaning
<1>1. CASE OpenToReaders
  <2>1. CASE rdpend' = rdpend
    BY <1>1, <2>1 DEF OpenToReaders
  <2>2. CASE count <= 0
    BY <1>1, <2>2 DEF OpenToReaders
  <2> QED
    BY <2>1, <2>2
<1>2. CASE ReadersLeaving
  BY <1>2 DEF ReadersLeaving
<1>3. CASE HeldByWriter
  BY <1>3 DEF HeldByWriter
<1>4. CASE HandedOver
  BY <1>4 DEF HandedOver
<1> QED
  BY <1>1, <1>2, <1>3, <1>4

(* A thread that moves between places CountMeaning does not speak of. *)
Neutral == {"idle", "rd_retry", "rd_wait", "rd_sleep", "tryrd_cas", "trywr_cas",
            "bcast_rd", "assert"}

LEMMA NeutralMove ==
    ASSUME TypeOK, CountMeaning, NEW CONSTANT t \in Threads,
           NEW CONSTANT b \in Locations, Go(t, b),
           \/ pc[t] \in Neutral /\ b \in Neutral
           \/ pc[t] \in {"wr_wait", "wr_sleep"} /\ b \in {"wr_wait", "wr_sleep"},
           count' = count, count <= 0 \/ rdpend' = rdpend,
           (WR \in bits') = (WR \in bits)
    PROVE  CountMeaning' /\ Queue' = Queue
<1>1. /\ At("reading")' = At("reading")
      /\ Holders' = Holders
      /\ Queue' = Queue
      /\ At("post_wr")' = At("post_wr")
  BY DEF TypeOK, Neutral, Go, At, Holders, Queue
<1> QED
  BY <1>1, Unaffected

-----------------------------------------------------------------------------
(* How many readers and queued writers there are. *)
LEMMA Sizes ==
    /\ Cardinality(Queue) \in Nat /\ Cardinality(At("reading")) \in Nat
    /\ Cardinality(Queue) + Cardinality(At("reading")) < WRBIAS
    /\ Cardinality(Queue) = 0 <=> Queue = {}
    /\ Cardinality(At("reading")) = 0 <=> At("reading") = {}
<1>1. /\ Queue \in SUBSET Threads /\ At("reading") \in SUBSET Threads
      /\ Queue \cap At("reading") = {}
  BY DEF Queue, At
<1> QED
  BY <1>1, ThreadSets, DisjointSets

LEMMA QueueGrows ==
    ASSUME NEW CONSTANT t \in Threads, t \notin Queue, Queue' = Queue \cup {t}
    PROVE  Cardinality(Queue') = Cardinality(Queue) + 1 /\ Queue' # {}
<1>1. Queue \in SUBSET Threads
  BY DEF Queue, At
<1> QED
  BY <1>1, ThreadJoins

LEMMA QueueShrinks ==
    ASSUME NEW CONSTANT t \in Threads, t \in Queue, Queue' = Queue \ {t}
    PROVE  Cardinality(Queue') = Cardinality(Queue) - 1
<1>1. Queue \in SUBSET Threads
  BY DEF Queue, At
<1> QED
  BY <1>1, ThreadLeaves

(* A positive count means that no writer is around. *)
LEMMA PositiveIsOpen == CountMeaning /\ count > 0 => OpenToReaders
BY Sizes DEF CountMeaning, ReadersLeaving, HeldByWriter, HandedOver

LEMMA OpenCount == OpenToReaders => count > 0 /\ count <= WRBIAS
BY Sizes, BiasAssumption DEF OpenToReaders

-----------------------------------------------------------------------------
(* The exchanges on the lock word. *)
LEMMA ReaderEnters ==
    ASSUME TypeOK, CountMeaning, NEW CONSTANT t \in Threads,
           pc[t] \in {"idle", "rd_retry", "tryrd_cas"}, count > 0,
           count' = Wrap(count - 1), rdpend' = FALSE, bits' = bits,
           Go(t, "reading")
    PROVE  CountMeaning' /\ Queue' = Queue
<1>1. OpenToReaders
  BY PositiveIsOpen
<1>2. /\ t \notin At("reading") /\ At("reading")' = At("reading") \cup {t}
      /\ Holders' = Holders /\ Queue' = Queue /\ At("post_wr")' = At("post_wr")
  BY DEF TypeOK, Go, At, Holders, Queue
<1>3. /\ Cardinality(At("reading")') = Cardinality(At("reading")) + 1
      /\ Cardinality(At("reading")') < WRBIAS
  BY <1>2, ThreadJoins, ThreadSets, At("reading") \in SUBSET Threads,
     At("reading")' \in SUBSET Threads DEF At
<1>4. count' = count - 1
  BY WrapIdentity, BiasAssumption DEF TypeOK, CountRange
<1>5. OpenToReaders'
  BY <1>1, <1>2, <1>3, <1>4, Sizes, BiasAssumption DEF OpenToReaders
<1> QED
  BY <1>2, <1>5 DEF CountMeaning

LEMMA ReaderLeaves ==
    ASSUME TypeOK, CountMeaning, NEW CONSTANT t \in Threads, UnlockRead(t)
    PROVE  CountMeaning' /\ Queue' = Queue
<1> DEFINE R == At("reading")
<1>1. pc[t] = "reading" /\ count' = Wrap(count + 1) /\ UNCHANGED <<rdpend, bits>>
  BY DEF UnlockRead
<1>2. t \in R /\ R \in SUBSET Threads
  BY <1>1 DEF At
<1>3. /\ R' = R \ {t} /\ Holders' = Holders /\ Queue' = Queue
  BY <1>1 DEF UnlockRead, TypeOK, Go, At, Holders, Queue
<1>4. Cardinality(R') = Cardinality(R) - 1 /\ Cardinality(R') \in Nat
  BY <1>2, <1>3, ThreadLeaves, ThreadSets
<1>5. OpenToReaders \/ ReadersLeaving
  BY <1>2 DEF CountMeaning, HeldByWriter, HandedOver
<1>6. count < WRBIAS
  BY <1>2, <1>5, <1>4, Sizes, BiasAssumption DEF OpenToReaders, ReadersLeaving
<1>7. count' = count + 1
  BY <1>1, <1>6, WrapIdentity, BiasAssumption DEF TypeOK, CountRange
<1>8. CASE count' = 0
  <2>1. Go(t, "post_wr")
    BY <1>8 DEF UnlockRead
  <2>2. ReadersLeaving
    BY <1>5, <1>7, <1>8 DEF OpenToReaders, TypeOK, CountRange
  <2>3. At("post_wr")' = At("post_wr") \cup {t}
    BY <2>1, <1>1 DEF TypeOK, Go, At
  <2>4. Cardinality(Queue) = 1 /\ R' = {}
    <3>1. Cardinality(Queue) + Cardinality(R') = 1
      BY <2>2, <1>4, <1>7, <1>8, Sizes DEF ReadersLeaving, TypeOK, CountRange
    <3>2. Cardinality(Queue) >= 1
      BY <2>2, Sizes DEF ReadersLeaving
    <3>3. Cardinality(R') = 0
      BY <3>1, <3>2, <1>4, Sizes
    <3> QED
      BY <3>1, <3>3, <1>3, ThreadSets, Sizes, R' \in SUBSET Threads DEF At
  <2>5. HandedOver'
    BY <2>2, <2>3, <2>4, <1>1, <1>3, <1>8 DEF HandedOver, ReadersLeaving
  <2> QED
    BY <2>5, <1>3 DEF CountMeaning
<1>9. CASE count' # 0
  <2>1. Go(t, "idle")
    BY <1>9 DEF UnlockRead
  <2>2. At("post_wr")' = At("post_wr")
    BY <2>1, <1>1 DEF TypeOK, Go, At
  <2>3. CASE OpenToReaders
    <3>1. OpenToReaders'
      BY <2>3, <2>2, <1>1, <1>3, <1>4, <1>7, Sizes, BiasAssumption
         DEF OpenToReaders, TypeOK, CountRange
    <3> QED
      BY <3>1, <1>3 DEF CountMeaning
  <2>4. CASE ReadersLeaving
    <3>1. ReadersLeaving'
      BY <2>4, <2>2, <1>1, <1>3, <1>4, <1>7, <1>9, Sizes
         DEF ReadersLeaving, TypeOK, CountRange
    <3> QED
      BY <3>1, <1>3 DEF CountMeaning
  <2> QED
    BY <1>5, <2>3, <2>4
<1> QED
  BY <1>8, <1>9

LEMMA WriterRegisters ==
    ASSUME TypeOK, CountMeaning, NEW CONSTANT t \in Threads, LockWrite(t)
    PROVE  /\ CountMeaning'
           /\ Queue' = Queue \/ Queue' = Queue \cup {t}
<1>1. pc[t] = "idle" /\ UNCHANGED <<rdpend, bits>>
  BY DEF LockWrite
<1>2. t \notin Queue
  BY <1>1 DEF Queue, At
<1>3. CASE count > 0
  <2>1. OpenToReaders
    BY <1>3, PositiveIsOpen
  <2>2. count' = -Cardinality(At("reading"))
    <3>1. count - WRBIAS \in CountRange
      BY <2>1, OpenCount, BiasAssumption DEF CountRange, TypeOK
    <3>2. count' = count - WRBIAS
      BY <3>1, <1>3, WrapIdentity DEF LockWrite, RegisteredCount, TypeOK, CountRange
    <3> QED
      BY <3>2, <2>1, Sizes, BiasAssumption DEF OpenToReaders
  <2>3. CASE count' = 0
    <3>1. Go(t, "writing")
      BY <2>3 DEF LockWrite
    <3>2. /\ At("reading")' = At("reading") /\ Queue' = Queue
          /\ At("post_wr")' = At("post_wr") /\ Holders' = Holders \cup {t}
      BY <1>1, <3>1 DEF TypeOK, Go, At, Holders, Queue
    <3>3. Holders' = {t} /\ At("post_wr")' = {} /\ WR \notin bits'
      BY <1>1, <2>1, <3>2 DEF OpenToReaders
    <3>4. At("reading")' = {} /\ count' = -Cardinality(Queue')
      BY <2>1, <2>2, <2>3, <3>2, Sizes DEF OpenToReaders
    <3>5. HeldByWriter'
      BY <3>3, <3>4 DEF HeldByWriter
    <3> QED
      BY <3>2, <3>5 DEF CountMeaning
  <2>4. CASE count' # 0
    <3>1. Go(t, "wr_wait")
      BY <2>2, <2>4, Sizes DEF LockWrite
    <3>2. /\ At("reading")' = At("reading") /\ Queue' = Queue \cup {t}
          /\ At("post_wr")' = At("post_wr") /\ Holders' = Holders
      BY <1>1, <3>1 DEF TypeOK, Go, At, Holders, Queue
    <3>3. Cardinality(Queue') = 1 /\ Queue' # {}
      <4>1. Cardinality(Queue) = 0
        BY <2>1, Sizes DEF OpenToReaders
      <4> QED
        BY <4>1, <1>2, <3>2, QueueGrows
    <3>4. ReadersLeaving'
      BY <1>1, <2>1, <2>2, <2>4, <3>2, <3>3, Sizes DEF OpenToReaders, ReadersLeaving
    <3> QED
      BY <3>2, <3>4 DEF CountMeaning
  <2> QED
    BY <2>3, <2>4
<1>4. CASE count <= 0
  <2>1. ReadersLeaving \/ HeldByWriter \/ HandedOver
    BY <1>4, OpenCount DEF CountMeaning, TypeOK, CountRange
  <2>2. count' = count - 1
    <3>1. count - 1 \in CountRange
      BY <2>1, Sizes, BiasAssumption DEF ReadersLeaving, HeldByWriter, HandedOver,
         CountRange, TypeOK
    <3> QED
      BY <3>1, <1>4, WrapIdentity DEF LockWrite, RegisteredCount
  <2>3. Go(t, "wr_wait")
    BY <1>4, <2>2 DEF LockWrite, TypeOK, CountRange
  <2>4. /\ At("reading")' = At("reading") /\ Queue' = Queue \cup {t}
        /\ At("post_wr")' = At("post_wr") /\ Holders' = Holders
    BY <1>1, <2>3 DEF TypeOK, Go, At, Holders, Queue
  <2>5. Cardinality(Queue') = Cardinality(Queue) + 1 /\ Queue' # {}
    BY <1>2, <2>4, QueueGrows
  <2>6. CASE ReadersLeaving
    <3>1. ReadersLeaving'
      BY <2>6, <1>1, <2>2, <2>4, <2>5, Sizes DEF ReadersLeaving
    <3> QED
      BY <3>1, <2>4 DEF CountMeaning
  <2>7. CASE HeldByWriter
    <3>1. count' = -Cardinality(Queue')
      BY <2>7, <2>2, <2>5, Sizes DEF HeldByWriter
    <3>2. HeldByWriter'
      BY <2>7, <1>1, <2>4, <3>1 DEF HeldByWriter
    <3> QED
      BY <3>2, <2>4 DEF CountMeaning
  <2>8. CASE HandedOver
    <3>1. HandedOver'
      BY <2>8, <1>1, <2>2, <2>4, <2>5, Sizes DEF HandedOver
    <3> QED
      BY <3>1, <2>4 DEF CountMeaning
  <2> QED
    BY <2>1, <2>4, <2>6, <2>7, <2>8
<1> QED
  BY <1>3, <1>4 DEF TypeOK, CountRange

LEMMA WriterTakes ==
    ASSUME TypeOK, CountMeaning, NEW CONSTANT t \in Threads,
           pc[t] = "trywr_cas", count = WRBIAS, count' = Wrap(count - WRBIAS),
           bits' = bits, rdpend' = rdpend, Go(t, "writing")
    PROVE  CountMeaning' /\ Queue' = Queue
<1>1. OpenToReaders
  BY PositiveIsOpen, ThreadSets, BiasAssumption, FS_CardinalityType
<1>2. count' = 0
  BY WrapIdentity, BiasAssumption DEF CountRange
<1>3. /\ At("reading")' = At("reading") /\ Queue' = Queue
      /\ At("post_wr")' = At("post_wr") /\ Holders' = Holders \cup {t}
  BY DEF TypeOK, Go, At, Holders, Queue
<1>4. At("reading") = {}
  BY <1>1, Sizes, BiasAssumption DEF OpenToReaders
<1>5. HeldByWriter'
  <2>1. Holders' = {t} /\ At("post_wr")' = {} /\ WR \notin bits' /\ Queue' = {}
    BY <1>1, <1>3 DEF OpenToReaders
  <2>2. At("reading")' = {} /\ count' = -Cardinality(Queue')
    BY <1>2, <1>3, <1>4, <2>1, Sizes
  <2> QED
    BY <2>1, <2>2 DEF HeldByWriter
<1> QED
  BY <1>3, <1>5 DEF CountMeaning

LEMMA WriterLeaves ==
    ASSUME TypeOK, CountMeaning, NEW CONSTANT t \in Threads, UnlockWrite(t)
    PROVE  CountMeaning' /\ Queue' = Queue
<1>1. pc[t] = "writing" /\ t \in Holders /\ bits' = bits
  BY DEF UnlockWrite, Holders, At
<1>2. HeldByWriter /\ Holders = {t}
  BY <1>1 DEF CountMeaning, OpenToReaders, ReadersLeaving, HeldByWriter, HandedOver
<1>3. CASE count < 0
  <2>1. Go(t, "post_wr") /\ count' = Wrap(count + 1) /\ rdpend' = rdpend
    BY <1>3 DEF UnlockWrite
  <2>2. count' = count + 1
    BY <1>3, <2>1, WrapIdentity, BiasAssumption DEF TypeOK, CountRange
  <2>3. /\ At("reading")' = At("reading") /\ Queue' = Queue
        /\ At("post_wr")' = At("post_wr") \cup {t} /\ Holders' = Holders \ {t}
    BY <1>1, <2>1 DEF TypeOK, Go, At, Holders, Queue
  <2>4. HandedOver'
    BY <1>1, <1>2, <1>3, <2>2, <2>3, Sizes DEF HeldByWriter, HandedOver
  <2> QED
    BY <2>3, <2>4 DEF CountMeaning
<1>4. CASE ~(count < 0)
  <2>1. count = 0 /\ Queue = {}
    BY <1>2, <1>4, Sizes DEF HeldByWriter
  <2>2. /\ count' = WRBIAS /\ rdpend' = FALSE
        /\ Go(t, "bcast_rd") \/ Go(t, "idle")
    BY <2>1 DEF UnlockWrite
  <2>3. /\ At("reading")' = At("reading") /\ Queue' = Queue
        /\ At("post_wr")' = At("post_wr") /\ Holders' = Holders \ {t}
    BY <1>1, <2>2 DEF TypeOK, Go, At, Holders, Queue
  <2>4. WRBIAS > 0
    BY ThreadSets, BiasAssumption, FS_CardinalityType
  <2>5. OpenToReaders'
    BY <1>1, <1>2, <2>1, <2>2, <2>3, <2>4, Sizes, BiasAssumption
       DEF HeldByWriter, OpenToReaders
  <2> QED
    BY <2>3, <2>5 DEF CountMeaning
<1> QED
  BY <1>3, <1>4

-----------------------------------------------------------------------------
(* The hand-off of ownership through the flag group. *)
LEMMA WriterResumes ==
    ASSUME TypeOK, CountMeaning, NEW CONSTANT t \in Threads, WaitWrite(t)
    PROVE  CountMeaning' /\ Queue' \subseteq Queue
<1>1. pc[t] = "wr_wait" /\ t \in Queue /\ count' = count /\ rdpend' = rdpend
  BY DEF WaitWrite, Queue, At
<1>2. CASE WR \notin bits
  <2>1. Go(t, "wr_sleep") /\ bits' = bits
    BY <1>2 DEF WaitWrite, WaitFlag
  <2> QED
    BY <1>1, <2>1, NeutralMove DEF Locations
<1>3. CASE WR \in bits
  <2>1. Go(t, "writing") /\ bits' = bits \ {WR}
    BY <1>3 DEF WaitWrite, WaitFlag
  <2>2. HandedOver /\ At("post_wr") = {}
    BY <1>3 DEF CountMeaning, OpenToReaders, ReadersLeaving, HeldByWriter, HandedOver
  <2>3. /\ At("reading")' = At("reading") /\ Queue' = Queue \ {t}
        /\ At("post_wr")' = At("post_wr") /\ Holders' = Holders \cup {t}
    BY <1>1, <2>1 DEF TypeOK, Go, At, Holders, Queue
  <2>4. count' = -Cardinality(Queue')
    <3>1. Cardinality(Queue') = Cardinality(Queue) - 1
      BY <1>1, <2>3, QueueShrinks
    <3> QED
      BY <1>1, <2>2, <3>1, Sizes DEF HandedOver
  <2>5. /\ Holders' = {t} /\ At("post_wr")' = {}
        /\ WR \notin bits' /\ At("reading")' = {}
    BY <2>1, <2>2, <2>3 DEF HandedOver
  <2>6. HeldByWriter'
    BY <2>4, <2>5 DEF HeldByWriter
  <2> QED
    BY <2>3, <2>6 DEF CountMeaning
<1> QED
  BY <1>2, <1>3

LEMMA GrantIsPosted ==
    ASSUME TypeOK, CountMeaning, NEW CONSTANT t \in Threads, Post(t)
    PROVE  CountMeaning' /\ Queue' \subseteq Queue
<1>1. pc[t] = "post_wr" /\ t \in At("post_wr") /\ count' = count /\ rdpend' = rdpend
  BY DEF Post, At
<1>2. HandedOver /\ At("post_wr") = {t} /\ WR \notin bits
  BY <1>1 DEF CountMeaning, OpenToReaders, ReadersLeaving, HeldByWriter, HandedOver
<1>3. CASE At("wr_sleep") = {}
  <2>1. Go(t, "idle") /\ bits' = bits \cup {WR}
    BY <1>3 DEF Post, PostWriter
  <2>2. /\ At("reading")' = At("reading") /\ Queue' = Queue
        /\ At("post_wr")' = At("post_wr") \ {t} /\ Holders' = Holders
    BY <1>1, <2>1 DEF TypeOK, Go, At, Holders, Queue
  <2>3. At("post_wr")' = {} /\ WR \in bits'
    BY <1>2, <2>1, <2>2
  <2>4. /\ count' = 1 - Cardinality(Queue') /\ Queue' # {}
        /\ At("reading")' = {} /\ Holders' = {}
    BY <1>1, <1>2, <2>2 DEF HandedOver
  <2>5. HandedOver'
    BY <2>3, <2>4 DEF HandedOver
  <2> QED
    BY <2>2, <2>5 DEF CountMeaning
<1>4. CASE At("wr_sleep") # {}
  <2>1. PICK w \in At("wr_sleep") :
            pc' = [pc EXCEPT ![t] = "idle", ![w] = "writing"] /\ bits' = bits
    BY <1>4 DEF Post, PostWriter
  <2>2. w \in Threads /\ pc[w] = "wr_sleep" /\ w \in Queue /\ w # t
    BY <1>1, <2>1 DEF At, Queue
  <2>3. /\ At("reading")' = At("reading") /\ Queue' = Queue \ {w}
        /\ At("post_wr")' = At("post_wr") \ {t} /\ Holders' = Holders \cup {w}
    BY <1>1, <2>1, <2>2 DEF TypeOK, At, Holders, Queue
  <2>4. Cardinality(Queue') = Cardinality(Queue) - 1
    <3>1. Queue \in SUBSET Threads
      BY DEF Queue, At
    <3> QED
      BY <2>2, <2>3, <3>1, ThreadLeaves
  <2>5. count' = -Cardinality(Queue')
    BY <1>1, <1>2, <2>4, Sizes DEF HandedOver
  <2>6. /\ Holders' = {w} /\ At("post_wr")' = {}
        /\ WR \notin bits' /\ At("reading")' = {}
    BY <1>2, <2>1, <2>3 DEF HandedOver
  <2>7. HeldByWriter'
    BY <2>2, <2>5, <2>6 DEF HeldByWriter
  <2> QED
    BY <2>3, <2>7 DEF CountMeaning
<1> QED
  BY <1>3, <1>4

LEMMA ReadersAreWoken ==
    ASSUME TypeOK, CountMeaning, NEW CONSTANT t \in Threads, Broadcast(t)
    PROVE  CountMeaning' /\ Queue' = Queue
<1>1. /\ count' = count /\ rdpend' = rdpend
      /\ (WR \in bits') = (WR \in bits)
  BY DEF Broadcast, BroadcastReaders, RD, WR
<1>2. /\ At("reading")' = At("reading") /\ Queue' = Queue
      /\ At("post_wr")' = At("post_wr") /\ Holders' = Holders
  <2>1. CASE At("rd_sleep") = {}
    <3>1. pc[t] = "bcast_rd" /\ Go(t, "idle")
      BY <2>1 DEF Broadcast, BroadcastReaders
    <3> QED
      BY <3>1 DEF TypeOK, Go, At, Holders, Queue
  <2>2. CASE At("rd_sleep") # {}
    <3>1. /\ pc[t] = "bcast_rd"
          /\ pc' = [u \in Threads |-> IF u = t THEN "idle"
                                      ELSE IF u \in At("rd_sleep") THEN "rd_retry"
                                      ELSE pc[u]]
      BY <2>2 DEF Broadcast, BroadcastReaders
    <3> QED
      BY <3>1 DEF TypeOK, At, Holders, Queue
  <2> QED
    BY <2>1, <2>2
<1> QED
  BY <1>1, <1>2, Unaffected

-----------------------------------------------------------------------------
(* What the trylock calls know about the word when they exchange it. *)
LEMMA StepCas ==
    ASSUME TypeOK, CasReady, NEW CONSTANT t \in Threads,
           Acquire(t) \/ Proceed(t) \/ Interrupt(t)
    PROVE  CasReady'
<1> USE DEF TypeOK, CasReady, Go, At
<1>1. CASE TryLockRead(t)
  BY <1>1 DEF TryLockRead, LoadedWord
<1>2. CASE TryLockWrite(t)
  <2>1. Wrap(count - WRBIAS) = 0 => count = WRBIAS
    BY BiasAssumption DEF Wrap, CountRange
  <2> QED
    BY <1>2, <2>1, BiasAssumption DEF TryLockWrite, LoadedWord, Wrap, CountRange
<1>3. CASE LockRead(t) \/ RetryRead(t)
  BY <1>3 DEF LockRead, RetryRead, TryRead
<1>4. CASE LockWrite(t)
  BY <1>4 DEF LockWrite
<1>5. CASE WaitRead(t) \/ WaitWrite(t)
  BY <1>5 DEF WaitRead, WaitWrite, WaitFlag
<1>6. CASE TryLockReadCas(t) \/ TryLockWriteCas(t)
  BY <1>6 DEF TryLockReadCas, TryLockWriteCas
<1>7. CASE UnlockRead(t) \/ UnlockWrite(t)
  BY <1>7 DEF UnlockRead, UnlockWrite
<1>8. CASE Post(t)
  BY <1>8 DEF Post, PostWriter
<1>9. CASE Broadcast(t)
  BY <1>9 DEF Broadcast, BroadcastReaders
<1>10. CASE WaitRefused(t) \/ Interrupt(t)
  BY <1>10 DEF WaitRefused, Interrupt
<1> QED
  BY <1>1, <1>2, <1>3, <1>4, <1>5, <1>6, <1>7, <1>8, <1>9, <1>10
     DEF Acquire, Proceed

(* The meaning of the word survives every step of every thread. *)
LEMMA StepMeaning ==
    ASSUME Writers \cap Unattached = {}, IndInv, NEW CONSTANT t \in Threads,
           Acquire(t) \/ Proceed(t) \/ Interrupt(t)
    PROVE  /\ CountMeaning'
           /\ Queue' \subseteq Queue \/ (t \in Writers /\ Queue' = Queue \cup {t})
<1> USE DEF IndInv
<1>1. CASE LockRead(t) \/ RetryRead(t)
  <2>1. pc[t] \in {"idle", "rd_retry"} /\ TryRead(t)
    BY <1>1 DEF LockRead, RetryRead
  <2>2. CASE count <= 0
    BY <2>1, <2>2, NeutralMove DEF TryRead, Neutral, Locations
  <2>3. CASE count > 0
    <3>1. ~rdpend
      BY <2>3, PositiveIsOpen DEF OpenToReaders
    <3>2. ~(count <= 0)
      BY <2>3 DEF TypeOK, CountRange
    <3>3. /\ count' = Wrap(count - 1) /\ rdpend' = FALSE
          /\ bits' = bits /\ Go(t, "reading")
      BY <2>1, <3>1, <3>2 DEF TryRead, TypeOK
    <3> QED
      BY <2>1, <2>3, <3>3, ReaderEnters
  <2> QED
    BY <2>2, <2>3 DEF TypeOK, CountRange
<1>2. CASE TryLockRead(t)
  BY <1>2, NeutralMove DEF TryLockRead, Neutral, Locations
<1>3. CASE LockWrite(t)
  BY <1>3, WriterRegisters DEF LockWrite
<1>4. CASE TryLockWrite(t)
  BY <1>4, NeutralMove DEF TryLockWrite, Neutral, Locations
<1>5. CASE WaitRead(t)
  <2>1. \/ Go(t, "rd_retry") /\ bits' = bits \ {RD}
        \/ Go(t, "rd_sleep") /\ bits' = bits
    BY <1>5 DEF WaitRead, WaitFlag
  <2>2. (WR \in bits') = (WR \in bits)
    BY <2>1 DEF RD, WR
  <2> QED
    BY <1>5, <2>1, <2>2, NeutralMove DEF WaitRead, Neutral, Locations
<1>6. CASE TryLockReadCas(t)
  <2>1. CASE LoadedWord = prev[t]
    <3>1. count > 0 /\ count' = Wrap(count - 1)
      BY <1>6, <2>1 DEF TryLockReadCas, CasReady, LoadedWord
    <3> QED
      BY <1>6, <2>1, <3>1, ReaderEnters DEF TryLockReadCas
  <2>2. CASE LoadedWord # prev[t]
    BY <1>6, <2>2, NeutralMove DEF TryLockReadCas, Neutral, Locations
  <2> QED
    BY <2>1, <2>2
<1>7. CASE TryLockWriteCas(t)
  <2>1. CASE LoadedWord = prev[t]
    <3>1. count = WRBIAS /\ count' = Wrap(count - WRBIAS)
      BY <1>7, <2>1 DEF TryLockWriteCas, CasReady, LoadedWord
    <3> QED
      BY <1>7, <2>1, <3>1, WriterTakes DEF TryLockWriteCas
  <2>2. CASE LoadedWord # prev[t]
    BY <1>7, <2>2, NeutralMove DEF TryLockWriteCas, Neutral, Locations
  <2> QED
    BY <2>1, <2>2
<1>8. CASE UnlockRead(t)
  BY <1>8, ReaderLeaves
<1>9. CASE UnlockWrite(t)
  BY <1>9, WriterLeaves
<1>10. CASE WaitWrite(t)
  BY <1>10, WriterResumes
<1>11. CASE Post(t)
  BY <1>11, GrantIsPosted
<1>12. CASE Broadcast(t)
  BY <1>12, ReadersAreWoken
<1>13. CASE WaitRefused(t)
  <2>1. pc[t] = "rd_wait"
    BY <1>13 DEF WaitRefused, Queue, At
  <2> QED
    BY <1>13, <2>1, NeutralMove DEF WaitRefused, Neutral, Locations
<1>14. CASE Interrupt(t)
  <2>1. CASE pc[t] = "rd_sleep"
    BY <1>14, <2>1, NeutralMove DEF Interrupt, Neutral, Locations
  <2>2. CASE pc[t] = "wr_sleep"
    BY <1>14, <2>2, NeutralMove DEF Interrupt, Locations
  <2> QED
    BY <1>14, <2>1, <2>2 DEF Interrupt
<1> QED
  BY <1>1, <1>2, <1>3, <1>4, <1>5, <1>6, <1>7, <1>8, <1>9, <1>10, <1>11,
     <1>12, <1>13, <1>14 DEF Acquire, Proceed

LEMMA InitInv == Init => IndInv
<1> SUFFICES ASSUME Init PROVE IndInv
  OBVIOUS
<1>1. \A l \in Locations \ {"idle"} : At(l) = {}
  BY DEF Init, At, Locations
<1>2. /\ At("reading") = {} /\ Holders = {} /\ Queue = {} /\ At("post_wr") = {}
  BY <1>1 DEF Locations, Holders, Queue
<1>3. WRBIAS > 0 /\ Cardinality({}) = 0
  BY ThreadSets, BiasAssumption, FS_EmptySet, FS_CardinalityType
<1>4. OpenToReaders
  BY <1>2, <1>3, BiasAssumption DEF OpenToReaders, Init
<1>5. CasReady
  BY DEF CasReady, Init
<1> QED
  BY <1>2, <1>4, <1>5, InitType DEF IndInv, CountMeaning

LEMMA StepInv ==
    ASSUME Writers \cap Unattached = {}, IndInv, [Next]_vars
    PROVE  IndInv'
<1>1. TypeOK'
  BY StepType DEF IndInv
<1>2. CASE UNCHANGED vars
  <2>1. At("reading")' = At("reading") /\ Holders' = Holders
        /\ Queue' = Queue /\ At("post_wr")' = At("post_wr")
    BY <1>2 DEF vars, At, Holders, Queue
  <2>2. CountMeaning'
    BY <1>2, <2>1, Unaffected DEF vars, IndInv
  <2>3. CasReady'
    BY <1>2 DEF vars, IndInv, CasReady
  <2> QED
    BY <1>1, <2>1, <2>2, <2>3 DEF IndInv
<1>3. CASE Next
  <2>1. PICK t \in Threads : Acquire(t) \/ Proceed(t) \/ Interrupt(t)
    BY <1>3 DEF Next
  <2>2. CasReady'
    BY <2>1, StepCas DEF IndInv
  <2>3. CountMeaning' /\ Queue' \subseteq Writers
    BY <2>1, StepMeaning DEF IndInv
  <2> QED
    BY <1>1, <2>2, <2>3 DEF IndInv
<1> QED
  BY <1>2, <1>3

LEMMA InvHolds ==
    ASSUME Writers \cap Unattached = {}
    PROVE  Spec => []IndInv
<1>1. Init => IndInv
  BY InitInv
<1>2. IndInv /\ [Next]_vars => IndInv'
  BY StepInv
<1> QED
  BY <1>1, <1>2, PTL DEF Spec

(* The lock word means what its comments say, for any number of threads,   *)
(* as long as the threads that write-lock are known to the EVL core.       *)
THEOREM WordKeepsMeaning ==
    ASSUME Writers \cap Unattached = {}
    PROVE  Spec => []CountMeaning
<1>1. IndInv => CountMeaning
  BY DEF IndInv
<1> QED
  BY <1>1, InvHolds, PTL

(* A writer is alone in its critical section (evl_lock_write,              *)
(* evl_trylock_write, evl_lock_read, evl_trylock_read and the hand-offs).  *)
THEOREM WriterIsAlone ==
    ASSUME Writers \cap Unattached = {}
    PROVE  Spec => []Exclusion
<1>1. IndInv => Exclusion
  BY DEF IndInv, CountMeaning, OpenToReaders, ReadersLeaving, HeldByWriter,
         HandedOver, Exclusion, Holders
<1> QED
  BY <1>1, InvHolds, PTL

(* Ownership is handed over to one writer at a time, and never while the   *)
(* lock is held (evl_unlock_read, evl_unlock_write).                       *)
THEOREM OneGrantAtATime ==
    ASSUME Writers \cap Unattached = {}
    PROVE  Spec => []SingleGrant
<1>1. IndInv => SingleGrant
  <2> SUFFICES ASSUME IndInv PROVE SingleGrant
    OBVIOUS
  <2>1. Cardinality({}) = 0 /\ \A t \in Threads : Cardinality({t}) = 1
    BY FS_EmptySet, FS_Singleton
  <2>2. CASE At("post_wr") = {} /\ WR \notin bits
    BY <2>1, <2>2 DEF SingleGrant, Grants
  <2>3. CASE HandedOver
    BY <2>1, <2>3 DEF HandedOver, SingleGrant, Grants, Holders
  <2> QED
    BY <2>2, <2>3 DEF IndInv, CountMeaning, OpenToReaders, ReadersLeaving, HeldByWriter
<1> QED
  BY <1>1, InvHolds, PTL

(* Which assertions can fail, besides the word which they test. *)
Asserts == At("assert") # {} => At("assert") \subseteq TryWriters /\ Queue # {}

LEMMA StepAsserts ==
    ASSUME IndInv, At("assert") = {}, NEW CONSTANT t \in Threads,
           Acquire(t) \/ Proceed(t) \/ Interrupt(t)
    PROVE  Asserts'
<1> USE DEF Go, At
<1>1. pc \in [Threads -> Locations] /\ \A u \in Threads : pc[u] # "assert"
  BY DEF IndInv, TypeOK
<1>2. SUFFICES ASSUME At("assert")' # {}
               PROVE  At("assert")' \subseteq TryWriters /\ Queue' # {}
  BY DEF Asserts
<1>3. count > 0 => ~rdpend
  BY PositiveIsOpen DEF IndInv, OpenToReaders
<1>4. CASE TryLockWrite(t)
  <2>1. At("assert")' = {t} /\ t \in TryWriters /\ Queue' = Queue
    BY <1>1, <1>2, <1>4 DEF TryLockWrite, Queue
  <2>2. count < 0
    <3>1. Wrap(count - WRBIAS) > 0
      BY <1>1, <1>2, <1>4 DEF TryLockWrite
    <3> QED
      BY <3>1, BiasAssumption DEF Wrap, CountRange, IndInv, TypeOK
  <2>3. Queue # {}
    BY <2>2, Sizes, OpenCount DEF IndInv, CountMeaning, TypeOK, CountRange,
       ReadersLeaving, HeldByWriter, HandedOver
  <2> QED
    BY <2>1, <2>3
<1>5. CASE LockRead(t) \/ RetryRead(t) \/ TryLockRead(t)
  BY <1>1, <1>2, <1>3, <1>5
     DEF LockRead, RetryRead, TryLockRead, TryRead, IndInv, TypeOK, CountRange
<1>6. CASE LockWrite(t)
  <2>1. count' \in Int /\ count' <= 0
    <3>1. CASE count > 0
      BY <1>6, <3>1, WrapIdentity, BiasAssumption
         DEF LockWrite, RegisteredCount, IndInv, TypeOK, CountRange
    <3>2. CASE count <= 0
      <4>1. count - 1 \in CountRange
        BY <3>2, Sizes, OpenCount, BiasAssumption
           DEF IndInv, TypeOK, CountRange, CountMeaning, ReadersLeaving,
               HeldByWriter, HandedOver
      <4> QED
        BY <1>6, <3>2, <4>1, WrapIdentity
           DEF LockWrite, RegisteredCount, IndInv, TypeOK, CountRange
    <3> QED
      BY <3>1, <3>2 DEF IndInv, TypeOK, CountRange
  <2> QED
    BY <1>1, <1>2, <1>6, <2>1 DEF LockWrite
<1>7. CASE UnlockWrite(t)
  <2>1. HeldByWriter
    BY <1>7 DEF UnlockWrite, IndInv, CountMeaning, OpenToReaders,
                ReadersLeaving, HandedOver, Holders
  <2>2. count <= 0
    BY <2>1, Sizes DEF HeldByWriter
  <2> QED
    BY <1>1, <1>2, <1>7, <2>2 DEF UnlockWrite, IndInv, TypeOK, CountRange
<1>8. CASE WaitRead(t) \/ WaitWrite(t)
  BY <1>1, <1>2, <1>8 DEF WaitRead, WaitWrite, WaitFlag
<1>9. CASE TryLockReadCas(t) \/ TryLockWriteCas(t)
  BY <1>1, <1>2, <1>9 DEF TryLockReadCas, TryLockWriteCas
<1>10. CASE UnlockRead(t)
  BY <1>1, <1>2, <1>10 DEF UnlockRead
<1>11. CASE Post(t)
  BY <1>1, <1>2, <1>11 DEF Post, PostWriter
<1>12. CASE Broadcast(t)
  BY <1>1, <1>2, <1>12 DEF Broadcast, BroadcastReaders
<1>13. CASE WaitRefused(t) \/ Interrupt(t)
  BY <1>1, <1>2, <1>13 DEF WaitRefused, Interrupt
<1> QED
  BY <1>4, <1>5, <1>6, <1>7, <1>8, <1>9, <1>10, <1>11, <1>12, <1>13
     DEF Acquire, Proceed

LEMMA AssertsHold ==
    ASSUME Writers \cap Unattached = {}
    PROVE  Spec => []Asserts
<1>1. Init => Asserts
  BY DEF Init, Asserts, At
<1>2. IndInv /\ Asserts /\ [Next]_vars => Asserts'
  <2> SUFFICES ASSUME IndInv, Asserts, [Next]_vars PROVE Asserts'
    OBVIOUS
  <2>1. CASE Next
    BY <2>1, StepAsserts DEF Next
  <2>2. CASE UNCHANGED vars
    BY <2>2 DEF vars, Asserts, At, Queue
  <2> QED
    BY <2>1, <2>2
<1> QED
  BY <1>1, <1>2, InvHolds, PTL DEF Spec

(* A writer which waits alone is never forgotten, whoever came and went    *)
(* before it, and no assertion but that of evl_trylock_write can fail,     *)
(* which then stands behind a registered writer (evl_unlock_read,          *)
(* evl_unlock_write, rwlock.c:250).                                        *)
THEOREM LoneWriterIsServed ==
    ASSUME Writers \cap Unattached = {}
    PROVE  Spec => []LoneWriterIsSafe
<1>1. IndInv /\ Asserts => LoneWriterIsSafe
  <2> SUFFICES ASSUME IndInv, Asserts PROVE LoneWriterIsSafe
    OBVIOUS
  <2>1. ASSUME NEW t \in Threads, Queue = {t}
        PROVE  Holders # {} \/ At("reading") # {} \/ Grants > 0
    <3>1. Cardinality(Queue) = 1
      BY <2>1, FS_Singleton
    <3>2. CASE ReadersLeaving
      BY <3>1, <3>2, Sizes DEF ReadersLeaving
    <3>3. CASE HandedOver
      <4>1. Cardinality({}) = 0 /\ \A u \in Threads : Cardinality({u}) = 1
        BY FS_EmptySet, FS_Singleton
      <4> QED
        BY <3>3, <4>1 DEF HandedOver, Grants
    <3> QED
      BY <2>1, <3>2, <3>3 DEF IndInv, CountMeaning, OpenToReaders, HeldByWriter
  <2> QED
    BY <2>1 DEF LoneWriterIsSafe, Asserts
<1> QED
  BY <1>1, InvHolds, AssertsHold, PTL

(* With a single writer, which the core knows, the two defects of the lock *)
(* cannot strike: nobody is orphaned and no assertion fails ("release one  *)
(* of them when the last reader has released the lock", evl_unlock_read).  *)
THEOREM OnlyWriterIsSafe ==
    ASSUME NEW CONSTANT w, Writers \subseteq {w}, TryWriters \subseteq {w},
           w \notin Unattached
    PROVE  Spec => [](NoOrphanedWriter /\ NoAssertFails)
<1>1. Writers \cap Unattached = {}
  OBVIOUS
<1>2. IndInv /\ LoneWriterIsSafe => NoOrphanedWriter /\ NoAssertFails
  <2> SUFFICES ASSUME IndInv, LoneWriterIsSafe
               PROVE  NoOrphanedWriter /\ NoAssertFails
    OBVIOUS
  <2>1. Queue # {} => w \in Threads /\ Queue = {w} /\ pc[w] # "assert"
    BY DEF IndInv, Queue, At
  <2>2. NoOrphanedWriter
    BY <2>1 DEF LoneWriterIsSafe, NoOrphanedWriter
  <2>3. NoAssertFails
    BY <2>1 DEF LoneWriterIsSafe, NoAssertFails, At
  <2> QED
    BY <2>2, <2>3
<1> QED
  BY <1>1, <1>2, InvHolds, LoneWriterIsServed, PTL

-----------------------------------------------------------------------------
(* The lock implements its abstract specification.  Each step either moves *)
(* one thread between the readers, the writers and the queue, which the    *)
(* meaning of the word allows, or none at all.                             *)
Same == At("reading")' = At("reading") /\ Holders' = Holders /\ Queue' = Queue

LEMMA SameMaps == Same => UNCHANGED Abs!absVars
BY DEF Same, Abs!absVars

LEMMA NeutralMaps ==
    ASSUME TypeOK, NEW CONSTANT t \in Threads, NEW CONSTANT b \in Locations, Go(t, b),
           \/ pc[t] \in Neutral \cup {"post_wr"} /\ b \in Neutral
           \/ pc[t] \in {"wr_wait", "wr_sleep"} /\ b \in {"wr_wait", "wr_sleep"}
    PROVE  Same
BY DEF TypeOK, Neutral, Go, At, Holders, Queue, Same

LEMMA ReaderEntersMaps ==
    ASSUME TypeOK, CountMeaning, NEW CONSTANT t \in Threads, count > 0,
           pc[t] \in {"idle", "rd_retry", "tryrd_cas"}, Go(t, "reading")
    PROVE  Abs!AcquireRead(t)
<1>1. OpenToReaders
  BY PositiveIsOpen
<1>2. /\ At("reading")' = At("reading") \cup {t} /\ t \notin At("reading")
      /\ Holders' = Holders /\ Queue' = Queue
  BY DEF TypeOK, Go, At, Holders, Queue
<1> QED
  BY <1>1, <1>2 DEF OpenToReaders, Abs!AcquireRead, Abs!Busy

LEMMA ReaderLeavesMaps ==
    ASSUME TypeOK, NEW CONSTANT t \in Threads, UnlockRead(t)
    PROVE  Abs!ReleaseRead(t)
BY DEF UnlockRead, TypeOK, Go, At, Holders, Queue, Abs!ReleaseRead

LEMMA WriterTakesMaps ==
    ASSUME TypeOK, OpenToReaders, At("reading") = {}, NEW CONSTANT t \in Threads,
           pc[t] \in {"idle", "trywr_cas"}, Go(t, "writing")
    PROVE  Abs!AcquireWrite(t)
<1>1. /\ At("reading")' = At("reading") /\ Holders' = Holders \cup {t} /\ Queue' = Queue
  BY DEF TypeOK, Go, At, Holders, Queue
<1> QED
  BY <1>1 DEF OpenToReaders, Abs!AcquireWrite, Abs!Busy

LEMMA WriterRegistersMaps ==
    ASSUME TypeOK, CountMeaning, NEW CONSTANT t \in Threads, LockWrite(t)
    PROVE  Abs!AcquireWrite(t) \/ Abs!QueueWrite(t)
<1>1. pc[t] = "idle"
  BY DEF LockWrite
<1>2. ASSUME Go(t, "wr_wait"), At("reading") # {} \/ Holders # {} \/ Queue # {}
      PROVE  Abs!QueueWrite(t)
  <2>1. /\ At("reading")' = At("reading") /\ Holders' = Holders /\ Queue' = Queue \cup {t}
        /\ t \notin At("reading") \cup Holders \cup Queue
    BY <1>1, <1>2 DEF TypeOK, Go, At, Holders, Queue
  <2> QED
    BY <1>2, <2>1 DEF Abs!QueueWrite, Abs!Busy
<1>3. CASE count > 0
  <2>1. OpenToReaders
    BY <1>3, PositiveIsOpen
  <2>2. count' = -Cardinality(At("reading"))
    <3>1. count - WRBIAS \in CountRange
      BY <2>1, OpenCount, BiasAssumption DEF CountRange, TypeOK
    <3>2. count' = count - WRBIAS
      BY <3>1, <1>3, WrapIdentity DEF LockWrite, RegisteredCount, TypeOK, CountRange
    <3> QED
      BY <3>2, <2>1, Sizes, BiasAssumption DEF OpenToReaders
  <2>3. CASE count' = 0
    <3>1. Go(t, "writing") /\ At("reading") = {}
      BY <2>2, <2>3, Sizes DEF LockWrite
    <3> QED
      BY <1>1, <2>1, <3>1, WriterTakesMaps
  <2>4. CASE count' # 0
    <3>1. Go(t, "wr_wait") /\ At("reading") # {}
      BY <2>2, <2>4, Sizes DEF LockWrite
    <3> QED
      BY <1>2, <3>1
  <2> QED
    BY <2>3, <2>4
<1>4. CASE count <= 0
  <2>1. ReadersLeaving \/ HeldByWriter \/ HandedOver
    BY <1>4, OpenCount DEF CountMeaning, TypeOK, CountRange
  <2>2. count' = count - 1
    <3>1. count - 1 \in CountRange
      BY <2>1, Sizes, BiasAssumption DEF ReadersLeaving, HeldByWriter, HandedOver,
         CountRange, TypeOK
    <3> QED
      BY <3>1, <1>4, WrapIdentity DEF LockWrite, RegisteredCount
  <2>3. Go(t, "wr_wait")
    BY <1>4, <2>2 DEF LockWrite, TypeOK, CountRange
  <2> QED
    BY <1>2, <2>1, <2>3 DEF ReadersLeaving, HeldByWriter, HandedOver
<1> QED
  BY <1>3, <1>4 DEF TypeOK, CountRange

LEMMA WriterLeavesMaps ==
    ASSUME TypeOK, CountMeaning, NEW CONSTANT t \in Threads, UnlockWrite(t)
    PROVE  Abs!ReleaseWrite(t)
<1>1. pc[t] = "writing" /\ t \in Holders
  BY DEF UnlockWrite, Holders, At
<1>2. HeldByWriter
  BY <1>1 DEF CountMeaning, OpenToReaders, ReadersLeaving, HeldByWriter, HandedOver
<1>3. Go(t, "post_wr") \/ Go(t, "bcast_rd") \/ Go(t, "idle")
  BY <1>2, Sizes DEF UnlockWrite, HeldByWriter
<1>4. /\ At("reading")' = At("reading") /\ Queue' = Queue /\ Holders' = Holders \ {t}
  BY <1>1, <1>3 DEF TypeOK, Go, At, Holders, Queue
<1> QED
  BY <1>1, <1>4 DEF Abs!ReleaseWrite

LEMMA WriterResumesMaps ==
    ASSUME TypeOK, CountMeaning, NEW CONSTANT t \in Threads, WaitWrite(t)
    PROVE  Abs!GrantWrite(t) \/ UNCHANGED Abs!absVars
<1>1. pc[t] = "wr_wait" /\ t \in Queue
  BY DEF WaitWrite, Queue, At
<1>2. CASE WR \notin bits
  <2>1. Go(t, "wr_sleep")
    BY <1>2 DEF WaitWrite, WaitFlag
  <2> QED
    BY <1>1, <2>1, NeutralMaps, SameMaps DEF Locations
<1>3. CASE WR \in bits
  <2>1. Go(t, "writing")
    BY <1>3 DEF WaitWrite, WaitFlag
  <2>2. HandedOver
    BY <1>3 DEF CountMeaning, OpenToReaders, ReadersLeaving, HeldByWriter
  <2>3. /\ At("reading")' = At("reading") /\ Queue' = Queue \ {t}
        /\ Holders' = Holders \cup {t}
    BY <1>1, <2>1 DEF TypeOK, Go, At, Holders, Queue
  <2> QED
    BY <1>1, <2>2, <2>3 DEF HandedOver, Abs!GrantWrite
<1> QED
  BY <1>2, <1>3

LEMMA GrantIsPostedMaps ==
    ASSUME TypeOK, CountMeaning, NEW CONSTANT t \in Threads, Post(t)
    PROVE  (\E w \in Threads : Abs!GrantWrite(w)) \/ UNCHANGED Abs!absVars
<1>1. pc[t] = "post_wr" /\ t \in At("post_wr")
  BY DEF Post, At
<1>2. HandedOver
  BY <1>1 DEF CountMeaning, OpenToReaders, ReadersLeaving, HeldByWriter
<1>3. CASE At("wr_sleep") = {}
  <2>1. Go(t, "idle")
    BY <1>3 DEF Post, PostWriter
  <2> QED
    BY <1>1, <2>1, NeutralMaps, SameMaps DEF Neutral, Locations
<1>4. CASE At("wr_sleep") # {}
  <2>1. PICK w \in At("wr_sleep") : pc' = [pc EXCEPT ![t] = "idle", ![w] = "writing"]
    BY <1>4 DEF Post, PostWriter
  <2>2. w \in Threads /\ pc[w] = "wr_sleep" /\ w \in Queue /\ w # t
    BY <1>1, <2>1 DEF At, Queue
  <2>3. /\ At("reading")' = At("reading") /\ Queue' = Queue \ {w}
        /\ Holders' = Holders \cup {w}
    BY <1>1, <2>1, <2>2 DEF TypeOK, At, Holders, Queue
  <2>4. Abs!GrantWrite(w)
    BY <1>2, <2>2, <2>3 DEF HandedOver, Abs!GrantWrite
  <2> QED
    BY <2>2, <2>4
<1> QED
  BY <1>3, <1>4

LEMMA ReadersAreWokenMaps ==
    ASSUME TypeOK, NEW CONSTANT t \in Threads, Broadcast(t)
    PROVE  UNCHANGED Abs!absVars
<1>1. CASE At("rd_sleep") = {}
  <2>1. pc[t] = "bcast_rd" /\ Go(t, "idle")
    BY <1>1 DEF Broadcast, BroadcastReaders
  <2> QED
    BY <2>1, NeutralMaps, SameMaps DEF Neutral, Locations
<1>2. CASE At("rd_sleep") # {}
  <2>1. /\ pc[t] = "bcast_rd"
        /\ pc' = [u \in Threads |-> IF u = t THEN "idle"
                                    ELSE IF u \in At("rd_sleep") THEN "rd_retry"
                                    ELSE pc[u]]
    BY <1>2 DEF Broadcast, BroadcastReaders
  <2>2. Same
    BY <2>1 DEF TypeOK, At, Holders, Queue, Same
  <2> QED
    BY <2>2, SameMaps
<1> QED
  BY <1>1, <1>2

LEMMA StepMaps ==
    ASSUME Writers \cap Unattached = {}, IndInv, NEW CONSTANT t \in Threads,
           Acquire(t) \/ Proceed(t) \/ Interrupt(t)
    PROVE  Abs!AbsNext \/ UNCHANGED Abs!absVars
<1> USE DEF IndInv
<1>1. CASE LockRead(t) \/ RetryRead(t)
  <2>1. pc[t] \in {"idle", "rd_retry"} /\ TryRead(t)
    BY <1>1 DEF LockRead, RetryRead
  <2>2. CASE Go(t, "reading") /\ count > 0
    BY <2>1, <2>2, ReaderEntersMaps DEF Abs!AbsNext
  <2>3. CASE Go(t, "rd_wait") \/ Go(t, "assert")
    BY <2>1, <2>3, NeutralMaps, SameMaps DEF Neutral, Locations
  <2> QED
    BY <2>1, <2>2, <2>3 DEF TryRead, TypeOK, CountRange
<1>2. CASE TryLockRead(t) \/ TryLockWrite(t)
  <2>1. /\ pc[t] = "idle"
        /\ Go(t, "assert") \/ Go(t, "tryrd_cas") \/ Go(t, "trywr_cas")
    BY <1>2 DEF TryLockRead, TryLockWrite
  <2> QED
    BY <2>1, NeutralMaps, SameMaps DEF Neutral, Locations
<1>3. CASE LockWrite(t)
  BY <1>3, WriterRegistersMaps DEF Abs!AbsNext
<1>4. CASE WaitRead(t)
  <2>1. pc[t] = "rd_wait" /\ (Go(t, "rd_retry") \/ Go(t, "rd_sleep"))
    BY <1>4 DEF WaitRead, WaitFlag
  <2> QED
    BY <2>1, NeutralMaps, SameMaps DEF Neutral, Locations
<1>5. CASE TryLockReadCas(t)
  <2>1. CASE LoadedWord = prev[t]
    <3>1. count > 0
      BY <1>5, <2>1 DEF TryLockReadCas, CasReady, LoadedWord
    <3> QED
      BY <1>5, <2>1, <3>1, ReaderEntersMaps DEF TryLockReadCas, Abs!AbsNext
  <2>2. CASE LoadedWord # prev[t]
    BY <1>5, <2>2, NeutralMaps, SameMaps DEF TryLockReadCas, Neutral, Locations
  <2> QED
    BY <2>1, <2>2
<1>6. CASE TryLockWriteCas(t)
  <2>1. CASE LoadedWord = prev[t]
    <3>1. count = WRBIAS
      BY <1>6, <2>1 DEF TryLockWriteCas, CasReady, LoadedWord
    <3>2. OpenToReaders
      BY <3>1, PositiveIsOpen, ThreadSets, BiasAssumption, FS_CardinalityType
    <3>3. At("reading") = {}
      BY <3>1, <3>2, Sizes, BiasAssumption DEF OpenToReaders
    <3> QED
      BY <1>6, <2>1, <3>2, <3>3, WriterTakesMaps DEF TryLockWriteCas, Abs!AbsNext
  <2>2. CASE LoadedWord # prev[t]
    BY <1>6, <2>2, NeutralMaps, SameMaps DEF TryLockWriteCas, Neutral, Locations
  <2> QED
    BY <2>1, <2>2
<1>7. CASE UnlockRead(t)
  BY <1>7, ReaderLeavesMaps DEF Abs!AbsNext
<1>8. CASE UnlockWrite(t)
  BY <1>8, WriterLeavesMaps DEF Abs!AbsNext
<1>9. CASE WaitWrite(t)
  BY <1>9, WriterResumesMaps DEF Abs!AbsNext
<1>10. CASE Post(t)
  BY <1>10, GrantIsPostedMaps DEF Abs!AbsNext
<1>11. CASE Broadcast(t)
  BY <1>11, ReadersAreWokenMaps
<1>12. CASE WaitRefused(t)
  <2>1. pc[t] = "rd_wait" /\ Go(t, "idle")
    BY <1>12 DEF WaitRefused, Queue, At
  <2> QED
    BY <2>1, NeutralMaps, SameMaps DEF Neutral, Locations
<1>13. CASE Interrupt(t)
  <2>1. \/ pc[t] = "rd_sleep" /\ Go(t, "rd_wait")
        \/ pc[t] = "wr_sleep" /\ Go(t, "wr_wait")
    BY <1>13 DEF Interrupt
  <2> QED
    BY <2>1, NeutralMaps, SameMaps DEF Neutral, Locations
<1> QED
  BY <1>1, <1>2, <1>3, <1>4, <1>5, <1>6, <1>7, <1>8, <1>9, <1>10, <1>11, <1>12,
     <1>13 DEF Acquire, Proceed

(* The word, the flag group and the retries of the callers are a read-     *)
(* write lock: a registered writer bars later readers, and nobody          *)
(* overtakes it (evl_lock_read, evl_lock_write and their hand-overs), for  *)
(* any number of threads.                                                  *)
THEOREM RwLockImplements ==
    ASSUME Writers \cap Unattached = {}
    PROVE  Spec => Implements
<1>1. Init => Abs!AbsInit
  BY DEF Init, Abs!AbsInit, Holders, Queue, At
<1>2. IndInv /\ [Next]_vars => [Abs!AbsNext]_Abs!absVars
  <2> SUFFICES ASSUME IndInv, [Next]_vars PROVE Abs!AbsNext \/ UNCHANGED Abs!absVars
    OBVIOUS
  <2>1. CASE UNCHANGED vars
    BY <2>1 DEF vars, Abs!absVars, At, Holders, Queue
  <2>2. CASE Next
    BY <2>2, StepMaps DEF Next
  <2> QED
    BY <2>1, <2>2
<1> QED
  BY <1>1, <1>2, InvHolds, PTL DEF Spec, Implements, Abs!AbsSpec
=============================================================================
