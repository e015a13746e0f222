----------------------------- MODULE SemProofs -----------------------------
(***************************************************************************)
(* Proofs about both parts of MCSem.  Whatever the number of threads, the  *)
(* fast path of Sem and the requests to the core keep the books of the     *)
(* semaphore together.  Whatever the number of threads, descriptors and    *)
(* elements, every descriptor of the objects (Elements) is accounted for,  *)
(* an object which looks active is whole, and bad pointers have an         *)
(* explanation.                                                            *)
(***************************************************************************)
EXTENDS MCSem, FiniteSetTheorems, WellFoundedInduction, NaturalsInduction, TLAPS

Tokens == InitVal + posted - taken

(* The inductive invariant: the types without their bounds, the books, and *)
(* what is needed to bound them.                                           *)
Shape ==
    /\ value \in Int
    /\ life \in Lives
    /\ pc \in [Threads -> Locations]
    /\ result \in [Threads -> Results]
    /\ issued \in 0..MaxPuts /\ posted \in Nat /\ taken \in Nat

Books ==
    /\ Tokens >= 0
    /\ posted + Cardinality(InFlight) <= issued

ClosedIsEmpty ==
    life # "active" => Sleepers = {} /\ At("poll_sleep") = {}

Roles == At("get_try") \cup At("get_wait") \cup Sleepers \subseteq Getters

IndInv == Shape /\ Roles /\ Conservation /\ Books /\ PollNotMissed /\ ClosedIsEmpty

-----------------------------------------------------------------------------
LEMMA ThreadSets ==
    ASSUME NEW S \in SUBSET Threads
    PROVE  /\ IsFiniteSet(S)
           /\ Cardinality(S) \in Nat
           /\ Cardinality(S) = 0 <=> S = {}
<1>1. IsFiniteSet(S)
  BY SemAssumption, FS_Subset
<1> QED
  BY <1>1, FS_CardinalityType, FS_EmptySet

LEMMA ThreadJoins ==
    ASSUME NEW S \in SUBSET Threads, NEW t \in Threads, t \notin S
    PROVE  Cardinality(S \cup {t}) = Cardinality(S) + 1
BY ThreadSets, FS_AddElement

LEMMA ThreadLeaves ==
    ASSUME NEW S \in SUBSET Threads, NEW t \in S
    PROVE  Cardinality(S \ {t}) = Cardinality(S) - 1
BY ThreadSets, FS_RemoveElement

LEMMA Counted ==
    /\ Sleepers \in SUBSET Threads /\ InFlight \in SUBSET Threads
    /\ Cardinality(Sleepers) \in Nat /\ Cardinality(InFlight) \in Nat
    /\ Cardinality(Sleepers) = 0 <=> Sleepers = {}
    /\ Cardinality({}) = 0
<1>1. Sleepers \in SUBSET Threads /\ InFlight \in SUBSET Threads
  BY DEF Sleepers, InFlight, At
<1> QED
  BY <1>1, ThreadSets, FS_EmptySet

(* A waiting thread means that the value is negative. *)
LEMMA SleepersAreNegative == Shape /\ Conservation /\ Sleepers # {} => value < 0
BY Counted, SemAssumption DEF Shape, Conservation

LEMMA InitInv == Init => IndInv
<1> SUFFICES ASSUME Init PROVE IndInv
  OBVIOUS
<1>1. Sleepers = {} /\ InFlight = {} /\ At("poll_sleep") = {}
  BY DEF Init, Sleepers, InFlight, At
<1>2. Shape
  BY SemAssumption DEF Init, Shape, Lives, Locations, Results
<1>3. Conservation /\ Books
  BY <1>1, Counted, SemAssumption DEF Init, Conservation, Books, Tokens
<1>4. Roles
  BY <1>1 DEF Roles, Init, At
<1> QED
  BY <1>1, <1>2, <1>3, <1>4 DEF IndInv, PollNotMissed, ClosedIsEmpty, Init

LEMMA StepShape ==
    ASSUME Shape, NEW t \in Threads, Step(t)
    PROVE  Shape'
<1> USE SemAssumption DEF Shape, Go, Return, Locations, Results, Lives, At, Sleepers
<1>1. CASE Get(t) \/ TryGet(t) \/ TryGetOnly(t)
  BY <1>1 DEF Get, TryGet, TryGetOnly
<1>2. CASE WaitRequest(t) \/ StopWaiting(t)
  BY <1>2 DEF WaitRequest, StopWaiting
<1>3. CASE Put(t) \/ PutLoad(t) \/ PutTest(t)
  BY <1>3 DEF Put, PutLoad, PutTest
<1>4. CASE PutCas(t) \/ PutPolled(t)
  BY <1>4 DEF PutCas, PutPolled
<1>5. CASE SignalRequest(t)
  BY <1>5 DEF SignalRequest
<1>6. CASE Flush(t) \/ CloseFd(t)
  BY <1>6, Counted DEF Flush, CloseFd, WakeAll
<1>7. CASE Poll(t) \/ PollCheck(t)
  BY <1>7 DEF Poll, PollCheck
<1> QED
  BY <1>1, <1>2, <1>3, <1>4, <1>5, <1>6, <1>7 DEF Step

-----------------------------------------------------------------------------
(* Steps which leave the value and the sleepers alone. *)
LEMMA QuietStep ==
    ASSUME IndInv, NEW t \in Threads,
           Get(t) \/ Put(t) \/ PutLoad(t) \/ PutTest(t) \/ PutPolled(t)
             \/ Poll(t) \/ PollCheck(t)
    PROVE  Conservation' /\ Books' /\ PollNotMissed' /\ ClosedIsEmpty'
<1> USE DEF IndInv
<1>1. UNCHANGED <<value, life, posted, taken>>
  BY DEF Get, Put, PutLoad, PutTest, PutPolled, Poll, PollCheck
<1>2. Sleepers' = Sleepers
  BY DEF Get, Put, PutLoad, PutTest, PutPolled, Poll, PollCheck, Sleepers, At,
         Go,
         Return, Shape
<1>3. Conservation'
  BY <1>1, <1>2 DEF Conservation
<1>4. posted' + Cardinality(InFlight') <= issued'
  <2>1. CASE Put(t)
    <3>1. InFlight' = InFlight \cup {t} /\ t \notin InFlight /\ issued' = issued + 1
      BY <2>1 DEF Put, InFlight, At, Go, Shape
    <3>2. Cardinality(InFlight') = Cardinality(InFlight) + 1
      BY <3>1, Counted, ThreadJoins
    <3> QED
      BY <1>1, <3>1, <3>2, Counted DEF Books, Shape
  <2>2. CASE ~Put(t)
    <3>1. issued' = issued /\ InFlight' \subseteq InFlight
      BY <2>2 DEF Get, PutLoad, PutTest, PutPolled, Poll, PollCheck, InFlight,
         At, Go,
                  Return, Shape
    <3>2. Cardinality(InFlight') <= Cardinality(InFlight) /\ Cardinality(InFlight') \in Nat
      BY <3>1, Counted, ThreadSets, FS_Subset
    <3> QED
      BY <1>1, <3>1, <3>2, Counted DEF Books, Shape
  <2> QED
    BY <2>1, <2>2
<1>5. Books'
  BY <1>1, <1>2, <1>4 DEF Books, Tokens
<1>6. PollNotMissed'
  <2>1. CASE PollCheck(t)
    BY <2>1, <1>1 DEF PollCheck, PollNotMissed, At, Go, Shape
  <2>2. CASE PutPolled(t)
    BY <2>2, <1>1 DEF PutPolled, PollNotMissed, Polled, At, Go, Shape
  <2>3. CASE ~PollCheck(t) /\ ~PutPolled(t)
    BY <2>3, <1>1 DEF Get, Put, PutLoad, PutTest, Poll, PollNotMissed, At, Go,
                      Return, Shape
  <2> QED
    BY <2>1, <2>2, <2>3
<1>7. ClosedIsEmpty'
  BY <1>1, <1>2 DEF ClosedIsEmpty, Get, Put, PutLoad, PutTest, PutPolled, Poll,
                    PollCheck, At, Go, Return, Shape
<1> QED
  BY <1>3, <1>5, <1>6, <1>7

(* Taking a token on the fast path. *)
LEMMA TakeStep ==
    ASSUME IndInv, NEW t \in Threads, TryGet(t) \/ TryGetOnly(t)
    PROVE  Conservation' /\ Books' /\ PollNotMissed' /\ ClosedIsEmpty'
<1> USE DEF IndInv
<1>1. UNCHANGED <<life, issued, posted>>
  BY DEF TryGet, TryGetOnly
<1>2. /\ Sleepers' = Sleepers /\ InFlight' = InFlight
      /\ At("poll_sleep")' = At("poll_sleep")
      /\ (At("put_polled") \cup At("put_notify"))' = At("put_polled") \cup At("put_notify")
  BY DEF TryGet, TryGetOnly, Sleepers, InFlight, At, Go, Return, Shape
<1>3. \/ value' = value /\ taken' = taken
      \/ value > 0 /\ value' = value - 1 /\ taken' = taken + 1
  BY DEF TryGet, TryGetOnly
<1>4. Conservation' /\ Tokens' >= 0
  <2>1. CASE value' = value /\ taken' = taken
    BY <2>1, <1>1, <1>2 DEF Conservation, Books, Tokens
  <2>2. CASE value > 0 /\ value' = value - 1 /\ taken' = taken + 1
    <3>1. Sleepers = {}
      BY <2>2, SleepersAreNegative DEF Shape
    <3> QED
      BY <2>2, <3>1, <1>1, <1>2, Counted, SemAssumption
         DEF Conservation, Tokens, Shape
  <2> QED
    BY <1>3, <2>1, <2>2
<1>5. Books'
  BY <1>1, <1>2, <1>4 DEF Books
<1>6. PollNotMissed' /\ ClosedIsEmpty'
  BY <1>1, <1>2, <1>3 DEF PollNotMissed, ClosedIsEmpty, Shape
<1> QED
  BY <1>4, <1>5, <1>6

-----------------------------------------------------------------------------
(* The requests to the core.  Going to sleep counts below zero. *)
LEMMA WaitStep ==
    ASSUME IndInv, NEW t \in Threads, WaitRequest(t)
    PROVE  Conservation' /\ Books' /\ PollNotMissed' /\ ClosedIsEmpty'
<1> USE DEF IndInv
<1>1. UNCHANGED <<life, issued, posted>> /\ pc[t] = "get_wait"
  BY DEF WaitRequest
<1>2. /\ InFlight' = InFlight /\ At("poll_sleep")' = At("poll_sleep")
      /\ (At("put_polled") \cup At("put_notify"))' = At("put_polled") \cup At("put_notify")
  BY <1>1 DEF WaitRequest, InFlight, At, Go, Return, Shape
<1>3. CASE life # "active"
  <2>1. Sleepers' = Sleepers /\ UNCHANGED <<value, taken>>
    BY <1>1, <1>3 DEF WaitRequest, Sleepers, At, Go, Return, Shape
  <2> QED
    BY <1>1, <1>2, <2>1 DEF Conservation, Books, Tokens, PollNotMissed,
       ClosedIsEmpty
<1>4. CASE life = "active" /\ value > 0
  <2>1. /\ Sleepers' = Sleepers /\ value' = value - 1 /\ taken' = taken + 1
    BY <1>1, <1>4 DEF WaitRequest, Sleepers, At, Go, Return, Shape
  <2>2. Sleepers = {}
    BY <1>4, SleepersAreNegative DEF Shape
  <2>3. Conservation' /\ Tokens' >= 0
    BY <1>1, <1>4, <2>1, <2>2, Counted, SemAssumption DEF Conservation, Tokens,
       Shape
  <2> QED
    BY <1>1, <1>2, <1>4, <2>1, <2>3 DEF Books, PollNotMissed, ClosedIsEmpty,
       Shape
<1>5. CASE life = "active" /\ ~(value > 0)
  <2>1. /\ value' = value - 1 /\ taken' = taken
        /\ t \notin Sleepers /\ Sleepers' = Sleepers \cup {t}
    BY <1>1, <1>5 DEF WaitRequest, Sleepers, At, Go, Return, Shape
  <2>2. Cardinality(Sleepers') = Cardinality(Sleepers) + 1
    BY <2>1, Counted, ThreadJoins
  <2>3. Tokens = 0
    BY <1>5, Counted, SemAssumption DEF Conservation, Books, Tokens, Shape
  <2>4. Conservation' /\ Tokens' >= 0
    BY <1>1, <2>1, <2>2, <2>3, Counted, SemAssumption DEF Conservation, Tokens,
       Shape
  <2>5. Books'
    BY <1>1, <1>2, <2>1, <2>4 DEF Books
  <2>6. PollNotMissed' /\ ClosedIsEmpty'
    BY <1>1, <1>2, <1>5, <2>1 DEF PollNotMissed, ClosedIsEmpty, Shape
  <2> QED
    BY <2>4, <2>5, <2>6
<1> QED
  BY <1>3, <1>4, <1>5

LEMMA StopStep ==
    ASSUME IndInv, NEW t \in Threads, StopWaiting(t)
    PROVE  Conservation' /\ Books' /\ PollNotMissed' /\ ClosedIsEmpty'
<1> USE DEF IndInv
<1>1. /\ UNCHANGED <<life, issued, posted, taken>> /\ value' = value + 1
      /\ t \in Sleepers /\ Sleepers' = Sleepers \ {t}
      /\ InFlight' = InFlight /\ At("poll_sleep")' = At("poll_sleep")
  BY DEF StopWaiting, Sleepers, InFlight, At, Go, Return, Shape
<1>2. Cardinality(Sleepers') = Cardinality(Sleepers) - 1
  BY <1>1, Counted, ThreadLeaves
<1>3. value < 0
  BY <1>1, SleepersAreNegative
<1>4. Conservation'
  BY <1>1, <1>2, Counted, SemAssumption DEF Conservation, Shape
<1>5. Books'
  BY <1>1 DEF Books, Tokens
<1>6. PollNotMissed' /\ ClosedIsEmpty'
  BY <1>1, <1>3 DEF PollNotMissed, ClosedIsEmpty, Shape
<1> QED
  BY <1>4, <1>5, <1>6

LEMMA PutCasStep ==
    ASSUME IndInv, NEW t \in Threads, PutCas(t)
    PROVE  Conservation' /\ Books' /\ PollNotMissed' /\ ClosedIsEmpty'
<1> USE DEF IndInv
<1>1. /\ UNCHANGED <<life, issued, taken>> /\ pc[t] = "put_cas" /\ t \in InFlight
      /\ Sleepers' = Sleepers /\ At("poll_sleep")' = At("poll_sleep")
  BY DEF PutCas, Sleepers, InFlight, At, Go, Shape
<1>2. CASE value < 0
  <2>1. UNCHANGED <<value, posted>> /\ InFlight' = InFlight
    BY <1>1, <1>2 DEF PutCas, InFlight, At, Go, Shape
  <2> QED
    BY <1>1, <1>2, <2>1 DEF Conservation, Books, Tokens, PollNotMissed,
       ClosedIsEmpty, Shape
<1>3. CASE ~(value < 0)
  <2>1. /\ value' = value + 1 /\ posted' = posted + 1
        /\ InFlight' = InFlight \ {t} /\ t \in At("put_polled")'
    BY <1>1, <1>3 DEF PutCas, InFlight, At, Go, Shape
  <2>2. Cardinality(InFlight') = Cardinality(InFlight) - 1
    BY <1>1, <2>1, Counted, ThreadLeaves
  <2>3. Sleepers = {}
    BY <1>3, SleepersAreNegative DEF Shape
  <2>4. Conservation'
    BY <1>1, <2>1, <2>3, Counted, SemAssumption DEF Conservation, Shape
  <2>5. Books'
    BY <1>1, <2>1, <2>2, Counted, SemAssumption DEF Books, Tokens, Shape
  <2> QED
    BY <1>1, <2>1, <2>4, <2>5 DEF PollNotMissed, ClosedIsEmpty
<1> QED
  BY <1>2, <1>3

LEMMA SignalStep ==
    ASSUME IndInv, NEW t \in Threads, SignalRequest(t)
    PROVE  Conservation' /\ Books' /\ PollNotMissed' /\ ClosedIsEmpty'
<1> USE DEF IndInv
<1>1. UNCHANGED <<life, issued>> /\ pc[t] \in {"put_signal", "put_notify"}
  BY DEF SignalRequest
<1> DEFINE sigval == IF pc[t] = "put_signal" THEN 1 ELSE 0
<1>2. InFlight' = InFlight \ {t} /\ (t \in InFlight <=> pc[t] = "put_signal")
  BY <1>1 DEF SignalRequest, InFlight, Sleepers, At, Go, Shape
<1>3. Cardinality(InFlight') = Cardinality(InFlight) - sigval
  <2>1. CASE pc[t] = "put_signal"
    <3>1. Cardinality(InFlight') = Cardinality(InFlight) - 1
      BY <1>2, <2>1, Counted, ThreadLeaves
    <3> QED
      BY <2>1, <3>1
  <2>2. CASE pc[t] # "put_signal"
    <3>1. InFlight' = InFlight
      BY <1>2, <2>2
    <3> QED
      BY <2>2, <3>1, Counted
  <2> QED
    BY <2>1, <2>2
<1>4. CASE life # "active"
  <2>1. UNCHANGED <<value, posted, taken>> /\ Sleepers' = Sleepers
        /\ At("poll_sleep")' = At("poll_sleep")
    BY <1>1, <1>4 DEF SignalRequest, Sleepers, At, Go, Shape
  <2>2. posted' + Cardinality(InFlight') <= issued'
    BY <1>1, <1>3, <2>1, Counted DEF Books, Shape
  <2> QED
    BY <1>1, <1>4, <2>1, <2>2 DEF Conservation, Books, Tokens, PollNotMissed,
       ClosedIsEmpty
<1>5. CASE life = "active"
  <2>1. value' = value + sigval /\ posted' = posted + sigval
    BY <1>5 DEF SignalRequest
  <2>2. posted' + Cardinality(InFlight') <= issued'
    BY <1>1, <1>3, <2>1, Counted DEF Books, Shape
  <2>3. CASE sigval = 1 /\ Sleepers # {}
    <3>1. PICK w \in Sleepers : /\ pc' = [pc EXCEPT ![t] = "idle", ![w] = "idle"]
                                /\ taken' = taken + 1
      BY <1>5, <2>3 DEF SignalRequest
    <3>2. Sleepers' = Sleepers \ {w}
      BY <1>1, <3>1 DEF Sleepers, At, Shape
    <3>3. Cardinality(Sleepers') = Cardinality(Sleepers) - 1
      BY <3>2, Counted, ThreadLeaves
    <3>4. value < 0
      BY <2>3, SleepersAreNegative
    <3>5. Conservation' /\ Tokens' >= 0
      BY <2>1, <2>3, <3>1, <3>2, <3>3, Counted, SemAssumption
         DEF Conservation, Books, Tokens, Shape
    <3> QED
      BY <1>5, <1>1, <2>1, <2>2, <2>3, <3>2, <3>4, <3>5
         DEF Books, PollNotMissed, ClosedIsEmpty, Shape
  <2>4. CASE ~(sigval = 1 /\ Sleepers # {})
    <3>1. /\ pc' = [u \in Threads |-> IF u = t \/ pc[u] = "poll_sleep" THEN "idle"
                                      ELSE pc[u]]
          /\ taken' = taken
      BY <1>5, <2>4 DEF SignalRequest
    <3>2. Sleepers' = Sleepers /\ At("poll_sleep")' = {}
      BY <1>1, <3>1 DEF Sleepers, At, Shape
    <3>3. Conservation' /\ Tokens' >= 0
      BY <2>1, <2>4, <3>1, <3>2, Counted, SemAssumption
         DEF Conservation, Books, Tokens, Shape
    <3> QED
      BY <1>5, <1>1, <2>2, <3>2, <3>3 DEF Books, PollNotMissed, ClosedIsEmpty
  <2> QED
    BY <2>3, <2>4
<1> QED
  BY <1>4, <1>5

(* Everybody leaves: the value is what is left. *)
LEMMA WakeAllStep ==
    ASSUME IndInv, NEW t \in Threads, Flush(t) \/ CloseFd(t)
    PROVE  Conservation' /\ Books' /\ PollNotMissed' /\ ClosedIsEmpty'
<1> USE DEF IndInv
<1>1. /\ UNCHANGED <<issued, posted, taken>> /\ pc[t] = "idle"
      /\ value' = value + Cardinality(Sleepers)
  BY DEF Flush, CloseFd, WakeAll
<1>2. Sleepers' = {} /\ InFlight' = InFlight
  BY DEF Flush, CloseFd, Sleepers, InFlight, At, Shape
<1>3. Conservation' /\ Books'
  BY <1>1, <1>2, Counted, SemAssumption DEF Conservation, Books, Tokens, Shape
<1>4. CASE Flush(t)
  <2>1. At("poll_sleep")' = At("poll_sleep") /\ life' = life
        /\ (At("put_polled") \cup At("put_notify"))' = At("put_polled") \cup At("put_notify")
    BY <1>4 DEF Flush, Sleepers, At, Shape
  <2>2. value' > 0 => value > 0
    BY <1>1, Counted, SemAssumption DEF Conservation, Shape
  <2> QED
    BY <1>2, <1>3, <2>1, <2>2 DEF PollNotMissed, ClosedIsEmpty
<1>5. CASE CloseFd(t)
  <2>1. At("poll_sleep")' = {}
    BY <1>5 DEF CloseFd, At, Shape
  <2> QED
    BY <1>2, <1>3, <2>1 DEF PollNotMissed, ClosedIsEmpty
<1> QED
  BY <1>4, <1>5

(* Only getters wait. *)
LEMMA StepRoles ==
    ASSUME Shape, Roles, NEW t \in Threads, Step(t)
    PROVE  Roles'
<1> USE DEF Shape, Roles, Sleepers, At, Go, Return
<1>1. CASE Get(t) \/ TryGet(t) \/ TryGetOnly(t)
  BY <1>1 DEF Get, TryGet, TryGetOnly
<1>2. CASE WaitRequest(t) \/ StopWaiting(t)
  BY <1>2 DEF WaitRequest, StopWaiting
<1>3. CASE Put(t) \/ PutLoad(t) \/ PutTest(t)
  BY <1>3 DEF Put, PutLoad, PutTest
<1>4. CASE PutCas(t) \/ PutPolled(t)
  BY <1>4 DEF PutCas, PutPolled
<1>5. CASE SignalRequest(t)
  BY <1>5 DEF SignalRequest
<1>6. CASE Flush(t) \/ CloseFd(t)
  BY <1>6 DEF Flush, CloseFd
<1>7. CASE Poll(t) \/ PollCheck(t)
  BY <1>7 DEF Poll, PollCheck
<1> QED
  BY <1>1, <1>2, <1>3, <1>4, <1>5, <1>6, <1>7 DEF Step

LEMMA StepInv == IndInv /\ [Next]_vars => IndInv'
<1> SUFFICES ASSUME IndInv, [Next]_vars PROVE IndInv'
  OBVIOUS
<1>1. CASE UNCHANGED vars
  BY <1>1 DEF vars, IndInv, Shape, Roles, Conservation, Books, Tokens,
     InFlight,
              PollNotMissed, ClosedIsEmpty, Sleepers, At
<1>2. CASE CloseDescriptor
  <2>1. life # "active" /\ life' \in Lives
        /\ UNCHANGED <<value, pc, result, issued, posted, taken>>
    BY <1>2 DEF CloseDescriptor, CloseState, CloseMagic, Lives
  <2> QED
    BY <2>1 DEF IndInv, Shape, Roles, Conservation, Books, Tokens, InFlight,
                PollNotMissed, ClosedIsEmpty, Sleepers, At
<1>3. ASSUME NEW t \in Threads, Step(t) PROVE IndInv'
  <2>1. Shape' /\ Roles'
    BY <1>3, StepShape, StepRoles DEF IndInv
  <2>2. Conservation' /\ Books' /\ PollNotMissed' /\ ClosedIsEmpty'
    BY <1>3, QuietStep, TakeStep, WaitStep, StopStep, PutCasStep, SignalStep,
       WakeAllStep DEF Step
  <2> QED
    BY <2>1, <2>2 DEF IndInv
<1> QED
  BY <1>1, <1>2, <1>3 DEF Next

LEMMA InvHolds == Spec => []IndInv
BY InitInv, StepInv, PTL DEF Spec

(* Tokens are neither lost nor made up, and nobody sleeps on an available  *)
(* one, whatever the number of getters, posters and pollers.               *)
THEOREM TokensAreConserved == Spec => []Conservation
<1>1. IndInv => Conservation
  BY DEF IndInv
<1> QED
  BY <1>1, InvHolds, PTL

(* A poller never sleeps over a token nobody is about to tell it of        *)
(* (the two tests of is_polled() in evl_put_sem).                          *)
THEOREM PollersAreNotified == Spec => []PollNotMissed
<1>1. IndInv => PollNotMissed
  BY DEF IndInv
<1> QED
  BY <1>1, InvHolds, PTL

(* The value stays between minus the number of getters and what was put    *)
(* into the semaphore.                                                     *)
THEOREM SemTypeCorrect == Spec => []TypeOK
<1>1. ASSUME IndInv PROVE TypeOK
  <2> USE <1>1 DEF IndInv
  <2>1. Getters \in SUBSET Threads /\ Sleepers \in SUBSET Getters
    BY SemAssumption DEF Roles
  <2>2. Cardinality(Sleepers) <= Cardinality(Getters) /\ Cardinality(Getters) \in Nat
    BY <2>1, ThreadSets, FS_Subset
  <2>3. posted <= issued /\ taken <= InitVal + posted
    BY Counted, SemAssumption DEF Books, Tokens, Shape
  <2>4. value >= -Cardinality(Getters) /\ value <= InitVal + posted
    BY <2>2, <2>3, Counted, SemAssumption DEF Conservation, Shape
  <2> QED
    BY <2>2, <2>3, <2>4, SemAssumption DEF TypeOK, Shape
<1> QED
  BY <1>1, InvHolds, PTL

-----------------------------------------------------------------------------
(* The semaphore implements its abstract specification.  What a step does  *)
(* to the value and to the sleepers decides which abstract step it is.     *)
LEMMA QuietStepMaps ==
    ASSUME IndInv, NEW t \in Threads,
           Get(t) \/ Put(t) \/ PutLoad(t) \/ PutTest(t) \/ PutPolled(t)
             \/ Poll(t) \/ PollCheck(t)
    PROVE  UNCHANGED Abs!absVars
<1>1. value' = value
  BY DEF Get, Put, PutLoad, PutTest, PutPolled, Poll, PollCheck
<1>2. Sleepers' = Sleepers
  BY DEF Get, Put, PutLoad, PutTest, PutPolled, Poll, PollCheck, Sleepers, At,
         Go,
         Return, IndInv, Shape
<1> QED
  BY <1>1, <1>2 DEF Abs!absVars

LEMMA TakeStepMaps ==
    ASSUME IndInv, NEW t \in Threads, TryGet(t) \/ TryGetOnly(t)
    PROVE  Abs!Take \/ UNCHANGED Abs!absVars
<1>1. Sleepers' = Sleepers
  BY DEF TryGet, TryGetOnly, Sleepers, At, Go, Return, IndInv, Shape
<1>2. \/ value' = value
      \/ value > 0 /\ value' = value - 1
  BY DEF TryGet, TryGetOnly, IndInv, Shape
<1> QED
  BY <1>1, <1>2 DEF Abs!Take, Abs!absVars, IndInv, Shape

LEMMA WaitStepMaps ==
    ASSUME IndInv, NEW t \in Threads, WaitRequest(t)
    PROVE  Abs!Take \/ Abs!Wait(t) \/ UNCHANGED Abs!absVars
<1>1. pc[t] = "get_wait" /\ t \notin Sleepers
  BY DEF WaitRequest, Sleepers, At
<1>2. CASE life # "active"
  <2>1. value' = value /\ Sleepers' = Sleepers
    BY <1>1, <1>2 DEF WaitRequest, Sleepers, At, Go, Return, IndInv, Shape
  <2> QED
    BY <2>1 DEF Abs!absVars
<1>3. CASE life = "active" /\ value > 0
  <2>1. value' = value - 1 /\ Sleepers' = Sleepers
    BY <1>1, <1>3 DEF WaitRequest, Sleepers, At, Go, Return, IndInv, Shape
  <2> QED
    BY <1>3, <2>1 DEF Abs!Take, IndInv, Shape
<1>4. CASE life = "active" /\ ~ (value > 0)
  <2>1. value' = value - 1 /\ Sleepers' = Sleepers \cup {t}
    BY <1>1, <1>4 DEF WaitRequest, Sleepers, At, Go, Return, IndInv, Shape
  <2> QED
    BY <1>1, <1>4, <2>1 DEF Abs!Wait, IndInv, Shape
<1> QED
  BY <1>2, <1>3, <1>4

LEMMA StopStepMaps ==
    ASSUME IndInv, NEW t \in Threads, StopWaiting(t)
    PROVE  Abs!GiveUp(t)
<1>1. value' = value + 1 /\ t \in Sleepers /\ Sleepers' = Sleepers \ {t}
  BY DEF StopWaiting, Sleepers, At, Go, Return, IndInv, Shape
<1>2. value < 0
  BY <1>1, SleepersAreNegative DEF IndInv
<1> QED
  BY <1>1, <1>2 DEF Abs!GiveUp, IndInv, Shape

LEMMA PutCasStepMaps ==
    ASSUME IndInv, NEW t \in Threads, PutCas(t)
    PROVE  Abs!Put \/ UNCHANGED Abs!absVars
<1>1. Sleepers' = Sleepers
  BY DEF PutCas, Sleepers, At, Go, IndInv, Shape
<1>2. \/ value < 0 /\ value' = value
      \/ ~ (value < 0) /\ value' = value + 1
  BY DEF PutCas, IndInv, Shape
<1>3. ~ (value < 0) => Sleepers = {}
  BY SleepersAreNegative DEF IndInv
<1> QED
  BY <1>1, <1>2, <1>3 DEF Abs!Put, Abs!absVars, IndInv, Shape

LEMMA SignalStepMaps ==
    ASSUME IndInv, NEW t \in Threads, SignalRequest(t)
    PROVE  Abs!Put \/ UNCHANGED Abs!absVars
<1> DEFINE sigval == IF pc[t] = "put_signal" THEN 1 ELSE 0
<1>1. pc[t] \in {"put_signal", "put_notify"}
  BY DEF SignalRequest
<1>2. CASE life # "active"
  <2>1. value' = value /\ Sleepers' = Sleepers
    BY <1>1, <1>2 DEF SignalRequest, Sleepers, At, Go, IndInv, Shape
  <2> QED
    BY <2>1 DEF Abs!absVars
<1>3. CASE life = "active" /\ sigval = 1 /\ Sleepers # {}
  <2>1. value' = value + 1
    BY <1>3 DEF SignalRequest
  <2>2. PICK w \in Sleepers : pc' = [pc EXCEPT ![t] = "idle", ![w] = "idle"]
    BY <1>3 DEF SignalRequest
  <2>3. Sleepers' = Sleepers \ {w}
    BY <1>1, <2>2 DEF Sleepers, At, IndInv, Shape
  <2>4. value < 0
    BY <1>3, SleepersAreNegative DEF IndInv
  <2> QED
    BY <2>1, <2>3, <2>4 DEF Abs!Put, IndInv, Shape
<1>4. CASE life = "active" /\ ~ (sigval = 1 /\ Sleepers # {})
  <2>1. /\ value' = value + sigval
        /\ pc' = [u \in Threads |-> IF u = t \/ pc[u] = "poll_sleep" THEN "idle" ELSE pc[u]]
    BY <1>4 DEF SignalRequest
  <2>2. Sleepers' = Sleepers
    BY <1>1, <2>1 DEF Sleepers, At, IndInv, Shape
  <2>3. CASE sigval = 0
    BY <2>1, <2>2, <2>3 DEF Abs!absVars, IndInv, Shape
  <2>4. CASE sigval = 1
    <3>1. Sleepers = {} /\ value >= 0
      BY <1>4, <2>4, Counted, SemAssumption DEF IndInv, Shape, Conservation,
         Books, Tokens
    <3> QED
      BY <2>1, <2>2, <2>4, <3>1 DEF Abs!Put, IndInv, Shape
  <2> QED
    BY <2>3, <2>4
<1> QED
  BY <1>2, <1>3, <1>4

LEMMA WakeAllStepMaps ==
    ASSUME IndInv, NEW t \in Threads, Flush(t) \/ CloseFd(t)
    PROVE  Abs!Flush
<1>1. value' = value + Cardinality(Sleepers)
  BY DEF Flush, CloseFd, WakeAll
<1>2. Sleepers' = {}
  BY DEF Flush, CloseFd, Sleepers, At, IndInv, Shape
<1>3. CASE Sleepers = {}
  BY <1>1, <1>2, <1>3, Counted DEF Abs!Flush, IndInv, Shape
<1>4. CASE Sleepers # {}
  <2>1. value' = 0 /\ value < 0
    BY <1>1, <1>4, SleepersAreNegative, Counted, SemAssumption
       DEF IndInv, Shape, Conservation
  <2> QED
    BY <1>2, <2>1 DEF Abs!Flush, IndInv, Shape
<1> QED
  BY <1>3, <1>4

LEMMA StepMaps == IndInv /\ [Next]_vars => [Abs!AbsNext]_Abs!absVars
<1> SUFFICES ASSUME IndInv, [Next]_vars PROVE Abs!AbsNext \/ UNCHANGED Abs!absVars
  OBVIOUS
<1>1. CASE UNCHANGED vars \/ CloseDescriptor
  BY <1>1 DEF vars, CloseDescriptor, Abs!absVars, Sleepers, At
<1>2. ASSUME NEW t \in Threads, Step(t) PROVE Abs!AbsNext \/ UNCHANGED Abs!absVars
  BY <1>2, QuietStepMaps, TakeStepMaps, WaitStepMaps, StopStepMaps,
     PutCasStepMaps,
     SignalStepMaps, WakeAllStepMaps DEF Step, Abs!AbsNext
<1> QED
  BY <1>1, <1>2 DEF Next

(* The fast path and the requests to the core, poll and close together are *)
(* a counting semaphore: a put serves one sleeper or adds one token, and   *)
(* no token is given to a caller while others sleep.                       *)
THEOREM SemImplements == Spec => Implements
<1>1. Init => Abs!AbsInit
  <2> SUFFICES ASSUME Init PROVE Abs!AbsInit
    OBVIOUS
  <2>1. Sleepers = {}
    BY DEF Init, Sleepers, At
  <2> QED
    BY <2>1, SemAssumption DEF Init, Abs!AbsInit
<1> QED
  BY <1>1, StepMaps, InvHolds, PTL DEF Spec, Implements, Abs!AbsSpec

-----------------------------------------------------------------------------
(* The objects: their inductive invariant *)

Opened == {"clone", "device", "flip", "unwind"}    \* with a clone device
Closing == {"close", "clear", "bury"}

(* The threads which are about to fill the object. *)
Making(t) == step[t] \in {"factory", "bind", "state", "efd", "magic"} \cup Opened
             /\ ~ lv[t].other

(* The types, by groups of variables; the elements which the descriptors   *)
(* are on have been made.                                                  *)
CallType(m) == [other : BOOLEAN, pub : BOOLEAN, late : BOOLEAN,
                ffd : Objects!Fds \cup {Objects!None}, efd : Objects!Fds \cup {Objects!None}, elt : 0..m]

Places == step \in [Objects!Callers -> Objects!Locations]
      /\ faulted = {t \in Objects!Callers : step[t] = "faulted"}

Calls == lv \in [Objects!Callers -> CallType(made)]

Files ==
    /\ fd \in [Objects!Fds -> Objects!Ids \cup {NoFile, Factory, Lost}]
    /\ \A n \in Objects!Fds : fd[n] \in Objects!Ids => fd[n] <= made

Elts ==
    /\ made \in 0..MaxElements
    /\ kept \subseteq 1..made /\ public \subseteq 1..made
    /\ protocol \in [Objects!Ids -> Objects!Protocols] /\ garbled \subseteq 1..made

Fields ==
    /\ kind \in ObjectKinds /\ mapped \in BOOLEAN
    /\ magic \in {"uninit", "active", "dead"}
    /\ state \in 0..made /\ efd \in Objects!Fds \cup {Objects!None}
    /\ raced \in BOOLEAN /\ torn \in BOOLEAN /\ overlapped \subseteq Users

TypeInv == Places /\ Calls /\ Files /\ Elts /\ Fields

(* What a thread has in its local variables, by the place where it is. *)
CallOK(t) ==
    /\ step[t] \in {"idle", "deref", "request"} \/ (step[t] = "faulted" /\ t # Owner) =>
            /\ ~ lv[t].other
            /\ lv[t].ffd = Objects!None /\ lv[t].efd = Objects!None /\ lv[t].elt = Objects!None
    /\ lv[t].late => t # Owner /\ step[t] \in Opened \cup {"state", "efd", "magic"}
    /\ step[t] \in {"factory", "clone"} => lv[t].elt = Objects!None
    /\ step[t] \in Opened <=> lv[t].ffd # Objects!None
    /\ step[t] \in {"factory", "clone", "device"} => lv[t].efd = Objects!None
    /\ step[t] \in {"bind", "state", "efd", "magic", "held", "flip"}
            => lv[t].efd # Objects!None
    /\ step[t] \in Opened \cup {"bind", "state", "efd", "magic", "held"}
            /\ lv[t].efd # Objects!None
            => lv[t].elt # Objects!None
    /\ step[t] = "device" => lv[t].elt # Objects!None
    /\ lv[t].other => t = Owner /\ step[t] \in Opened \cup {"factory", "held"}
    /\ step[t] = "held" => lv[t].other
    /\ step[t] \in Closing \cup {"bind", "held"} => t = Owner
    /\ step[t] = "deref" => t # Owner

LocalInv == \A t \in Objects!Callers : CallOK(t)

(* A clone device is in the hands of the call which opened it. *)
FactoryHeld ==
    \A n \in Objects!Fds : fd[n] = Factory =>
        \E t \in Objects!Callers : step[t] \in Opened /\ lv[t].ffd = n

(* Only the owner makes public elements, and it reads no attributes. *)
PublicInv ==
    /\ public \cap garbled = {}
    /\ \A t \in Users : ~ lv[t].pub

(* The magic word tells who may be at work on the object: unless a close   *)
(* cut in on a creation, no user is once the object is being closed.       *)
MagicInv ==
    /\ magic = "uninit" => mapped /\ ~ torn /\ ~ Making(Owner)
    /\ magic = "active" => mapped
    /\ \A t \in Objects!Callers : step[t] \in {"efd", "magic"} => mapped
    /\ \A t \in Users : Making(t) => mapped
    /\ step[Owner] \in Closing => magic = "active"
    /\ torn => raced
    /\ Making(Owner) /\ raced => torn
    /\ ~ torn /\ (magic = "dead" \/ step[Owner] \in Closing)
          => \A t \in Users : ~ Making(t)

(* Without a race, one thread is at work on it; a user which has not met   *)
(* another creator, or a close, is alone on a static object.               *)
Alone ==
    ~ raced => \A t \in Objects!Callers : Making(t) =>
        /\ magic = IF t = Owner THEN "dead" ELSE "uninit"
        /\ \A u \in Objects!Callers : Making(u) => u = t

Undisturbed ==
    \A t \in Users : Making(t) /\ t \notin overlapped =>
        /\ magic = "uninit"
        /\ \A u \in Objects!Callers : Making(u) => u = t

AloneInv == Alone /\ Undisturbed

(* The descriptor of an object which is not active, or no more, is not     *)
(* open by accident.                                                       *)
StoredEfd ==
    ~ raced =>
        /\ \A t \in Objects!Callers : step[t] = "magic" => efd = lv[t].efd
        /\ magic # "active" /\ efd # Objects!None /\ fd[efd] \in Objects!Ids
              => \E u \in Objects!Callers : Objects!Holds(u, efd)

ClosedEfd ==
    ~ torn =>
        /\ step[Owner] \in {"clear", "bury"} /\ efd # Objects!None /\ fd[efd] \in Objects!Ids
              => \E u \in Objects!Callers : Objects!Holds(u, efd)
        /\ step[Owner] \in Closing /\ Objects!traits.clearsFirst => efd = Objects!None
        /\ step[Owner] = "close" /\ ~ Objects!traits.clearsFirst => lv[Owner].efd = efd
        /\ step[Owner] = "close" => lv[Owner].efd # Objects!None

EfdInv == StoredEfd /\ ClosedEfd

(* The elements which the object may be bound to. *)
Good == {e \in Objects!Ids : protocol[e] \in Objects!traits.accepts}

(* As long as no close cuts in on a creation, descriptors are open and in  *)
(* the hands of one call, and that of the object is open.                  *)
Bound == magic # "dead" /\ step[Owner] \notin Closing

HeldOnce ==
    \A t \in Objects!Callers, n \in Objects!Fds : Objects!Holds(t, n) =>
        /\ fd[n] # NoFile
        /\ n = efd /\ Bound => step[t] = "magic"
        /\ \A u \in Objects!Callers : Objects!Holds(u, n) => u = t

HeldFiles ==
    \A t \in Objects!Callers :
        /\ step[t] \in Opened => fd[lv[t].ffd] = Factory
        /\ step[t] \in Opened \cup {"bind", "state", "efd", "magic", "held"}
                /\ lv[t].efd # Objects!None
                => fd[lv[t].efd] = lv[t].elt

ObjectFile == Bound /\ efd # Objects!None => fd[efd] \in Good

OwnInv == ~ torn => HeldOnce /\ HeldFiles /\ ObjectFile

(* When a close clears the descriptor first, this holds of those which are *)
(* not in the object yet, or no more, whatever cuts in.                    *)
Keeps(t, n) == Objects!Holds(t, n) /\ step[t] # "magic"

KeptOnce ==
    \A t \in Objects!Callers, n \in Objects!Fds : Keeps(t, n) =>
        /\ fd[n] # NoFile
        /\ n # efd
        /\ \A u \in Objects!Callers : Keeps(u, n) => u = t

KeptFiles ==
    \A t \in Objects!Callers :
        /\ step[t] \in Opened => fd[lv[t].ffd] = Factory
        /\ step[t] \in Opened \cup {"bind", "state", "efd", "held"}
                /\ lv[t].efd # Objects!None
                => fd[lv[t].efd] = lv[t].elt

ClearedInv == Objects!traits.clearsFirst => KeptOnce /\ KeptFiles /\ Objects!ClosedBeforeReuse

(* The state and the element which the object is about to be given. *)
ProtocolInv ==
    /\ state # Objects!None => protocol[state] \in Objects!traits.accepts
    /\ \A t \in Objects!Callers :
          step[t] \in {"device", "flip", "unwind", "state", "efd", "magic"}
               /\ ~ lv[t].other /\ lv[t].elt # Objects!None
                     => protocol[lv[t].elt] \in Objects!traits.accepts

StaticState ==
    magic = "uninit" /\ state # Objects!None
          => \E u \in Objects!Callers : Making(u) /\ step[u] \in {"efd", "magic"}

StoredFields ==
    ~ torn => \A t \in Objects!Callers :
          /\ step[t] \in {"efd", "magic"} => state # Objects!None
          /\ step[t] = "magic" => efd # Objects!None

OwnState ==
    ~ raced => \A t \in Objects!Callers :
          /\ ~ lv[t].late
          /\ Making(t) => lv[t].elt \notin garbled
          /\ step[t] \in {"efd", "magic"} => state = lv[t].elt

ReadState ==
    \A t \in Objects!Callers : step[t] = "deref" /\ t \notin overlapped
          => magic = "active" /\ ~ torn /\ step[Owner] \notin Closing

StateInv == StaticState /\ StoredFields /\ OwnState /\ ReadState

ObjectIndInv ==
          /\ TypeInv /\ LocalInv
          /\ FactoryHeld /\ PublicInv /\ Objects!DescriptorsAccounted
          /\ MagicInv /\ AloneInv /\ EfdInv
          /\ OwnInv /\ ClearedInv
          /\ ProtocolInv /\ StateInv /\ Objects!ActiveIsWhole /\ Objects!FaultsExplained

-----------------------------------------------------------------------------
(* Helpers *)

(* A set of numbers has a least one. *)
LEMMA LeastExists ==
  ASSUME NEW S \in SUBSET Nat, S # {}
  PROVE  \E n \in S : \A k \in S : n <= k
<1> DEFINE R == OpToRel(<, Nat)
<1>1. IsWellFoundedOn(R, Nat)
  BY NatLessThanWellFounded
<1>2. \A x, y \in Nat : y < x => <<y, x>> \in R
  BY DEF OpToRel
<1> HIDE DEF R
<1>3. PICK n \in S : \A k \in S : <<k, n>> \notin R
  BY <1>1, WFMin
<1>4. ASSUME NEW k \in S
      PROVE  n <= k
  <2>1. n \in Nat /\ k \in Nat /\ ~ k < n
    BY <1>2, <1>3
  <2> QED
    BY <2>1
<1> QED
  BY <1>4

(* The system gives a free descriptor. *)
LEMMA NewFdIsFree ==
  ASSUME FdCount \in Nat, NEW table, Objects!FreeFds(table) # {}
  PROVE  Objects!NewFd(table) \in Objects!Fds /\ table[Objects!NewFd(table)] = NoFile
<1>1. Objects!FreeFds(table) \in SUBSET Nat
  BY DEF Objects!FreeFds, Objects!Fds
<1>2. PICK n \in Objects!FreeFds(table) : \A k \in Objects!FreeFds(table) : n <= k
  BY <1>1, LeastExists
<1>3. Objects!NewFd(table) \in Objects!FreeFds(table)
  BY <1>2 DEF Objects!NewFd, Objects!Min
<1> QED
  BY <1>3 DEF Objects!FreeFds

(* The traits of a kind of object, typed. *)
LEMMA KindTraits ==
  ASSUME Objects!ElementsConstants, kind \in ObjectKinds
  PROVE  /\ Objects!traits.accepts \in SUBSET Objects!Protocols
         /\ Objects!traits.clearsFirst \in BOOLEAN
<1>1. kind \in {"mutex", "event", "sem", "flags"}
  BY DEF Objects!ElementsConstants
<1> QED
  BY <1>1
     DEF Objects!traits, Objects!TraitsOf, Objects!MutexTraits,
         Objects!EventTraits, Objects!SemTraits, Objects!FlagsTraits,
         Objects!Protocols

(* The assumptions, in the form in which the steps use them. *)
LEMMA Constants ==
  ASSUME Objects!ElementsConstants
  PROVE  /\ FdCount \in Nat /\ MaxElements \in Nat /\ Owner \notin Users
         /\ NoFile \notin Nat /\ Factory \notin Nat /\ Lost \notin Nat
         /\ NoFile # Factory /\ NoFile # Lost /\ Factory # Lost
         /\ OtherProtocols \subseteq Objects!Protocols
<1>1. {"pi", "pp", "gated", "count", "mask"} \subseteq Objects!Protocols
  <2>1. \A k \in {"mutex", "event", "sem", "flags"} :
          Objects!TraitsOf(k).accepts \subseteq Objects!Protocols
    BY DEF Objects!Protocols
  <2>2. /\ {"pi", "pp"} = Objects!TraitsOf("mutex").accepts
        /\ {"gated"} = Objects!TraitsOf("event").accepts
        /\ {"count"} = Objects!TraitsOf("sem").accepts
              /\ {"mask"} = Objects!TraitsOf("flags").accepts
    BY DEF Objects!TraitsOf, Objects!MutexTraits, Objects!EventTraits,
           Objects!SemTraits, Objects!FlagsTraits
  <2> QED
    BY <2>1, <2>2
<1> QED
  BY <1>1 DEF Objects!ElementsConstants

(* What a step does to the calls and the files, place by place. *)
Moves(t, l, other, late, ffd, elementFd, elt) ==
    /\ step'[t] = l
    /\ lv'[t].other \in BOOLEAN /\ (lv'[t].other <=> other)
    /\ lv'[t].late \in BOOLEAN /\ (lv'[t].late <=> late)
    /\ lv'[t].ffd = ffd /\ lv'[t].efd = elementFd /\ lv'[t].elt = elt
    /\ \A u \in Objects!Callers : u # t => step'[u] = step[u] /\ lv'[u] = lv[u]

Steps(t, l) ==      \* the local variables are kept
    Moves(t, l, lv[t].other, lv[t].late, lv[t].ffd, lv[t].efd, lv[t].elt)

Ends(t, l) ==       \* or gone
    Moves(t, l, FALSE, FALSE, Objects!None, Objects!None, Objects!None)

Filed(n, f) == \A m \in Objects!Fds : fd'[m] = IF m = n THEN f ELSE fd[m]

Late(t) == ~ lv[t].other /\ t \in Users /\ state # Objects!None

(* Another user is at work on the static object. *)
Met(t) == \E u \in Users \ {t} : Objects!Creating(u)
Beset == \E u \in Users : Objects!Creating(u)

(* What each action does, in these words. *)
LEMMA OpenFactoryIs ==
  ASSUME TypeInv, FdCount \in Nat, NEW t \in Objects!Callers, Objects!OpenFactory(t)
  PROVE  /\ step[t] = "factory"
         /\ \/ Ends(t, "idle") /\ fd' = fd /\ faulted' = faulted
            \/ Late(t) /\ Steps(t, "faulted") /\ fd' = fd
            \/ \E n \in Objects!Fds : /\ fd[n] = NoFile /\ Filed(n, Factory)
                                      /\ faulted' = faulted
                                      /\ Moves(t, "clone", lv[t].other, Late(t), n,
                                               lv[t].efd, lv[t].elt)
         /\ UNCHANGED <<kind, mapped, made, protocol, garbled, magic, state,
                        efd, raced, torn, overlapped>>
         /\ Objects!traits' = Objects!traits
<1> USE DEF Objects!core, Objects!object, Objects!ghosts, Objects!traits,
            Objects!Goto, Objects!Set, Objects!Return, Objects!Fault, Moves,
            Steps, Ends, Filed,
            TypeInv, Places, Calls, Files, CallType
<1>1. CASE Objects!Return(t) /\ UNCHANGED <<fd, faulted>>
  BY <1>1 DEF Objects!OpenFactory, Objects!NoCall
<1>2. CASE Late(t) /\ Objects!Fault(t) /\ UNCHANGED <<fd, lv>>
  BY <1>2 DEF Objects!OpenFactory
<1>3. CASE Objects!FreeFds(fd) # {} /\ Objects!Goto(t, "clone") /\ UNCHANGED faulted
  <2>1. /\ fd' = [fd EXCEPT ![Objects!NewFd(fd)] = Factory]
        /\ lv' = [lv EXCEPT ![t].ffd = Objects!NewFd(fd), ![t].late = Late(t)]
    BY <1>3 DEF Objects!OpenFactory, Late
  <2>2. Late(t) \in BOOLEAN
    BY DEF Late
  <2> QED
    BY <1>3, <2>1, <2>2, NewFdIsFree DEF Objects!OpenFactory
<1> QED
  BY <1>1, <1>2, <1>3 DEF Objects!OpenFactory, Late

LEMMA AnonymousPublicIs ==
  ASSUME TypeInv, FdCount \in Nat, NEW t \in Objects!Callers, Objects!AnonymousPublic(t)
  PROVE  /\ step[t] = "clone"
         /\ lv[t].other
         /\ Ends(t, "idle") /\ Filed(lv[t].ffd, Lost)
         /\ UNCHANGED <<kind, mapped, made, protocol, garbled, magic, state,
                        efd, raced, torn, overlapped, faulted>>
         /\ Objects!traits' = Objects!traits
BY NewFdIsFree
   DEF Objects!AnonymousPublic, Objects!core, Objects!object, Objects!ghosts,
       Objects!traits, Objects!Goto, Objects!Set, Objects!Return,
       Objects!Fault,
       Objects!NoCall, Moves, Steps, Ends, Filed, Late, Objects!Drop,
       TypeInv, Places, Calls, Files, CallType

LEMMA OpenDeviceIs ==
  ASSUME TypeInv, FdCount \in Nat, NEW t \in Objects!Callers, Objects!OpenDevice(t)
  PROVE  /\ step[t] = "device"
         /\ \/ Steps(t, "unwind") /\ fd' = fd
            \/ \E n \in Objects!Fds : /\ fd[n] = NoFile /\ Filed(n, lv[t].elt)
                                      /\ Moves(t, "flip", lv[t].other, lv[t].late,
                                               lv[t].ffd, n, lv[t].elt)
         /\ UNCHANGED <<kind, mapped, made, protocol, garbled, magic, state,
                        efd, raced, torn, overlapped, faulted>>
         /\ Objects!traits' = Objects!traits
BY NewFdIsFree
   DEF Objects!OpenDevice, Objects!core, Objects!object, Objects!ghosts,
       Objects!traits, Objects!Goto, Objects!Set, Objects!Return,
       Objects!Fault,
       Objects!NoCall, Moves, Steps, Ends, Filed, Late, Objects!Drop,
       TypeInv, Places, Calls, Files, CallType

LEMMA FlipFlagsIs ==
  ASSUME TypeInv, FdCount \in Nat, NEW t \in Objects!Callers, Objects!FlipFlags(t)
  PROVE  /\ step[t] = "flip"
         /\ \/ Steps(t, "unwind") /\ fd' = fd
            \/ /\ Moves(t, "unwind", lv[t].other, lv[t].late, lv[t].ffd, Objects!None,
                        lv[t].elt)
               /\ Filed(lv[t].efd, Lost)
         /\ UNCHANGED <<kind, mapped, made, protocol, garbled, magic, state,
                        efd, raced, torn, overlapped, faulted>>
         /\ Objects!traits' = Objects!traits
BY NewFdIsFree
   DEF Objects!FlipFlags, Objects!core, Objects!object, Objects!ghosts,
       Objects!traits, Objects!Goto, Objects!Set, Objects!Return,
       Objects!Fault,
       Objects!NoCall, Moves, Steps, Ends, Filed, Late, Objects!Drop,
       TypeInv, Places, Calls, Files, CallType

LEMMA CloseFactoryIs ==
  ASSUME TypeInv, FdCount \in Nat, NEW t \in Objects!Callers, Objects!CloseFactory(t)
  PROVE  /\ step[t] = "unwind"
         /\ Filed(lv[t].ffd, NoFile)
         /\ \/ lv[t].efd = Objects!None /\ Ends(t, "idle")
            \/ /\ lv[t].efd # Objects!None
               /\ Moves(t, IF lv[t].other THEN "held" ELSE "state",
                        lv[t].other, lv[t].late, Objects!None, lv[t].efd, lv[t].elt)
         /\ UNCHANGED <<kind, mapped, made, protocol, garbled, magic, state,
                        efd, raced, torn, overlapped, faulted>>
         /\ Objects!traits' = Objects!traits
<1> USE DEF Objects!core, Objects!object, Objects!ghosts, Objects!traits,
            Objects!Goto, Objects!Set, Objects!Return, Objects!Fault, Moves,
            Steps, Ends, Filed,
            TypeInv, Places, Calls, Files, CallType
<1>1. CASE lv[t].efd = Objects!None
  <2>1. Objects!Return(t) /\ fd' = [fd EXCEPT ![lv[t].ffd] = NoFile]
    BY <1>1 DEF Objects!CloseFactory
  <2> QED
    BY <1>1, <2>1 DEF Objects!CloseFactory, Objects!NoCall
<1>2. CASE lv[t].efd # Objects!None
  BY <1>2 DEF Objects!CloseFactory
<1> QED
  BY <1>1, <1>2

LEMMA StoreStateIs ==
  ASSUME TypeInv, FdCount \in Nat, NEW t \in Objects!Callers, Objects!StoreState(t)
  PROVE  /\ step[t] = "state"
         /\ state' = lv[t].elt
         /\ \/ mapped /\ Steps(t, "efd") /\ faulted' = faulted
            \/ ~ mapped /\ Steps(t, "faulted")
         /\ UNCHANGED <<kind, mapped, fd, made, protocol, garbled, magic, efd,
                        raced, torn, overlapped>>
         /\ Objects!traits' = Objects!traits
BY NewFdIsFree
   DEF Objects!StoreState, Objects!core, Objects!object, Objects!ghosts,
       Objects!traits, Objects!Goto, Objects!Set, Objects!Return,
       Objects!Fault,
       Objects!NoCall, Moves, Steps, Ends, Filed, Late, Objects!Drop,
       TypeInv, Places, Calls, Files, CallType

LEMMA StoreEfdIs ==
  ASSUME TypeInv, FdCount \in Nat, NEW t \in Objects!Callers, Objects!StoreEfd(t)
  PROVE  /\ step[t] = "efd"
         /\ efd' = lv[t].efd
         /\ Steps(t, "magic")
         /\ \/ /\ fd' = fd
               /\ ~ (raced /\ efd # Objects!None /\ fd[efd] \in Objects!Ids
                     /\ \A u \in Objects!Callers : ~ Objects!Holds(u, efd))
            \/ /\ raced /\ efd # Objects!None /\ fd[efd] \in Objects!Ids
               /\ \A u \in Objects!Callers : ~ Objects!Holds(u, efd)
               /\ Filed(efd, Lost)
         /\ UNCHANGED <<kind, mapped, made, protocol, garbled, magic, state,
                        raced, torn, overlapped, faulted>>
         /\ Objects!traits' = Objects!traits
BY NewFdIsFree
   DEF Objects!StoreEfd, Objects!core, Objects!object, Objects!ghosts,
       Objects!traits, Objects!Goto, Objects!Set, Objects!Return,
       Objects!Fault,
       Objects!NoCall, Objects!Orphan, Moves, Steps, Ends, Filed, Late, Objects!Drop,
       TypeInv, Places, Calls, Files, CallType

LEMMA StoreMagicIs ==
  ASSUME TypeInv, FdCount \in Nat, NEW t \in Objects!Callers, Objects!StoreMagic(t)
  PROVE  /\ step[t] = "magic"
         /\ magic' = "active"
         /\ t = Owner => Ends(t, "idle")
         /\ t # Owner => Ends(t, Objects!Checked)
         /\ \/ /\ fd' = fd
               /\ raced => efd = lv[t].efd \/ fd[lv[t].efd] \notin Objects!Ids
                           \/ \E u \in Objects!Callers : u # t /\ Objects!Holds(u, lv[t].efd)
            \/ /\ raced /\ Filed(lv[t].efd, Lost)
               /\ efd # lv[t].efd
               /\ \A u \in Objects!Callers : u # t => ~ Objects!Holds(u, lv[t].efd)
         /\ UNCHANGED <<kind, mapped, made, protocol, garbled, state, efd,
                        raced, torn, overlapped, faulted>>
         /\ Objects!traits' = Objects!traits
BY NewFdIsFree
   DEF Objects!StoreMagic, Objects!core, Objects!object, Objects!ghosts,
       Objects!traits, Objects!Goto, Objects!Set, Objects!Return,
       Objects!Fault,
       Objects!NoCall, Moves, Steps, Ends, Filed, Late, Objects!Drop,
       TypeInv, Places, Calls, Files, CallType

LEMMA CheckSanityIs ==
  ASSUME TypeInv, FdCount \in Nat, NEW t \in Objects!Callers, Objects!CheckSanity(t)
  PROVE  /\ step[t] = "idle"
         /\ t \in Users
         /\ \/ /\ magic = "uninit" /\ mapped /\ Steps(t, "factory")
               /\ raced' <=> (raced \/ Met(t))
               /\ \A u \in Users : u \in overlapped' <=>
                      IF u = t THEN Met(t) ELSE u \in overlapped \/ Objects!Creating(u)
            \/ /\ magic = "active" /\ Steps(t, Objects!Checked) /\ (raced' <=> raced)
               /\ \A u \in Users : u \in overlapped' <=>
                      IF u = t THEN Objects!Closing \/ torn ELSE u \in overlapped
         /\ UNCHANGED <<kind, mapped, fd, made, protocol, garbled, magic,
                        state, efd, torn, faulted>>
         /\ Objects!traits' = Objects!traits
<1> USE DEF Objects!core, Objects!object, Objects!ghosts, Objects!traits,
            Objects!Goto, Moves, Steps, TypeInv, Places,
            Calls, CallType
<1>1. CASE magic = "uninit" /\ mapped /\ Objects!Goto(t, "factory") /\ t \in Users
  <2> DEFINE others == {u \in Users \ {t} : Objects!Creating(u)}
  <2>1. /\ raced' = (raced \/ others # {})
        /\ overlapped' = IF others = {} THEN overlapped \ {t}
                         ELSE overlapped \cup others \cup {t}
    BY <1>1, Zenon DEF Objects!CheckSanity
  <2>2. Met(t) <=> others # {}
    BY DEF Met
  <2>3. raced' <=> (raced \/ Met(t))
    BY <2>1, <2>2, Zenon
  <2>4. \A u \in Users : u \in overlapped' <=>
            IF u = t THEN Met(t) ELSE u \in overlapped \/ Objects!Creating(u)
    BY <2>1, <2>2
  <2> HIDE DEF others
  <2> QED
    BY <1>1, <2>3, <2>4 DEF Objects!CheckSanity
<1>2. CASE /\ magic = "active" /\ UNCHANGED raced /\ Objects!Goto(t, Objects!Checked)
           /\ overlapped' = IF Objects!Closing \/ torn THEN overlapped \cup {t}
                            ELSE overlapped \ {t}
  <2>1. \A u \in Users : u \in overlapped' <=>
            IF u = t THEN Objects!Closing \/ torn ELSE u \in overlapped
    BY <1>2 DEF Fields
  <2> QED
    BY <1>2, <2>1 DEF Objects!CheckSanity
<1> QED
  BY <1>1, <1>2 DEF Objects!CheckSanity

LEMMA ReadStateIs ==
  ASSUME TypeInv, FdCount \in Nat, NEW t \in Objects!Callers, Objects!ReadState(t)
  PROVE  /\ step[t] = "deref"
         /\ \/ state = Objects!None /\ Steps(t, "faulted")
            \/ state # Objects!None /\ faulted' = faulted
                  /\ \E l \in {"idle", "request"} : Steps(t, l)
         /\ UNCHANGED <<kind, mapped, fd, made, protocol, garbled, magic,
                        state, efd, raced, torn, overlapped>>
         /\ Objects!traits' = Objects!traits
BY NewFdIsFree
   DEF Objects!ReadState, Objects!core, Objects!object, Objects!ghosts,
       Objects!traits, Objects!Goto, Objects!Set, Objects!Return,
       Objects!Fault,
       Objects!NoCall, Moves, Steps, Ends, Filed, Late, Objects!Drop,
       TypeInv, Places, Calls, Files, CallType

LEMMA RequestIs ==
  ASSUME TypeInv, FdCount \in Nat, NEW t \in Objects!Callers, Objects!Request(t)
  PROVE  /\ step[t] = "request"
         /\ Steps(t, "idle")
         /\ UNCHANGED <<kind, mapped, fd, made, protocol, garbled, magic,
                        state, efd, raced, torn, overlapped, faulted>>
         /\ Objects!traits' = Objects!traits
BY NewFdIsFree
   DEF Objects!Request, Objects!core, Objects!object, Objects!ghosts,
       Objects!traits, Objects!Goto, Objects!Set, Objects!Return,
       Objects!Fault,
       Objects!NoCall, Moves, Steps, Ends, Filed, Late, Objects!Drop,
       TypeInv, Places, Calls, Files, CallType

LEMMA CloneIs ==
  ASSUME Objects!ElementsConstants, TypeInv, NEW t \in Objects!Callers, Objects!Clone(t)
  PROVE  /\ step[t] = "clone"
         /\ \/ /\ Steps(t, "unwind")
               /\ fd' = fd /\ UNCHANGED <<made, protocol, garbled>>
            \/ \E e \in Objects!Ids :
                  /\ e = made + 1 /\ made' = e
                  /\ garbled' =
                          IF lv[t].late THEN garbled \cup {e} ELSE garbled
                  /\ \A x \in Objects!Ids : x # e => protocol'[x] = protocol[x]
                  /\ lv[t].other \/ protocol'[e] \in Objects!traits.accepts
                  /\ \/ /\ Moves(t, "device", lv[t].other, lv[t].late,
                                 lv[t].ffd, lv[t].efd, e)
                        /\ fd' = fd
                     \/ \E n \in Objects!Fds : /\ fd[n] = NoFile /\ Filed(n, e)
                                               /\ Moves(t, "flip", lv[t].other,
                                                        lv[t].late, lv[t].ffd, n, e)
         /\ UNCHANGED <<kind, mapped, magic, state, efd, raced, torn, overlapped,
                        faulted>>
         /\ Objects!traits' = Objects!traits
<1>1. protocol \in [Objects!Ids -> Objects!Protocols] /\ FdCount \in Nat
  BY Constants DEF TypeInv, Elts
<1>2. CASE Objects!Goto(t, "unwind") /\ UNCHANGED <<fd, Objects!core, lv>>
  BY <1>2
     DEF Objects!Clone, Objects!Goto, Moves, Steps, Ends, TypeInv, Places,
         Calls, CallType,
         Objects!core,
         Objects!object, Objects!ghosts, Objects!traits
<1>3. CASE Objects!Goto(t, "device") /\ made + 1 \in Objects!Ids /\ made' = made + 1
  BY <1>1, <1>3
     DEF Objects!Clone, Objects!Goto, Objects!Set, Moves, Steps, Ends, TypeInv,
         Places, Calls,
         CallType, Objects!object, Objects!ghosts, Objects!traits
<1>4. CASE Objects!Goto(t, "flip") /\ made + 1 \in Objects!Ids /\ made' = made + 1
  BY <1>1, <1>4, NewFdIsFree
     DEF Objects!Clone, Objects!Goto, Moves, Steps, Ends, Filed, TypeInv,
         Places, Calls,
         Files, CallType, Objects!object, Objects!ghosts, Objects!traits
<1> QED
  BY <1>2, <1>3, <1>4 DEF Objects!Clone

LEMMA NewLifeIs ==
  ASSUME Objects!NewLife
  PROVE  (raced' <=> Beset) /\ (torn' <=> Beset)
<1> DEFINE late == {u \in Users : Objects!Creating(u)}
<1>1. raced' = (late # {}) /\ torn' = (late # {})
  BY Zenon DEF Objects!NewLife
<1>2. Beset <=> late # {}
  BY DEF Beset
<1> HIDE DEF late
<1> QED
  BY <1>1, <1>2, Zenon

LEMMA OpenByNameIs ==
  ASSUME Objects!ElementsConstants, TypeInv, NEW t \in Objects!Callers, Objects!OpenByName(t)
  PROVE  /\ step[t] = "idle"
         /\ t = Owner
         /\ magic = "dead"
         /\ \E n \in Objects!Fds, e \in Objects!Ids : fd[n] = NoFile /\ Filed(n, e)
               /\ e <= made /\ e \in public
                                      /\ Moves(t, "bind", FALSE, FALSE, Objects!None,
                                               n, e)
         /\ UNCHANGED <<kind, mapped, made, protocol, garbled, magic, state,
                        efd, overlapped, faulted>>
         /\ (raced' <=> Beset) /\ (torn' <=> Beset)
         /\ Objects!traits' = Objects!traits
<1>1. \A e \in public : e \in Objects!Ids /\ e <= made
  BY Constants DEF TypeInv, Elts, Objects!Ids
<1>2. (raced' <=> Beset) /\ (torn' <=> Beset)
  BY NewLifeIs DEF Objects!OpenByName
<1> QED
  BY <1>1, <1>2, Constants, NewFdIsFree
     DEF Objects!OpenByName, Objects!Goto, Objects!NoCall, Moves, Steps, Ends,
         Filed, TypeInv, Places,
         Calls, Files, CallType,
         Objects!core, Objects!object, Objects!ghosts, Objects!traits

LEMMA BindIs ==
  ASSUME TypeInv, FdCount \in Nat, NEW t \in Objects!Callers, Objects!Bind(t)
  PROVE  /\ step[t] = "bind"
         /\ \/ protocol[lv[t].elt] \in Objects!traits.accepts /\ Steps(t, "state")
               /\ fd' = fd
            \/ Ends(t, "idle") /\ Filed(lv[t].efd, NoFile)
         /\ UNCHANGED <<kind, mapped, made, protocol, garbled, magic, state,
                        efd, raced, torn, overlapped, faulted>>
         /\ Objects!traits' = Objects!traits
<1> USE DEF Objects!core, Objects!object, Objects!ghosts, Objects!traits,
            Objects!Goto, Objects!Set, Objects!Return, Objects!Fault, Moves,
            Steps, Ends, Filed,
            TypeInv, Places, Calls, Files, CallType
<1>1. CASE Objects!Return(t)
  BY <1>1 DEF Objects!Bind, Objects!NoCall
<1>2. CASE Objects!Goto(t, "state") /\ UNCHANGED <<fd, lv>>
  BY <1>2 DEF Objects!Bind
<1> QED
  BY <1>1, <1>2 DEF Objects!Bind

LEMMA BeginCloseIs ==
  ASSUME TypeInv, FdCount \in Nat, NEW t \in Objects!Callers, Objects!BeginClose(t)
  PROVE  /\ step[t] = "idle"
         /\ t = Owner
         /\ magic = "active"
         /\ efd' = IF Objects!traits.clearsFirst THEN Objects!None ELSE efd
         /\ torn' <=> (torn \/ Beset)
         /\ \A u \in Users : u \in overlapped' <=> u \in overlapped \/ step[u] # "idle"
         /\ Moves(t, "close", FALSE, FALSE, Objects!None, efd, Objects!None)
         /\ UNCHANGED <<kind, mapped, fd, made, protocol, garbled, magic,
                        state, raced, faulted>>
         /\ Objects!traits' = Objects!traits
<1>1. torn' <=> (torn \/ Beset)
  BY Zenon DEF Objects!BeginClose, Objects!CutIn, Beset
<1>2. \A u \in Users : u \in overlapped' <=> u \in overlapped \/ step[u] # "idle"
  BY DEF Objects!BeginClose, Objects!CutIn
<1> QED
  BY <1>1, <1>2
     DEF Objects!BeginClose, Objects!core, Objects!object, Objects!traits,
         Objects!Goto, Objects!NoCall, Moves, TypeInv, Places, Calls,
         CallType

LEMMA CloseEfdIs ==
  ASSUME TypeInv, FdCount \in Nat, NEW t \in Objects!Callers, Objects!CloseEfd(t)
  PROVE  /\ step[t] = "close"
         /\ \/ Filed(lv[t].efd, NoFile) /\ Steps(t, "clear")
            \/ /\ fd' = fd /\ (lv[t].efd = Objects!None \/ fd[lv[t].efd] = NoFile)
               /\ \/ Objects!traits.clearsFirst /\ Steps(t, "clear")
                  \/ ~ Objects!traits.clearsFirst /\ Ends(t, "idle")
         /\ UNCHANGED <<kind, mapped, made, protocol, garbled, magic, state,
                        efd, raced, torn, overlapped, faulted>>
         /\ Objects!traits' = Objects!traits
<1> USE DEF Objects!core, Objects!object, Objects!ghosts, Objects!traits,
            Objects!Goto, Objects!Set, Objects!Return, Objects!Fault, Moves,
            Steps, Ends, Filed,
            TypeInv, Places, Calls, Files, CallType
<1>1. CASE Objects!Return(t)
  BY <1>1 DEF Objects!CloseEfd, Objects!NoCall
<1>2. CASE Objects!Goto(t, "clear") /\ UNCHANGED lv
  BY <1>2 DEF Objects!CloseEfd
<1> QED
  BY <1>1, <1>2 DEF Objects!CloseEfd

LEMMA ClearStateIs ==
  ASSUME TypeInv, FdCount \in Nat, NEW t \in Objects!Callers, Objects!ClearState(t)
  PROVE  /\ step[t] = "clear"
         /\ state' = Objects!None
         /\ Steps(t, "bury")
         /\ UNCHANGED <<kind, mapped, fd, made, protocol, garbled, magic, efd,
                        raced, torn, overlapped, faulted>>
         /\ Objects!traits' = Objects!traits
BY NewFdIsFree
   DEF Objects!ClearState, Objects!core, Objects!object, Objects!ghosts,
       Objects!traits, Objects!Goto, Objects!Set, Objects!Return,
       Objects!Fault,
       Objects!NoCall, Moves, Steps, Ends, Filed, Late, Objects!Drop,
       TypeInv, Places, Calls, Files, CallType

LEMMA BuryIs ==
  ASSUME TypeInv, FdCount \in Nat, NEW t \in Objects!Callers, Objects!Bury(t)
  PROVE  /\ step[t] = "bury"
         /\ magic' = "dead"
         /\ Ends(t, "idle")
         /\ \/ /\ fd' = fd
               /\ ~ (torn /\ efd # Objects!None /\ fd[efd] \in Objects!Ids
                     /\ \A u \in Objects!Callers : ~ Objects!Holds(u, efd))
            \/ torn /\ efd # Objects!None /\ Filed(efd, Lost)
         /\ UNCHANGED <<kind, mapped, made, protocol, garbled, state, efd,
                        raced, torn, overlapped, faulted>>
         /\ Objects!traits' = Objects!traits
BY NewFdIsFree
   DEF Objects!Bury, Objects!core, Objects!object, Objects!ghosts,
       Objects!traits, Objects!Goto, Objects!Set, Objects!Return,
       Objects!Fault,
       Objects!NoCall, Objects!Orphan, Moves, Steps, Ends, Filed, Late, Objects!Drop,
       TypeInv, Places, Calls, Files, CallType

LEMMA CreateAgainIs ==
  ASSUME TypeInv, FdCount \in Nat, NEW t \in Objects!Callers, Objects!CreateAgain(t)
  PROVE  /\ step[t] = "idle"
         /\ t = Owner
         /\ magic = "dead"
         /\ mapped
         /\ Steps(t, "factory")
         /\ (raced' <=> Beset) /\ (torn' <=> Beset)
         /\ UNCHANGED <<kind, mapped, fd, made, protocol, garbled, magic,
                        state, efd, overlapped, faulted>>
         /\ Objects!traits' = Objects!traits
<1> USE DEF Objects!core, Objects!object, Objects!traits,
            Objects!Goto, Moves, Steps, TypeInv, Places,
            Calls, CallType
<1>1. (raced' <=> Beset) /\ (torn' <=> Beset)
  BY NewLifeIs DEF Objects!CreateAgain
<1> QED
  BY <1>1 DEF Objects!CreateAgain, Objects!Set

LEMMA CreateOtherIs ==
  ASSUME TypeInv, FdCount \in Nat, NEW t \in Objects!Callers, Objects!CreateOther(t)
  PROVE  /\ step[t] = "idle"
         /\ t = Owner
         /\ Moves(t, "factory", TRUE, FALSE, Objects!None, Objects!None, Objects!None)
         /\ UNCHANGED <<kind, mapped, fd, made, protocol, garbled, magic,
                        state, efd, raced, torn, overlapped, faulted>>
         /\ Objects!traits' = Objects!traits
BY NewFdIsFree
   DEF Objects!CreateOther, Objects!core, Objects!object, Objects!ghosts,
       Objects!traits, Objects!Goto, Objects!Set, Objects!Return,
       Objects!Fault,
       Objects!NoCall, Moves, Steps, Ends, Filed, Late, Objects!Drop,
       TypeInv, Places, Calls, Files, CallType

LEMMA CloseOtherIs ==
  ASSUME TypeInv, FdCount \in Nat, NEW t \in Objects!Callers, Objects!CloseOther(t)
  PROVE  /\ step[t] = "held"
         /\ Ends(t, "idle")
         /\ Filed(lv[t].efd, NoFile)
         /\ UNCHANGED <<kind, mapped, made, protocol, garbled, magic, state,
                        efd, raced, torn, overlapped, faulted>>
         /\ Objects!traits' = Objects!traits
BY NewFdIsFree
   DEF Objects!CloseOther, Objects!core, Objects!object, Objects!ghosts,
       Objects!traits, Objects!Goto, Objects!Set, Objects!Return,
       Objects!Fault,
       Objects!NoCall, Moves, Steps, Ends, Filed, Late, Objects!Drop,
       TypeInv, Places, Calls, Files, CallType

(* What the types and the assumptions say, in the form the steps need it.  *)
Known ==
    /\ Owner \in Objects!Callers /\ Owner \notin Users /\ Users \subseteq Objects!Callers
    /\ NoFile # Factory /\ NoFile # Lost /\ Factory # Lost
    /\ Objects!None \notin Objects!Fds /\ Objects!None \notin Objects!Ids
    /\ NoFile \notin Objects!Ids /\ Factory \notin Objects!Ids /\ Lost \notin Objects!Ids
    /\ efd \in Objects!Fds \cup {Objects!None} /\ state \in Objects!Ids \cup {Objects!None}
    /\ \A u \in Objects!Callers : /\ lv[u].ffd \in Objects!Fds \cup {Objects!None}
                                  /\ lv[u].efd \in Objects!Fds \cup {Objects!None}
                                  /\ lv[u].elt \in Objects!Ids \cup {Objects!None}
                                  /\ lv[u].other \in BOOLEAN /\ lv[u].late \in BOOLEAN
    /\ \A m \in Objects!Fds : fd[m] \in Objects!Ids \cup {NoFile, Factory, Lost}

Fresh(e) == /\ state # e /\ \A m \in Objects!Fds : fd[m] # e
            /\ \A u \in Objects!Callers : lv[u].elt # e

LEMMA Knowing ==
  ASSUME Objects!ElementsConstants, TypeInv
  PROVE  Known
<1>1. made \in Nat /\ made <= MaxElements
  BY Constants DEF TypeInv, Elts
<1>2. 0..made \subseteq Objects!Ids \cup {Objects!None}
  BY <1>1, Constants DEF Objects!Ids, Objects!None
<1>3. /\ Objects!None \notin Objects!Fds /\ Objects!None \notin Objects!Ids
      /\ NoFile \notin Objects!Ids /\ Factory \notin Objects!Ids /\ Lost \notin Objects!Ids
  BY Constants DEF Objects!Ids, Objects!None, Objects!Fds
<1>4. \A u \in Objects!Callers : lv[u] \in CallType(made)
  BY DEF TypeInv, Calls
<1>5. Owner \in Objects!Callers /\ Users \subseteq Objects!Callers
  BY DEF Objects!Callers
<1> QED
  BY <1>2, <1>3, <1>4, <1>5, Constants
     DEF Known, TypeInv, Files, Fields, CallType

(* Who the threads are, and which of them are at work on the object. *)
Whos ==
    /\ \A u \in Objects!Callers : u \in Users \/ u = Owner
    /\ \A u \in Users : u # Owner /\ ~ lv[u].other /\ (Making(u) <=> Objects!Creating(u))
    /\ step[Owner] = "idle" => ~ Making(Owner)
    /\ step[Owner] \in Closing => ~ Making(Owner)

LEMMA Persons ==
  ASSUME Objects!ElementsConstants, TypeInv, LocalInv
  PROVE  Whos
<1>1. Known
  BY Knowing
<1>2. \A u \in Users : step[u] # "bind" /\ ~ lv[u].other /\ u # Owner
  BY <1>1 DEF Known, LocalInv, CallOK, Closing
<1> QED
  BY <1>1, <1>2
     DEF Whos, Known, Making, Opened, Closing, Objects!Creating, Objects!Callers

(* Nothing refers to an element which is not made yet. *)
LEMMA BeyondIsFresh ==
  ASSUME Objects!ElementsConstants, TypeInv, NEW e \in Objects!Ids, ~ e <= made, e \notin 0..made
  PROVE  Fresh(e)
<1>1. \A u \in Objects!Callers : lv[u] \in CallType(made)
  BY DEF TypeInv, Calls
<1> QED
  BY <1>1 DEF Fresh, TypeInv, Files, Fields, CallType

LEMMA NextIsFresh ==
  ASSUME Objects!ElementsConstants, TypeInv, NEW e \in Objects!Ids, e = made + 1
  PROVE  Fresh(e)
<1>1. ~ e <= made /\ e \notin 0..made
  BY Constants DEF TypeInv, Elts
<1> QED
  BY <1>1, BeyondIsFresh

ObjectStep(t) == Objects!Create(t) \/ Objects!Store(t) \/ Objects!Use(t) \/ Objects!Open(t) \/ Objects!Close(t)
                 \/ Objects!CreateAgain(t) \/ Objects!CreateOther(t) \/ Objects!CloseOther(t)

IsCall(c) == /\ c = [other |-> c.other, pub |-> c.pub, late |-> c.late,
                     ffd |-> c.ffd, efd |-> c.efd, elt |-> c.elt]
             /\ c.pub \in BOOLEAN

(* A call is a record, whatever a step stores in it. *)
LEMMA NoCallIsCall == IsCall(Objects!NoCall)
BY DEF IsCall, Objects!NoCall

(* The descriptors and the calls stay functions. *)
LEMMA FilesShape ==
  ASSUME Objects!ElementsConstants, TypeInv, NEW t \in Objects!Callers, ObjectStep(t)
  PROVE  fd' = [m \in Objects!Fds |-> fd'[m]]
<1> USE DEF TypeInv, Files, Objects!Goto, Objects!Set, Objects!Return,
            Objects!Fault, Objects!core, Objects!object, Objects!ghosts
<1>1. CASE Objects!OpenFactory(t)
  BY <1>1 DEF Objects!OpenFactory, Objects!Drop
<1>2. CASE Objects!AnonymousPublic(t)
  BY <1>2 DEF Objects!AnonymousPublic, Objects!Drop
<1>3. CASE Objects!Clone(t)
  BY <1>3 DEF Objects!Clone, Objects!Drop
<1>4. CASE Objects!OpenDevice(t)
  BY <1>4 DEF Objects!OpenDevice, Objects!Drop
<1>5. CASE Objects!FlipFlags(t)
  BY <1>5 DEF Objects!FlipFlags, Objects!Drop
<1>6. CASE Objects!CloseFactory(t)
  BY <1>6 DEF Objects!CloseFactory, Objects!Drop
<1>7. CASE Objects!StoreState(t)
  BY <1>7 DEF Objects!StoreState, Objects!Drop
<1>8. CASE Objects!StoreEfd(t)
  BY <1>8 DEF Objects!StoreEfd, Objects!Drop
<1>9. CASE Objects!StoreMagic(t)
  BY <1>9 DEF Objects!StoreMagic, Objects!Drop
<1>10. CASE Objects!CheckSanity(t)
  BY <1>10 DEF Objects!CheckSanity, Objects!Drop
<1>11. CASE Objects!ReadState(t)
  BY <1>11 DEF Objects!ReadState, Objects!Drop
<1>12. CASE Objects!Request(t)
  BY <1>12 DEF Objects!Request, Objects!Drop
<1>13. CASE Objects!OpenByName(t)
  BY <1>13 DEF Objects!OpenByName, Objects!Drop
<1>14. CASE Objects!Bind(t)
  BY <1>14 DEF Objects!Bind, Objects!Drop
<1>15. CASE Objects!BeginClose(t)
  BY <1>15 DEF Objects!BeginClose, Objects!Drop
<1>16. CASE Objects!CloseEfd(t)
  BY <1>16 DEF Objects!CloseEfd, Objects!Drop
<1>17. CASE Objects!ClearState(t)
  BY <1>17 DEF Objects!ClearState, Objects!Drop
<1>18. CASE Objects!Bury(t)
  BY <1>18 DEF Objects!Bury, Objects!Drop
<1>19. CASE Objects!CreateAgain(t)
  BY <1>19 DEF Objects!CreateAgain, Objects!Drop
<1>20. CASE Objects!CreateOther(t)
  BY <1>20 DEF Objects!CreateOther, Objects!Drop
<1>21. CASE Objects!CloseOther(t)
  BY <1>21 DEF Objects!CloseOther, Objects!Drop
<1> QED
  BY <1>1, <1>2, <1>3, <1>4, <1>5, <1>6, <1>7, <1>8, <1>9, <1>10, <1>11,
     <1>12, <1>13, <1>14, <1>15, <1>16, <1>17, <1>18, <1>19, <1>20, <1>21
     DEF ObjectStep, Objects!Create, Objects!Store, Objects!Use, Objects!Open,
         Objects!Close

LEMMA CallsShape ==
  ASSUME Objects!ElementsConstants, TypeInv, NEW t \in Objects!Callers, ObjectStep(t)
  PROVE  lv' = [u \in Objects!Callers |-> lv'[u]] /\ IsCall(lv'[t])
<1> USE DEF TypeInv, Calls, CallType, IsCall, Objects!Goto, Objects!Set,
            Objects!Return, Objects!Fault, Objects!core,
            Objects!object, Objects!ghosts
<1>1. CASE Objects!OpenFactory(t)
  <2>1. CASE Objects!Return(t)
    BY <2>1, NoCallIsCall
  <2>2. CASE UNCHANGED lv
    BY <2>2
  <2>3. CASE lv' = [lv EXCEPT ![t].ffd = Objects!NewFd(fd),
                             ![t].late = ~ lv[t].other /\ t \in Users
                                   /\ state # Objects!None]
    BY <2>3
  <2> QED
    BY <1>1, <2>1, <2>2, <2>3 DEF Objects!OpenFactory
<1>2. CASE Objects!AnonymousPublic(t)
  BY <1>2 DEF Objects!AnonymousPublic, Objects!NoCall
<1>3. CASE Objects!Clone(t)
  BY <1>3 DEF Objects!Clone, Objects!NoCall
<1>4. CASE Objects!OpenDevice(t)
  BY <1>4 DEF Objects!OpenDevice, Objects!NoCall
<1>5. CASE Objects!FlipFlags(t)
  BY <1>5 DEF Objects!FlipFlags, Objects!NoCall
<1>6. CASE Objects!CloseFactory(t)
  <2>1. CASE Objects!Return(t)
    BY <2>1, NoCallIsCall
  <2>2. CASE Objects!Set(t, "ffd", Objects!None)
    BY <2>2
  <2> QED
    BY <1>6, <2>1, <2>2 DEF Objects!CloseFactory
<1>7. CASE Objects!StoreState(t)
  BY <1>7 DEF Objects!StoreState, Objects!NoCall
<1>8. CASE Objects!StoreEfd(t)
  BY <1>8 DEF Objects!StoreEfd, Objects!NoCall
<1>9. CASE Objects!StoreMagic(t)
  BY <1>9 DEF Objects!StoreMagic, Objects!NoCall
<1>10. CASE Objects!CheckSanity(t)
  BY <1>10 DEF Objects!CheckSanity, Objects!NoCall
<1>11. CASE Objects!ReadState(t)
  BY <1>11 DEF Objects!ReadState, Objects!NoCall
<1>12. CASE Objects!Request(t)
  BY <1>12 DEF Objects!Request, Objects!NoCall
<1>13. CASE Objects!OpenByName(t)
  BY <1>13 DEF Objects!OpenByName, Objects!NoCall
<1>14. CASE Objects!Bind(t)
  <2>1. CASE Objects!Return(t)
    BY <2>1, NoCallIsCall
  <2>2. CASE UNCHANGED lv
    BY <2>2
  <2> QED
    BY <1>14, <2>1, <2>2 DEF Objects!Bind
<1>15. CASE Objects!BeginClose(t)
  BY <1>15 DEF Objects!BeginClose, Objects!NoCall
<1>16. CASE Objects!CloseEfd(t)
  <2>1. CASE Objects!Return(t)
    BY <2>1, NoCallIsCall
  <2>2. CASE UNCHANGED lv
    BY <2>2
  <2> QED
    BY <1>16, <2>1, <2>2 DEF Objects!CloseEfd
<1>17. CASE Objects!ClearState(t)
  BY <1>17 DEF Objects!ClearState, Objects!NoCall
<1>18. CASE Objects!Bury(t)
  BY <1>18 DEF Objects!Bury, Objects!NoCall
<1>19. CASE Objects!CreateAgain(t)
  BY <1>19 DEF Objects!CreateAgain, Objects!NoCall
<1>20. CASE Objects!CreateOther(t)
  BY <1>20 DEF Objects!CreateOther, Objects!NoCall
<1>21. CASE Objects!CloseOther(t)
  BY <1>21 DEF Objects!CloseOther, Objects!NoCall
<1> QED
  BY <1>1, <1>2, <1>3, <1>4, <1>5, <1>6, <1>7, <1>8, <1>9, <1>10, <1>11,
     <1>12, <1>13, <1>14, <1>15, <1>16, <1>17, <1>18, <1>19, <1>20, <1>21
     DEF ObjectStep, Objects!Create, Objects!Store, Objects!Use, Objects!Open,
         Objects!Close

(* The type invariant, group by group. *)
LEMMA PlacesKeep ==
  ASSUME Objects!ElementsConstants, TypeInv, NEW t \in Objects!Callers, ObjectStep(t)
  PROVE  Places'
<1> USE DEF TypeInv, Places, Objects!Goto, Objects!Set, Objects!Return,
            Objects!Fault, Objects!core, Objects!object, Objects!ghosts
<1>1. CASE Objects!OpenFactory(t)
  BY <1>1 DEF Objects!OpenFactory, Objects!Locations, Objects!Checked
<1>2. CASE Objects!AnonymousPublic(t)
  BY <1>2 DEF Objects!AnonymousPublic, Objects!Locations, Objects!Checked
<1>3. CASE Objects!Clone(t)
  BY <1>3 DEF Objects!Clone, Objects!Locations, Objects!Checked
<1>4. CASE Objects!OpenDevice(t)
  BY <1>4 DEF Objects!OpenDevice, Objects!Locations, Objects!Checked
<1>5. CASE Objects!FlipFlags(t)
  BY <1>5 DEF Objects!FlipFlags, Objects!Locations, Objects!Checked
<1>6. CASE Objects!CloseFactory(t)
  BY <1>6 DEF Objects!CloseFactory, Objects!Locations, Objects!Checked
<1>7. CASE Objects!StoreState(t)
  BY <1>7 DEF Objects!StoreState, Objects!Locations, Objects!Checked
<1>8. CASE Objects!StoreEfd(t)
  BY <1>8 DEF Objects!StoreEfd, Objects!Locations, Objects!Checked
<1>9. CASE Objects!StoreMagic(t)
  BY <1>9 DEF Objects!StoreMagic, Objects!Locations, Objects!Checked
<1>10. CASE Objects!CheckSanity(t)
  BY <1>10 DEF Objects!CheckSanity, Objects!Locations, Objects!Checked
<1>11. CASE Objects!ReadState(t)
  BY <1>11 DEF Objects!ReadState, Objects!Locations, Objects!Checked
<1>12. CASE Objects!Request(t)
  BY <1>12 DEF Objects!Request, Objects!Locations, Objects!Checked
<1>13. CASE Objects!OpenByName(t)
  BY <1>13 DEF Objects!OpenByName, Objects!Locations, Objects!Checked
<1>14. CASE Objects!Bind(t)
  BY <1>14 DEF Objects!Bind, Objects!Locations, Objects!Checked
<1>15. CASE Objects!BeginClose(t)
  BY <1>15 DEF Objects!BeginClose, Objects!Locations, Objects!Checked
<1>16. CASE Objects!CloseEfd(t)
  BY <1>16 DEF Objects!CloseEfd, Objects!Locations, Objects!Checked
<1>17. CASE Objects!ClearState(t)
  BY <1>17 DEF Objects!ClearState, Objects!Locations, Objects!Checked
<1>18. CASE Objects!Bury(t)
  BY <1>18 DEF Objects!Bury, Objects!Locations, Objects!Checked
<1>19. CASE Objects!CreateAgain(t)
  BY <1>19 DEF Objects!CreateAgain, Objects!Locations, Objects!Checked
<1>20. CASE Objects!CreateOther(t)
  BY <1>20 DEF Objects!CreateOther, Objects!Locations, Objects!Checked
<1>21. CASE Objects!CloseOther(t)
  BY <1>21 DEF Objects!CloseOther, Objects!Locations, Objects!Checked
<1> QED
  BY <1>1, <1>2, <1>3, <1>4, <1>5, <1>6, <1>7, <1>8, <1>9, <1>10, <1>11,
     <1>12, <1>13, <1>14, <1>15, <1>16, <1>17, <1>18, <1>19, <1>20, <1>21
     DEF ObjectStep, Objects!Create, Objects!Store, Objects!Use, Objects!Open,
         Objects!Close

LEMMA FieldsKeep ==
  ASSUME Objects!ElementsConstants, TypeInv, NEW t \in Objects!Callers, ObjectStep(t)
  PROVE  Fields'
<1> USE DEF TypeInv, Calls, CallType, Fields, Elts, Objects!Drop, Objects!Goto,
            Objects!Set, Objects!Return,
            Objects!Fault, Objects!core, Objects!object, Objects!ghosts
<1>1. CASE Objects!OpenFactory(t)
  BY <1>1 DEF Objects!OpenFactory, Objects!None
<1>2. CASE Objects!AnonymousPublic(t)
  BY <1>2 DEF Objects!AnonymousPublic, Objects!None
<1>3. CASE Objects!Clone(t)
  BY <1>3 DEF Objects!Clone, Objects!None
<1>4. CASE Objects!OpenDevice(t)
  BY <1>4 DEF Objects!OpenDevice, Objects!None
<1>5. CASE Objects!FlipFlags(t)
  BY <1>5 DEF Objects!FlipFlags, Objects!None
<1>6. CASE Objects!CloseFactory(t)
  BY <1>6 DEF Objects!CloseFactory, Objects!None
<1>7. CASE Objects!StoreState(t)
  BY <1>7 DEF Objects!StoreState, Objects!None
<1>8. CASE Objects!StoreEfd(t)
  BY <1>8 DEF Objects!StoreEfd, Objects!None
<1>9. CASE Objects!StoreMagic(t)
  BY <1>9 DEF Objects!StoreMagic, Objects!None
<1>10. CASE Objects!CheckSanity(t)
  BY <1>10 DEF Objects!CheckSanity, Objects!None
<1>11. CASE Objects!ReadState(t)
  BY <1>11 DEF Objects!ReadState, Objects!None
<1>12. CASE Objects!Request(t)
  BY <1>12 DEF Objects!Request, Objects!None
<1>13. CASE Objects!OpenByName(t)
  BY <1>13 DEF Objects!OpenByName, Objects!NewLife, Objects!None
<1>14. CASE Objects!Bind(t)
  BY <1>14 DEF Objects!Bind, Objects!None
<1>15. CASE Objects!BeginClose(t)
  BY <1>15 DEF Objects!BeginClose, Objects!CutIn, Objects!None
<1>16. CASE Objects!CloseEfd(t)
  BY <1>16 DEF Objects!CloseEfd, Objects!None
<1>17. CASE Objects!ClearState(t)
  BY <1>17 DEF Objects!ClearState, Objects!None
<1>18. CASE Objects!Bury(t)
  BY <1>18 DEF Objects!Bury, Objects!None
<1>19. CASE Objects!CreateAgain(t)
  BY <1>19 DEF Objects!CreateAgain, Objects!NewLife, Objects!None
<1>20. CASE Objects!CreateOther(t)
  BY <1>20 DEF Objects!CreateOther, Objects!None
<1>21. CASE Objects!CloseOther(t)
  BY <1>21 DEF Objects!CloseOther, Objects!None
<1> QED
  BY <1>1, <1>2, <1>3, <1>4, <1>5, <1>6, <1>7, <1>8, <1>9, <1>10, <1>11,
     <1>12, <1>13, <1>14, <1>15, <1>16, <1>17, <1>18, <1>19, <1>20, <1>21
     DEF ObjectStep, Objects!Create, Objects!Store, Objects!Use, Objects!Open,
         Objects!Close

LEMMA EltsKeep ==
  ASSUME Objects!ElementsConstants, TypeInv, NEW t \in Objects!Callers, CallOK(t), ObjectStep(t)
  PROVE  Elts'
<1> USE DEF TypeInv, Elts, Objects!Goto, Objects!Set, Objects!Return,
            Objects!Fault, Objects!core, Objects!object, Objects!ghosts
<1>1. CASE Objects!OpenFactory(t)
  BY <1>1, Constants, KindTraits DEF Objects!OpenFactory, Objects!Ids
<1>2. CASE Objects!AnonymousPublic(t)
  BY <1>2, Constants, KindTraits DEF Objects!AnonymousPublic, Objects!Ids
<1>3. CASE Objects!Clone(t)
  <2>1. CASE UNCHANGED Objects!core
    BY <2>1
  <2>2. CASE made + 1 \in Objects!Ids /\ made' = made + 1
    <3>1. PICK p \in Objects!Protocols : protocol' = [protocol EXCEPT ![made + 1] = p]
      BY <1>3, <2>2, Constants, KindTraits DEF Objects!Clone, Fields
    <3>2. protocol' \in [Objects!Ids -> Objects!Protocols]
      BY <3>1
    <3>3. made \in Nat /\ 1..made \subseteq 1..made'
          /\ made' \in 0..MaxElements
      BY <2>2, Constants DEF Objects!Ids
    <3>4. garbled' \subseteq 1..made' /\ kept' \subseteq 1..made'
          /\ public' \subseteq 1..made'
      BY <1>3, <2>2, <3>3 DEF Objects!Clone
    <3> QED
      BY <2>2, <3>2, <3>3, <3>4
  <2> QED
    BY <1>3, <2>1, <2>2 DEF Objects!Clone
<1>4. CASE Objects!OpenDevice(t)
  BY <1>4, Constants, KindTraits DEF Objects!OpenDevice, Objects!Ids
<1>5. CASE Objects!FlipFlags(t)
  <2>1. lv[t].elt # Objects!None /\ lv[t].elt \in 0..made
    BY <1>5, CallOK(t) DEF Objects!FlipFlags, CallOK, Calls, CallType, Opened
  <2>2. lv[t].elt \in 1..made
    BY <2>1 DEF Objects!None
  <2> QED
    BY <1>5, <2>2 DEF Objects!FlipFlags
<1>6. CASE Objects!CloseFactory(t)
  BY <1>6, Constants, KindTraits DEF Objects!CloseFactory, Objects!Ids
<1>7. CASE Objects!StoreState(t)
  BY <1>7, Constants, KindTraits DEF Objects!StoreState, Objects!Ids
<1>8. CASE Objects!StoreEfd(t)
  <2>1. CASE efd # Objects!None /\ fd[efd] \in Objects!Ids /\ Objects!Drop(efd)
    <3>1. fd[efd] \in 1..made
      BY <2>1, Constants DEF Files, Fields, Objects!Ids
    <3> QED
      BY <2>1, <3>1 DEF Objects!Drop
  <2> QED
    BY <1>8, <2>1 DEF Objects!StoreEfd, Objects!Orphan
<1>9. CASE Objects!StoreMagic(t)
  <2>1. CASE fd[lv[t].efd] \in Objects!Ids /\ Objects!Drop(lv[t].efd)
    <3>1. lv[t].efd \in Objects!Fds
      BY <1>9, CallOK(t) DEF Objects!StoreMagic, CallOK, Calls, CallType
    <3>2. fd[lv[t].efd] \in 1..made
      BY <2>1, <3>1, Constants DEF Files, Objects!Ids
    <3> QED
      BY <2>1, <3>2 DEF Objects!Drop
  <2> QED
    BY <1>9, <2>1 DEF Objects!StoreMagic
<1>10. CASE Objects!CheckSanity(t)
  BY <1>10, Constants, KindTraits DEF Objects!CheckSanity, Objects!Ids
<1>11. CASE Objects!ReadState(t)
  BY <1>11, Constants, KindTraits DEF Objects!ReadState, Objects!Ids
<1>12. CASE Objects!Request(t)
  BY <1>12, Constants, KindTraits DEF Objects!Request, Objects!Ids
<1>13. CASE Objects!OpenByName(t)
  BY <1>13, Constants, KindTraits DEF Objects!OpenByName, Objects!Ids
<1>14. CASE Objects!Bind(t)
  BY <1>14, Constants, KindTraits DEF Objects!Bind, Objects!Ids
<1>15. CASE Objects!BeginClose(t)
  BY <1>15, Constants, KindTraits DEF Objects!BeginClose, Objects!Ids
<1>16. CASE Objects!CloseEfd(t)
  BY <1>16, Constants, KindTraits DEF Objects!CloseEfd, Objects!Ids
<1>17. CASE Objects!ClearState(t)
  BY <1>17, Constants, KindTraits DEF Objects!ClearState, Objects!Ids
<1>18. CASE Objects!Bury(t)
  <2>1. CASE efd # Objects!None /\ fd[efd] \in Objects!Ids /\ Objects!Drop(efd)
    <3>1. fd[efd] \in 1..made
      BY <2>1, Constants DEF Files, Fields, Objects!Ids
    <3> QED
      BY <2>1, <3>1 DEF Objects!Drop
  <2> QED
    BY <1>18, <2>1 DEF Objects!Bury, Objects!Orphan
<1>19. CASE Objects!CreateAgain(t)
  BY <1>19, Constants, KindTraits DEF Objects!CreateAgain, Objects!Ids
<1>20. CASE Objects!CreateOther(t)
  BY <1>20, Constants, KindTraits DEF Objects!CreateOther, Objects!Ids
<1>21. CASE Objects!CloseOther(t)
  BY <1>21, Constants, KindTraits DEF Objects!CloseOther, Objects!Ids
<1> QED
  BY <1>1, <1>2, <1>3, <1>4, <1>5, <1>6, <1>7, <1>8, <1>9, <1>10, <1>11,
     <1>12, <1>13, <1>14, <1>15, <1>16, <1>17, <1>18, <1>19, <1>20, <1>21
     DEF ObjectStep, Objects!Create, Objects!Store, Objects!Use, Objects!Open,
         Objects!Close

GoodCall(t) ==
    /\ lv'[t].other \in BOOLEAN /\ lv'[t].late \in BOOLEAN
    /\ lv'[t].ffd \in Objects!Fds \cup {Objects!None} /\ lv'[t].efd \in Objects!Fds \cup {Objects!None}
    /\ lv'[t].elt \in 0..made'
    /\ \A u \in Objects!Callers : u # t => lv'[u] = lv[u]

GoodFiles ==
    \A m \in Objects!Fds : /\ fd'[m] \in Objects!Ids \cup {NoFile, Factory, Lost}
                           /\ fd'[m] \in Objects!Ids => fd'[m] <= made'

(* A step leaves its own call and its descriptors well typed. *)
LEMMA GoodCallNext ==
  ASSUME Objects!ElementsConstants, TypeInv, NEW t \in Objects!Callers, CallOK(t), ObjectStep(t)
  PROVE  GoodCall(t)
<1> USE DEF GoodCall
<1>1. /\ Known /\ FdCount \in Nat
      /\ lv[t].elt \in 0..made /\ Objects!None \in 0..made
  BY Knowing, Constants DEF TypeInv, Calls, CallType, Elts, Objects!None
<1>2. /\ made \in Nat /\ made <= MaxElements
      /\ \A e \in Objects!Ids : e <= made => e \in 0..made
      /\ \A e \in Objects!Ids : e = made + 1 => e \in 0..e /\ 0..made \subseteq 0..e
  BY Constants DEF TypeInv, Elts, Objects!Ids
<1>3. CASE Objects!OpenFactory(t)
  <2>1. Late(t) \in BOOLEAN /\ made' = made
    BY <1>3, <1>1, OpenFactoryIs DEF Late
  <2>2. CASE Ends(t, "idle")
    BY <2>1, <2>2, <1>1 DEF Moves, Steps, Ends
  <2>3. CASE Steps(t, "faulted")
    BY <2>1, <2>3, <1>1 DEF Moves, Steps, Ends, Known
  <2>4. CASE \E n \in Objects!Fds : Moves(t, "clone", lv[t].other, Late(t), n,
                                          lv[t].efd, lv[t].elt)
    BY <2>1, <2>4, <1>1 DEF Moves, Steps, Ends, Known
  <2> QED
    BY <1>3, <1>1, <2>2, <2>3, <2>4, OpenFactoryIs
<1>4. CASE Objects!AnonymousPublic(t)
  <2>1. Ends(t, "idle") /\ made' = made
    BY <1>4, <1>1, AnonymousPublicIs
  <2> QED
    BY <2>1, <1>1 DEF Moves, Steps, Ends
<1>5. CASE Objects!Clone(t)
  BY <1>5, <1>1, <1>2, CloneIs DEF Moves, Steps, Ends, Late, Known
<1>6. CASE Objects!OpenDevice(t)
  BY <1>6, <1>1, <1>2, OpenDeviceIs DEF Moves, Steps, Ends, Late, Known
<1>7. CASE Objects!FlipFlags(t)
  BY <1>7, <1>1, <1>2, FlipFlagsIs DEF Moves, Steps, Ends, Late, Known
<1>8. CASE Objects!CloseFactory(t)
  BY <1>8, <1>1, <1>2, CloseFactoryIs DEF Moves, Steps, Ends, Late, Known
<1>9. CASE Objects!StoreState(t)
  BY <1>9, <1>1, <1>2, StoreStateIs DEF Moves, Steps, Ends, Late, Known
<1>10. CASE Objects!StoreEfd(t)
  BY <1>10, <1>1, <1>2, StoreEfdIs DEF Moves, Steps, Ends, Late, Known
<1>11. CASE Objects!StoreMagic(t)
  BY <1>11, <1>1, <1>2, StoreMagicIs DEF Moves, Steps, Ends, Late, Known
<1>12. CASE Objects!CheckSanity(t)
  BY <1>12, <1>1, <1>2, CheckSanityIs DEF Moves, Steps, Ends, Late, Known
<1>13. CASE Objects!ReadState(t)
  BY <1>13, <1>1, <1>2, ReadStateIs DEF Moves, Steps, Ends, Late, Known
<1>14. CASE Objects!Request(t)
  BY <1>14, <1>1, <1>2, RequestIs DEF Moves, Steps, Ends, Late, Known
<1>15. CASE Objects!OpenByName(t)
  BY <1>15, <1>1, <1>2, OpenByNameIs DEF Moves, Steps, Ends, Late, Known
<1>16. CASE Objects!Bind(t)
  BY <1>16, <1>1, <1>2, BindIs DEF Moves, Steps, Ends, Late, Known
<1>17. CASE Objects!BeginClose(t)
  BY <1>17, <1>1, <1>2, BeginCloseIs DEF Moves, Steps, Ends, Late, Known
<1>18. CASE Objects!CloseEfd(t)
  BY <1>18, <1>1, <1>2, CloseEfdIs DEF Moves, Steps, Ends, Late, Known
<1>19. CASE Objects!ClearState(t)
  BY <1>19, <1>1, <1>2, ClearStateIs DEF Moves, Steps, Ends, Late, Known
<1>20. CASE Objects!Bury(t)
  BY <1>20, <1>1, <1>2, BuryIs DEF Moves, Steps, Ends, Late, Known
<1>21. CASE Objects!CreateAgain(t)
  BY <1>21, <1>1, <1>2, CreateAgainIs DEF Moves, Steps, Ends, Late, Known
<1>22. CASE Objects!CreateOther(t)
  BY <1>22, <1>1, <1>2, CreateOtherIs DEF Moves, Steps, Ends, Late, Known
<1>23. CASE Objects!CloseOther(t)
  BY <1>23, <1>1, <1>2, CloseOtherIs DEF Moves, Steps, Ends, Late, Known
<1> QED
  BY <1>3, <1>4, <1>5, <1>6, <1>7, <1>8, <1>9, <1>10, <1>11, <1>12, <1>13,
     <1>14, <1>15, <1>16, <1>17, <1>18, <1>19, <1>20, <1>21, <1>22, <1>23
     DEF ObjectStep, Objects!Create, Objects!Store, Objects!Use, Objects!Open,
         Objects!Close

LEMMA GoodFilesNext ==
  ASSUME Objects!ElementsConstants, TypeInv, NEW t \in Objects!Callers, CallOK(t), ObjectStep(t)
  PROVE  GoodFiles
<1> USE DEF GoodFiles
<1>1. /\ FdCount \in Nat /\ Known
      /\ \A m \in Objects!Fds : fd[m] \in Objects!Ids => fd[m] <= made
  BY Constants, Knowing DEF TypeInv, Files
<1>2. /\ \A e \in Objects!Ids : e <= made \/ e = made + 1 =>
         \A x \in Objects!Ids : x <= made => x <= made + 1
      /\ \A u \in Objects!Callers : lv[u].elt \in Objects!Ids => lv[u].elt <= made
      /\ lv[t].ffd # Objects!None => step[t] # "idle"
      /\ made + 1 <= made + 1
  BY Constants DEF TypeInv, Elts, Objects!Ids, Calls, CallType, CallOK
<1>3. CASE Objects!OpenFactory(t)
  BY <1>3, <1>1, <1>2, OpenFactoryIs DEF Filed, Known
<1>4. CASE Objects!AnonymousPublic(t)
  <2>1. Filed(lv[t].ffd, Lost) /\ made' = made
    BY <1>4, <1>1, AnonymousPublicIs
  <2> QED
    BY <2>1, <1>1 DEF Filed, Known
<1>5. CASE Objects!Clone(t)
  BY <1>5, <1>1, <1>2, CloneIs DEF Filed, Known
<1>6. CASE Objects!OpenDevice(t)
  <2>1. lv[t].elt \in Objects!Ids
    BY <1>6, <1>1, OpenDeviceIs DEF CallOK, Known
  <2> QED
    BY <1>6, <1>1, <1>2, <2>1, OpenDeviceIs DEF Filed, Known
<1>7. CASE Objects!FlipFlags(t)
  BY <1>7, <1>1, <1>2, FlipFlagsIs DEF Filed, Known
<1>8. CASE Objects!CloseFactory(t)
  BY <1>8, <1>1, <1>2, CloseFactoryIs DEF Filed, Known
<1>9. CASE Objects!StoreState(t)
  BY <1>9, <1>1, <1>2, StoreStateIs DEF Filed, Known
<1>10. CASE Objects!StoreEfd(t)
  BY <1>10, <1>1, <1>2, StoreEfdIs DEF Filed, Known
<1>11. CASE Objects!StoreMagic(t)
  <2>1. made' = made /\ (fd' = fd \/ Filed(lv[t].efd, Lost))
    BY <1>11, <1>1, StoreMagicIs
  <2> QED
    BY <2>1, <1>1 DEF Filed, Known
<1>12. CASE Objects!CheckSanity(t)
  BY <1>12, <1>1, <1>2, CheckSanityIs DEF Filed, Known
<1>13. CASE Objects!ReadState(t)
  BY <1>13, <1>1, <1>2, ReadStateIs DEF Filed, Known
<1>14. CASE Objects!Request(t)
  BY <1>14, <1>1, <1>2, RequestIs DEF Filed, Known
<1>15. CASE Objects!OpenByName(t)
  BY <1>15, <1>1, <1>2, OpenByNameIs DEF Filed, Known
<1>16. CASE Objects!Bind(t)
  BY <1>16, <1>1, <1>2, BindIs DEF Filed, Known
<1>17. CASE Objects!BeginClose(t)
  BY <1>17, <1>1, <1>2, BeginCloseIs DEF Filed, Known
<1>18. CASE Objects!CloseEfd(t)
  BY <1>18, <1>1, <1>2, CloseEfdIs DEF Filed, Known
<1>19. CASE Objects!ClearState(t)
  BY <1>19, <1>1, <1>2, ClearStateIs DEF Filed, Known
<1>20. CASE Objects!Bury(t)
  BY <1>20, <1>1, <1>2, BuryIs DEF Filed, Known
<1>21. CASE Objects!CreateAgain(t)
  BY <1>21, <1>1, <1>2, CreateAgainIs DEF Filed, Known
<1>22. CASE Objects!CreateOther(t)
  BY <1>22, <1>1, <1>2, CreateOtherIs DEF Filed, Known
<1>23. CASE Objects!CloseOther(t)
  BY <1>23, <1>1, <1>2, CloseOtherIs DEF Filed, Known
<1> QED
  BY <1>3, <1>4, <1>5, <1>6, <1>7, <1>8, <1>9, <1>10, <1>11, <1>12, <1>13,
     <1>14, <1>15, <1>16, <1>17, <1>18, <1>19, <1>20, <1>21, <1>22, <1>23
     DEF ObjectStep, Objects!Create, Objects!Store, Objects!Use, Objects!Open,
         Objects!Close

(* The object stays of its kind. *)
LEMMA TraitsKeep ==
  ASSUME NEW t \in Objects!Callers, ObjectStep(t)
  PROVE  Objects!traits' = Objects!traits
<1>1. kind' = kind
  BY DEF ObjectStep, Objects!Create, Objects!Store, Objects!Use, Objects!Open,
         Objects!Close, Objects!OpenFactory, Objects!AnonymousPublic, Objects!Clone, Objects!OpenDevice, Objects!FlipFlags, Objects!CloseFactory, Objects!StoreState, Objects!StoreEfd, Objects!StoreMagic, Objects!CheckSanity, Objects!ReadState, Objects!Request, Objects!OpenByName, Objects!Bind, Objects!BeginClose, Objects!CloseEfd, Objects!ClearState, Objects!Bury, Objects!CreateAgain, Objects!CreateOther, Objects!CloseOther
<1> QED
  BY <1>1 DEF Objects!traits

(* A step keeps the types. *)
LEMMA TypesKeep ==
  ASSUME Objects!ElementsConstants, TypeInv, LocalInv, NEW t \in Objects!Callers, ObjectStep(t)
  PROVE  TypeInv'
<1>1. CallOK(t)
  BY DEF LocalInv
<1>2. Places' /\ Elts' /\ Fields'
  BY <1>1, PlacesKeep, EltsKeep, FieldsKeep
<1>3. Files'
  <2>1. \A m \in Objects!Fds : /\ fd'[m] \in Objects!Ids \cup {NoFile, Factory, Lost}
                               /\ fd'[m] \in Objects!Ids => fd'[m] <= made'
    BY <1>1, GoodFilesNext DEF GoodFiles
  <2> QED
    BY <2>1, FilesShape DEF Files
<1>4. Calls'
  <2>1. GoodCall(t) /\ IsCall(lv'[t])
    BY <1>1, GoodCallNext, CallsShape
  <2>2. lv'[t] \in CallType(made')
    <3> DEFINE c == lv'[t]
    <3>1. c = [other |-> c.other, pub |-> c.pub, late |-> c.late,
               ffd |-> c.ffd, efd |-> c.efd, elt |-> c.elt]
      BY <2>1 DEF IsCall
    <3>2. /\ c.other \in BOOLEAN /\ c.pub \in BOOLEAN /\ c.late \in BOOLEAN
          /\ c.ffd \in Objects!Fds \cup {Objects!None} /\ c.efd \in Objects!Fds \cup {Objects!None}
                /\ c.elt \in 0..made'
      BY <2>1 DEF IsCall, GoodCall
    <3> HIDE DEF c
    <3>3. c \in CallType(made')
      BY <3>1, <3>2 DEF CallType
    <3> QED
      BY <3>3 DEF c
  <2>3. made \in Nat /\ made' \in Nat /\ made <= made'
    <3>1. made' = made \/ made' = made + 1
      BY
         DEF ObjectStep, Objects!Create, Objects!Store, Objects!Use,
             Objects!Open, Objects!Close, Objects!OpenFactory,
             Objects!AnonymousPublic, Objects!Clone,
             Objects!OpenDevice, Objects!FlipFlags, Objects!CloseFactory,
             Objects!StoreState, Objects!StoreEfd,
             Objects!StoreMagic, Objects!Drop,
             Objects!CheckSanity, Objects!ReadState, Objects!Request,
             Objects!OpenByName, Objects!Bind, Objects!BeginClose,
             Objects!CloseEfd,
             Objects!ClearState, Objects!Bury, Objects!CreateAgain,
             Objects!CreateOther, Objects!CloseOther, Objects!core
    <3>2. made \in Nat
      BY Constants DEF TypeInv, Elts
    <3> QED
      BY <3>1, <3>2
  <2>4. 0..made \subseteq 0..made'
    BY <2>3
  <2>5. \A u \in Objects!Callers : u # t => lv'[u] = lv[u] /\ lv[u] \in CallType(made)
    BY <2>1 DEF GoodCall, TypeInv, Calls
  <2>6. CallType(made) \subseteq CallType(made')
    BY <2>4 DEF CallType
  <2>7. \A u \in Objects!Callers : lv'[u] \in CallType(made')
    BY <2>2, <2>5, <2>6
  <2> QED
    BY <2>7, CallsShape DEF Calls
<1> QED
  BY <1>2, <1>3, <1>4 DEF TypeInv
(* A step of one thread leaves the variables of all threads as their place *)
(* says.                                                                   *)
LEMMA LocalKeeps ==
  ASSUME Objects!ElementsConstants, TypeInv, LocalInv, MagicInv, NEW t \in Objects!Callers, ObjectStep(t)
  PROVE  LocalInv'
<1> USE DEF Moves, Steps, Ends, Known, LocalInv, CallOK, Opened, Closing,
            Late, Objects!Checked
<1>1. Known /\ FdCount \in Nat
  BY Knowing, Constants
<1>2. CASE Objects!OpenFactory(t)
  BY <1>2, <1>1, OpenFactoryIs
<1>3. CASE Objects!AnonymousPublic(t)
  BY <1>3, <1>1, AnonymousPublicIs
<1>4. CASE Objects!Clone(t)
  BY <1>4, <1>1, CloneIs, NextIsFresh
<1>5. CASE Objects!OpenDevice(t)
  BY <1>5, <1>1, OpenDeviceIs
<1>6. CASE Objects!FlipFlags(t)
  BY <1>6, <1>1, FlipFlagsIs
<1>7. CASE Objects!CloseFactory(t)
  BY <1>7, <1>1, CloseFactoryIs
<1>8. CASE Objects!StoreState(t)
  BY <1>8, <1>1, StoreStateIs, Persons DEF Whos, MagicInv, Making
<1>9. CASE Objects!StoreEfd(t)
  BY <1>9, <1>1, StoreEfdIs
<1>10. CASE Objects!StoreMagic(t)
  BY <1>10, <1>1, StoreMagicIs
<1>11. CASE Objects!CheckSanity(t)
  BY <1>11, <1>1, CheckSanityIs
<1>12. CASE Objects!ReadState(t)
  BY <1>12, <1>1, ReadStateIs
<1>13. CASE Objects!Request(t)
  BY <1>13, <1>1, RequestIs
<1>14. CASE Objects!OpenByName(t)
  BY <1>14, <1>1, OpenByNameIs
<1>15. CASE Objects!Bind(t)
  BY <1>15, <1>1, BindIs
<1>16. CASE Objects!BeginClose(t)
  BY <1>16, <1>1, BeginCloseIs
<1>17. CASE Objects!CloseEfd(t)
  BY <1>17, <1>1, CloseEfdIs
<1>18. CASE Objects!ClearState(t)
  BY <1>18, <1>1, ClearStateIs
<1>19. CASE Objects!Bury(t)
  BY <1>19, <1>1, BuryIs
<1>20. CASE Objects!CreateAgain(t)
  BY <1>20, <1>1, CreateAgainIs
<1>21. CASE Objects!CreateOther(t)
  BY <1>21, <1>1, CreateOtherIs
<1>22. CASE Objects!CloseOther(t)
  BY <1>22, <1>1, CloseOtherIs
<1> QED
  BY <1>2, <1>3, <1>4, <1>5, <1>6, <1>7, <1>8, <1>9, <1>10, <1>11,
     <1>12, <1>13, <1>14, <1>15, <1>16, <1>17, <1>18, <1>19, <1>20, <1>21,
     <1>22
     DEF ObjectStep, Objects!Create, Objects!Store, Objects!Use, Objects!Open,
         Objects!Close

(* Only the call which opened a clone device closes it. *)
LEMMA FactoriesKeep ==
  ASSUME Objects!ElementsConstants, TypeInv, LocalInv, FactoryHeld, NEW t \in Objects!Callers,
         ObjectStep(t)
  PROVE  FactoryHeld'
<1> USE DEF Moves, Steps, Ends, Known, LocalInv, CallOK, Opened, FactoryHeld,
            Filed, Fresh
<1>1. Known /\ FdCount \in Nat
  BY Knowing, Constants
<1>2. CASE Objects!OpenFactory(t)
  BY <1>2, <1>1, OpenFactoryIs
<1>3. CASE Objects!AnonymousPublic(t)
  BY <1>3, <1>1, AnonymousPublicIs
<1>4. CASE Objects!Clone(t)
  BY <1>4, <1>1, CloneIs, NextIsFresh
<1>5. CASE Objects!OpenDevice(t)
  BY <1>5, <1>1, OpenDeviceIs
<1>6. CASE Objects!FlipFlags(t)
  BY <1>6, <1>1, FlipFlagsIs
<1>7. CASE Objects!CloseFactory(t)
  BY <1>7, <1>1, CloseFactoryIs
<1>8. CASE Objects!StoreState(t)
  BY <1>8, <1>1, StoreStateIs
<1>9. CASE Objects!StoreEfd(t)
  BY <1>9, <1>1, StoreEfdIs
<1>10. CASE Objects!StoreMagic(t)
  BY <1>10, <1>1, StoreMagicIs
<1>11. CASE Objects!CheckSanity(t)
  BY <1>11, <1>1, CheckSanityIs
<1>12. CASE Objects!ReadState(t)
  BY <1>12, <1>1, ReadStateIs
<1>13. CASE Objects!Request(t)
  BY <1>13, <1>1, RequestIs
<1>14. CASE Objects!OpenByName(t)
  BY <1>14, <1>1, OpenByNameIs
<1>15. CASE Objects!Bind(t)
  BY <1>15, <1>1, BindIs
<1>16. CASE Objects!BeginClose(t)
  BY <1>16, <1>1, BeginCloseIs
<1>17. CASE Objects!CloseEfd(t)
  BY <1>17, <1>1, CloseEfdIs
<1>18. CASE Objects!ClearState(t)
  BY <1>18, <1>1, ClearStateIs
<1>19. CASE Objects!Bury(t)
  BY <1>19, <1>1, BuryIs
<1>20. CASE Objects!CreateAgain(t)
  BY <1>20, <1>1, CreateAgainIs
<1>21. CASE Objects!CreateOther(t)
  BY <1>21, <1>1, CreateOtherIs
<1>22. CASE Objects!CloseOther(t)
  BY <1>22, <1>1, CloseOtherIs
<1> QED
  BY <1>2, <1>3, <1>4, <1>5, <1>6, <1>7, <1>8, <1>9, <1>10, <1>11,
     <1>12, <1>13, <1>14, <1>15, <1>16, <1>17, <1>18, <1>19, <1>20, <1>21,
     <1>22
     DEF ObjectStep, Objects!Create, Objects!Store, Objects!Use, Objects!Open,
         Objects!Close

(* No step drops a descriptor without marking it as lost. *)
LEMMA DescriptorsKeep ==
  ASSUME Objects!ElementsConstants, TypeInv, LocalInv, AloneInv, EfdInv, FactoryHeld,
         Objects!DescriptorsAccounted, NEW t \in Objects!Callers, ObjectStep(t)
  PROVE  Objects!DescriptorsAccounted'
<1> USE DEF Moves, Steps, Ends, Known, LocalInv, CallOK, Opened, FactoryHeld,
            Filed, Fresh, Objects!DescriptorsAccounted, Objects!Holds
<1>1. Known /\ FdCount \in Nat
  BY Knowing, Constants
<1>2. CASE Objects!OpenFactory(t)
  BY <1>2, <1>1, OpenFactoryIs
<1>3. CASE Objects!AnonymousPublic(t)
  BY <1>3, <1>1, AnonymousPublicIs
<1>4. CASE Objects!Clone(t)
  BY <1>4, <1>1, CloneIs, NextIsFresh
<1>5. CASE Objects!OpenDevice(t)
  BY <1>5, <1>1, OpenDeviceIs
<1>6. CASE Objects!FlipFlags(t)
  BY <1>6, <1>1, FlipFlagsIs
<1>7. CASE Objects!CloseFactory(t)
  BY <1>7, <1>1, CloseFactoryIs
<1>8. CASE Objects!StoreState(t)
  BY <1>8, <1>1, StoreStateIs
<1>9. CASE Objects!StoreEfd(t)
  <2>1. /\ step[t] = "efd" /\ efd' = lv[t].efd /\ Steps(t, "magic") /\ magic' = magic
        /\ \/ /\ fd' = fd
              /\ raced /\ efd # Objects!None /\ fd[efd] \in Objects!Ids
                    => \E u \in Objects!Callers : Objects!Holds(u, efd)
           \/ Filed(efd, Lost)
    BY <1>9, <1>1, StoreEfdIs
  <2>2. ~ raced => magic # "active"
    BY <2>1 DEF AloneInv, Alone, Making
  <2>3. \A u \in Objects!Callers, n \in Objects!Fds : Objects!Holds(u, n) => Objects!Holds(u, n)'
    BY <2>1
  <2> SUFFICES ASSUME NEW n \in Objects!Fds, fd'[n] \in Objects!Ids \cup {Factory}
               PROVE  ((n = efd /\ magic # "dead") \/ \E u \in Objects!Callers : Objects!Holds(u, n))'
    OBVIOUS
  <2>4. fd'[n] = fd[n]
    BY <2>1, <1>1
  <2>5. CASE fd[n] = Factory
    BY <2>3, <2>5
  <2>6. CASE \E u \in Objects!Callers : Objects!Holds(u, n)
    BY <2>3, <2>6
  <2>7. CASE n = efd /\ fd[n] \in Objects!Ids
    <3>1. CASE fd' = fd
      <4>1. \E u \in Objects!Callers : Objects!Holds(u, efd)
        BY <2>1, <2>2, <2>7, <3>1, <1>1 DEF EfdInv, StoredEfd
      <4> QED
        BY <2>3, <2>7, <4>1
    <3>2. CASE Filed(efd, Lost)
      BY <2>7, <3>2, <1>1
    <3> QED
      BY <2>1, <3>1, <3>2
  <2> QED
    BY <2>4, <2>5, <2>6, <2>7
<1>10. CASE Objects!StoreMagic(t)
  <2>1. /\ step[t] = "magic" /\ efd' = efd /\ magic' = "active"
        /\ step'[t] \notin Opened
        /\ \A u \in Objects!Callers : u # t => step'[u] = step[u] /\ lv'[u] = lv[u]
        /\ \/ fd' = fd /\ (raced => efd = lv[t].efd \/ fd[lv[t].efd] \notin Objects!Ids
                                    \/ \E u \in Objects!Callers : u # t
                                          /\ Objects!Holds(u, lv[t].efd))
           \/ Filed(lv[t].efd, Lost)
    BY <1>10, <1>1, StoreMagicIs DEF Objects!Checked
  <2>2. ~ raced => efd = lv[t].efd
    BY <2>1 DEF EfdInv, StoredEfd
  <2>3. \A u \in Objects!Callers, n \in Objects!Fds : u # t /\ Objects!Holds(u, n) => Objects!Holds(u, n)'
    BY <2>1
  <2> SUFFICES ASSUME NEW n \in Objects!Fds, fd'[n] \in Objects!Ids \cup {Factory}
               PROVE  ((n = efd /\ magic # "dead") \/ \E u \in Objects!Callers : Objects!Holds(u, n))'
    OBVIOUS
  <2>4. fd'[n] = fd[n] /\ (n = lv[t].efd /\ fd[n] \in Objects!Ids => fd' = fd)
    BY <2>1, <1>1
  <2>5. CASE fd[n] = Factory
    BY <2>1, <2>3, <2>5
  <2>6. CASE \E u \in Objects!Callers : u # t /\ Objects!Holds(u, n)
    BY <2>3, <2>6
  <2>7. CASE Objects!Holds(t, n) /\ fd[n] \in Objects!Ids
    <3>1. n = lv[t].efd
      BY <2>1, <2>7, <1>1
    <3> QED
      BY <2>1, <2>2, <2>4, <2>6, <2>7, <3>1, <1>1
  <2> QED
    BY <2>1, <2>4, <2>5, <2>6, <2>7, <1>1
<1>11. CASE Objects!CheckSanity(t)
  BY <1>11, <1>1, CheckSanityIs
<1>12. CASE Objects!ReadState(t)
  BY <1>12, <1>1, ReadStateIs
<1>13. CASE Objects!Request(t)
  BY <1>13, <1>1, RequestIs
<1>14. CASE Objects!OpenByName(t)
  BY <1>14, <1>1, OpenByNameIs
<1>15. CASE Objects!Bind(t)
  BY <1>15, <1>1, BindIs
<1>16. CASE Objects!BeginClose(t)
  BY <1>16, <1>1, BeginCloseIs
<1>17. CASE Objects!CloseEfd(t)
  BY <1>17, <1>1, CloseEfdIs
<1>18. CASE Objects!ClearState(t)
  BY <1>18, <1>1, ClearStateIs
<1>19. CASE Objects!Bury(t)
  <2>1. /\ step[t] = "bury" /\ efd' = efd
        /\ \A u \in Objects!Callers : u # t => step'[u] = step[u] /\ lv'[u] = lv[u]
        /\ \/ fd' = fd /\ ~ (torn /\ efd # Objects!None /\ fd[efd] \in Objects!Ids
                             /\ \A u \in Objects!Callers : ~ Objects!Holds(u, efd))
           \/ efd # Objects!None /\ Filed(efd, Lost)
    BY <1>19, <1>1, BuryIs
  <2>2. t = Owner
    BY <2>1 DEF LocalInv, CallOK, Closing
  <2>3. \A u \in Objects!Callers, n \in Objects!Fds : Objects!Holds(u, n) => Objects!Holds(u, n)'
    BY <2>1
  <2> SUFFICES ASSUME NEW n \in Objects!Fds, fd'[n] \in Objects!Ids \cup {Factory}
               PROVE  \E u \in Objects!Callers : Objects!Holds(u, n)'
    OBVIOUS
  <2>4. fd'[n] = fd[n] /\ (n = efd => fd' = fd)
    BY <2>1, <1>1
  <2>5. CASE fd[n] = Factory
    BY <2>3, <2>5
  <2>6. CASE \E u \in Objects!Callers : Objects!Holds(u, n)
    BY <2>3, <2>6
  <2>7. CASE n = efd /\ fd[n] \in Objects!Ids
    <3>1. \E u \in Objects!Callers : Objects!Holds(u, efd)
      BY <2>1, <2>2, <2>4, <2>7, <1>1 DEF EfdInv, ClosedEfd
    <3> QED
      BY <2>3, <2>7, <3>1
  <2> QED
    BY <2>4, <2>5, <2>6, <2>7
<1>20. CASE Objects!CreateAgain(t)
  BY <1>20, <1>1, CreateAgainIs
<1>21. CASE Objects!CreateOther(t)
  BY <1>21, <1>1, CreateOtherIs
<1>22. CASE Objects!CloseOther(t)
  BY <1>22, <1>1, CloseOtherIs
<1> QED
  BY <1>2, <1>3, <1>4, <1>5, <1>6, <1>7, <1>8, <1>9, <1>10, <1>11,
     <1>12, <1>13, <1>14, <1>15, <1>16, <1>17, <1>18, <1>19, <1>20, <1>21,
     <1>22
     DEF ObjectStep, Objects!Create, Objects!Store, Objects!Use, Objects!Open,
         Objects!Close

(* The owner alone makes public elements. *)
LEMMA PublicKeeps ==
  ASSUME Objects!ElementsConstants, TypeInv, LocalInv, PublicInv, NEW t \in Objects!Callers,
         ObjectStep(t)
  PROVE  PublicInv'
<1> USE DEF TypeInv, Calls, CallType, Elts, PublicInv, LocalInv, CallOK, Opened,
            Objects!Goto, Objects!Set, Objects!Return, Objects!Fault,
            Objects!NoCall, Objects!Drop, Objects!core, Objects!object, Objects!ghosts
<1>1. Known /\ FdCount \in Nat
  BY Knowing, Constants
<1>2. CASE Objects!OpenFactory(t)
  BY <1>2, <1>1 DEF Objects!OpenFactory, Known
<1>3. CASE Objects!AnonymousPublic(t)
  BY <1>3, <1>1 DEF Objects!AnonymousPublic, Known
<1>4. CASE Objects!Clone(t)
  <2>1. CASE UNCHANGED Objects!core
    BY <1>4, <2>1, <1>1 DEF Objects!Clone, Known
  <2>2. CASE made' = made + 1
    <3>1. made + 1 \notin public /\ made + 1 \notin garbled
      BY Constants
    <3>2. lv[t].late => ~ lv[t].pub
      BY <1>1 DEF Known, Objects!Callers
    <3>3. \A u \in Objects!Callers : lv'[u].pub = lv[u].pub
      BY <1>4, <2>2 DEF Objects!Clone
    <3>4. public' \cap garbled' = {}
      BY <1>4, <2>2, <3>1, <3>2 DEF Objects!Clone
    <3> QED
      BY <3>3, <3>4, <1>1 DEF Known
  <2> QED
    BY <1>4, <2>1, <2>2 DEF Objects!Clone
<1>5. CASE Objects!OpenDevice(t)
  BY <1>5, <1>1 DEF Objects!OpenDevice, Known
<1>6. CASE Objects!FlipFlags(t)
  BY <1>6, <1>1 DEF Objects!FlipFlags, Known
<1>7. CASE Objects!CloseFactory(t)
  BY <1>7, <1>1 DEF Objects!CloseFactory, Known
<1>8. CASE Objects!StoreState(t)
  BY <1>8, <1>1 DEF Objects!StoreState, Known
<1>9. CASE Objects!StoreEfd(t)
  BY <1>9, <1>1 DEF Objects!StoreEfd, Known
<1>10. CASE Objects!StoreMagic(t)
  BY <1>10, <1>1 DEF Objects!StoreMagic, Known
<1>11. CASE Objects!CheckSanity(t)
  BY <1>11, <1>1 DEF Objects!CheckSanity, Known
<1>12. CASE Objects!ReadState(t)
  BY <1>12, <1>1 DEF Objects!ReadState, Known
<1>13. CASE Objects!Request(t)
  BY <1>13, <1>1 DEF Objects!Request, Known
<1>14. CASE Objects!OpenByName(t)
  BY <1>14, <1>1 DEF Objects!OpenByName, Known
<1>15. CASE Objects!Bind(t)
  BY <1>15, <1>1 DEF Objects!Bind, Known
<1>16. CASE Objects!BeginClose(t)
  BY <1>16, <1>1 DEF Objects!BeginClose, Known
<1>17. CASE Objects!CloseEfd(t)
  BY <1>17, <1>1 DEF Objects!CloseEfd, Known
<1>18. CASE Objects!ClearState(t)
  BY <1>18, <1>1 DEF Objects!ClearState, Known
<1>19. CASE Objects!Bury(t)
  BY <1>19, <1>1 DEF Objects!Bury, Known
<1>20. CASE Objects!CreateAgain(t)
  BY <1>20, <1>1 DEF Objects!CreateAgain, Known
<1>21. CASE Objects!CreateOther(t)
  BY <1>21, <1>1 DEF Objects!CreateOther, Known
<1>22. CASE Objects!CloseOther(t)
  BY <1>22, <1>1 DEF Objects!CloseOther, Known
<1> QED
  BY <1>2, <1>3, <1>4, <1>5, <1>6, <1>7, <1>8, <1>9, <1>10, <1>11, <1>12, <1>13, <1>14, <1>15, <1>16, <1>17, <1>18, <1>19, <1>20, <1>21, <1>22
     DEF ObjectStep, Objects!Create, Objects!Store, Objects!Use, Objects!Open,
         Objects!Close

(* The magic word goes from uninit to active to dead and, by another       *)
(* creation, back.                                                         *)
LEMMA MagicKeeps ==
  ASSUME Objects!ElementsConstants, TypeInv, LocalInv, MagicInv, AloneInv,
         NEW t \in Objects!Callers, ObjectStep(t)
  PROVE  MagicInv'
<1> USE DEF Moves, Steps, Ends, Known, LocalInv, CallOK, MagicInv, AloneInv, Alone, Undisturbed,
            Making, Opened, Closing, Objects!Checked, Objects!Creating, Met, Beset
<1>1. Known /\ FdCount \in Nat
  BY Knowing, Constants
<1>2. CASE Objects!OpenFactory(t)
  BY <1>2, <1>1, OpenFactoryIs
<1>3. CASE Objects!AnonymousPublic(t)
  BY <1>3, <1>1, AnonymousPublicIs
<1>4. CASE Objects!Clone(t)
  BY <1>4, <1>1, CloneIs, NextIsFresh
<1>5. CASE Objects!OpenDevice(t)
  BY <1>5, <1>1, OpenDeviceIs
<1>6. CASE Objects!FlipFlags(t)
  BY <1>6, <1>1, FlipFlagsIs
<1>7. CASE Objects!CloseFactory(t)
  BY <1>7, <1>1, CloseFactoryIs
<1>8. CASE Objects!StoreState(t)
  BY <1>8, <1>1, StoreStateIs
<1>9. CASE Objects!StoreEfd(t)
  BY <1>9, <1>1, StoreEfdIs
<1>10. CASE Objects!StoreMagic(t)
  BY <1>10, <1>1, StoreMagicIs
<1>11. CASE Objects!CheckSanity(t)
  BY <1>11, <1>1, CheckSanityIs
<1>12. CASE Objects!ReadState(t)
  BY <1>12, <1>1, ReadStateIs
<1>13. CASE Objects!Request(t)
  BY <1>13, <1>1, RequestIs
<1>14. CASE Objects!OpenByName(t)
  BY <1>14, <1>1, OpenByNameIs
<1>15. CASE Objects!Bind(t)
  BY <1>15, <1>1, BindIs
<1>16. CASE Objects!BeginClose(t)
  BY <1>16, <1>1, BeginCloseIs
<1>17. CASE Objects!CloseEfd(t)
  BY <1>17, <1>1, CloseEfdIs
<1>18. CASE Objects!ClearState(t)
  BY <1>18, <1>1, ClearStateIs
<1>19. CASE Objects!Bury(t)
  BY <1>19, <1>1, BuryIs
<1>20. CASE Objects!CreateAgain(t)
  BY <1>20, <1>1, CreateAgainIs
<1>21. CASE Objects!CreateOther(t)
  BY <1>21, <1>1, CreateOtherIs
<1>22. CASE Objects!CloseOther(t)
  BY <1>22, <1>1, CloseOtherIs
<1> QED
  BY <1>2, <1>3, <1>4, <1>5, <1>6, <1>7, <1>8, <1>9, <1>10, <1>11,
     <1>12, <1>13, <1>14, <1>15, <1>16, <1>17, <1>18, <1>19, <1>20, <1>21,
     <1>22
     DEF ObjectStep, Objects!Create, Objects!Store, Objects!Use, Objects!Open,
         Objects!Close

(* Without a race, a creation is alone until it stores the magic word, and *)
(* so is a user which has not met another creator or a close.              *)
LEMMA AloneKeeps ==
  ASSUME Objects!ElementsConstants, TypeInv, LocalInv, MagicInv, AloneInv, NEW t \in Objects!Callers,
         ObjectStep(t)
  PROVE  AloneInv'
<1> USE DEF Moves, Steps, Ends, Known, LocalInv, CallOK, MagicInv, AloneInv,
            Alone, Undisturbed, Making, Objects!Creating, Opened, Closing,
            Objects!Checked, Met, Beset
<1>1. Known /\ FdCount \in Nat
  BY Knowing, Constants
<1>2. CASE Objects!OpenFactory(t)
  BY <1>2, <1>1, OpenFactoryIs
<1>3. CASE Objects!AnonymousPublic(t)
  BY <1>3, <1>1, AnonymousPublicIs
<1>4. CASE Objects!Clone(t)
  BY <1>4, <1>1, CloneIs, NextIsFresh
<1>5. CASE Objects!OpenDevice(t)
  BY <1>5, <1>1, OpenDeviceIs
<1>6. CASE Objects!FlipFlags(t)
  BY <1>6, <1>1, FlipFlagsIs
<1>7. CASE Objects!CloseFactory(t)
  BY <1>7, <1>1, CloseFactoryIs
<1>8. CASE Objects!StoreState(t)
  BY <1>8, <1>1, StoreStateIs
<1>9. CASE Objects!StoreEfd(t)
  BY <1>9, <1>1, StoreEfdIs
<1>10. CASE Objects!StoreMagic(t)
  BY <1>10, <1>1, StoreMagicIs
<1>11. CASE Objects!CheckSanity(t)
  <2>1. Alone'
    BY <1>11, <1>1, CheckSanityIs, Persons DEF Whos
  <2>2. Undisturbed'
    BY <1>11, <1>1, CheckSanityIs, Persons DEF Whos
  <2> QED
    BY <2>1, <2>2
<1>12. CASE Objects!ReadState(t)
  BY <1>12, <1>1, ReadStateIs
<1>13. CASE Objects!Request(t)
  BY <1>13, <1>1, RequestIs
<1>14. CASE Objects!OpenByName(t)
  <2>1. Alone'
    BY <1>14, <1>1, OpenByNameIs, Persons DEF Whos
  <2>2. Undisturbed'
    BY <1>14, <1>1, OpenByNameIs
  <2> QED
    BY <2>1, <2>2
<1>15. CASE Objects!Bind(t)
  BY <1>15, <1>1, BindIs
<1>16. CASE Objects!BeginClose(t)
  BY <1>16, <1>1, BeginCloseIs
<1>17. CASE Objects!CloseEfd(t)
  BY <1>17, <1>1, CloseEfdIs
<1>18. CASE Objects!ClearState(t)
  BY <1>18, <1>1, ClearStateIs
<1>19. CASE Objects!Bury(t)
  BY <1>19, <1>1, BuryIs
<1>20. CASE Objects!CreateAgain(t)
  <2>1. Alone'
    BY <1>20, <1>1, CreateAgainIs, Persons DEF Whos
  <2>2. Undisturbed'
    BY <1>20, <1>1, CreateAgainIs
  <2> QED
    BY <2>1, <2>2
<1>21. CASE Objects!CreateOther(t)
  BY <1>21, <1>1, CreateOtherIs
<1>22. CASE Objects!CloseOther(t)
  BY <1>22, <1>1, CloseOtherIs
<1> QED
  BY <1>2, <1>3, <1>4, <1>5, <1>6, <1>7, <1>8, <1>9, <1>10, <1>11, <1>12, <1>13, <1>14, <1>15, <1>16, <1>17, <1>18, <1>19, <1>20, <1>21, <1>22
     DEF ObjectStep, Objects!Create, Objects!Store, Objects!Use, Objects!Open,
         Objects!Close

(* The descriptor of the object is cleared, or still of the element, when  *)
(* it is closed.                                                           *)
LEMMA EfdKeeps ==
  ASSUME Objects!ElementsConstants, TypeInv, LocalInv, MagicInv, AloneInv, EfdInv,
         Objects!DescriptorsAccounted, Objects!ActiveIsWhole, NEW t \in Objects!Callers,
         ObjectStep(t)
  PROVE  EfdInv'
<1> USE DEF Moves, Steps, Ends, Known, LocalInv, CallOK, MagicInv, AloneInv, Alone,
            Undisturbed, EfdInv, StoredEfd, ClosedEfd, Making, Opened, Closing, Objects!Checked, Objects!Holds,
            Objects!Creating, Met, Beset, Objects!DescriptorsAccounted, Filed
<1>1. Known /\ FdCount \in Nat
  BY Knowing, Constants
<1>2. CASE Objects!OpenFactory(t)
  BY <1>2, <1>1, OpenFactoryIs
<1>3. CASE Objects!AnonymousPublic(t)
  BY <1>3, <1>1, AnonymousPublicIs
<1>4. CASE Objects!Clone(t)
  BY <1>4, <1>1, CloneIs, NextIsFresh
<1>5. CASE Objects!OpenDevice(t)
  BY <1>5, <1>1, OpenDeviceIs
<1>6. CASE Objects!FlipFlags(t)
  BY <1>6, <1>1, FlipFlagsIs
<1>7. CASE Objects!CloseFactory(t)
  BY <1>7, <1>1, CloseFactoryIs
<1>8. CASE Objects!StoreState(t)
  BY <1>8, <1>1, StoreStateIs
<1>9. CASE Objects!StoreEfd(t)
  <2>1. StoredEfd'
    BY <1>9, <1>1, StoreEfdIs
  <2>2. ClosedEfd'
    BY <1>9, <1>1, StoreEfdIs, Persons DEF Whos
  <2> QED
    BY <2>1, <2>2
<1>10. CASE Objects!StoreMagic(t)
  <2>1. StoredEfd'
    BY <1>10, <1>1, StoreMagicIs
  <2>2. ClosedEfd'
    BY <1>10, <1>1, StoreMagicIs, Persons DEF Whos
  <2> QED
    BY <2>1, <2>2
<1>11. CASE Objects!CheckSanity(t)
  BY <1>11, <1>1, CheckSanityIs
<1>12. CASE Objects!ReadState(t)
  BY <1>12, <1>1, ReadStateIs
<1>13. CASE Objects!Request(t)
  BY <1>13, <1>1, RequestIs
<1>14. CASE Objects!OpenByName(t)
  <2>1. StoredEfd'
    BY <1>14, <1>1, OpenByNameIs, Persons DEF Whos
  <2>2. ClosedEfd'
    BY <1>14, <1>1, OpenByNameIs
  <2> QED
    BY <2>1, <2>2
<1>15. CASE Objects!Bind(t)
  BY <1>15, <1>1, BindIs
<1>16. CASE Objects!BeginClose(t)
  <2>1. StoredEfd'
    BY <1>16, <1>1, BeginCloseIs
  <2>2. ClosedEfd'
    BY <1>16, <1>1, BeginCloseIs DEF Objects!ActiveIsWhole, Objects!Closing
  <2> QED
    BY <2>1, <2>2
<1>17. CASE Objects!CloseEfd(t)
  BY <1>17, <1>1, CloseEfdIs
<1>18. CASE Objects!ClearState(t)
  BY <1>18, <1>1, ClearStateIs
<1>19. CASE Objects!Bury(t)
  BY <1>19, <1>1, BuryIs
<1>20. CASE Objects!CreateAgain(t)
  <2>1. StoredEfd'
    BY <1>20, <1>1, CreateAgainIs, Persons DEF Whos
  <2>2. ClosedEfd'
    BY <1>20, <1>1, CreateAgainIs
  <2> QED
    BY <2>1, <2>2
<1>21. CASE Objects!CreateOther(t)
  BY <1>21, <1>1, CreateOtherIs
<1>22. CASE Objects!CloseOther(t)
  BY <1>22, <1>1, CloseOtherIs
<1> QED
  BY <1>2, <1>3, <1>4, <1>5, <1>6, <1>7, <1>8, <1>9, <1>10, <1>11, <1>12, <1>13, <1>14, <1>15, <1>16, <1>17, <1>18, <1>19, <1>20, <1>21, <1>22
     DEF ObjectStep, Objects!Create, Objects!Store, Objects!Use, Objects!Open,
         Objects!Close

(* A new life which nobody disturbs begins with nothing in hands. *)
LEMMA HandsAreEmpty ==
  ASSUME Objects!ElementsConstants, TypeInv, LocalInv, ~ Beset, step[Owner] = "idle"
  PROVE  \A u \in Objects!Callers : lv[u].ffd = Objects!None /\ lv[u].efd = Objects!None
<1>1. Known
  BY Knowing
<1>2. ASSUME NEW u \in Users
      PROVE  lv[u].ffd = Objects!None /\ lv[u].efd = Objects!None
  <2>1. step[u] \in Objects!Locations /\ u \in Objects!Callers /\ u # Owner
    BY <1>1 DEF TypeInv, Places, Known
  <2> QED
    BY <1>1, <2>1 DEF Beset, Objects!Creating, LocalInv, CallOK, Known,
       Opened, Closing, Objects!Locations
<1> QED
  BY <1>1, <1>2 DEF LocalInv, CallOK, Known, Objects!Callers

(* No two calls have one descriptor. *)
LEMMA HeldOnceKeeps ==
  ASSUME Objects!ElementsConstants, TypeInv, LocalInv, MagicInv, AloneInv, EfdInv, OwnInv,
         ProtocolInv, ~ torn', NEW t \in Objects!Callers,
         ObjectStep(t)
  PROVE  HeldOnce'
<1> USE DEF Moves, Steps, Ends, Known, LocalInv, CallOK, Opened, Closing,
            Objects!Checked, Objects!Holds,
            Filed, Fresh, MagicInv, AloneInv, Alone, EfdInv, StoredEfd,
            ClosedEfd, Making, OwnInv, HeldOnce, HeldFiles,
            ObjectFile, Bound, Good
<1>1. Known /\ FdCount \in Nat
  BY Knowing, Constants
<1>2. CASE Objects!OpenFactory(t)
  BY <1>2, <1>1, OpenFactoryIs
<1>3. CASE Objects!AnonymousPublic(t)
  BY <1>3, <1>1, AnonymousPublicIs
<1>4. CASE Objects!Clone(t)
  BY <1>4, <1>1, CloneIs, NextIsFresh
<1>5. CASE Objects!OpenDevice(t)
  BY <1>5, <1>1, OpenDeviceIs
<1>6. CASE Objects!FlipFlags(t)
  BY <1>6, <1>1, FlipFlagsIs
<1>7. CASE Objects!CloseFactory(t)
  BY <1>7, <1>1, CloseFactoryIs
<1>8. CASE Objects!StoreState(t)
  BY <1>8, <1>1, StoreStateIs
<1>9. CASE Objects!StoreEfd(t)
  BY <1>9, <1>1, StoreEfdIs
<1>10. CASE Objects!StoreMagic(t)
  BY <1>10, <1>1, StoreMagicIs, Persons DEF Whos
<1>11. CASE Objects!CheckSanity(t)
  BY <1>11, <1>1, CheckSanityIs
<1>12. CASE Objects!ReadState(t)
  BY <1>12, <1>1, ReadStateIs
<1>13. CASE Objects!Request(t)
  BY <1>13, <1>1, RequestIs
<1>14. CASE Objects!OpenByName(t)
  BY <1>14, <1>1, OpenByNameIs, HandsAreEmpty
<1>15. CASE Objects!Bind(t)
  BY <1>15, <1>1, BindIs
<1>16. CASE Objects!BeginClose(t)
  <2>1. /\ t = Owner /\ step[t] = "idle" /\ magic = "active" /\ fd' = fd
        /\ ~ torn /\ ~ Beset /\ step'[t] = "close"
        /\ lv'[t].ffd = Objects!None /\ lv'[t].efd = efd
        /\ \A u \in Objects!Callers : u # t => step'[u] = step[u] /\ lv'[u] = lv[u]
    BY <1>16, <1>1, BeginCloseIs
  <2>2. \A u \in Objects!Callers : u # t => step[u] # "magic"
    BY <2>1, Persons DEF Whos, Beset, Objects!Creating
  <2>3. efd # Objects!None =>
           fd[efd] # NoFile /\ \A u \in Objects!Callers : u # t => ~ Objects!Holds(u, efd)
    BY <1>1, <2>1, <2>2
  <2>4. \A n \in Objects!Fds : /\ Objects!Holds(t, n)' <=> n = efd
                              /\ \A u \in Objects!Callers :
                                    u # t => (Objects!Holds(u, n)' <=> Objects!Holds(u, n))
    BY <1>1, <2>1
  <2>5. ~ Bound'
    BY <2>1
  <2> HIDE DEF Bound, Objects!Holds
  <2> QED
    BY <1>1, <2>1, <2>3, <2>4, <2>5
<1>17. CASE Objects!CloseEfd(t)
  BY <1>17, <1>1, CloseEfdIs
<1>18. CASE Objects!ClearState(t)
  BY <1>18, <1>1, ClearStateIs
<1>19. CASE Objects!Bury(t)
  BY <1>19, <1>1, BuryIs
<1>20. CASE Objects!CreateAgain(t)
  BY <1>20, <1>1, CreateAgainIs, HandsAreEmpty
<1>21. CASE Objects!CreateOther(t)
  BY <1>21, <1>1, CreateOtherIs
<1>22. CASE Objects!CloseOther(t)
  BY <1>22, <1>1, CloseOtherIs
<1> QED
  BY <1>2, <1>3, <1>4, <1>5, <1>6, <1>7, <1>8, <1>9, <1>10, <1>11, <1>12, <1>13, <1>14, <1>15, <1>16, <1>17, <1>18, <1>19, <1>20, <1>21, <1>22
     DEF ObjectStep, Objects!Create, Objects!Store, Objects!Use, Objects!Open,
         Objects!Close

(* What a call has opened stays open on its element. *)
LEMMA HeldFilesKeep ==
  ASSUME Objects!ElementsConstants, TypeInv, LocalInv, MagicInv, AloneInv, EfdInv, OwnInv,
         ProtocolInv, ~ torn', NEW t \in Objects!Callers,
         ObjectStep(t)
  PROVE  HeldFiles'
<1> USE DEF Moves, Steps, Ends, Known, LocalInv, CallOK, Opened, Closing,
            Objects!Checked, Objects!Holds,
            Filed, Fresh, MagicInv, AloneInv, Alone, EfdInv, StoredEfd,
            ClosedEfd, Making, OwnInv, HeldOnce, HeldFiles,
            ObjectFile, Bound, Good
<1>1. Known /\ FdCount \in Nat
  BY Knowing, Constants
<1>2. CASE Objects!OpenFactory(t)
  BY <1>2, <1>1, OpenFactoryIs
<1>3. CASE Objects!AnonymousPublic(t)
  BY <1>3, <1>1, AnonymousPublicIs
<1>4. CASE Objects!Clone(t)
  BY <1>4, <1>1, CloneIs, NextIsFresh
<1>5. CASE Objects!OpenDevice(t)
  BY <1>5, <1>1, OpenDeviceIs
<1>6. CASE Objects!FlipFlags(t)
  BY <1>6, <1>1, FlipFlagsIs
<1>7. CASE Objects!CloseFactory(t)
  BY <1>7, <1>1, CloseFactoryIs
<1>8. CASE Objects!StoreState(t)
  BY <1>8, <1>1, StoreStateIs
<1>9. CASE Objects!StoreEfd(t)
  BY <1>9, <1>1, StoreEfdIs
<1>10. CASE Objects!StoreMagic(t)
  BY <1>10, <1>1, StoreMagicIs
<1>11. CASE Objects!CheckSanity(t)
  BY <1>11, <1>1, CheckSanityIs
<1>12. CASE Objects!ReadState(t)
  BY <1>12, <1>1, ReadStateIs
<1>13. CASE Objects!Request(t)
  BY <1>13, <1>1, RequestIs
<1>14. CASE Objects!OpenByName(t)
  BY <1>14, <1>1, OpenByNameIs, HandsAreEmpty
<1>15. CASE Objects!Bind(t)
  BY <1>15, <1>1, BindIs
<1>16. CASE Objects!BeginClose(t)
  BY <1>16, <1>1, BeginCloseIs
<1>17. CASE Objects!CloseEfd(t)
  BY <1>17, <1>1, CloseEfdIs
<1>18. CASE Objects!ClearState(t)
  BY <1>18, <1>1, ClearStateIs
<1>19. CASE Objects!Bury(t)
  BY <1>19, <1>1, BuryIs
<1>20. CASE Objects!CreateAgain(t)
  BY <1>20, <1>1, CreateAgainIs, HandsAreEmpty
<1>21. CASE Objects!CreateOther(t)
  BY <1>21, <1>1, CreateOtherIs
<1>22. CASE Objects!CloseOther(t)
  BY <1>22, <1>1, CloseOtherIs
<1> QED
  BY <1>2, <1>3, <1>4, <1>5, <1>6, <1>7, <1>8, <1>9, <1>10, <1>11, <1>12, <1>13, <1>14, <1>15, <1>16, <1>17, <1>18, <1>19, <1>20, <1>21, <1>22
     DEF ObjectStep, Objects!Create, Objects!Store, Objects!Use, Objects!Open,
         Objects!Close

(* The descriptor of the object stays open on an element of the right      *)
(* protocol.                                                               *)
LEMMA ObjectFileKeeps ==
  ASSUME Objects!ElementsConstants, TypeInv, LocalInv, MagicInv, AloneInv, EfdInv, OwnInv,
         ProtocolInv, ~ torn', NEW t \in Objects!Callers,
         ObjectStep(t)
  PROVE  ObjectFile'
<1> USE DEF Moves, Steps, Ends, Known, LocalInv, CallOK, Opened, Closing,
            Objects!Checked, Objects!Holds,
            Filed, Fresh, MagicInv, AloneInv, Alone, EfdInv, StoredEfd,
            ClosedEfd, Making, OwnInv, HeldOnce, HeldFiles,
            ObjectFile, Bound, Good, ProtocolInv
<1>1. Known /\ FdCount \in Nat
  BY Knowing, Constants
<1>2. CASE Objects!OpenFactory(t)
  BY <1>2, <1>1, OpenFactoryIs
<1>3. CASE Objects!AnonymousPublic(t)
  BY <1>3, <1>1, AnonymousPublicIs
<1>4. CASE Objects!Clone(t)
  BY <1>4, <1>1, CloneIs, NextIsFresh
<1>5. CASE Objects!OpenDevice(t)
  BY <1>5, <1>1, OpenDeviceIs
<1>6. CASE Objects!FlipFlags(t)
  BY <1>6, <1>1, FlipFlagsIs
<1>7. CASE Objects!CloseFactory(t)
  BY <1>7, <1>1, CloseFactoryIs
<1>8. CASE Objects!StoreState(t)
  BY <1>8, <1>1, StoreStateIs
<1>9. CASE Objects!StoreEfd(t)
  BY <1>9, <1>1, StoreEfdIs
<1>10. CASE Objects!StoreMagic(t)
  BY <1>10, <1>1, StoreMagicIs, Persons DEF Whos
<1>11. CASE Objects!CheckSanity(t)
  BY <1>11, <1>1, CheckSanityIs
<1>12. CASE Objects!ReadState(t)
  BY <1>12, <1>1, ReadStateIs
<1>13. CASE Objects!Request(t)
  BY <1>13, <1>1, RequestIs
<1>14. CASE Objects!OpenByName(t)
  BY <1>14, <1>1, OpenByNameIs, HandsAreEmpty
<1>15. CASE Objects!Bind(t)
  BY <1>15, <1>1, BindIs
<1>16. CASE Objects!BeginClose(t)
  BY <1>16, <1>1, BeginCloseIs
<1>17. CASE Objects!CloseEfd(t)
  BY <1>17, <1>1, CloseEfdIs
<1>18. CASE Objects!ClearState(t)
  BY <1>18, <1>1, ClearStateIs
<1>19. CASE Objects!Bury(t)
  BY <1>19, <1>1, BuryIs
<1>20. CASE Objects!CreateAgain(t)
  BY <1>20, <1>1, CreateAgainIs, HandsAreEmpty
<1>21. CASE Objects!CreateOther(t)
  BY <1>21, <1>1, CreateOtherIs
<1>22. CASE Objects!CloseOther(t)
  BY <1>22, <1>1, CloseOtherIs
<1> QED
  BY <1>2, <1>3, <1>4, <1>5, <1>6, <1>7, <1>8, <1>9, <1>10, <1>11, <1>12, <1>13, <1>14, <1>15, <1>16, <1>17, <1>18, <1>19, <1>20, <1>21, <1>22
     DEF ObjectStep, Objects!Create, Objects!Store, Objects!Use, Objects!Open,
         Objects!Close

(* If a close clears the descriptor first, no two calls have one which is  *)
(* not in the object.                                                      *)
LEMMA KeptOnceKeeps ==
  ASSUME Objects!ElementsConstants, TypeInv, LocalInv, ProtocolInv, Objects!traits.clearsFirst,
         KeptOnce, KeptFiles, Objects!ClosedBeforeReuse, NEW t \in Objects!Callers,
         ObjectStep(t)
  PROVE  KeptOnce'
<1> USE DEF Moves, Steps, Ends, Known, LocalInv, CallOK, Opened, Closing,
            Objects!Checked, Objects!Holds,
            Filed, Fresh, Keeps, KeptOnce, KeptFiles, Objects!ClosedBeforeReuse,
            ProtocolInv
<1>1. Known /\ FdCount \in Nat
  BY Knowing, Constants
<1>2. CASE Objects!OpenFactory(t)
  BY <1>2, <1>1, OpenFactoryIs
<1>3. CASE Objects!AnonymousPublic(t)
  BY <1>3, <1>1, AnonymousPublicIs
<1>4. CASE Objects!Clone(t)
  BY <1>4, <1>1, CloneIs, NextIsFresh
<1>5. CASE Objects!OpenDevice(t)
  BY <1>5, <1>1, OpenDeviceIs
<1>6. CASE Objects!FlipFlags(t)
  BY <1>6, <1>1, FlipFlagsIs
<1>7. CASE Objects!CloseFactory(t)
  BY <1>7, <1>1, CloseFactoryIs
<1>8. CASE Objects!StoreState(t)
  BY <1>8, <1>1, StoreStateIs
<1>9. CASE Objects!StoreEfd(t)
  BY <1>9, <1>1, StoreEfdIs
<1>10. CASE Objects!StoreMagic(t)
  BY <1>10, <1>1, StoreMagicIs
<1>11. CASE Objects!CheckSanity(t)
  BY <1>11, <1>1, CheckSanityIs
<1>12. CASE Objects!ReadState(t)
  BY <1>12, <1>1, ReadStateIs
<1>13. CASE Objects!Request(t)
  BY <1>13, <1>1, RequestIs
<1>14. CASE Objects!OpenByName(t)
  BY <1>14, <1>1, OpenByNameIs
<1>15. CASE Objects!Bind(t)
  BY <1>15, <1>1, BindIs
<1>16. CASE Objects!BeginClose(t)
  BY <1>16, <1>1, BeginCloseIs
<1>17. CASE Objects!CloseEfd(t)
  BY <1>17, <1>1, CloseEfdIs
<1>18. CASE Objects!ClearState(t)
  BY <1>18, <1>1, ClearStateIs
<1>19. CASE Objects!Bury(t)
  BY <1>19, <1>1, BuryIs
<1>20. CASE Objects!CreateAgain(t)
  BY <1>20, <1>1, CreateAgainIs
<1>21. CASE Objects!CreateOther(t)
  BY <1>21, <1>1, CreateOtherIs
<1>22. CASE Objects!CloseOther(t)
  BY <1>22, <1>1, CloseOtherIs
<1> QED
  BY <1>2, <1>3, <1>4, <1>5, <1>6, <1>7, <1>8, <1>9, <1>10, <1>11, <1>12, <1>13, <1>14, <1>15, <1>16, <1>17, <1>18, <1>19, <1>20, <1>21, <1>22
     DEF ObjectStep, Objects!Create, Objects!Store, Objects!Use, Objects!Open,
         Objects!Close

(* Such a descriptor stays open on its element, ... *)
LEMMA KeptFilesKeep ==
  ASSUME Objects!ElementsConstants, TypeInv, LocalInv, ProtocolInv, Objects!traits.clearsFirst,
         KeptOnce, KeptFiles, Objects!ClosedBeforeReuse, NEW t \in Objects!Callers,
         ObjectStep(t)
  PROVE  KeptFiles'
<1> USE DEF Moves, Steps, Ends, Known, LocalInv, CallOK, Opened, Closing,
            Objects!Checked, Objects!Holds,
            Filed, Fresh, Keeps, KeptOnce, KeptFiles, Objects!ClosedBeforeReuse,
            ProtocolInv
<1>1. Known /\ FdCount \in Nat
  BY Knowing, Constants
<1>2. CASE Objects!OpenFactory(t)
  BY <1>2, <1>1, OpenFactoryIs
<1>3. CASE Objects!AnonymousPublic(t)
  BY <1>3, <1>1, AnonymousPublicIs
<1>4. CASE Objects!Clone(t)
  BY <1>4, <1>1, CloneIs, NextIsFresh
<1>5. CASE Objects!OpenDevice(t)
  BY <1>5, <1>1, OpenDeviceIs
<1>6. CASE Objects!FlipFlags(t)
  BY <1>6, <1>1, FlipFlagsIs
<1>7. CASE Objects!CloseFactory(t)
  BY <1>7, <1>1, CloseFactoryIs
<1>8. CASE Objects!StoreState(t)
  BY <1>8, <1>1, StoreStateIs
<1>9. CASE Objects!StoreEfd(t)
  BY <1>9, <1>1, StoreEfdIs
<1>10. CASE Objects!StoreMagic(t)
  BY <1>10, <1>1, StoreMagicIs
<1>11. CASE Objects!CheckSanity(t)
  BY <1>11, <1>1, CheckSanityIs
<1>12. CASE Objects!ReadState(t)
  BY <1>12, <1>1, ReadStateIs
<1>13. CASE Objects!Request(t)
  BY <1>13, <1>1, RequestIs
<1>14. CASE Objects!OpenByName(t)
  BY <1>14, <1>1, OpenByNameIs
<1>15. CASE Objects!Bind(t)
  BY <1>15, <1>1, BindIs
<1>16. CASE Objects!BeginClose(t)
  BY <1>16, <1>1, BeginCloseIs
<1>17. CASE Objects!CloseEfd(t)
  BY <1>17, <1>1, CloseEfdIs
<1>18. CASE Objects!ClearState(t)
  BY <1>18, <1>1, ClearStateIs
<1>19. CASE Objects!Bury(t)
  BY <1>19, <1>1, BuryIs
<1>20. CASE Objects!CreateAgain(t)
  BY <1>20, <1>1, CreateAgainIs
<1>21. CASE Objects!CreateOther(t)
  BY <1>21, <1>1, CreateOtherIs
<1>22. CASE Objects!CloseOther(t)
  BY <1>22, <1>1, CloseOtherIs
<1> QED
  BY <1>2, <1>3, <1>4, <1>5, <1>6, <1>7, <1>8, <1>9, <1>10, <1>11, <1>12, <1>13, <1>14, <1>15, <1>16, <1>17, <1>18, <1>19, <1>20, <1>21, <1>22
     DEF ObjectStep, Objects!Create, Objects!Store, Objects!Use, Objects!Open,
         Objects!Close

(* ... and so does that of the object, or it is lost to everybody. *)
LEMMA ClearedKeeps ==
  ASSUME Objects!ElementsConstants, TypeInv, LocalInv, ProtocolInv, Objects!traits.clearsFirst,
         KeptOnce, KeptFiles, Objects!ClosedBeforeReuse, NEW t \in Objects!Callers,
         ObjectStep(t)
  PROVE  Objects!ClosedBeforeReuse'
<1> USE DEF Moves, Steps, Ends, Known, LocalInv, CallOK, Opened, Closing,
            Objects!Checked, Objects!Holds,
            Filed, Fresh, Keeps, KeptOnce, KeptFiles, Objects!ClosedBeforeReuse,
            ProtocolInv
<1>1. Known /\ FdCount \in Nat
  BY Knowing, Constants
<1>2. CASE Objects!OpenFactory(t)
  BY <1>2, <1>1, OpenFactoryIs
<1>3. CASE Objects!AnonymousPublic(t)
  BY <1>3, <1>1, AnonymousPublicIs
<1>4. CASE Objects!Clone(t)
  BY <1>4, <1>1, CloneIs, NextIsFresh
<1>5. CASE Objects!OpenDevice(t)
  BY <1>5, <1>1, OpenDeviceIs
<1>6. CASE Objects!FlipFlags(t)
  BY <1>6, <1>1, FlipFlagsIs
<1>7. CASE Objects!CloseFactory(t)
  BY <1>7, <1>1, CloseFactoryIs
<1>8. CASE Objects!StoreState(t)
  BY <1>8, <1>1, StoreStateIs
<1>9. CASE Objects!StoreEfd(t)
  BY <1>9, <1>1, StoreEfdIs
<1>10. CASE Objects!StoreMagic(t)
  BY <1>10, <1>1, StoreMagicIs
<1>11. CASE Objects!CheckSanity(t)
  BY <1>11, <1>1, CheckSanityIs
<1>12. CASE Objects!ReadState(t)
  BY <1>12, <1>1, ReadStateIs
<1>13. CASE Objects!Request(t)
  BY <1>13, <1>1, RequestIs
<1>14. CASE Objects!OpenByName(t)
  BY <1>14, <1>1, OpenByNameIs
<1>15. CASE Objects!Bind(t)
  BY <1>15, <1>1, BindIs
<1>16. CASE Objects!BeginClose(t)
  BY <1>16, <1>1, BeginCloseIs
<1>17. CASE Objects!CloseEfd(t)
  BY <1>17, <1>1, CloseEfdIs
<1>18. CASE Objects!ClearState(t)
  BY <1>18, <1>1, ClearStateIs
<1>19. CASE Objects!Bury(t)
  BY <1>19, <1>1, BuryIs
<1>20. CASE Objects!CreateAgain(t)
  BY <1>20, <1>1, CreateAgainIs
<1>21. CASE Objects!CreateOther(t)
  BY <1>21, <1>1, CreateOtherIs
<1>22. CASE Objects!CloseOther(t)
  BY <1>22, <1>1, CloseOtherIs
<1> QED
  BY <1>2, <1>3, <1>4, <1>5, <1>6, <1>7, <1>8, <1>9, <1>10, <1>11, <1>12, <1>13, <1>14, <1>15, <1>16, <1>17, <1>18, <1>19, <1>20, <1>21, <1>22
     DEF ObjectStep, Objects!Create, Objects!Store, Objects!Use, Objects!Open,
         Objects!Close

(* An element of another protocol is never bound. *)
LEMMA ProtocolsKeep ==
  ASSUME Objects!ElementsConstants, TypeInv, LocalInv, ProtocolInv, NEW t \in Objects!Callers,
         ObjectStep(t)
  PROVE  ProtocolInv'
<1> USE DEF Moves, Steps, Ends, Known, LocalInv, CallOK, Opened, Fresh,
            ProtocolInv, Objects!Checked
<1>1. Known /\ FdCount \in Nat
  BY Knowing, Constants
<1>2. CASE Objects!OpenFactory(t)
  BY <1>2, <1>1, OpenFactoryIs
<1>3. CASE Objects!AnonymousPublic(t)
  BY <1>3, <1>1, AnonymousPublicIs
<1>4. CASE Objects!Clone(t)
  <2>1. step[t] = "clone" /\ state' = state /\ Objects!traits' = Objects!traits
    BY <1>4, <1>1, CloneIs
  <2>2. CASE Steps(t, "unwind") /\ protocol' = protocol
    BY <2>1, <2>2, <1>1
  <2>3. CASE ~ (Steps(t, "unwind") /\ protocol' = protocol)
    <3>1. PICK e \in Objects!Ids :
             /\ e = made + 1 /\ \A x \in Objects!Ids : x # e
                   => protocol'[x] = protocol[x]
             /\ lv[t].other \/ protocol'[e] \in Objects!traits.accepts
             /\ lv'[t].elt = e /\ (lv'[t].other <=> lv[t].other)
             /\ \A u \in Objects!Callers : u # t => step'[u] = step[u] /\ lv'[u] = lv[u]
      BY <1>4, <2>3, CloneIs
    <3>2. Fresh(e)
      BY <3>1, NextIsFresh
    <3>3. (state # Objects!None => protocol[state] \in Objects!traits.accepts)'
      BY <2>1, <3>1, <3>2, <1>1
    <3>4. ASSUME NEW u \in Objects!Callers, ~ lv'[u].other, lv'[u].elt # Objects!None,
                 step'[u]
                      \in {"device", "flip", "unwind", "state", "efd", "magic"}
          PROVE  protocol'[lv'[u].elt] \in Objects!traits'.accepts
      <4>1. CASE u = t
        BY <2>1, <3>1, <3>4, <4>1
      <4>2. CASE u # t
        <5>1. step'[u] = step[u] /\ lv'[u] = lv[u]
          BY <3>1, <4>2
        <5>2. lv[u].elt \in Objects!Ids /\ lv[u].elt # e
          BY <3>2, <3>4, <5>1, <1>1
        <5>3. protocol[lv[u].elt] \in Objects!traits.accepts
          BY <3>4, <5>1
        <5>4. protocol'[lv[u].elt] = protocol[lv[u].elt]
          BY <3>1, <5>2
        <5> QED
          BY <2>1, <5>1, <5>3, <5>4, Zenon
      <4> QED
        BY <4>1, <4>2
    <3> QED
      BY <3>3, <3>4
  <2> QED
    BY <2>2, <2>3
<1>5. CASE Objects!OpenDevice(t)
  BY <1>5, <1>1, OpenDeviceIs
<1>6. CASE Objects!FlipFlags(t)
  BY <1>6, <1>1, FlipFlagsIs
<1>7. CASE Objects!CloseFactory(t)
  BY <1>7, <1>1, CloseFactoryIs
<1>8. CASE Objects!StoreState(t)
  BY <1>8, <1>1, StoreStateIs
<1>9. CASE Objects!StoreEfd(t)
  BY <1>9, <1>1, StoreEfdIs
<1>10. CASE Objects!StoreMagic(t)
  BY <1>10, <1>1, StoreMagicIs
<1>11. CASE Objects!CheckSanity(t)
  BY <1>11, <1>1, CheckSanityIs
<1>12. CASE Objects!ReadState(t)
  BY <1>12, <1>1, ReadStateIs
<1>13. CASE Objects!Request(t)
  BY <1>13, <1>1, RequestIs
<1>14. CASE Objects!OpenByName(t)
  BY <1>14, <1>1, OpenByNameIs
<1>15. CASE Objects!Bind(t)
  BY <1>15, <1>1, BindIs
<1>16. CASE Objects!BeginClose(t)
  BY <1>16, <1>1, BeginCloseIs
<1>17. CASE Objects!CloseEfd(t)
  BY <1>17, <1>1, CloseEfdIs
<1>18. CASE Objects!ClearState(t)
  BY <1>18, <1>1, ClearStateIs
<1>19. CASE Objects!Bury(t)
  BY <1>19, <1>1, BuryIs
<1>20. CASE Objects!CreateAgain(t)
  BY <1>20, <1>1, CreateAgainIs
<1>21. CASE Objects!CreateOther(t)
  BY <1>21, <1>1, CreateOtherIs
<1>22. CASE Objects!CloseOther(t)
  BY <1>22, <1>1, CloseOtherIs
<1> QED
  BY <1>2, <1>3, <1>4, <1>5, <1>6, <1>7, <1>8, <1>9, <1>10, <1>11,
     <1>12, <1>13, <1>14, <1>15, <1>16, <1>17, <1>18, <1>19, <1>20, <1>21,
     <1>22
     DEF ObjectStep, Objects!Create, Objects!Store, Objects!Use, Objects!Open,
         Objects!Close

(* The state which a user sees is that of a creation which got that far,   *)
(* unless a close, or a creation, overlaps with the call.                  *)
LEMMA StateKeeps ==
  ASSUME Objects!ElementsConstants, TypeInv, LocalInv, PublicInv, MagicInv, AloneInv, StateInv,
         NEW t \in Objects!Callers,
         ObjectStep(t)
  PROVE  StateInv'
<1> USE DEF Moves, Steps, Ends, Known, LocalInv, CallOK, MagicInv, AloneInv, Alone, Undisturbed,
            Making, Opened, Closing, Objects!Closing, StateInv, StaticState, StoredFields,
            OwnState, ReadState, Objects!Checked, Late,
            Fresh, PublicInv, Objects!Creating, Met, Beset
<1>1. Known /\ FdCount \in Nat
  BY Knowing, Constants
<1>23. Objects!None \notin garbled /\ made + 1 \notin garbled
  BY Constants DEF TypeInv, Elts, Objects!None
<1>2. CASE Objects!OpenFactory(t)
  BY <1>2, <1>1, OpenFactoryIs
<1>3. CASE Objects!AnonymousPublic(t)
  BY <1>3, <1>1, AnonymousPublicIs
<1>4. CASE Objects!Clone(t)
  <2>1. StaticState'
    BY <1>4, <1>1, CloneIs, NextIsFresh
  <2>2. StoredFields'
    BY <1>4, <1>1, CloneIs, NextIsFresh
  <2>3. OwnState'
    <3>1. ~ raced => garbled' \subseteq garbled \cup {made + 1} /\ (~ lv[t].late => garbled' = garbled)
      BY <1>4, <1>1, CloneIs
    <3>2. ASSUME ~ raced, NEW u \in Objects!Callers, Making(u)'
          PROVE  Making(u) /\ lv'[u].elt \in {lv[u].elt, made + 1}
      BY <1>4, <1>1, <3>2, CloneIs
    <3>3. ~ raced' => \A u \in Objects!Callers : Making(u)' => lv'[u].elt \notin garbled'
      BY <1>4, <1>1, <1>23, <3>1, <3>2, CloneIs
    <3>4. ~ raced' => \A u \in Objects!Callers :
             /\ ~ lv'[u].late
             /\ step'[u] \in {"efd", "magic"} => state' = lv'[u].elt
      BY <1>4, <1>1, CloneIs
    <3> QED
      BY <3>3, <3>4 DEF OwnState
  <2>4. ReadState'
    BY <1>4, <1>1, CloneIs, NextIsFresh
  <2> QED
    BY <2>1, <2>2, <2>3, <2>4
<1>5. CASE Objects!OpenDevice(t)
  BY <1>5, <1>1, OpenDeviceIs
<1>6. CASE Objects!FlipFlags(t)
  BY <1>6, <1>1, FlipFlagsIs
<1>7. CASE Objects!CloseFactory(t)
  BY <1>7, <1>1, CloseFactoryIs
<1>8. CASE Objects!StoreState(t)
  BY <1>8, <1>1, StoreStateIs
<1>9. CASE Objects!StoreEfd(t)
  BY <1>9, <1>1, StoreEfdIs
<1>10. CASE Objects!StoreMagic(t)
  <2>1. StaticState'
    BY <1>10, <1>1, StoreMagicIs
  <2>2. StoredFields'
    BY <1>10, <1>1, StoreMagicIs
  <2>3. OwnState'
    BY <1>10, <1>1, StoreMagicIs
  <2>4. ReadState'
    BY <1>10, <1>1, StoreMagicIs, Persons DEF Whos
  <2> QED
    BY <2>1, <2>2, <2>3, <2>4
<1>11. CASE Objects!CheckSanity(t)
  <2>1. StaticState'
    BY <1>11, <1>1, CheckSanityIs
  <2>2. StoredFields'
    BY <1>11, <1>1, CheckSanityIs
  <2>3. OwnState'
    BY <1>11, <1>1, <1>23, CheckSanityIs, Persons DEF Whos
  <2>4. ReadState'
    BY <1>11, <1>1, CheckSanityIs, Persons DEF Whos
  <2> QED
    BY <2>1, <2>2, <2>3, <2>4
<1>12. CASE Objects!ReadState(t)
  BY <1>12, <1>1, ReadStateIs
<1>13. CASE Objects!Request(t)
  BY <1>13, <1>1, RequestIs
<1>14. CASE Objects!OpenByName(t)
  <2>1. StaticState'
    BY <1>14, <1>1, OpenByNameIs
  <2>2. StoredFields'
    BY <1>14, <1>1, OpenByNameIs, Persons DEF Whos
  <2>3. OwnState'
    BY <1>14, <1>1, OpenByNameIs, Persons DEF Whos
  <2>4. ReadState'
    BY <1>14, <1>1, OpenByNameIs
  <2> QED
    BY <2>1, <2>2, <2>3, <2>4
<1>15. CASE Objects!Bind(t)
  BY <1>15, <1>1, BindIs
<1>16. CASE Objects!BeginClose(t)
  <2>1. StaticState'
    BY <1>16, <1>1, BeginCloseIs
  <2>2. StoredFields'
    BY <1>16, <1>1, BeginCloseIs, Persons DEF Whos
  <2>3. OwnState'
    BY <1>16, <1>1, BeginCloseIs
  <2>4. ReadState'
    BY <1>16, <1>1, BeginCloseIs, Persons DEF Whos
  <2> QED
    BY <2>1, <2>2, <2>3, <2>4
<1>17. CASE Objects!CloseEfd(t)
  BY <1>17, <1>1, CloseEfdIs
<1>18. CASE Objects!ClearState(t)
  <2>1. StaticState'
    BY <1>18, <1>1, ClearStateIs
  <2>2. StoredFields'
    BY <1>18, <1>1, ClearStateIs, Persons DEF Whos
  <2>3. OwnState'
    BY <1>18, <1>1, ClearStateIs
  <2>4. ReadState'
    BY <1>18, <1>1, ClearStateIs
  <2> QED
    BY <2>1, <2>2, <2>3, <2>4
<1>19. CASE Objects!Bury(t)
  BY <1>19, <1>1, BuryIs
<1>20. CASE Objects!CreateAgain(t)
  <2>1. StaticState'
    BY <1>20, <1>1, CreateAgainIs
  <2>2. StoredFields'
    BY <1>20, <1>1, CreateAgainIs, Persons DEF Whos
  <2>3. OwnState'
    BY <1>20, <1>1, <1>23, CreateAgainIs, Persons DEF Whos
  <2>4. ReadState'
    BY <1>20, <1>1, CreateAgainIs
  <2> QED
    BY <2>1, <2>2, <2>3, <2>4
<1>21. CASE Objects!CreateOther(t)
  BY <1>21, <1>1, CreateOtherIs
<1>22. CASE Objects!CloseOther(t)
  BY <1>22, <1>1, CloseOtherIs
<1> QED
  BY <1>2, <1>3, <1>4, <1>5, <1>6, <1>7, <1>8, <1>9, <1>10, <1>11, <1>12, <1>13, <1>14, <1>15, <1>16, <1>17, <1>18, <1>19, <1>20, <1>21, <1>22
     DEF ObjectStep, Objects!Create, Objects!Store, Objects!Use, Objects!Open,
         Objects!Close

(* Storing the magic word comes last, so that an active object is whole. *)
LEMMA WholeKeeps ==
  ASSUME Objects!ElementsConstants, TypeInv, LocalInv, PublicInv, MagicInv, AloneInv, EfdInv,
         OwnInv, ProtocolInv, StateInv, Objects!ActiveIsWhole, NEW t \in Objects!Callers,
         ObjectStep(t)
  PROVE  Objects!ActiveIsWhole'
<1> USE DEF Moves, Steps, Ends, Known, LocalInv, CallOK, Opened, Closing,
            Objects!Checked, Objects!Holds,
            Filed, Fresh, MagicInv, AloneInv, Alone, EfdInv, StoredEfd,
            ClosedEfd, Making, OwnInv, HeldOnce, HeldFiles,
            ObjectFile, Bound, Good,
            Objects!Closing, StateInv, StoredFields, OwnState, ProtocolInv,
            Objects!ActiveIsWhole
<1>1. Known /\ FdCount \in Nat
  BY Knowing, Constants
<1>2. CASE Objects!OpenFactory(t)
  BY <1>2, <1>1, OpenFactoryIs
<1>3. CASE Objects!AnonymousPublic(t)
  BY <1>3, <1>1, AnonymousPublicIs
<1>4. CASE Objects!Clone(t)
  BY <1>4, <1>1, CloneIs, NextIsFresh
<1>5. CASE Objects!OpenDevice(t)
  BY <1>5, <1>1, OpenDeviceIs
<1>6. CASE Objects!FlipFlags(t)
  BY <1>6, <1>1, FlipFlagsIs
<1>7. CASE Objects!CloseFactory(t)
  BY <1>7, <1>1, CloseFactoryIs
<1>8. CASE Objects!StoreState(t)
  BY <1>8, <1>1, StoreStateIs
<1>9. CASE Objects!StoreEfd(t)
  BY <1>9, <1>1, StoreEfdIs
<1>10. CASE Objects!StoreMagic(t)
  BY <1>10, <1>1, StoreMagicIs, Persons DEF Whos
<1>11. CASE Objects!CheckSanity(t)
  BY <1>11, <1>1, CheckSanityIs
<1>12. CASE Objects!ReadState(t)
  BY <1>12, <1>1, ReadStateIs
<1>13. CASE Objects!Request(t)
  BY <1>13, <1>1, RequestIs
<1>14. CASE Objects!OpenByName(t)
  BY <1>14, <1>1, OpenByNameIs
<1>15. CASE Objects!Bind(t)
  BY <1>15, <1>1, BindIs
<1>16. CASE Objects!BeginClose(t)
  BY <1>16, <1>1, BeginCloseIs
<1>17. CASE Objects!CloseEfd(t)
  BY <1>17, <1>1, CloseEfdIs, Persons DEF Whos
<1>18. CASE Objects!ClearState(t)
  BY <1>18, <1>1, ClearStateIs
<1>19. CASE Objects!Bury(t)
  BY <1>19, <1>1, BuryIs
<1>20. CASE Objects!CreateAgain(t)
  BY <1>20, <1>1, CreateAgainIs
<1>21. CASE Objects!CreateOther(t)
  BY <1>21, <1>1, CreateOtherIs
<1>22. CASE Objects!CloseOther(t)
  BY <1>22, <1>1, CloseOtherIs
<1> QED
  BY <1>2, <1>3, <1>4, <1>5, <1>6, <1>7, <1>8, <1>9, <1>10, <1>11, <1>12, <1>13, <1>14, <1>15, <1>16, <1>17, <1>18, <1>19, <1>20, <1>21, <1>22
     DEF ObjectStep, Objects!Create, Objects!Store, Objects!Use, Objects!Open,
         Objects!Close

(* A null state is only followed by a call which met a close or another    *)
(* creation, or without the mapping.                                       *)
LEMMA FaultsKeep ==
  ASSUME Objects!ElementsConstants, TypeInv, LocalInv, MagicInv, AloneInv, StateInv,
         Objects!ActiveIsWhole, Objects!FaultsExplained, NEW t \in Objects!Callers,
         ObjectStep(t), TypeInv'
  PROVE  Objects!FaultsExplained'
<1> USE DEF Moves, Steps, Ends, Known, LocalInv, CallOK, Opened, Closing,
            Objects!Checked, Objects!Closing,
            MagicInv, AloneInv, Alone, Undisturbed, Making, StateInv, StaticState,
            ReadState, Objects!ActiveIsWhole,
            Late, Objects!Creating, Met, Beset
<1>1. Known /\ FdCount \in Nat
  BY Knowing, Constants
<1>23. \A u \in Objects!Callers : step[u] = "faulted" =>
          u \in overlapped \/ (u = Owner /\ ~ mapped)
  BY DEF TypeInv, Places, Objects!FaultsExplained
<1> SUFFICES \A u \in Objects!Callers : step'[u] = "faulted" =>
                u \in overlapped' \/ (u = Owner /\ ~ mapped')
  BY DEF TypeInv, Places, Objects!FaultsExplained
<1>2. CASE Objects!OpenFactory(t)
  BY <1>2, <1>1, <1>23, OpenFactoryIs, Persons DEF Whos
<1>3. CASE Objects!AnonymousPublic(t)
  BY <1>3, <1>1, <1>23, AnonymousPublicIs
<1>4. CASE Objects!Clone(t)
  BY <1>4, <1>1, <1>23, CloneIs, NextIsFresh
<1>5. CASE Objects!OpenDevice(t)
  BY <1>5, <1>1, <1>23, OpenDeviceIs
<1>6. CASE Objects!FlipFlags(t)
  BY <1>6, <1>1, <1>23, FlipFlagsIs
<1>7. CASE Objects!CloseFactory(t)
  BY <1>7, <1>1, <1>23, CloseFactoryIs
<1>8. CASE Objects!StoreState(t)
  BY <1>8, <1>1, <1>23, StoreStateIs, Persons DEF Whos
<1>9. CASE Objects!StoreEfd(t)
  BY <1>9, <1>1, <1>23, StoreEfdIs
<1>10. CASE Objects!StoreMagic(t)
  BY <1>10, <1>1, <1>23, StoreMagicIs
<1>11. CASE Objects!CheckSanity(t)
  <2>1. /\ step'[t] # "faulted" /\ mapped' = mapped
        /\ \A u \in Objects!Callers : u # t => step'[u] = step[u]
    BY <1>11, <1>1, CheckSanityIs
  <2>2. \A u \in Users : u # t /\ u \in overlapped => u \in overlapped'
    BY <1>11, <1>1, CheckSanityIs
  <2>3. overlapped \subseteq Users
    BY DEF TypeInv, Fields
  <2> QED
    BY <1>23, <2>1, <2>2, <2>3
<1>12. CASE Objects!ReadState(t)
  BY <1>12, <1>1, <1>23, ReadStateIs, Persons DEF Whos
<1>13. CASE Objects!Request(t)
  BY <1>13, <1>1, <1>23, RequestIs
<1>14. CASE Objects!OpenByName(t)
  BY <1>14, <1>1, <1>23, OpenByNameIs
<1>15. CASE Objects!Bind(t)
  BY <1>15, <1>1, <1>23, BindIs
<1>16. CASE Objects!BeginClose(t)
  BY <1>16, <1>1, <1>23, BeginCloseIs, Persons DEF Whos
<1>17. CASE Objects!CloseEfd(t)
  BY <1>17, <1>1, <1>23, CloseEfdIs
<1>18. CASE Objects!ClearState(t)
  BY <1>18, <1>1, <1>23, ClearStateIs
<1>19. CASE Objects!Bury(t)
  BY <1>19, <1>1, <1>23, BuryIs
<1>20. CASE Objects!CreateAgain(t)
  BY <1>20, <1>1, <1>23, CreateAgainIs
<1>21. CASE Objects!CreateOther(t)
  BY <1>21, <1>1, <1>23, CreateOtherIs
<1>22. CASE Objects!CloseOther(t)
  BY <1>22, <1>1, <1>23, CloseOtherIs
<1> QED
  BY <1>2, <1>3, <1>4, <1>5, <1>6, <1>7, <1>8, <1>9, <1>10, <1>11, <1>12, <1>13, <1>14, <1>15, <1>16, <1>17, <1>18, <1>19, <1>20, <1>21, <1>22
     DEF ObjectStep, Objects!Create, Objects!Store, Objects!Use, Objects!Open,
         Objects!Close

-----------------------------------------------------------------------------
(* The theorems *)

(* The initial states have the invariant, ... *)
LEMMA InitEstablishes ==
  ASSUME Objects!ElementsConstants, Objects!Init
  PROVE  ObjectIndInv
<1>1. /\ step = [t \in Objects!Callers |-> "idle"] /\ lv = [t \in Objects!Callers |-> Objects!NoCall]
      /\ fd = [n \in Objects!Fds |-> NoFile] /\ state = Objects!None /\ efd = Objects!None
      /\ garbled = {} /\ raced = FALSE /\ torn = FALSE
      /\ overlapped = {} /\ faulted = {}
  BY DEF Objects!Init
<1>2. /\ Objects!NoCall.other = FALSE /\ Objects!NoCall.late = FALSE /\ Objects!NoCall.ffd = Objects!None
      /\ Objects!NoCall.efd = Objects!None /\ Objects!NoCall.elt = Objects!None
  BY DEF Objects!NoCall
<1>3. TypeInv
  <2>1. Places
    BY <1>1 DEF Places, Objects!Locations
  <2>2. Elts /\ made \in Nat
    <3>1. PICK p \in Objects!traits.accepts : protocol = [e \in Objects!Ids |-> p]
      BY DEF Objects!Init, Objects!traits
    <3>2. p \in Objects!Protocols
      BY KindTraits DEF Objects!Init
    <3> QED
      BY <1>1, <3>1, <3>2, Constants DEF Objects!Init, Elts,
         Objects!ElementsConstants
  <2>3. Objects!NoCall \in CallType(made)
    BY <2>2 DEF Objects!NoCall, CallType, Objects!None
  <2>4. Calls
    BY <1>1, <2>3 DEF Calls
  <2>5. Files
    BY <1>1, Constants DEF Files, Objects!Ids
  <2>6. Fields
    <3>1. kind \in ObjectKinds /\ mapped \in BOOLEAN
      BY DEF Objects!Init
    <3>2. magic \in {"uninit", "active", "dead"}
      BY DEF Objects!Init
    <3>3. raced \in BOOLEAN /\ torn \in BOOLEAN /\ overlapped \subseteq Users
      BY <1>1
    <3>4. state \in 0..made /\ efd \in Objects!Fds \cup {Objects!None}
      BY <1>1, <2>2 DEF Objects!None
    <3> QED
      BY <3>1, <3>2, <3>3, <3>4 DEF Fields
  <2> QED
    BY <2>1, <2>2, <2>4, <2>5, <2>6 DEF TypeInv
<1>4. Known
  BY <1>3, Knowing
<1>5. \A t \in Objects!Callers : /\ step[t] = "idle" /\ ~ lv[t].other /\ ~ lv[t].late
                                 /\ lv[t].ffd = Objects!None /\ lv[t].efd = Objects!None
                                         /\ lv[t].elt = Objects!None
  BY <1>1, <1>2
<1>6. LocalInv
  BY <1>5 DEF LocalInv, CallOK, Opened, Closing
<1>7. FactoryHeld /\ PublicInv /\ Objects!DescriptorsAccounted
  BY <1>1, <1>4
     DEF FactoryHeld, PublicInv, Objects!DescriptorsAccounted, Known,
         Objects!NoCall
<1>8. MagicInv
  BY <1>1, <1>4, <1>5 DEF MagicInv, Making, Opened, Closing, Known,
     Objects!Init
<1>9. AloneInv
  BY <1>4, <1>5 DEF AloneInv, Alone, Undisturbed, Making, Opened, Known
<1>10. EfdInv
  BY <1>1, <1>4, <1>5 DEF EfdInv, StoredEfd, ClosedEfd, Closing, Known
<1>11. OwnInv /\ ClearedInv
  BY <1>1, <1>4, <1>5
     DEF OwnInv, HeldOnce, HeldFiles, ObjectFile, Objects!Holds, Opened, Known,
         ClearedInv, KeptOnce, KeptFiles, Keeps, Objects!ClosedBeforeReuse
<1>12. ProtocolInv
  BY <1>1, <1>5 DEF ProtocolInv
<1>13. StateInv
  BY <1>1, <1>5 DEF StateInv, StaticState, StoredFields, OwnState,
     ReadState, Making, Opened
<1>14. Objects!ActiveIsWhole /\ Objects!FaultsExplained
  BY <1>1 DEF Objects!ActiveIsWhole, Objects!FaultsExplained, Objects!Init
<1> QED
  BY <1>3, <1>6, <1>7, <1>8, <1>9, <1>10, <1>11, <1>12, <1>13, <1>14 DEF
     ObjectIndInv

(* ... every step keeps it, ... *)
LEMMA StepKeeps ==
  ASSUME Objects!ElementsConstants, ObjectIndInv, NEW t \in Objects!Callers, ObjectStep(t)
  PROVE  ObjectIndInv'
<1>1. /\ TypeInv /\ LocalInv /\ FactoryHeld /\ PublicInv
      /\ Objects!DescriptorsAccounted /\ MagicInv /\ AloneInv
      /\ EfdInv /\ OwnInv /\ ClearedInv /\ ProtocolInv /\ StateInv /\ Objects!ActiveIsWhole
            /\ Objects!FaultsExplained
  BY DEF ObjectIndInv
<1>2. TypeInv' /\ LocalInv'
  BY <1>1, TypesKeep, LocalKeeps
<1>3. FactoryHeld' /\ PublicInv' /\ Objects!DescriptorsAccounted'
  BY <1>1, FactoriesKeep, PublicKeeps, DescriptorsKeep
<1>4. MagicInv' /\ AloneInv' /\ EfdInv'
  BY <1>1, MagicKeeps, AloneKeeps, EfdKeeps
<1>5. OwnInv' /\ ClearedInv'
  <2>1. OwnInv'
    BY <1>1, HeldOnceKeeps, HeldFilesKeep, ObjectFileKeeps DEF OwnInv
  <2>2. Objects!traits' = Objects!traits
    BY <1>1, TraitsKeep
  <2>3. ClearedInv'
    BY <1>1, <2>2, KeptOnceKeeps, KeptFilesKeep, ClearedKeeps DEF ClearedInv
  <2> QED
    BY <2>1, <2>3
<1>6. ProtocolInv' /\ StateInv'
  BY <1>1, ProtocolsKeep, StateKeeps
<1>7. Objects!ActiveIsWhole' /\ Objects!FaultsExplained'
  BY <1>1, <1>2, WholeKeeps, FaultsKeep
<1> QED
  BY <1>2, <1>3, <1>4, <1>5, <1>6, <1>7 DEF ObjectIndInv

(* ... and so does stuttering. *)
LEMMA StutterKeeps ==
  ASSUME ObjectIndInv, UNCHANGED Objects!vars
  PROVE  ObjectIndInv'
<1>1. /\ UNCHANGED <<kind, mapped, fd, made, kept, public, protocol, garbled>>
      /\ UNCHANGED <<magic, state, efd, step, lv, raced, torn, overlapped, faulted>>
      /\ Objects!traits' = Objects!traits
  BY DEF Objects!vars, Objects!core, Objects!object, Objects!ghosts,
         Objects!traits
<1>2. TypeInv' /\ LocalInv'
  BY <1>1
     DEF ObjectIndInv, TypeInv, Places, Calls, Files, Elts, Fields, LocalInv,
         CallOK
<1>3. FactoryHeld' /\ PublicInv' /\ Objects!DescriptorsAccounted' /\ MagicInv'
      /\ AloneInv' /\ EfdInv'
  BY <1>1
     DEF ObjectIndInv, FactoryHeld, PublicInv, Objects!DescriptorsAccounted,
         Objects!Holds, MagicInv, AloneInv, Alone, Undisturbed,
         Making, EfdInv, StoredEfd, ClosedEfd
<1>4. OwnInv' /\ ClearedInv'
  BY <1>1 DEF ObjectIndInv, OwnInv, HeldOnce, Objects!Holds, HeldFiles,
     ObjectFile, Bound, Good, ClearedInv, KeptOnce, KeptFiles, Keeps,
     Objects!ClosedBeforeReuse
<1>5. ProtocolInv' /\ StateInv' /\ Objects!ActiveIsWhole' /\ Objects!FaultsExplained'
  BY <1>1
     DEF ObjectIndInv, ProtocolInv, StateInv, StaticState, StoredFields,
         OwnState, ReadState, Making, Objects!ActiveIsWhole,
         Objects!FaultsExplained, Objects!Closing
<1> QED
  BY <1>2, <1>3, <1>4, <1>5 DEF ObjectIndInv

(* The invariant holds of every execution of the creation, opening and     *)
(* closing code, by any number of threads.                                 *)
THEOREM ElementsInvariant ==
  ASSUME Objects!ElementsConstants
  PROVE  Objects!Spec => []ObjectIndInv
<1>1. Objects!Init => ObjectIndInv
  BY InitEstablishes
<1>2. ObjectIndInv /\ [Objects!Next]_(Objects!vars) => ObjectIndInv'
  <2> SUFFICES ASSUME ObjectIndInv, [Objects!Next]_(Objects!vars)
               PROVE  ObjectIndInv'
    OBVIOUS
  <2>1. CASE Objects!Next
    <3>1. PICK t \in Objects!Callers : ObjectStep(t)
      BY <2>1 DEF Objects!Next, ObjectStep
    <3> QED
      BY <3>1, StepKeeps
  <2>2. CASE UNCHANGED Objects!vars
    BY <2>2, StutterKeeps
  <2> QED
    BY <2>1, <2>2
<1> QED
  BY <1>1, <1>2, PTL DEF Objects!Spec

(* The variables have their types, whatever the threads do: every element  *)
(* a descriptor, a state pointer or a call refers to has been made by      *)
(* create_element() in lib/sys.c before, and a thread which faults stops.   *)
THEOREM ElementsTypes ==
  ASSUME Objects!ElementsConstants
  PROVE  Objects!Spec => []Objects!TypeOK
<1>1. ObjectIndInv => Objects!TypeOK
  BY DEF ObjectIndInv, TypeInv, Places, Calls, CallType, Files, Elts, Fields,
         Objects!TypeOK
<1> QED
  BY <1>1, ElementsInvariant, PTL

(* No path of create_element(), evl_open_element() or the close services   *)
(* forgets a descriptor, but for those the model marks as lost.            *)
THEOREM ElementsDescriptors ==
  ASSUME Objects!ElementsConstants
  PROVE  Objects!Spec => []Objects!DescriptorsAccounted
<1>1. ObjectIndInv => Objects!DescriptorsAccounted
  BY DEF ObjectIndInv
<1> QED
  BY <1>1, ElementsInvariant, PTL

(* An object which check_*_sanity() finds active has a state and a         *)
(* descriptor of its type, those of one element without a race of first    *)
(* uses, unless it is being closed or a close cut in on its creation;      *)
(* earlier lives of the object, closed by evl_close_*(), do not matter.    *)
THEOREM ElementsAreWhole ==
  ASSUME Objects!ElementsConstants
  PROVE  Objects!Spec => []Objects!ActiveIsWhole
<1>1. ObjectIndInv => Objects!ActiveIsWhole
  BY DEF ObjectIndInv
<1> QED
  BY <1>1, ElementsInvariant, PTL

(* A thread follows a bad state pointer only if evl_close_*() or another   *)
(* creation overlapped with its own present call (what others met before   *)
(* is no excuse), or evl_init() was never called.                          *)
THEOREM ElementsFaults ==
  ASSUME Objects!ElementsConstants
  PROVE  Objects!Spec => []Objects!FaultsExplained
<1>1. ObjectIndInv => Objects!FaultsExplained
  BY DEF ObjectIndInv
<1> QED
  BY <1>1, ElementsInvariant, PTL

(* evl_close_mutex() and evl_close_event() clear the descriptor before the *)
(* system may reuse it: what the object holds is open, on an element of    *)
(* its own protocol.                                                       *)
THEOREM ElementsClosedBeforeReuse ==
  ASSUME Objects!ElementsConstants
  PROVE  Objects!Spec => []Objects!ClosedBeforeReuse
<1>1. ASSUME ObjectIndInv
      PROVE  Objects!ClosedBeforeReuse
  BY <1>1 DEF ObjectIndInv, ClearedInv, Objects!ClosedBeforeReuse
<1> QED
  BY <1>1, ElementsInvariant, PTL

-----------------------------------------------------------------------------
(* The objects of MCSem: whichever part runs, they take the steps of       *)
(* Elements or none, so that what is proved of the elements holds of them. *)
LEMMA ObjectsSpec == MCSpec => Objects!Spec
<1>1. MCInit => Objects!Init
  BY DEF MCInit
<1>2. ASSUME [MCNext]_<<part, vars, objects>>
      PROVE  [Objects!Next]_(Objects!vars)
  <2>1. CASE Objects!Next
    BY <2>1
  <2>2. CASE UNCHANGED objects
    BY <2>2 DEF objects, Objects!vars, Objects!core, Objects!object,
       Objects!ghosts
  <2> QED
    BY <1>2, <2>1, <2>2 DEF MCNext
<1> QED
  BY <1>1, <1>2, PTL DEF MCSpec, Objects!Spec

(* Whoever finds an object active by check_*_sanity() has the state and    *)
(* the descriptor that init_*_vargs() or open_*_vargs() store, also after  *)
(* a race of first uses and in every later life of the object; only while  *)
(* it is being closed, or when a close cut in on its creation, not.        *)
THEOREM WholeObjects == MCSpec => []ObjectsAreWhole
<1>1. Objects!TypeOK /\ Objects!ActiveIsWhole => ObjectsAreWhole
  BY DEF ObjectsAreWhole
<1>2. Objects!Spec => []Objects!TypeOK
  BY ElementsAssumption, ElementsTypes
<1>3. Objects!Spec => []Objects!ActiveIsWhole
  BY ElementsAssumption, ElementsAreWhole
<1> QED
  BY <1>1, <1>2, <1>3, ObjectsSpec, PTL

(* No path of evl_create_element(), evl_open_element() and the close       *)
(* services forgets a descriptor, but those which the code itself loses.   *)
THEOREM AccountedDescriptors == MCSpec => []DescriptorsAccounted
<1>1. Objects!DescriptorsAccounted => DescriptorsAccounted
  BY DEF DescriptorsAccounted
<1>2. Objects!Spec => []Objects!DescriptorsAccounted
  BY ElementsAssumption, ElementsDescriptors
<1> QED
  BY <1>1, <1>2, ObjectsSpec, PTL

(* A thread follows a bad state pointer, as evl_tryget_sem() may, only if  *)
(* a close or another creation overlapped with that very call, or without  *)
(* evl_init().                                                             *)
THEOREM ExplainedFaults == MCSpec => []FaultsExplained
<1>1. Objects!FaultsExplained => FaultsExplained
  BY DEF FaultsExplained
<1>2. Objects!Spec => []Objects!FaultsExplained
  BY ElementsAssumption, ElementsFaults
<1> QED
  BY <1>1, <1>2, ObjectsSpec, PTL

(* evl_close_mutex() and evl_close_event() clear the descriptor of the     *)
(* object before the system may give it to another file.                   *)
THEOREM NoDescriptorIsReused == MCSpec => []ClosedBeforeReuse
<1>1. Objects!ClosedBeforeReuse => ClosedBeforeReuse
  BY DEF ClosedBeforeReuse
<1>2. Objects!Spec => []Objects!ClosedBeforeReuse
  BY ElementsAssumption, ElementsClosedBeforeReuse
<1> QED
  BY <1>1, <1>2, ObjectsSpec, PTL
=============================================================================
