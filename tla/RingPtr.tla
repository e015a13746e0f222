------------------------------ MODULE RingPtr ------------------------------
(***************************************************************************)
(* The lock-free ring of pointers (src/include/evl/ring_ptr.h): a FIFO     *)
(* which several threads fill and drain without waiting for each other.    *)
(*                                                                         *)
(* A caller claims an index by incrementing the tail or the head, then     *)
(* settles with the other callers about the cell which the index maps to.  *)
(* A step is one access to the ring; the atomics are sequentially          *)
(* consistent here.  The indexes, 64 bits wide, do not wrap around.        *)
(***************************************************************************)
EXTENDS Integers, FiniteSets

CONSTANTS
    Threads,
    Order,          \* log2 of the number of entries
    MinOrder,       \* EVL_RINGPTR_MINORDER
    MaxCalls        \* bound: calls of enqueue and dequeue

(* "Requirement: k <= n", and the two low bits of an entry hold flags. *)
ASSUME RingAssumption ==
    /\ Order \in Nat \ {0} /\ MinOrder \in 0..Order+1
    /\ IsFiniteSet(Threads) /\ Cardinality(Threads) \in 1..2^Order
    /\ MaxCalls \in Nat

n == 2^(Order + 1)                  \* __evl_ringptr_cells()

(* Laws of exponents, of which the proofs make use. *)
ASSUME PowersAssumption ==
    /\ 2^MinOrder \in Nat \ {0} /\ 2^(Order + 1 - MinOrder) \in Nat \ {0}
    /\ n = 2^MinOrder * 2^(Order + 1 - MinOrder)
    /\ 2^Order \in Nat /\ n = 2 * 2^Order

Slots == 0..n-1
Values == 1..MaxCalls               \* one per call of enqueue
None == 0                           \* no pointer

(* __evl_ringptr_threshold4() *)
Threshold == 2*n - 1

VARIABLES
    head, tail, threshold,
    array,      \* the cells
    pc,
    cursor,     \* the write cursor of each thread: its last look at the head
    reg,        \* the local variables of the call of each thread
    issued,     \* history: calls of enqueue so far
    called,     \* history: calls of dequeue so far
    added,      \* history: the values whose enqueue returned true
    before,     \* history: of each value, those in the ring when it was issued
    index,      \* history: where each value was stored, 0 before it is
    got,        \* history: the values that were dequeued
    there       \* history: the values in the ring when each dequeue began

ring == <<head, tail, threshold, array>>
history == <<issued, called, added, before, index, got, there>>
vars == <<ring, pc, cursor, reg, history>>

Enqueuing ==
    { "enq_refresh",    \* about to look at the head: the ring seems full
      "enq_claim",      \* about to increment the tail
      "enq_load",       \* about to load the cell
      "enq_safe",       \* the cell is unsafe: about to look at the head
      "enq_cas",        \* about to store the value in the cell
      "enq_next",       \* the cell is no use, about to try another one
      "enq_reset" }     \* stored, about to reset the threshold
Dequeuing ==
    { "deq_none",       \* the threshold says that the ring is empty
      "deq_claim",      \* about to increment the head
      "deq_load",       \* about to load the entry
      "deq_take",       \* the cell has the value: about to take it
      "deq_cas",        \* about to spoil the cell for a late enqueue
      "deq_tail",       \* about to look at the tail
      "catch_cas",      \* about to move the tail to the head
      "catch_head",     \* about to look at the head again
      "catch_tail",     \* about to look at the tail again
      "deq_empty",      \* the ring is empty: about to decrement the threshold
      "deq_retry" }     \* about to decrement the threshold, then try again

(* An entry is a cycle and two flags, a cell is an entry and a pointer. *)
Cell(c, b, u, p) == [cycle |-> c, busy |-> b, unsafe |-> u, ptr |-> p]
Entry(cell) == <<cell.cycle, cell.busy, cell.unsafe>>
NoCell == Cell(0, FALSE, FALSE, None)
Local(i, cell, p, tl, hd) == [idx |-> i, cell |-> cell, ptr |-> p, tail |-> tl, head |-> hd]
NoLocal == Local(0, NoCell, None, 0, 0)

Cycle(i) == i \div n

(* __evl_ringptr_map(): neighbour indexes use distant cells. *)
Map(i) == ((i % n) \div 2^(Order + 1 - MinOrder)) + ((i * 2^MinOrder) % n)

(* __evl_ringptr_clear(), and evl_init_cursor() for each thread. *)
Init ==
    /\ head = n /\ tail = n /\ threshold = -1
    /\ array = [s \in Slots |-> NoCell]
    /\ pc = [t \in Threads |-> "idle"]
    /\ cursor = [t \in Threads |-> n]
    /\ reg = [t \in Threads |-> NoLocal]
    /\ issued = 0 /\ called = 0 /\ added = {} /\ got = {}
    /\ before = [v \in Values |-> {}]
    /\ index = [v \in Values |-> 0]
    /\ there = [t \in Threads |-> {}]

At(t, l) == pc[t] = l
Go(t, l) == pc' = [pc EXCEPT ![t] = l]

(* The local variables are forgotten once nothing reads them any more. *)
Forget(t, l) == Go(t, l) /\ reg' = [reg EXCEPT ![t] = NoLocal]
Return(t) == Forget(t, "idle")
CellOf(t) == array[Map(reg[t].idx)]
Stored == {v \in Values : index[v] # 0}
Held == Stored \ got

-----------------------------------------------------------------------------
(* __evl_ringptr_enqueue() *)

Enqueue(t) ==
    /\ At(t, "idle") /\ issued + called < MaxCalls
    /\ issued' = issued + 1
    /\ before' = [before EXCEPT ![issued + 1] = added \ got]
    /\ reg' = [reg EXCEPT ![t] = Local(tail, NoCell, issued + 1, 0, 0)]
    /\ Go(t, IF tail >= cursor[t] + n THEN "enq_refresh" ELSE "enq_claim")
    /\ UNCHANGED <<ring, cursor, called, added, index, got, there>>

Fail(t) ==
    /\ Return(t)
    /\ UNCHANGED <<issued, called, added, before, index, got, there>>

EnqueueRefresh(t) ==
    /\ At(t, "enq_refresh")
    /\ cursor' = [cursor EXCEPT ![t] = head]
    /\ IF reg[t].idx >= head + n THEN Fail(t)
       ELSE Go(t, "enq_claim") /\ UNCHANGED <<reg, history>>
    /\ UNCHANGED ring

EnqueueClaim(t) ==
    /\ At(t, "enq_claim")
    /\ tail' = tail + 1
    /\ reg' = [reg EXCEPT ![t].idx = tail]
    /\ Go(t, "enq_load")
    /\ UNCHANGED <<head, threshold, array, cursor, history>>

(* Mutant: a cell which a dequeue left unsafe is used all the same. *)
UsableUnsafe(cell, i) ==
    IF cell.cycle < Cycle(i) /\ ~cell.busy THEN "enq_cas" ELSE "enq_next"

(* What to do with a cell: use an empty one of an earlier cycle, unless a  *)
(* dequeue went past it.                                                   *)
Usable(cell, i) ==
    IF cell.cycle < Cycle(i) /\ ~cell.busy
      THEN IF cell.unsafe THEN "enq_safe" ELSE "enq_cas"
      ELSE "enq_next"

Inspect(t) ==
    /\ reg' = [reg EXCEPT ![t].cell = CellOf(t)]
    /\ Go(t, Usable(CellOf(t), reg[t].idx))

EnqueueLoad(t) ==
    /\ At(t, "enq_load")
    /\ Inspect(t)
    /\ UNCHANGED <<ring, cursor, history>>

EnqueueSafe(t) ==
    /\ At(t, "enq_safe")
    /\ Go(t, IF head <= reg[t].idx THEN "enq_cas" ELSE "enq_next")
    /\ UNCHANGED <<ring, cursor, reg, history>>

(* The weak exchange may fail for no reason: look at the cell again. *)
EnqueueCas(t) ==
    /\ At(t, "enq_cas")
    /\ \/ /\ CellOf(t) = reg[t].cell
          /\ array' = [array EXCEPT ![Map(reg[t].idx)] =
                         Cell(Cycle(reg[t].idx), TRUE, FALSE, reg[t].ptr)]
          /\ index' = [index EXCEPT ![reg[t].ptr] = reg[t].idx]
          /\ reg' = [reg EXCEPT ![t] = Local(0, NoCell, @.ptr, 0, 0)]
          /\ Go(t, "enq_reset")
       \/ Inspect(t) /\ UNCHANGED <<array, index>>
    /\ UNCHANGED <<head, tail, threshold, cursor, issued, called, added, before, got, there>>

(* Mutant: a threshold which is not negative yet is left alone. *)
EnqueueResetLax(t) ==
    /\ At(t, "enq_reset")
    /\ threshold' = IF threshold >= 0 THEN threshold ELSE Threshold
    /\ added' = added \cup {reg[t].ptr}
    /\ Return(t)
    /\ UNCHANGED <<head, tail, array, cursor, issued, called, before, index, got, there>>

(* The threshold is only written if it differs: at the time of the test it *)
(* does not, or at the time of the write it is set.                        *)
EnqueueReset(t) ==
    /\ At(t, "enq_reset")
    /\ threshold' = Threshold
    /\ added' = added \cup {reg[t].ptr}
    /\ Return(t)
    /\ UNCHANGED <<head, tail, array, cursor, issued, called, before, index, got, there>>

EnqueueNext(t) ==
    /\ At(t, "enq_next")
    /\ cursor' = [cursor EXCEPT ![t] = IF reg[t].idx + 1 >= @ + n THEN head ELSE @]
    /\ IF reg[t].idx + 1 >= cursor'[t] + n THEN Fail(t)
       ELSE Go(t, "enq_claim") /\ UNCHANGED <<reg, history>>
    /\ UNCHANGED ring

-----------------------------------------------------------------------------
(* __evl_ringptr_dequeue() *)

(* Mutant: the threshold does not stop the callers of an empty ring. *)
DequeueEager(t) ==
    /\ At(t, "idle") /\ issued + called < MaxCalls
    /\ called' = called + 1
    /\ there' = [there EXCEPT ![t] = added \ got]
    /\ Go(t, "deq_claim")
    /\ UNCHANGED <<ring, cursor, reg, issued, added, before, index, got>>

Dequeue(t) ==
    /\ At(t, "idle") /\ issued + called < MaxCalls
    /\ called' = called + 1
    /\ there' = [there EXCEPT ![t] = added \ got]
    /\ Go(t, IF threshold < 0 THEN "deq_none" ELSE "deq_claim")
    /\ UNCHANGED <<ring, cursor, reg, issued, added, before, index, got>>

DequeueClaim(t) ==
    /\ At(t, "deq_claim")
    /\ head' = head + 1
    /\ reg' = [reg EXCEPT ![t].idx = head]
    /\ Go(t, "deq_load")
    /\ UNCHANGED <<tail, threshold, array, cursor, history>>

(* What to do with a cell: take the value if the cycle is that of the      *)
(* index; make sure that no late enqueue uses it if the cycle is earlier.  *)
Outcome(cell, i) ==
    IF cell.cycle = Cycle(i) THEN "deq_take"
    ELSE IF (cell.busy /\ cell.unsafe) \/ cell.cycle > Cycle(i) THEN "deq_tail"
    ELSE "deq_cas"

Examine(t) ==
    /\ reg' = [reg EXCEPT ![t].cell = CellOf(t)]
    /\ Go(t, Outcome(CellOf(t), reg[t].idx))

DequeueLoad(t) ==
    /\ At(t, "deq_load")
    /\ Examine(t)
    /\ UNCHANGED <<ring, cursor, history>>

DequeueTake(t) ==
    /\ At(t, "deq_take")
    /\ array' = [array EXCEPT ![Map(reg[t].idx)].busy = FALSE,
                              ![Map(reg[t].idx)].ptr = None]
    /\ got' = got \cup {CellOf(t).ptr}
    /\ there' = [there EXCEPT ![t] = {}]
    /\ Return(t)
    /\ UNCHANGED <<head, tail, threshold, cursor, issued, called, added, before, index>>

(* Mutant: an empty cell of an earlier cycle is left as it is. *)
SpoiledBusyOnly(cell, i) == IF cell.busy THEN [cell EXCEPT !.unsafe = TRUE] ELSE cell

Spoiled(cell, i) ==
    IF cell.busy THEN [cell EXCEPT !.unsafe = TRUE]
    ELSE [cell EXCEPT !.cycle = Cycle(i)]

(* The exchange is about the entry alone, half of the cell. *)
DequeueCas(t) ==
    /\ At(t, "deq_cas")
    /\ \/ /\ Entry(CellOf(t)) = Entry(reg[t].cell)
          /\ array' = [array EXCEPT ![Map(reg[t].idx)] = Spoiled(@, reg[t].idx)]
          /\ Go(t, "deq_tail")
          /\ UNCHANGED reg
       \/ Examine(t) /\ UNCHANGED array
    /\ UNCHANGED <<head, tail, threshold, cursor, history>>

DequeueTail(t) ==
    /\ At(t, "deq_tail")
    /\ IF tail <= reg[t].idx + 1
         THEN /\ Go(t, "catch_cas")
              /\ reg' = [reg EXCEPT ![t] = Local(0, NoCell, None, tail, @.idx + 1)]
         ELSE Forget(t, "deq_retry")
    /\ UNCHANGED <<ring, cursor, history>>

(* __evl_ringptr_catchup() *)
CatchupCas(t) ==
    /\ At(t, "catch_cas")
    /\ \/ tail = reg[t].tail /\ tail' = reg[t].head /\ Forget(t, "deq_empty")
       \/ UNCHANGED <<tail, reg>> /\ Go(t, "catch_head")
    /\ UNCHANGED <<head, threshold, array, cursor, history>>

CatchupHead(t) ==
    /\ At(t, "catch_head")
    /\ reg' = [reg EXCEPT ![t].head = head]
    /\ Go(t, "catch_tail")
    /\ UNCHANGED <<ring, cursor, history>>

CatchupTail(t) ==
    /\ At(t, "catch_tail")
    /\ IF tail >= reg[t].head THEN Forget(t, "deq_empty")
       ELSE Go(t, "catch_cas") /\ reg' = [reg EXCEPT ![t].tail = tail]
    /\ UNCHANGED <<ring, cursor, history>>

Nothing(t) ==
    /\ Return(t)
    /\ there' = [there EXCEPT ![t] = {}]
    /\ UNCHANGED <<issued, called, added, before, index, got>>

DequeueNone(t) ==
    /\ At(t, "deq_none")
    /\ Nothing(t)
    /\ UNCHANGED <<ring, cursor>>

DequeueEmpty(t) ==
    /\ At(t, "deq_empty")
    /\ threshold' = threshold - 1
    /\ Nothing(t)
    /\ UNCHANGED <<head, tail, array, cursor>>

DequeueRetry(t) ==
    /\ At(t, "deq_retry")
    /\ threshold' = threshold - 1
    /\ IF threshold <= 0 THEN Nothing(t)
       ELSE Go(t, "deq_claim") /\ UNCHANGED <<reg, history>>
    /\ UNCHANGED <<head, tail, array, cursor>>

Next == \E t \in Threads :
    \/ Enqueue(t) \/ EnqueueRefresh(t) \/ EnqueueClaim(t) \/ EnqueueLoad(t)
    \/ EnqueueSafe(t) \/ EnqueueCas(t) \/ EnqueueReset(t)
    \/ EnqueueNext(t)
    \/ Dequeue(t) \/ DequeueClaim(t) \/ DequeueLoad(t) \/ DequeueTake(t)
    \/ DequeueCas(t) \/ DequeueTail(t) \/ DequeueNone(t) \/ DequeueEmpty(t)
    \/ DequeueRetry(t)
    \/ CatchupCas(t) \/ CatchupHead(t) \/ CatchupTail(t)

Spec == Init /\ [][Next]_vars

-----------------------------------------------------------------------------
Indexes == Nat
Cells == [cycle : Nat, busy : BOOLEAN, unsafe : BOOLEAN, ptr : Values \cup {None}]

TypeOK ==
    /\ head \in Indexes /\ tail \in Indexes
    /\ threshold \in -Cardinality(Threads)..Threshold
    /\ array \in [Slots -> Cells]
    /\ pc \in [Threads -> {"idle"} \cup Enqueuing \cup Dequeuing]
    /\ cursor \in [Threads -> Indexes]
    /\ reg \in [Threads -> [idx : Indexes, cell : Cells, ptr : Values \cup {None},
                            tail : Indexes, head : Indexes]]
    /\ issued \in 0..MaxCalls /\ called \in 0..MaxCalls
    /\ added \subseteq Values /\ got \subseteq Values
    /\ before \in [Values -> SUBSET Values]
    /\ index \in [Values -> Indexes]
    /\ there \in [Threads -> SUBSET Values]

(* Some dequeue claimed the index of the value, and has not settled yet. *)
BeingTaken(v) ==
    \E t \in Threads : pc[t] \in {"deq_load", "deq_take", "deq_cas"} /\ reg[t].idx = index[v]

(* No value is lost, overwritten or delivered twice: a stored value stays  *)
(* in its cell, the head has not passed its index unless the dequeue which *)
(* claimed it is on its way, and a dequeue takes the value of its own      *)
(* index (enqueue's test of the entry, dequeue's exchange of the entry).   *)
ValuesReachable ==
    /\ \A v \in Held :
         /\ array[Map(index[v])].busy
         /\ array[Map(index[v])].ptr = v
         /\ array[Map(index[v])].cycle = Cycle(index[v])
         /\ index[v] >= head \/ BeingTaken(v)
    /\ \A s \in Slots : array[s].busy => array[s].ptr \in Held
    /\ \A t \in Threads : At(t, "deq_take") =>
         CellOf(t).ptr \in Held /\ index[CellOf(t).ptr] = reg[t].idx

(* First in, first out: when a value leaves, those which were added before *)
(* its enqueue began have left or are being taken.                         *)
FifoOrder ==
    [][\A v \in got' \ got : \A a \in before[v] : a \in got \/ BeingTaken(a)]_vars

(* The status of a call is honest.  A dequeue which finds nothing did not  *)
(* overlook a value: those that were in the ring when it began have left   *)
(* or are being taken (the threshold and the test of the tail).  No        *)
(* enqueue fails before more values than the ring has entries, 2^order,    *)
(* were stored in all (ring-spray.c adds that many without looking at the  *)
(* outcome).                                                               *)
EmptyIsHonest(t) == \A v \in there[t] : v \in got' \/ BeingTaken(v)

StatusIsHonest ==
    [][\A t \in Threads : pc'[t] = "idle" =>
         /\ pc[t] \in Dequeuing /\ got' = got => EmptyIsHonest(t)
         /\ pc[t] \in Enqueuing /\ added' = added => Cardinality(Stored) > 2^Order]_vars
=============================================================================
