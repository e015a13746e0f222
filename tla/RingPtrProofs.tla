--------------------------- MODULE RingPtrProofs ---------------------------
(***************************************************************************)
(* Proofs about the pointer ring (module RingPtr), for any order, number   *)
(* of threads and number of calls: no value is lost, overwritten or        *)
(* delivered twice, values leave in the order in which they came, and what *)
(* a call that fails says of the ring is true.                             *)
(***************************************************************************)
EXTENDS RingPtr, FiniteSetTheorems, TLAPS

-----------------------------------------------------------------------------
(* The inductive invariant *)

(* A dequeue which claimed an index and has not settled about its cell. *)
Taking(t) == pc[t] \in {"deq_load", "deq_take", "deq_cas"}
Pending(i) == \E t \in Threads : Taking(t) /\ reg[t].idx = i
Settled(i) == i < head /\ ~ Pending(i)

(* An enqueue which claimed an index and may use its cell. *)
Storing(t) == pc[t] \in {"enq_load", "enq_safe", "enq_cas"}

(* What the variables of a call are, by its place. *)
LocalOK(t) ==
    /\ pc[t] \in Enqueuing => reg[t].ptr \in 1..issued
    /\ pc[t] \in Enqueuing => (index[reg[t].ptr] = 0 <=> pc[t] # "enq_reset")
    /\ Storing(t) => n <= reg[t].idx /\ reg[t].idx < tail
    /\ pc[t] \in {"enq_safe", "enq_cas"} =>
          reg[t].cell.cycle < Cycle(reg[t].idx) /\ ~ reg[t].cell.busy
    /\ Taking(t) => n <= reg[t].idx /\ reg[t].idx < head
    /\ pc[t] = "deq_cas" => reg[t].cell.cycle < Cycle(reg[t].idx)
    /\ pc[t] = "catch_cas" => reg[t].tail <= reg[t].head

LocalInv == \A t \in Threads : LocalOK(t)

(* Calls and values have indexes of their own. *)
ClaimInv ==
    /\ n <= head /\ n <= tail
    /\ \A t, u \in Threads : t # u =>
          /\ pc[t] \in Enqueuing /\ pc[u] \in Enqueuing => reg[t].ptr # reg[u].ptr
          /\ Storing(t) /\ Storing(u) => reg[t].idx # reg[u].idx
          /\ Taking(t) /\ Taking(u) => reg[t].idx # reg[u].idx
    /\ \A v \in Values : index[v] # 0 => v <= issued /\ n <= index[v] /\ index[v] < tail
    /\ \A v, w \in Values : v # w /\ index[v] = index[w] => index[v] = 0
    /\ \A t \in Threads, v \in Values : Storing(t) => reg[t].idx # index[v]
    /\ \A v \in got \cup added : index[v] # 0

(* A busy cell holds the value whose index maps to it, in its cycle. *)
BusyOK(s) ==
    array[s].busy =>
        /\ array[s].ptr \in Held
        /\ Map(index[array[s].ptr]) = s /\ Cycle(index[array[s].ptr]) = array[s].cycle
HeldOK(v) == array[Map(index[v])].busy /\ array[Map(index[v])].ptr = v
TakeOK(t) == pc[t] = "deq_take" => CellOf(t).busy /\ CellOf(t).cycle = Cycle(reg[t].idx)

CellInv ==
    /\ \A s \in Slots : BusyOK(s)
    /\ \A v \in Held : HeldOK(v)
    /\ \A t \in Threads : TakeOK(t)

(* No value is behind the head. *)
AheadInv == \A v \in Held : ~ Settled(index[v])

(* A dequeue does not leave its index before no enqueue can use it. *)
SpoilInv ==
    \A i \in Indexes : n <= i /\ Settled(i) =>
        array[Map(i)].cycle >= Cycle(i) \/ array[Map(i)].unsafe

(* A cell is only emptied in the cycle of a dequeue which is through. *)
EmptyInv ==
    \A i \in Indexes : n <= i /\ ~ array[Map(i)].busy /\ array[Map(i)].cycle = Cycle(i)
        => Settled(i)

(* An enqueue which is going to find its cell unchanged is not too late:   *)
(* an empty cell never comes back.                                         *)
CasOK(t) ==
    \/ reg[t].cell.cycle < CellOf(t).cycle
    \/ /\ CellOf(t) = reg[t].cell
       /\ pc[t] = "enq_cas" =>
            \A i \in Indexes : reg[t].idx <= i /\ Map(i) = Map(reg[t].idx) => ~ Settled(i)

CasInv == \A t \in Threads : pc[t] \in {"enq_safe", "enq_cas"} => CasOK(t)

(* Values added before an enqueue began have smaller indexes. *)
OrderInv ==
    /\ \A v \in Values : v > issued => before[v] = {}
    /\ \A v \in Values : \A a \in before[v] :
          index[a] # 0 /\ (index[v] # 0 => index[a] < index[v])
    /\ \A t \in Threads : Storing(t) => \A a \in before[reg[t].ptr] : index[a] < reg[t].idx

(* Each dequeue on its way lowers the threshold once before it tests it. *)
Looping == {t \in Threads : pc[t] \in Dequeuing \ {"deq_none"}}
ThresholdInv ==
    /\ threshold \in Int /\ threshold <= Threshold
    /\ threshold - Cardinality(Looping) >= - Cardinality(Threads)

IndInv ==
    /\ TypeOK /\ LocalInv /\ ClaimInv /\ CellInv /\ AheadInv /\ SpoilInv /\ EmptyInv
    /\ CasInv /\ OrderInv /\ ThresholdInv

-----------------------------------------------------------------------------
(* Arithmetic of indexes *)

(* Quotient and remainder are unique. *)
LEMMA DivMod ==
  ASSUME NEW m \in Nat \ {0}, NEW q \in Nat, NEW r \in 0..m-1
  PROVE  (m * q + r) \div m = q /\ (m * q + r) % m = r
OBVIOUS

LEMMA Division ==
  ASSUME NEW m \in Nat \ {0}, NEW i \in Nat
  PROVE  i \div m \in Nat /\ i % m \in 0..m-1 /\ i = m * (i \div m) + (i % m)
OBVIOUS

(* Facts of multiplication, in the form in which they are used. *)
LEMMA Distribute ==
  ASSUME NEW x \in Int, NEW y \in Int, NEW z \in Int
  PROVE  (x + y) * z = x * z + y * z /\ (x * y) * z = x * (y * z) /\ x * y = y * x
OBVIOUS

LEMMA LessThan ==
  ASSUME NEW k \in Nat \ {0}, NEW x \in Nat, NEW y \in Nat
  PROVE  (k * x < k * y <=> x < y) /\ k * x \in Nat
OBVIOUS

LEMMA Monotone ==
  ASSUME NEW k \in Nat, NEW x \in Nat, NEW y \in Nat, x <= y
  PROVE  k * x <= k * y
OBVIOUS

LEMMA Exchange ==
  ASSUME NEW N \in Nat, NEW M \in Nat, NEW K \in Nat, N = M * K,
         NEW q \in Nat, NEW a \in Nat, NEW b \in Nat
  PROVE  (N * q + (K * a + b)) * M = N * (q * M + a) + M * b
<1>1. (N * q + (K * a + b)) * M = (N * q) * M + (K * a) * M + b * M
  OBVIOUS
<1>2. (K * a) * M = N * a
  OBVIOUS
<1>3. (N * q) * M = N * (q * M)
  OBVIOUS
<1> QED
  BY <1>1, <1>2, <1>3

(* The cell of an index is got by exchanging the quotient and the          *)
(* remainder of its position.                                              *)
Swapped(N, M, K, i) ==
    \E a \in 0..M-1, b \in 0..K-1 :
        i % N = K * a + b /\ (i % N) \div K = a /\ (i * M) % N = M * b

LEMMA MapIs ==
  ASSUME NEW N \in Nat \ {0}, NEW M \in Nat \ {0}, NEW K \in Nat \ {0}, N = M * K,
         NEW i \in Nat
  PROVE  Swapped(N, M, K, i)
<1>1. PICK q \in Nat, r \in 0..N-1 : i = N * q + r /\ r = i % N
  BY Division
<1>2. r \in Nat
  BY <1>1
<1>3. PICK a \in Nat, b \in 0..K-1 : r = K * a + b /\ a = r \div K
  BY <1>2, Division
<1>4. a < M
  <2>1. K * a < K * M
    BY <1>3, Distribute
  <2> QED
    BY <2>1, <1>3, LessThan
<1>5. i * M = N * (q * M + a) + M * b
  <2>1. b \in Nat
    BY <1>3
  <2>3. i = N * q + (K * a + b)
    BY <1>1, <1>3, Zenon
  <2>2. (N * q + (K * a + b)) * M = N * (q * M + a) + M * b
    BY <1>1, <1>3, <2>1, Exchange
  <2> QED
    BY <2>2, <2>3
<1>6. M * b \in 0..N-1
  <2>1. M * b < M * K
    BY <1>3, LessThan
  <2>2. M * b \in Nat
    BY <1>3, LessThan
  <2> QED
    BY <2>1, <2>2
<1>7. q * M + a \in Nat
  BY <1>1, <1>3, LessThan
<1>8. (i * M) % N = M * b
  <2>1. (N * (q * M + a) + M * b) % N = M * b
    BY <1>6, <1>7, DivMod
  <2> QED
    BY <1>5, <2>1
<1>9. a \in 0..M-1
  BY <1>3, <1>4
<1> QED
  BY <1>1, <1>3, <1>8, <1>9 DEF Swapped

LEMMA Size ==
  /\ n \in Nat \ {0}
  /\ 2^MinOrder \in Nat \ {0} /\ 2^(Order + 1 - MinOrder) \in Nat \ {0}
  /\ n = 2^MinOrder * 2^(Order + 1 - MinOrder)
<1>1. \A x, y \in Nat \ {0} : x * y \in Nat \ {0}
  OBVIOUS
<1> QED
  BY <1>1, PowersAssumption

(* Two indexes of one cell differ in their cycles, and the later one has   *)
(* the later cycle.                                                        *)
CellOfIndex(i) == Map(i) \in Slots /\ Cycle(i) \in Nat /\ (n <= i => 1 <= Cycle(i))
Ordered(i, j) ==
    /\ i <= j => Cycle(i) <= Cycle(j)
    /\ Map(i) = Map(j) /\ Cycle(i) = Cycle(j) => i = j
    /\ Map(i) = Map(j) /\ i < j => Cycle(i) < Cycle(j) /\ i + n <= j

(* The row and the column of an index, and those of its cell. *)
LEMMA MapPair ==
  ASSUME NEW i \in Nat
  PROVE  \E a \in 0..2^MinOrder - 1, b \in 0..2^(Order + 1 - MinOrder) - 1 :
            i % n = 2^(Order + 1 - MinOrder) * a + b /\ Map(i) = a + 2^MinOrder * b
<1> DEFINE M == 2^MinOrder
           K == 2^(Order + 1 - MinOrder)
<1>1. n \in Nat \ {0} /\ M \in Nat \ {0} /\ K \in Nat \ {0} /\ n = M * K
  BY Size
<1>2. Map(i) = ((i % n) \div K) + ((i * M) % n)
  BY DEF Map
<1> HIDE DEF M, K
<1>3. PICK a \in 0..M-1, b \in 0..K-1 :
         i % n = K * a + b /\ (i % n) \div K = a /\ (i * M) % n = M * b
  <2>1. Swapped(n, M, K, i)
    BY <1>1, MapIs
  <2> QED
    BY <2>1 DEF Swapped
<1>4. i % n = K * a + b /\ Map(i) = a + M * b
  BY <1>2, <1>3
<1> QED
  BY <1>3, <1>4 DEF M, K

LEMMA PairInSlots ==
  ASSUME NEW M \in Nat \ {0}, NEW K \in Nat \ {0}, NEW a \in 0..M-1, NEW b \in 0..K-1
  PROVE  a + M * b \in 0..(M * K) - 1
<1>1. M * b <= M * (K - 1)
  OBVIOUS
<1>2. M * (K - 1) = M * K - M
  OBVIOUS
<1>3. M * b \in Nat
  BY LessThan
<1> QED
  BY <1>1, <1>2, <1>3

LEMMA CellOfIndexHolds == \A i \in Nat : CellOfIndex(i)
<1> SUFFICES ASSUME NEW i \in Nat PROVE CellOfIndex(i)
  OBVIOUS
<1>1. Map(i) \in Slots
  <2> DEFINE M == 2^MinOrder
             K == 2^(Order + 1 - MinOrder)
  <2>1. M \in Nat \ {0} /\ K \in Nat \ {0} /\ n = M * K
    BY Size
  <2>2. PICK a \in 0..M-1, b \in 0..K-1 : Map(i) = a + M * b
    BY MapPair
  <2> HIDE DEF M, K
  <2>3. a + M * b \in 0..(M * K) - 1
    BY <2>1, <2>2, PairInSlots
  <2> QED
    BY <2>1, <2>2, <2>3 DEF Slots
<1>2. Cycle(i) \in Nat /\ i % n \in 0..n-1 /\ i = n * Cycle(i) + (i % n)
  BY Size, Division DEF Cycle
<1>3. n <= i => Cycle(i) # 0
  <2> SUFFICES ASSUME n <= i, Cycle(i) = 0 PROVE FALSE
    OBVIOUS
  <2>1. n * Cycle(i) = 0
    BY Size
  <2> QED
    BY <1>2, <2>1, Size
<1> QED
  BY <1>1, <1>2, <1>3 DEF CellOfIndex

LEMMA OrderedHolds == \A i, j \in Nat : Ordered(i, j)
<1> SUFFICES ASSUME NEW i \in Nat, NEW j \in Nat PROVE Ordered(i, j)
  OBVIOUS
<1>1. Cycle(i) \in Nat /\ i % n \in 0..n-1 /\ i = n * Cycle(i) + (i % n)
  BY Size, Division DEF Cycle
<1>2. Cycle(j) \in Nat /\ j % n \in 0..n-1 /\ j = n * Cycle(j) + (j % n)
  BY Size, Division DEF Cycle
<1>3. i <= j => Cycle(i) <= Cycle(j)
  <2> SUFFICES ASSUME i <= j, Cycle(j) + 1 <= Cycle(i) PROVE FALSE
    BY <1>1, <1>2
  <2>1. n * (Cycle(j) + 1) <= n * Cycle(i)
    BY Size, <1>1, <1>2, Monotone
  <2>2. n * (Cycle(j) + 1) = n * Cycle(j) + n
    BY Size, <1>1, <1>2
  <2>3. n * Cycle(i) \in Nat /\ n * Cycle(j) \in Nat
    BY Size, <1>1, <1>2, LessThan
  <2> QED
    BY <1>1, <1>2, <2>1, <2>2, <2>3, Size
<1>4. ASSUME Map(i) = Map(j)
      PROVE  i % n = j % n
  <2> DEFINE M == 2^MinOrder
             K == 2^(Order + 1 - MinOrder)
  <2>1. PICK a \in 0..M-1, b \in 0..K-1 : i % n = K * a + b /\ Map(i) = a + M * b
    BY MapPair
  <2>2. PICK c \in 0..M-1, d \in 0..K-1 : j % n = K * c + d /\ Map(j) = c + M * d
    BY MapPair
  <2>3. M \in Nat \ {0} /\ K \in Nat \ {0}
    BY Size
  <2> HIDE DEF M, K
  <2>8. a \in 0..M-1 /\ c \in 0..M-1 /\ b \in Nat /\ d \in Nat
    BY <2>3
  <2>4. (M * b + a) \div M = b /\ (M * b + a) % M = a
    BY <2>3, <2>8, DivMod
  <2>5. (M * d + c) \div M = d /\ (M * d + c) % M = c
    BY <2>3, <2>8, DivMod
  <2>6. a + M * b = M * b + a /\ c + M * d = M * d + c
    BY <2>1, <2>2, <2>3
  <2>7. a = c /\ b = d
    BY <1>4, <2>1, <2>2, <2>4, <2>5, <2>6
  <2> QED
    BY <2>1, <2>2, <2>7
<1>5. Map(i) = Map(j) /\ Cycle(i) = Cycle(j) => i = j
  BY <1>1, <1>2, <1>4
<1>6. ASSUME Map(i) = Map(j), i < j
      PROVE  Cycle(i) < Cycle(j) /\ i + n <= j
  <2>1. Cycle(i) + 1 <= Cycle(j)
    BY <1>1, <1>2, <1>3, <1>5, <1>6
  <2>2. n * (Cycle(i) + 1) <= n * Cycle(j)
    BY Size, <1>1, <1>2, <2>1, Monotone
  <2>3. n * (Cycle(i) + 1) = n * Cycle(i) + n
    BY Size, <1>1
  <2>4. n * Cycle(i) \in Nat /\ n * Cycle(j) \in Nat
    BY Size, <1>1, <1>2, LessThan
  <2>5. i % n = j % n /\ i % n \in Nat
    BY <1>1, <1>4, <1>6
  <2>6. n * Cycle(i) + n <= n * Cycle(j)
    BY <2>2, <2>3, Zenon
  <2>7. i = n * Cycle(i) + (i % n) /\ j = n * Cycle(j) + (i % n)
    BY <1>1, <1>2, <2>5, Zenon
  <2>8. \A x, y, r \in Nat : x + n <= y => (x + r) + n <= y + r
    BY Size
  <2>9. (n * Cycle(i) + (i % n)) + n <= n * Cycle(j) + (i % n)
    BY <2>4, <2>5, <2>6, <2>8, Zenon
  <2>10. i + n <= j
    BY <2>7, <2>9, Zenon
  <2> QED
    BY <1>1, <1>2, <2>1, <2>10
<1> QED
  BY <1>3, <1>5, <1>6 DEF Ordered

-----------------------------------------------------------------------------
(* What steps do *)

(* The sizes which the constants give. *)
LEMMA Sizes ==
  /\ Cardinality(Threads) \in Nat \ {0} /\ IsFiniteSet(Threads)
  /\ Threshold \in Nat /\ n \in Nat \ {0} /\ MaxCalls \in Nat
BY RingAssumption, Size, FS_CardinalityType DEF Threshold

Others(t) == \A u \in Threads \ {t} : pc'[u] = pc[u] /\ reg'[u] = reg[u]
Shared == <<head, tail, array, issued, before, index, got, added>>

(* A call goes on which has no business with any cell before or after. *)
Away(t) ==
    /\ Others(t) /\ UNCHANGED <<head, tail, array, issued, before, index, got>>
    /\ ~ Taking(t) /\ ~ Taking(t)' /\ ~ Storing(t)'
    /\ pc'[t] \in Enqueuing =>
          /\ pc[t] \in Enqueuing \ {"enq_reset"} /\ pc'[t] # "enq_reset"
          /\ reg'[t].ptr = reg[t].ptr
    /\ pc'[t] = "catch_cas" => reg'[t].tail <= reg'[t].head
    /\ \/ added' = added
       \/ pc[t] = "enq_reset" /\ added' = added \cup {reg[t].ptr}

(* An enqueue looks at its cell, or finds that no dequeue is past it. *)
Inspects(t) ==
    /\ Others(t) /\ UNCHANGED Shared
    /\ Storing(t) /\ pc'[t] \in {"enq_safe", "enq_cas"}
    /\ reg'[t].idx = reg[t].idx /\ reg'[t].ptr = reg[t].ptr
    /\ \/ /\ reg'[t].cell = CellOf(t)
          /\ CellOf(t).cycle < Cycle(reg[t].idx) /\ ~ CellOf(t).busy
          /\ pc'[t] = "enq_cas" => ~ CellOf(t).unsafe
       \/ /\ pc[t] = "enq_safe" /\ pc'[t] = "enq_cas"
          /\ reg'[t].cell = reg[t].cell /\ head <= reg[t].idx

(* A dequeue looks at its cell. *)
Examines(t) ==
    /\ Others(t) /\ UNCHANGED Shared
    /\ Taking(t) /\ pc'[t] \in {"deq_take", "deq_cas"}
    /\ reg'[t].idx = reg[t].idx
    /\ pc'[t] = "deq_take" => CellOf(t).cycle = Cycle(reg[t].idx)
    /\ pc'[t] = "deq_cas" => reg'[t].cell = CellOf(t) /\ CellOf(t).cycle < Cycle(reg[t].idx)

(* A dequeue leaves a cell which no enqueue of its index can use. *)
Leaves(t) ==
    /\ Others(t) /\ UNCHANGED Shared
    /\ Taking(t) /\ pc'[t] = "deq_tail"
    /\ CellOf(t).cycle # Cycle(reg[t].idx)
    /\ (CellOf(t).busy /\ CellOf(t).unsafe) \/ CellOf(t).cycle > Cycle(reg[t].idx)

Issues(t) ==
    /\ Others(t) /\ UNCHANGED <<head, tail, array, index, got, added>>
    /\ pc[t] = "idle" /\ pc'[t] \in {"enq_refresh", "enq_claim"}
    /\ issued' = issued + 1 /\ issued + 1 \in Values
    /\ reg'[t].ptr = issued + 1
    /\ \A v \in Values : before'[v] = IF v = issued + 1 THEN added \ got ELSE before[v]

ClaimsTail(t) ==
    /\ Others(t) /\ UNCHANGED <<head, array, issued, before, index, got, added>>
    /\ pc[t] = "enq_claim" /\ pc'[t] = "enq_load"
    /\ tail' = tail + 1 /\ reg'[t].idx = tail /\ reg'[t].ptr = reg[t].ptr

(* The cell of the index of a call changes, and no other one. *)
Elsewhere(t) == \A s \in Slots : s # Map(reg[t].idx) => array'[s] = array[s]

Stores(t) ==
    /\ Others(t) /\ Elsewhere(t) /\ UNCHANGED <<head, tail, issued, before, got, added>>
    /\ pc[t] = "enq_cas" /\ pc'[t] = "enq_reset" /\ reg'[t].ptr = reg[t].ptr
    /\ CellOf(t) = reg[t].cell
    /\ array'[Map(reg[t].idx)] = Cell(Cycle(reg[t].idx), TRUE, FALSE, reg[t].ptr)
    /\ \A v \in Values : index'[v] = IF v = reg[t].ptr THEN reg[t].idx ELSE index[v]

ClaimsHead(t) ==
    /\ Others(t) /\ UNCHANGED <<tail, array, issued, before, index, got, added>>
    /\ pc[t] = "deq_claim" /\ pc'[t] = "deq_load"
    /\ head' = head + 1 /\ reg'[t].idx = head

Takes(t) ==
    /\ Others(t) /\ Elsewhere(t)
    /\ UNCHANGED <<head, tail, issued, before, index, added>>
    /\ pc[t] = "deq_take" /\ pc'[t] = "idle"
    /\ got' = got \cup {CellOf(t).ptr}
    /\ array'[Map(reg[t].idx)] = Cell(CellOf(t).cycle, FALSE, CellOf(t).unsafe, None)

Spoils(t) ==
    /\ Others(t) /\ Elsewhere(t)
    /\ UNCHANGED <<head, tail, issued, before, index, got, added>>
    /\ pc[t] = "deq_cas" /\ pc'[t] = "deq_tail"
    /\ CellOf(t).cycle < Cycle(reg[t].idx)
    /\ CellOf(t).busy =>
          array'[Map(reg[t].idx)] = Cell(CellOf(t).cycle, TRUE, TRUE, CellOf(t).ptr)
    /\ ~ CellOf(t).busy =>
          array'[Map(reg[t].idx)]
             = Cell(Cycle(reg[t].idx), FALSE, CellOf(t).unsafe, CellOf(t).ptr)

CatchesUp(t) ==
    /\ Others(t) /\ UNCHANGED <<head, array, issued, before, index, got, added>>
    /\ pc[t] = "catch_cas" /\ pc'[t] = "deq_empty"
    /\ tail = reg[t].tail /\ tail' = reg[t].head

Moves(t) ==
    \/ Away(t) \/ Inspects(t) \/ Examines(t) \/ Leaves(t) \/ Issues(t) \/ ClaimsTail(t)
    \/ Stores(t) \/ ClaimsHead(t) \/ Takes(t) \/ Spoils(t) \/ CatchesUp(t)

(* The fields of a cell. *)
LEMMA CellIsRecord ==
  ASSUME NEW c \in Cells
  PROVE  /\ c.cycle \in Nat /\ c.busy \in BOOLEAN /\ c.unsafe \in BOOLEAN
         /\ c.ptr \in Values \cup {None}
         /\ c = Cell(c.cycle, c.busy, c.unsafe, c.ptr)
BY DEF Cells, Cell

LEMMA IndexedCell ==
  ASSUME TypeOK, NEW t \in Threads
  PROVE  reg[t].idx \in Nat /\ Map(reg[t].idx) \in Slots /\ CellOf(t) \in Cells
BY CellOfIndexHolds DEF TypeOK, Indexes, CellOf, CellOfIndex

(* A call moves on, and no other one does. *)
LEMMA GoMoves ==
  ASSUME TypeOK, NEW t \in Threads, NEW l, Go(t, l)
  PROVE  pc'[t] = l /\ \A u \in Threads \ {t} : pc'[u] = pc[u]
BY DEF Go, TypeOK

LEMMA ForgetMoves ==
  ASSUME TypeOK, NEW t \in Threads, NEW l, Forget(t, l)
  PROVE  pc'[t] = l /\ Others(t)
BY GoMoves DEF Forget, Others, TypeOK

(* The moves of an enqueue. *)
LEMMA EnqueueMoves ==
  ASSUME TypeOK, LocalInv, NEW t \in Threads
  PROVE  /\ Enqueue(t) => Issues(t)
         /\ EnqueueRefresh(t) => Away(t)
         /\ EnqueueClaim(t) => ClaimsTail(t)
         /\ EnqueueLoad(t) => Inspects(t) \/ Away(t)
         /\ EnqueueSafe(t) => Inspects(t) \/ Away(t)
         /\ EnqueueCas(t) => Stores(t) \/ Inspects(t) \/ Away(t)
         /\ EnqueueReset(t) => Away(t)
         /\ EnqueueNext(t) => Away(t)
<1> USE DEF ring, history, At, Return, Fail, Shared
<1>1. ASSUME Enqueue(t)
      PROVE  Issues(t)
  <2>1. issued + 1 \in Values
    BY <1>1, Sizes DEF Enqueue, Values, TypeOK
  <2>2. Others(t) /\ pc'[t] \in {"enq_refresh", "enq_claim"} /\ reg'[t].ptr = issued + 1
    BY <1>1, GoMoves DEF Enqueue, Others, TypeOK, Local
  <2>3. \A v \in Values : before'[v] = IF v = issued + 1 THEN added \ got ELSE before[v]
    BY <1>1 DEF Enqueue, TypeOK
  <2> QED
    BY <1>1, <2>1, <2>2, <2>3 DEF Enqueue, Issues
<1>2. ASSUME EnqueueRefresh(t)
      PROVE  Away(t)
  <2>1. CASE Forget(t, "idle")
    BY <1>2, <2>1, ForgetMoves
       DEF EnqueueRefresh, Away, Taking, Storing, Enqueuing
  <2>2. CASE Go(t, "enq_claim") /\ UNCHANGED <<reg, history>>
    BY <1>2, <2>2, GoMoves
       DEF EnqueueRefresh, Away, Taking, Storing, Enqueuing, Others
  <2> QED
    BY <1>2, <2>1, <2>2 DEF EnqueueRefresh
<1>3. ASSUME EnqueueClaim(t)
      PROVE  ClaimsTail(t)
  BY <1>3, GoMoves DEF EnqueueClaim, ClaimsTail, Others, TypeOK
<1>4. ASSUME Inspect(t), Storing(t), UNCHANGED Shared
      PROVE  Inspects(t) \/ Away(t)
  <2>1. Others(t) /\ pc'[t] = Usable(CellOf(t), reg[t].idx)
        /\ reg'[t].idx = reg[t].idx /\ reg'[t].ptr = reg[t].ptr /\ reg'[t].cell = CellOf(t)
    BY <1>4, GoMoves DEF Inspect, Others, TypeOK
  <2> QED
    BY <1>4, <2>1 DEF Usable, Inspects, Away, Taking, Storing, Enqueuing
<1>5. ASSUME EnqueueLoad(t)
      PROVE  Inspects(t) \/ Away(t)
  BY <1>4, <1>5 DEF EnqueueLoad, Storing
<1>6. ASSUME EnqueueSafe(t)
      PROVE  Inspects(t) \/ Away(t)
  <2>1. Others(t) /\ pc'[t] = IF head <= reg[t].idx THEN "enq_cas" ELSE "enq_next"
    BY <1>6, GoMoves DEF EnqueueSafe, Others
  <2> QED
    BY <1>6, <2>1 DEF EnqueueSafe, Inspects, Away, Taking, Storing, Enqueuing
<1>7. ASSUME EnqueueCas(t)
      PROVE  Stores(t) \/ Inspects(t) \/ Away(t)
  <2>1. CASE Inspect(t) /\ UNCHANGED <<array, index>>
    BY <1>4, <1>7, <2>1 DEF EnqueueCas, Storing
  <2>2. CASE /\ CellOf(t) = reg[t].cell
             /\ array' = [array EXCEPT ![Map(reg[t].idx)] =
                            Cell(Cycle(reg[t].idx), TRUE, FALSE, reg[t].ptr)]
             /\ index' = [index EXCEPT ![reg[t].ptr] = reg[t].idx]
             /\ reg' = [reg EXCEPT ![t] = Local(0, NoCell, @.ptr, 0, 0)]
             /\ Go(t, "enq_reset")
    <3>1. Others(t) /\ reg'[t].ptr = reg[t].ptr /\ pc'[t] = "enq_reset"
      BY <2>2, GoMoves DEF Others, TypeOK, Local
    <3>2. /\ Elsewhere(t)
          /\ array'[Map(reg[t].idx)] = Cell(Cycle(reg[t].idx), TRUE, FALSE, reg[t].ptr)
      BY <2>2, IndexedCell DEF Elsewhere, TypeOK
    <3>3. \A v \in Values : index'[v] = IF v = reg[t].ptr THEN reg[t].idx ELSE index[v]
      BY <2>2 DEF TypeOK
    <3> QED
      BY <1>7, <2>2, <3>1, <3>2, <3>3 DEF EnqueueCas, Stores
  <2> QED
    BY <1>7, <2>1, <2>2 DEF EnqueueCas
<1>8. ASSUME EnqueueReset(t)
      PROVE  Away(t)
  BY <1>8, ForgetMoves DEF EnqueueReset, Away, Taking, Storing, Enqueuing
<1>9. ASSUME EnqueueNext(t)
      PROVE  Away(t)
  <2>1. CASE Forget(t, "idle")
    BY <1>9, <2>1, ForgetMoves
       DEF EnqueueNext, Away, Taking, Storing, Enqueuing
  <2>2. CASE Go(t, "enq_claim") /\ UNCHANGED <<reg, history>>
    BY <1>9, <2>2, GoMoves
       DEF EnqueueNext, Away, Taking, Storing, Enqueuing, Others
  <2> QED
    BY <1>9, <2>1, <2>2 DEF EnqueueNext
<1> QED
  BY <1>1, <1>2, <1>3, <1>5, <1>6, <1>7, <1>8, <1>9

(* The moves of a dequeue. *)
LEMMA DequeueMoves ==
  ASSUME TypeOK, LocalInv, NEW t \in Threads
  PROVE  /\ Dequeue(t) => Away(t)
         /\ DequeueClaim(t) => ClaimsHead(t)
         /\ DequeueLoad(t) => Examines(t) \/ Leaves(t)
         /\ DequeueTake(t) => Takes(t)
         /\ DequeueCas(t) => Spoils(t) \/ Examines(t) \/ Leaves(t)
         /\ DequeueTail(t) => Away(t)
         /\ DequeueNone(t) => Away(t)
         /\ DequeueEmpty(t) => Away(t)
         /\ DequeueRetry(t) => Away(t)
<1> USE DEF ring, history, At, Return, Nothing, Shared
<1>1. ASSUME Dequeue(t)
      PROVE  Away(t)
  BY <1>1, GoMoves DEF Dequeue, Away, Taking, Storing, Enqueuing, Others
<1>2. ASSUME DequeueClaim(t)
      PROVE  ClaimsHead(t)
  BY <1>2, GoMoves DEF DequeueClaim, ClaimsHead, Others, TypeOK
<1>3. ASSUME Examine(t), Taking(t), UNCHANGED Shared
      PROVE  Examines(t) \/ Leaves(t)
  <2>1. Others(t) /\ pc'[t] = Outcome(CellOf(t), reg[t].idx)
        /\ reg'[t].idx = reg[t].idx /\ reg'[t].cell = CellOf(t)
    BY <1>3, GoMoves DEF Examine, Others, TypeOK
  <2>2. CellOf(t).cycle \in Nat /\ Cycle(reg[t].idx) \in Nat
    BY IndexedCell, CellIsRecord, CellOfIndexHolds DEF CellOfIndex
  <2> QED
    BY <1>3, <2>1, <2>2 DEF Outcome, Examines, Leaves, Taking
<1>4. ASSUME DequeueLoad(t)
      PROVE  Examines(t) \/ Leaves(t)
  BY <1>3, <1>4 DEF DequeueLoad, Taking
<1>5. ASSUME DequeueTake(t)
      PROVE  Takes(t)
  <2>1. Others(t) /\ pc'[t] = "idle"
    BY <1>5, ForgetMoves DEF DequeueTake
  <2> DEFINE s == Map(reg[t].idx)
  <2>2. s \in Slots /\ array[s] \in Cells /\ CellOf(t) = array[s]
    BY IndexedCell DEF CellOf
  <2>3. array' = [array EXCEPT ![s].busy = FALSE, ![s].ptr = None]
    BY <1>5 DEF DequeueTake
  <2> HIDE DEF s
  <2>4. array'[s] = Cell(array[s].cycle, FALSE, array[s].unsafe, None)
    BY <2>2, <2>3 DEF Cells, Cell, TypeOK
  <2>5. \A x \in Slots : x # s => array'[x] = array[x]
    BY <2>2, <2>3 DEF TypeOK
  <2> QED
    BY <1>5, <2>1, <2>2, <2>4, <2>5 DEF DequeueTake, Takes, Elsewhere, s
<1>6. ASSUME DequeueCas(t)
      PROVE  Spoils(t) \/ Examines(t) \/ Leaves(t)
  <2>1. CASE Examine(t) /\ UNCHANGED array
    BY <1>3, <1>6, <2>1 DEF DequeueCas, Taking
  <2>2. CASE /\ Entry(CellOf(t)) = Entry(reg[t].cell)
             /\ array' = [array EXCEPT ![Map(reg[t].idx)] = Spoiled(@, reg[t].idx)]
             /\ Go(t, "deq_tail")
             /\ UNCHANGED reg
    <3>1. Others(t) /\ pc'[t] = "deq_tail"
      BY <2>2, GoMoves DEF Others
    <3>2. CellOf(t).cycle < Cycle(reg[t].idx)
      BY <1>6, <2>2 DEF Entry, LocalInv, LocalOK, DequeueCas
    <3>3. Elsewhere(t) /\ array'[Map(reg[t].idx)] = Spoiled(CellOf(t), reg[t].idx)
      BY <2>2, IndexedCell DEF Elsewhere, TypeOK, CellOf
    <3>4. CellOf(t) \in Cells
      BY IndexedCell
    <3>5. /\ CellOf(t).busy => Spoiled(CellOf(t), reg[t].idx)
                = Cell(CellOf(t).cycle, TRUE, TRUE, CellOf(t).ptr)
          /\ ~ CellOf(t).busy => Spoiled(CellOf(t), reg[t].idx)
                = Cell(Cycle(reg[t].idx), FALSE, CellOf(t).unsafe, CellOf(t).ptr)
      BY <3>4 DEF Spoiled, Cells, Cell
    <3> QED
      BY <1>6, <3>1, <3>2, <3>3, <3>5 DEF DequeueCas, Spoils
  <2> QED
    BY <1>6, <2>1, <2>2 DEF DequeueCas
<1>7. ASSUME DequeueTail(t)
      PROVE  Away(t)
  <2>1. CASE Forget(t, "deq_retry")
    BY <1>7, <2>1, ForgetMoves DEF DequeueTail, Away, Taking, Storing, Enqueuing
  <2>2. CASE /\ tail <= reg[t].idx + 1 /\ Go(t, "catch_cas")
             /\ reg' = [reg EXCEPT ![t] = Local(0, NoCell, None, tail, @.idx + 1)]
    <3>1. /\ Others(t) /\ pc'[t] = "catch_cas"
          /\ reg'[t].tail = tail /\ reg'[t].head = reg[t].idx + 1
      BY <2>2, GoMoves DEF Others, TypeOK, Local
    <3> QED
      BY <1>7, <2>2, <3>1 DEF DequeueTail, Away, Taking, Storing, Enqueuing
  <2> QED
    BY <1>7, <2>1, <2>2 DEF DequeueTail
<1>8. ASSUME DequeueNone(t)
      PROVE  Away(t)
  BY <1>8, ForgetMoves DEF DequeueNone, Away, Taking, Storing, Enqueuing
<1>9. ASSUME DequeueEmpty(t)
      PROVE  Away(t)
  BY <1>9, ForgetMoves DEF DequeueEmpty, Away, Taking, Storing, Enqueuing
<1>10. ASSUME DequeueRetry(t)
       PROVE  Away(t)
  <2>1. CASE Forget(t, "idle")
    BY <1>10, <2>1, ForgetMoves
       DEF DequeueRetry, Away, Taking, Storing, Enqueuing
  <2>2. CASE Go(t, "deq_claim") /\ UNCHANGED <<reg, history>>
    BY <1>10, <2>2, GoMoves
       DEF DequeueRetry, Away, Taking, Storing, Enqueuing, Others
  <2> QED
    BY <1>10, <2>1, <2>2 DEF DequeueRetry
<1> QED
  BY <1>1, <1>2, <1>4, <1>5, <1>6, <1>7, <1>8, <1>9, <1>10

(* The moves of a catch-up. *)
LEMMA CatchupMoves ==
  ASSUME TypeOK, LocalInv, NEW t \in Threads
  PROVE  /\ CatchupCas(t) => CatchesUp(t) \/ Away(t)
         /\ CatchupHead(t) => Away(t)
         /\ CatchupTail(t) => Away(t)
<1> USE DEF ring, history, At
<1>1. ASSUME CatchupCas(t)
      PROVE  CatchesUp(t) \/ Away(t)
  <2>1. CASE tail = reg[t].tail /\ tail' = reg[t].head /\ Forget(t, "deq_empty")
    BY <1>1, <2>1, ForgetMoves DEF CatchupCas, CatchesUp
  <2>2. CASE UNCHANGED <<tail, reg>> /\ Go(t, "catch_head")
    BY <1>1, <2>2, GoMoves DEF CatchupCas, Away, Taking, Storing, Enqueuing, Others
  <2> QED
    BY <1>1, <2>1, <2>2 DEF CatchupCas
<1>2. ASSUME CatchupHead(t)
      PROVE  Away(t)
  BY <1>2, GoMoves DEF CatchupHead, Away, Taking, Storing, Enqueuing, Others, TypeOK
<1>3. ASSUME CatchupTail(t)
      PROVE  Away(t)
  <2>1. CASE Forget(t, "deq_empty")
    BY <1>3, <2>1, ForgetMoves DEF CatchupTail, Away, Taking, Storing, Enqueuing
  <2>2. CASE /\ tail < reg[t].head /\ Go(t, "catch_cas")
             /\ reg' = [reg EXCEPT ![t].tail = tail]
    <3>1. /\ Others(t) /\ pc'[t] = "catch_cas"
          /\ reg'[t].tail = tail /\ reg'[t].head = reg[t].head
      BY <2>2, GoMoves DEF Others, TypeOK
    <3>2. tail <= reg[t].head
      BY <2>2 DEF TypeOK, Indexes
    <3> QED
      BY <1>3, <3>1, <3>2 DEF CatchupTail, Away, Taking, Storing, Enqueuing
  <2> QED
    BY <1>3, <2>1, <2>2 DEF CatchupTail, TypeOK, Indexes
<1> QED
  BY <1>1, <1>2, <1>3

Action(t) ==
    \/ Enqueue(t) \/ EnqueueRefresh(t) \/ EnqueueClaim(t) \/ EnqueueLoad(t)
    \/ EnqueueSafe(t) \/ EnqueueCas(t) \/ EnqueueReset(t) \/ EnqueueNext(t)
    \/ Dequeue(t) \/ DequeueClaim(t) \/ DequeueLoad(t) \/ DequeueTake(t)
    \/ DequeueCas(t) \/ DequeueTail(t) \/ DequeueNone(t) \/ DequeueEmpty(t)
    \/ DequeueRetry(t) \/ CatchupCas(t) \/ CatchupHead(t) \/ CatchupTail(t)

(* Each action is one of these moves. *)
LEMMA ActionMoves ==
  ASSUME TypeOK, LocalInv, NEW t \in Threads, Action(t)
  PROVE  Moves(t)
BY EnqueueMoves, DequeueMoves, CatchupMoves DEF Action, Moves

LEMMA StepMoves ==
  ASSUME TypeOK, LocalInv, Next
  PROVE  \E t \in Threads : Moves(t)
<1>1. PICK t \in Threads : Action(t)
  BY DEF Next, Action
<1> QED
  BY <1>1, ActionMoves

-----------------------------------------------------------------------------
(* Which indexes are settled *)

Same == \A i \in Nat : Settled(i)' <=> Settled(i)
Settles(t) == \A i \in Nat : Settled(i)' <=> Settled(i) \/ i = reg[t].idx

(* A step which neither starts nor ends a taking settles nothing. *)
LEMMA SameHolds ==
  ASSUME TypeOK, NEW t \in Threads, head' = head, Others(t),
         Taking(t)' <=> Taking(t), Taking(t) => reg'[t].idx = reg[t].idx
  PROVE  Same
<1>1. \A u \in Threads : /\ Taking(u)' <=> Taking(u)
                         /\ Taking(u) => reg'[u].idx = reg[u].idx
  BY DEF Others, Taking
<1>2. \A i \in Nat : Pending(i)' <=> Pending(i)
  BY <1>1 DEF Pending
<1> QED
  BY <1>2 DEF Same, Settled

(* The end of a taking settles its index: nobody else has claimed it. *)
LEMMA SettlesHolds ==
  ASSUME TypeOK, LocalInv, ClaimInv, NEW t \in Threads, head' = head, Others(t),
         Taking(t), ~ Taking(t)'
  PROVE  Settles(t)
<1>1. \A u \in Threads \ {t} :
        (Taking(u)' <=> Taking(u)) /\ reg'[u] = reg[u]
        /\ (Taking(u) => reg[u].idx # reg[t].idx)
  BY DEF Others, Taking, ClaimInv
<1>2. \A i \in Nat : Pending(i)' <=> Pending(i) /\ i # reg[t].idx
  BY <1>1 DEF Pending
<1>3. reg[t].idx < head /\ Pending(reg[t].idx)
  BY DEF LocalInv, LocalOK, Pending
<1> QED
  BY <1>2, <1>3 DEF Settles, Settled

(* A claim of the head settles nothing: its index is pending. *)
LEMMA ClaimSettlesNothing ==
  ASSUME TypeOK, LocalInv, ClaimInv, NEW t \in Threads, ClaimsHead(t)
  PROVE  Same
<1>1. \A u \in Threads \ {t} : (Taking(u)' <=> Taking(u)) /\ reg'[u] = reg[u]
  BY DEF Others, Taking, ClaimsHead
<1>2. ~ Taking(t) /\ Taking(t)' /\ reg'[t].idx = head /\ head' = head + 1 /\ head \in Nat
  BY DEF ClaimsHead, Taking, TypeOK, Indexes
<1>3. \A i \in Nat : Pending(i)' <=> Pending(i) \/ i = head
  BY <1>1, <1>2 DEF Pending
<1> QED
  BY <1>2, <1>3 DEF Same, Settled

(* Three moves settle an index, the others do not. *)
LEMMA SettledMoves ==
  ASSUME TypeOK, LocalInv, ClaimInv, NEW t \in Threads, Moves(t)
  PROVE  \/ Same /\ ~ Leaves(t) /\ ~ Takes(t) /\ ~ Spoils(t)
         \/ Settles(t) /\ (Leaves(t) \/ Takes(t) \/ Spoils(t))
<1>1. CASE Leaves(t) \/ Takes(t) \/ Spoils(t)
  BY <1>1, SettlesHolds DEF Leaves, Takes, Spoils, Taking, Shared
<1>2. CASE ClaimsHead(t)
  BY <1>1, <1>2, ClaimSettlesNothing
<1>3. CASE Examines(t)
  BY <1>1, <1>3, SameHolds DEF Examines, Taking, Shared
<1>4. CASE \/ Away(t) \/ Inspects(t) \/ Issues(t) \/ ClaimsTail(t) \/ Stores(t)
           \/ CatchesUp(t)
  BY <1>1, <1>4, SameHolds
     DEF Away, Inspects, Issues, ClaimsTail, Stores, CatchesUp, Taking, Storing, Shared
<1> QED
  BY <1>1, <1>2, <1>3, <1>4 DEF Moves

-----------------------------------------------------------------------------
(* The threshold, and the types *)

(* Sets of threads and their sizes. *)
LEMMA Counting ==
  ASSUME NEW S \in SUBSET Threads
  PROVE  /\ Cardinality(S) \in Nat /\ Cardinality(S) <= Cardinality(Threads)
         /\ \A t \in S : Cardinality(S \ {t}) = Cardinality(S) - 1
<1>1. IsFiniteSet(S) /\ Cardinality(S) <= Cardinality(Threads)
  BY Sizes, FS_Subset
<1>2. Cardinality(S) \in Nat
  BY <1>1, FS_CardinalityType
<1>3. \A t \in S : Cardinality(S \ {t}) = Cardinality(S) - 1
  BY <1>1, FS_RemoveElement
<1> QED
  BY <1>1, <1>2, <1>3

(* The set of dequeues on their way, after a step. *)
LEMMA LoopingMoves ==
  ASSUME TypeOK, NEW t \in Threads, NEW l, Go(t, l)
  PROVE  /\ Looping' = IF l \in Dequeuing \ {"deq_none"}
                         THEN Looping \cup {t} ELSE Looping \ {t}
         /\ Looping' \in SUBSET Threads /\ Looping \in SUBSET Threads
         /\ t \in Looping <=> pc[t] \in Dequeuing \ {"deq_none"}
BY GoMoves DEF Looping

(* The threshold: a dequeue enters the loop while it is not negative, and  *)
(* lowers it once on the way out.                                          *)
LEMMA ThresholdKeeps ==
  ASSUME TypeOK, ThresholdInv, Next
  PROVE  ThresholdInv'
<1> USE DEF Action, ring, history, At, Return, Forget, Fail, Nothing
<1>1. PICK t \in Threads : Action(t)
  BY DEF Next, Action
<1>2. PICK l : Go(t, l)
  BY <1>1
     DEF Enqueue, EnqueueRefresh, EnqueueClaim, EnqueueLoad, EnqueueSafe, EnqueueCas,
         EnqueueReset, EnqueueNext, Dequeue, DequeueClaim, DequeueLoad, DequeueTake,
         DequeueCas, DequeueTail, DequeueNone, DequeueEmpty, DequeueRetry, CatchupCas,
         CatchupHead, CatchupTail, Inspect, Examine
<1>3. pc'[t] = l
  BY <1>2, GoMoves
<1>4. /\ Looping' \in SUBSET Threads /\ Looping \in SUBSET Threads
      /\ pc'[t] \in Dequeuing \ {"deq_none"} => Looping' = Looping \cup {t}
      /\ pc'[t] \notin Dequeuing \ {"deq_none"} => Looping' = Looping \ {t}
      /\ t \in Looping <=> pc[t] \in Dequeuing \ {"deq_none"}
  BY <1>2, <1>3, LoopingMoves
<1>5. /\ Cardinality(Looping) \in Nat
      /\ Cardinality(Looping') \in Nat /\ Cardinality(Looping') <= Cardinality(Threads)
      /\ Cardinality(Threads) \in Nat /\ Threshold \in Nat
  BY <1>4, Counting, Sizes
<1>6. t \in Looping => Cardinality(Looping \ {t}) = Cardinality(Looping) - 1
  BY <1>4, Counting
<1>7. ASSUME threshold' = threshold,
             pc'[t] \in Dequeuing \ {"deq_none"} => pc[t] \in Dequeuing \ {"deq_none"}
      PROVE  ThresholdInv'
  <2>1. Looping' = Looping \/ (t \in Looping /\ Looping' = Looping \ {t})
    BY <1>4, <1>7
  <2> QED
    BY <1>5, <1>6, <1>7, <2>1 DEF ThresholdInv
<1>8. ASSUME threshold' \in 0..Threshold
      PROVE  ThresholdInv'
  BY <1>5, <1>8 DEF ThresholdInv
<1>9. ASSUME t \in Looping, threshold' = threshold - 1, pc'[t] = "idle"
      PROVE  ThresholdInv'
  <2>1. Looping' = Looping \ {t}
    BY <1>4, <1>9 DEF Dequeuing
  <2> QED
    BY <1>5, <1>6, <1>9, <2>1 DEF ThresholdInv
<1>10. CASE EnqueueReset(t)
  BY <1>5, <1>8, <1>10 DEF EnqueueReset
<1>11. CASE Dequeue(t)
  BY <1>3, <1>5, <1>7, <1>8, <1>11, GoMoves DEF Dequeue, Dequeuing, ThresholdInv
<1>12. CASE DequeueEmpty(t)
  BY <1>4, <1>9, <1>12, GoMoves DEF DequeueEmpty, Dequeuing
<1>13. CASE DequeueRetry(t)
  <2>1. t \in Looping
    BY <1>4, <1>13 DEF DequeueRetry, Dequeuing
  <2>2. CASE threshold <= 0
    BY <1>9, <1>13, <2>1, <2>2, GoMoves DEF DequeueRetry
  <2>3. CASE ~ threshold <= 0
    BY <1>5, <1>8, <1>13, <2>3 DEF DequeueRetry, ThresholdInv
  <2> QED
    BY <2>2, <2>3
<1>14. CASE \/ Enqueue(t) \/ EnqueueRefresh(t) \/ EnqueueClaim(t) \/ EnqueueLoad(t)
            \/ EnqueueSafe(t) \/ EnqueueCas(t) \/ EnqueueNext(t)
  <2>1. pc'[t] \in {"idle"} \cup Enqueuing
    <3>1. CASE Enqueue(t) \/ EnqueueRefresh(t) \/ EnqueueClaim(t) \/ EnqueueNext(t)
      BY <3>1, GoMoves
         DEF Enqueue, EnqueueRefresh, EnqueueClaim, EnqueueNext, Enqueuing
    <3>2. Inspect(t) => pc'[t] \in Enqueuing
      BY GoMoves DEF Inspect, Usable, Enqueuing
    <3>3. CASE EnqueueLoad(t) \/ EnqueueSafe(t) \/ EnqueueCas(t)
      BY <3>2, <3>3, GoMoves DEF EnqueueLoad, EnqueueSafe, EnqueueCas, Enqueuing
    <3> QED
      BY <1>14, <3>1, <3>3
  <2>2. pc'[t] \notin Dequeuing
    BY <2>1 DEF Enqueuing, Dequeuing
  <2> QED
    BY <1>7, <1>14, <2>2
       DEF Enqueue, EnqueueRefresh, EnqueueClaim, EnqueueLoad, EnqueueSafe, EnqueueCas,
           EnqueueNext
<1>15. CASE \/ DequeueClaim(t) \/ DequeueLoad(t) \/ DequeueTake(t) \/ DequeueCas(t)
            \/ DequeueTail(t) \/ CatchupCas(t) \/ CatchupHead(t) \/ CatchupTail(t)
  <2>1. pc[t] \in Dequeuing \ {"deq_none"}
    BY <1>15
       DEF DequeueClaim, DequeueLoad, DequeueTake, DequeueCas, DequeueTail, CatchupCas,
           CatchupHead, CatchupTail, Dequeuing
  <2> QED
    BY <1>7, <1>15, <2>1
       DEF DequeueClaim, DequeueLoad, DequeueTake, DequeueCas, DequeueTail, CatchupCas,
           CatchupHead, CatchupTail
<1>16. CASE DequeueNone(t)
  BY <1>7, <1>16, GoMoves DEF DequeueNone, Dequeuing
<1> QED
  BY <1>1, <1>10, <1>11, <1>12, <1>13, <1>14, <1>15, <1>16

(* Every variable keeps its type. *)
Places == {"idle"} \cup Enqueuing \cup Dequeuing
Calls == [idx : Nat, cell : Cells, ptr : Values \cup {None}, tail : Nat, head : Nat]

LEMMA LocalTypes ==
  ASSUME NEW f \in [Threads -> Calls], NEW t \in Threads, NEW i \in Nat, NEW c \in Cells
  PROVE  /\ [f EXCEPT ![t].idx = i] \in [Threads -> Calls]
         /\ [f EXCEPT ![t].cell = c] \in [Threads -> Calls]
         /\ [f EXCEPT ![t].tail = i] \in [Threads -> Calls]
         /\ [f EXCEPT ![t].head = i] \in [Threads -> Calls]
<1>1. \A r \in Calls : /\ [r EXCEPT !.idx = i] \in Calls
                       /\ [r EXCEPT !.cell = c] \in Calls
                       /\ [r EXCEPT !.tail = i] \in Calls
                       /\ [r EXCEPT !.head = i] \in Calls
  BY DEF Calls
<1>2. f[t] \in Calls
  OBVIOUS
<1> QED
  BY <1>1, <1>2

LEMMA RegTypes ==
  ASSUME TypeOK, NEW t \in Threads
  PROVE  /\ reg \in [Threads -> Calls]
         /\ head \in Nat /\ tail \in Nat /\ CellOf(t) \in Cells
BY IndexedCell DEF TypeOK, Calls, Indexes

LEMMA TakenTypes ==
  ASSUME NEW a \in [Slots -> Cells], NEW s \in Slots
  PROVE  /\ [a EXCEPT ![s].busy = FALSE] \in [Slots -> Cells]
         /\ [a EXCEPT ![s].ptr = None] \in [Slots -> Cells]
<1>1. \A c \in Cells : /\ [c EXCEPT !.busy = FALSE] \in Cells
                       /\ [c EXCEPT !.ptr = None] \in Cells
  BY DEF Cells
<1>2. a[s] \in Cells
  OBVIOUS
<1> QED
  BY <1>1, <1>2

LEMMA InspectTypes ==
  ASSUME TypeOK, NEW t \in Threads, Inspect(t)
  PROVE  /\ pc' \in [Threads -> Places]
         /\ reg' \in [Threads -> Calls]
<1>1. Usable(CellOf(t), reg[t].idx) \in Places
  BY DEF Usable, Places, Enqueuing
<1>2. pc' \in [Threads -> Places]
  BY <1>1 DEF Inspect, Go, TypeOK, Places
<1>3. reg' \in [Threads -> Calls]
  BY RegTypes, LocalTypes DEF Inspect
<1> QED
  BY <1>2, <1>3

LEMMA ExamineTypes ==
  ASSUME TypeOK, NEW t \in Threads, Examine(t)
  PROVE  /\ pc' \in [Threads -> Places]
         /\ reg' \in [Threads -> Calls]
<1>1. Outcome(CellOf(t), reg[t].idx) \in Places
  BY DEF Outcome, Places, Dequeuing
<1>2. pc' \in [Threads -> Places]
  BY <1>1 DEF Examine, Go, TypeOK, Places
<1>3. reg' \in [Threads -> Calls]
  BY RegTypes, LocalTypes DEF Examine
<1> QED
  BY <1>2, <1>3

LEMMA ForgetTypes ==
  ASSUME TypeOK, NEW t \in Threads, NEW l \in Places,
         Forget(t, l)
  PROVE  /\ pc' \in [Threads -> Places]
         /\ reg' \in [Threads -> Calls]
BY DEF Places, Calls, Forget, Go, NoLocal, Local, NoCell, Cell, Cells, Indexes, None, TypeOK

LEMMA TypesKeep ==
  ASSUME TypeOK, LocalInv, ClaimInv, CellInv, ThresholdInv', Next
  PROVE  TypeOK'
<1> USE DEF Action, Places, ring, history, At, Return, Fail, Nothing, Indexes
<1>1. PICK t \in Threads : Action(t)
  BY DEF Next, Action
<1>0. /\ reg \in [Threads -> Calls]
      /\ \A i \in Nat : /\ [reg EXCEPT ![t].idx = i] \in [Threads -> Calls]
                        /\ [reg EXCEPT ![t].tail = i] \in [Threads -> Calls]
                        /\ [reg EXCEPT ![t].head = i] \in [Threads -> Calls]
  BY RegTypes, LocalTypes
<1>2. threshold' \in -Cardinality(Threads)..Threshold
  <2>1. Looping' \in SUBSET Threads
    BY DEF Looping
  <2>2. Cardinality(Looping') \in Nat
    BY <2>1, Counting
  <2> QED
    BY <2>2, Sizes DEF ThresholdInv
<1>3. issued' \in 0..MaxCalls /\ called' \in 0..MaxCalls
  <2>1. CASE Enqueue(t) \/ Dequeue(t)
    BY <2>1, Sizes DEF Enqueue, Dequeue, TypeOK
  <2>2. CASE UNCHANGED <<issued, called>>
    BY <2>2 DEF TypeOK
  <2> QED
    BY <1>1, <2>1, <2>2
       DEF EnqueueRefresh, EnqueueClaim, EnqueueLoad, EnqueueSafe, EnqueueCas,
           EnqueueReset, EnqueueNext, DequeueClaim, DequeueLoad, DequeueTake,
           DequeueCas, DequeueTail, DequeueNone, DequeueEmpty, DequeueRetry, CatchupCas,
           CatchupHead, CatchupTail
<1>4. /\ pc' \in [Threads -> Places]
      /\ reg' \in [Threads -> Calls]
  <2>1. CASE Enqueue(t)
    <3>1. issued + 1 \in Values
      BY <2>1, Sizes DEF Enqueue, Values, TypeOK
    <3>2. NoCell \in Cells
      BY DEF NoCell, Cell, Cells, None
    <3> QED
      BY <2>1, <3>1, <3>2 DEF Enqueue, Go, Local, Enqueuing, TypeOK, Calls
  <2>2. CASE EnqueueRefresh(t) \/ EnqueueNext(t)
    <3>1. CASE Forget(t, "idle")
      BY <3>1, ForgetTypes
    <3>2. CASE Go(t, "enq_claim") /\ UNCHANGED <<reg, history>>
      BY <3>2 DEF Go, Enqueuing, TypeOK, Calls
    <3> QED
      BY <2>2, <3>1, <3>2 DEF EnqueueRefresh, EnqueueNext
  <2>3. CASE EnqueueClaim(t) \/ EnqueueSafe(t)
    <3>1. pc' \in [Threads -> Places]
      BY <2>3 DEF EnqueueClaim, EnqueueSafe, Go, Enqueuing, TypeOK
    <3>2. reg' \in [Threads -> Calls]
      BY <1>0, <2>3, RegTypes DEF EnqueueClaim, EnqueueSafe
    <3> QED
      BY <3>1, <3>2
  <2>4. CASE EnqueueLoad(t)
    BY <2>4, InspectTypes DEF EnqueueLoad
  <2>5. CASE EnqueueCas(t)
    <3>1. NoCell \in Cells
      BY DEF NoCell, Cell, Cells, None
    <3>2. CASE Inspect(t)
      BY <3>2, InspectTypes
    <3>3. CASE /\ Go(t, "enq_reset")
               /\ reg' = [reg EXCEPT ![t] = Local(0, NoCell, @.ptr, 0, 0)]
      <4>1. pc' \in [Threads -> Places]
        BY <3>3 DEF Go, Enqueuing, TypeOK
      <4>2. Local(0, NoCell, reg[t].ptr, 0, 0) \in Calls
        BY <3>1 DEF Local, TypeOK, Calls
      <4> QED
        BY <3>3, <4>1, <4>2 DEF TypeOK, Calls
    <3> QED
      BY <2>5, <3>2, <3>3 DEF EnqueueCas
  <2>6. CASE EnqueueReset(t) \/ DequeueTake(t) \/ DequeueNone(t) \/ DequeueEmpty(t)
    BY <2>6, ForgetTypes DEF EnqueueReset, DequeueTake, DequeueNone, DequeueEmpty
  <2>7. CASE Dequeue(t)
    BY <2>7 DEF Dequeue, Go, Dequeuing, TypeOK, Calls
  <2>12. CASE DequeueClaim(t)
    <3>1. pc' \in [Threads -> Places]
      BY <2>12 DEF DequeueClaim, Go, Dequeuing, TypeOK
    <3>2. reg' \in [Threads -> Calls]
      BY <1>0, <2>12, RegTypes DEF DequeueClaim
    <3> QED
      BY <3>1, <3>2
  <2>8. CASE DequeueLoad(t) \/ DequeueCas(t)
    BY <2>8, ExamineTypes DEF DequeueLoad, DequeueCas, Go, Dequeuing, TypeOK, Calls
  <2>9. CASE DequeueTail(t)
    <3>1. NoCell \in Cells /\ None \in Values \cup {None}
      BY DEF NoCell, Cell, Cells, None
    <3>2. CASE Forget(t, "deq_retry")
      BY <3>2, ForgetTypes DEF Dequeuing
    <3>3. CASE /\ Go(t, "catch_cas")
               /\ reg' = [reg EXCEPT ![t] = Local(0, NoCell, None, tail, @.idx + 1)]
      BY <3>1, <3>3 DEF Go, Local, Dequeuing, TypeOK, Calls
    <3> QED
      BY <2>9, <3>2, <3>3 DEF DequeueTail
  <2>10. CASE DequeueRetry(t)
    BY <2>10, ForgetTypes DEF DequeueRetry, Go, Dequeuing, TypeOK, Calls
  <2>11. CASE CatchupHead(t)
    <3>1. pc' \in [Threads -> Places]
      BY <2>11 DEF CatchupHead, Go, Dequeuing, TypeOK
    <3>2. reg' \in [Threads -> Calls]
      BY <1>0, <2>11, RegTypes DEF CatchupHead
    <3> QED
      BY <3>1, <3>2
  <2>13. CASE CatchupCas(t) \/ CatchupTail(t)
    <3>1. CASE Forget(t, "deq_empty")
      BY <3>1, ForgetTypes DEF Dequeuing
    <3>2. CASE Go(t, "catch_head") /\ UNCHANGED reg
      BY <1>0, <3>2 DEF Go, Dequeuing, TypeOK
    <3>3. CASE Go(t, "catch_cas") /\ reg' = [reg EXCEPT ![t].tail = tail]
      <4>1. pc' \in [Threads -> Places]
        BY <3>3 DEF Go, Dequeuing, TypeOK
      <4>2. reg' \in [Threads -> Calls]
        BY <1>0, <3>3, RegTypes
      <4> QED
        BY <4>1, <4>2
    <3> QED
      BY <2>13, <3>1, <3>2, <3>3 DEF CatchupCas, CatchupTail
  <2> QED
    BY <1>1, <2>1, <2>2, <2>3, <2>4, <2>5, <2>6, <2>7, <2>8, <2>9, <2>10, <2>11,
       <2>12, <2>13
<1>5. PICK u \in Threads : Moves(u)
  BY StepMoves
<1>6. head' \in Nat /\ tail' \in Nat
  <2>1. head' \in {head, head + 1} /\ tail' \in {tail, tail + 1, reg[u].head}
    BY <1>5
       DEF Moves, Away, Inspects, Examines, Leaves, Issues, ClaimsTail, Stores, ClaimsHead,
           Takes, Spoils, CatchesUp, Shared
  <2>2. head \in Nat /\ tail \in Nat /\ reg[u].head \in Nat
    BY DEF TypeOK
  <2> QED
    BY <2>1, <2>2
<1>7. cursor' \in [Threads -> Nat]
  <2>1. CASE EnqueueRefresh(t) \/ EnqueueNext(t)
    BY <2>1 DEF EnqueueRefresh, EnqueueNext, TypeOK
  <2>2. CASE UNCHANGED cursor
    BY <2>2 DEF TypeOK
  <2> QED
    BY <1>1, <2>1, <2>2
       DEF Enqueue, EnqueueClaim, EnqueueLoad, EnqueueSafe, EnqueueCas,
           EnqueueReset, Dequeue, DequeueClaim, DequeueLoad, DequeueTake,
           DequeueCas, DequeueTail, DequeueNone, DequeueEmpty, DequeueRetry, CatchupCas,
           CatchupHead, CatchupTail
<1>8. array' \in [Slots -> Cells]
  <2>1. CASE EnqueueCas(t)
    <3>1. Cell(Cycle(reg[t].idx), TRUE, FALSE, reg[t].ptr) \in Cells
      BY IndexedCell, CellOfIndexHolds DEF CellOfIndex, Cell, Cells, TypeOK
    <3> QED
      BY <2>1, <3>1 DEF EnqueueCas, TypeOK
  <2>2. CASE DequeueTake(t)
    <3> DEFINE a == [array EXCEPT ![Map(reg[t].idx)].busy = FALSE]
    <3>1. a \in [Slots -> Cells]
      BY IndexedCell, TakenTypes DEF TypeOK
    <3>2. array' = [a EXCEPT ![Map(reg[t].idx)].ptr = None]
      BY <2>2 DEF DequeueTake
    <3> HIDE DEF a
    <3> QED
      BY <3>1, <3>2, IndexedCell, TakenTypes
  <2>3. CASE DequeueCas(t)
    <3>1. Cycle(reg[t].idx) \in Nat
      BY IndexedCell, CellOfIndexHolds DEF CellOfIndex
    <3>2. \A c \in Cells : Spoiled(c, reg[t].idx) \in Cells
      BY <3>1 DEF Spoiled, Cells
    <3>3. CellOf(t) \in Cells /\ Map(reg[t].idx) \in Slots
      BY IndexedCell
    <3>4. array' = array \/ array' = [array EXCEPT ![Map(reg[t].idx)] =
                                            Spoiled(CellOf(t), reg[t].idx)]
      BY <2>3 DEF DequeueCas, CellOf
    <3>5. Spoiled(CellOf(t), reg[t].idx) \in Cells
      BY <3>2, <3>3
    <3> QED
      BY <3>3, <3>4, <3>5 DEF TypeOK
  <2>4. CASE UNCHANGED array
    BY <2>4 DEF TypeOK
  <2> QED
    BY <1>1, <2>1, <2>2, <2>3, <2>4
       DEF Enqueue, EnqueueRefresh, EnqueueClaim, EnqueueLoad, EnqueueSafe,
           EnqueueReset, EnqueueNext, Dequeue, DequeueClaim, DequeueLoad,
           DequeueTail, DequeueNone, DequeueEmpty, DequeueRetry, CatchupCas,
           CatchupHead, CatchupTail
<1>9. added' \subseteq Values /\ got' \subseteq Values
  <2>1. CASE EnqueueReset(t)
    <3>1. reg[t].ptr \in 1..issued
      BY <2>1 DEF EnqueueReset, LocalInv, LocalOK, Enqueuing
    <3>2. reg[t].ptr \in Values
      BY <3>1, Sizes DEF Values, TypeOK
    <3> QED
      BY <2>1, <3>2 DEF EnqueueReset, TypeOK
  <2>2. CASE DequeueTake(t)
    <3>1. CellOf(t).ptr \in Values
      BY <2>2, IndexedCell DEF DequeueTake, CellInv, TakeOK, BusyOK, CellOf, Held, Stored
    <3> QED
      BY <2>2, <3>1 DEF DequeueTake, TypeOK
  <2>3. CASE UNCHANGED <<added, got>>
    BY <2>3 DEF TypeOK
  <2> QED
    BY <1>1, <2>1, <2>2, <2>3
       DEF Enqueue, EnqueueRefresh, EnqueueClaim, EnqueueLoad, EnqueueSafe, EnqueueCas,
           EnqueueNext, Dequeue, DequeueClaim, DequeueLoad,
           DequeueCas, DequeueTail, DequeueNone, DequeueEmpty, DequeueRetry, CatchupCas,
           CatchupHead, CatchupTail
<1>10. before' \in [Values -> SUBSET Values] /\ index' \in [Values -> Nat]
  <2>1. CASE Enqueue(t)
    BY <2>1 DEF Enqueue, TypeOK
  <2>2. CASE EnqueueCas(t)
    BY <2>2 DEF EnqueueCas, TypeOK
  <2>3. CASE UNCHANGED <<before, index>>
    BY <2>3 DEF TypeOK
  <2> QED
    BY <1>1, <2>1, <2>2, <2>3
       DEF EnqueueRefresh, EnqueueClaim, EnqueueLoad, EnqueueSafe, EnqueueReset,
           EnqueueNext, Dequeue, DequeueClaim, DequeueLoad, DequeueTake,
           DequeueCas, DequeueTail, DequeueNone, DequeueEmpty, DequeueRetry, CatchupCas,
           CatchupHead, CatchupTail
<1>11. there' \in [Threads -> SUBSET Values]
  <2>1. CASE there' \in {[there EXCEPT ![t] = added \ got], [there EXCEPT ![t] = {}], there}
    BY <2>1 DEF TypeOK
  <2> QED
    BY <1>1, <2>1
       DEF Enqueue, EnqueueRefresh, EnqueueClaim, EnqueueLoad, EnqueueSafe, EnqueueCas,
           EnqueueReset, EnqueueNext, Dequeue, DequeueClaim, DequeueLoad, DequeueTake,
           DequeueCas, DequeueTail, DequeueNone, DequeueEmpty, DequeueRetry, CatchupCas,
           CatchupHead, CatchupTail
<1> QED
  BY <1>2, <1>3, <1>4, <1>6, <1>7, <1>8, <1>9, <1>10, <1>11 DEF TypeOK, Calls

-----------------------------------------------------------------------------
(* The parts of the invariant, one by one *)

(* The types, variable by variable. *)
LEMMA Typing ==
  ASSUME TypeOK
  PROVE  /\ head \in Nat /\ tail \in Nat /\ issued \in Nat /\ n \in Nat \ {0}
         /\ \A t \in Threads : /\ reg[t].idx \in Nat /\ reg[t].tail \in Nat
                               /\ reg[t].head \in Nat
         /\ \A v \in Values : index[v] \in Nat /\ v \in Nat \ {0}
         /\ \A v \in 1..issued : v \in Values
         /\ added \subseteq Values /\ got \subseteq Values
BY Sizes DEF TypeOK, Indexes, Values

(* The enqueues on their way have values of their own. *)
LEMMA Pointers ==
  ASSUME TypeOK, LocalInv, NEW t \in Threads, pc[t] \in Enqueuing
  PROVE  reg[t].ptr \in 1..issued /\ reg[t].ptr \in Values
BY Typing DEF LocalInv, LocalOK

(* Counters grow, and only a store gives a value its index. *)
LEMMA Growth ==
  ASSUME TypeOK, LocalInv, ClaimInv, NEW t \in Threads, Moves(t)
  PROVE  /\ issued <= issued' /\ tail <= tail' /\ head <= head'
         /\ issued' \in Nat /\ tail' \in Nat /\ head' \in Nat
         /\ \A v \in Values : index'[v] = index[v] \/ (Stores(t) /\ v = reg[t].ptr)
         /\ ~ Stores(t) => index' = index
         /\ Others(t)
<1>1. CASE CatchesUp(t)
  <2>1. tail <= tail'
    BY <1>1 DEF CatchesUp, LocalInv, LocalOK
  <2> QED
    BY <1>1, <2>1, Typing DEF CatchesUp
<1>2. CASE Stores(t)
  BY <1>2, Typing DEF Stores
<1>3. CASE Issues(t) \/ ClaimsTail(t) \/ ClaimsHead(t)
  BY <1>3, Typing DEF Issues, ClaimsTail, ClaimsHead
<1>4. CASE \/ Away(t) \/ Inspects(t) \/ Examines(t) \/ Leaves(t) \/ Takes(t) \/ Spoils(t)
  <2>1. UNCHANGED <<head, tail, issued, index>> /\ Others(t)
    BY <1>4 DEF Away, Inspects, Examines, Leaves, Takes, Spoils, Shared
  <2> QED
    BY <2>1, Typing
<1> QED
  BY <1>1, <1>2, <1>3, <1>4 DEF Moves

(* What a call knows of its index, its value and its cell. *)
LEMMA LocalKeeps ==
  ASSUME TypeOK, LocalInv, ClaimInv, CellInv, NEW t \in Threads, Moves(t)
  PROVE  LocalInv'
<1>1. ASSUME NEW u \in Threads \ {t}
      PROVE  LocalOK(u)'
  <2>1. pc'[u] = pc[u] /\ reg'[u] = reg[u] /\ LocalOK(u)
    BY Growth DEF Others, LocalInv
  <2>2. pc[u] \in Enqueuing =>
           /\ reg[u].ptr \in 1..issued' /\ index'[reg[u].ptr] = index[reg[u].ptr]
    <3> SUFFICES ASSUME pc[u] \in Enqueuing
                 PROVE  /\ reg[u].ptr \in 1..issued'
                        /\ index'[reg[u].ptr] = index[reg[u].ptr]
      OBVIOUS
    <3>1. reg[u].ptr \in 1..issued /\ reg[u].ptr \in Values
      BY Pointers
    <3>2. Stores(t) => reg[t].ptr # reg[u].ptr
      BY DEF Stores, ClaimInv, Enqueuing
    <3> QED
      BY <3>1, <3>2, Growth, Typing
  <2>3. /\ Storing(u) => n <= reg[u].idx /\ reg[u].idx < tail'
        /\ Taking(u) => n <= reg[u].idx /\ reg[u].idx < head'
    BY <2>1, Growth, Typing DEF LocalOK
  <2> QED
    BY <2>1, <2>2, <2>3 DEF LocalOK, Storing, Taking
<1>2. LocalOK(t)'
  <2>1. LocalOK(t)
    BY DEF LocalInv
  <2>2. CASE Away(t)
    BY <2>1, <2>2 DEF Away, LocalOK, Enqueuing, Storing, Taking
  <2>3. CASE Inspects(t)
    BY <2>1, <2>3 DEF Inspects, Shared, LocalOK, Enqueuing, Storing, Taking
  <2>4. CASE Examines(t)
    BY <2>1, <2>4 DEF Examines, Shared, LocalOK, Enqueuing, Storing, Taking
  <2>5. CASE Leaves(t)
    BY <2>1, <2>5 DEF Leaves, LocalOK, Enqueuing, Storing, Taking
  <2>6. CASE Issues(t)
    <3>1. index[issued + 1] = 0
      BY <2>6, Typing DEF Issues, ClaimInv
    <3> QED
      BY <2>6, <3>1, Typing DEF Issues, LocalOK, Enqueuing, Storing, Taking
  <2>7. CASE ClaimsTail(t)
    BY <2>1, <2>7, Typing DEF ClaimsTail, ClaimInv, LocalOK, Enqueuing, Storing, Taking
  <2>8. CASE Stores(t)
    <3>1. reg[t].ptr \in 1..issued /\ reg[t].ptr \in Values
      BY <2>8, Pointers DEF Stores, Enqueuing
    <3>2. index'[reg[t].ptr] = reg[t].idx /\ reg[t].idx # 0
      BY <2>1, <2>8, <3>1, Typing DEF Stores, LocalOK, Storing
    <3> QED
      BY <2>8, <3>1, <3>2 DEF Stores, LocalOK, Enqueuing, Storing, Taking
  <2>9. CASE ClaimsHead(t)
    BY <2>9, Typing DEF ClaimsHead, ClaimInv, LocalOK, Enqueuing, Storing, Taking
  <2>10. CASE Takes(t) \/ Spoils(t) \/ CatchesUp(t)
    BY <2>10 DEF Takes, Spoils, CatchesUp, LocalOK, Enqueuing, Storing, Taking
  <2> QED
    BY <2>2, <2>3, <2>4, <2>5, <2>6, <2>7, <2>8, <2>9, <2>10 DEF Moves
<1> QED
  BY <1>1, <1>2 DEF LocalInv

(* The clauses of ClaimInv about the calls. *)
ClaimedBy(t, u) ==
    /\ pc[t] \in Enqueuing /\ pc[u] \in Enqueuing => reg[t].ptr # reg[u].ptr
    /\ Storing(t) /\ Storing(u) => reg[t].idx # reg[u].idx
    /\ Taking(t) /\ Taking(u) => reg[t].idx # reg[u].idx

LEMMA PairsKeep ==
  ASSUME TypeOK, LocalInv, ClaimInv, NEW t \in Threads, Moves(t)
  PROVE  \A u, w \in Threads : u # w => ClaimedBy(u, w)'
<1>1. \A u, w \in Threads : u # w => ClaimedBy(u, w)
  BY DEF ClaimInv, ClaimedBy
<1>2. \A u \in Threads \ {t} : pc'[u] = pc[u] /\ reg'[u] = reg[u]
  BY Growth DEF Others
<1>3. ASSUME NEW u \in Threads \ {t}
      PROVE  ClaimedBy(u, t)'
  <2>1. ClaimedBy(u, t) /\ pc'[u] = pc[u] /\ reg'[u] = reg[u]
    BY <1>1, <1>2
  <2>2. CASE Issues(t)
    <3>1. pc[u] \in Enqueuing => reg[u].ptr \in 1..issued
      BY Pointers
    <3> QED
      BY <2>1, <2>2, <3>1, Typing DEF Issues, ClaimedBy, Storing, Taking
  <2>3. CASE ClaimsTail(t)
    <3>1. Storing(u) => reg[u].idx < tail
      BY DEF LocalInv, LocalOK
    <3> QED
      BY <2>1, <2>3, <3>1, Typing DEF ClaimsTail, ClaimedBy, Storing, Taking, Enqueuing
  <2>4. CASE ClaimsHead(t)
    <3>1. Taking(u) => reg[u].idx < head
      BY DEF LocalInv, LocalOK
    <3> QED
      BY <2>1, <2>4, <3>1, Typing DEF ClaimsHead, ClaimedBy, Storing, Taking, Enqueuing
  <2>5. CASE Away(t)
    BY <2>1, <2>5 DEF Away, ClaimedBy
  <2>6. CASE Inspects(t) \/ Stores(t)
    BY <2>1, <2>6 DEF Inspects, Stores, ClaimedBy, Storing, Taking, Enqueuing
  <2>7. CASE Examines(t)
    BY <2>1, <2>7 DEF Examines, ClaimedBy, Storing, Taking, Enqueuing
  <2>8. CASE Leaves(t) \/ Takes(t) \/ Spoils(t) \/ CatchesUp(t)
    BY <2>1, <2>8
       DEF Leaves, Takes, Spoils, CatchesUp, ClaimedBy, Storing, Taking, Enqueuing
  <2> QED
    BY <2>2, <2>3, <2>4, <2>5, <2>6, <2>7, <2>8 DEF Moves
<1>4. ASSUME NEW u \in Threads \ {t}, NEW w \in Threads \ {t}, u # w
      PROVE  ClaimedBy(u, w)'
  BY <1>1, <1>2, <1>4 DEF ClaimedBy, Storing, Taking
<1>5. \A u \in Threads \ {t} : ClaimedBy(t, u)'
  BY <1>3 DEF ClaimedBy
<1> QED
  BY <1>3, <1>4, <1>5

(* Claims stay apart: the counters only grow. *)
LEMMA ClaimKeeps ==
  ASSUME TypeOK, LocalInv, ClaimInv, CellInv, NEW t \in Threads, Moves(t)
  PROVE  ClaimInv'
<1>1. \A u, w \in Threads : u # w => ClaimedBy(u, w)'
  BY PairsKeep
<1>2. n <= head' /\ n <= tail'
  BY Growth, Typing DEF ClaimInv
<1>3. \A v \in Values :
        index'[v] # 0 => v <= issued' /\ n <= index'[v] /\ index'[v] < tail'
  <2>1. CASE Stores(t)
    <3>1. reg[t].ptr \in 1..issued /\ n <= reg[t].idx /\ reg[t].idx < tail
      BY <2>1, Pointers DEF Stores, Enqueuing, LocalInv, LocalOK, Storing
    <3> QED
      BY <2>1, <3>1, Typing DEF Stores, ClaimInv
  <2>2. CASE ~ Stores(t)
    BY <2>2, Growth, Typing DEF ClaimInv
  <2> QED
    BY <2>1, <2>2
<1>4. \A v, w \in Values : v # w /\ index'[v] = index'[w] => index'[v] = 0
  <2>1. CASE Stores(t)
    <3>1. \A v \in Values : reg[t].idx # index[v]
      BY <2>1 DEF Stores, ClaimInv, Storing
    <3> QED
      BY <2>1, <3>1 DEF Stores, ClaimInv
  <2>2. CASE ~ Stores(t)
    BY <2>2, Growth DEF ClaimInv
  <2> QED
    BY <2>1, <2>2
<1>5. ASSUME NEW u \in Threads, NEW v \in Values, Storing(u)'
      PROVE  reg'[u].idx # index'[v]
  <2>1. CASE Stores(t)
    <3>1. u # t /\ Storing(u) /\ reg'[u] = reg[u]
      BY <1>5, <2>1 DEF Stores, Others, Storing
    <3>2. reg[t].idx # reg[u].idx
      BY <2>1, <3>1 DEF ClaimInv, Stores, Storing
    <3> QED
      BY <2>1, <3>1, <3>2 DEF Stores, ClaimInv
  <2>2. CASE ClaimsTail(t) /\ u = t
    <3>1. index'[v] = index[v] /\ reg'[u].idx = tail /\ (index[v] # 0 => index[v] < tail)
      BY <2>2 DEF ClaimsTail, ClaimInv
    <3> QED
      BY <3>1, Typing, Size DEF ClaimInv
  <2>3. CASE ~ Stores(t) /\ ~ (ClaimsTail(t) /\ u = t)
    <3>1. Storing(u) /\ reg'[u].idx = reg[u].idx
      BY <1>5, <2>3
         DEF Moves, Away, Inspects, Examines, Leaves, Issues, ClaimsTail, ClaimsHead,
             Takes, Spoils, CatchesUp, Others, Storing
    <3> QED
      BY <2>3, <3>1, Growth DEF ClaimInv
  <2> QED
    BY <2>1, <2>2, <2>3
<1>6. \A v \in got' \cup added' : index'[v] # 0
  <2>1. \A v \in got \cup added : index'[v] # 0 /\ v \in Values
    <3>1. CASE Stores(t)
      <4>1. n <= reg[t].idx
        BY <3>1 DEF LocalInv, LocalOK, Stores, Storing
      <4> QED
        BY <3>1, <4>1, Typing DEF Stores, ClaimInv
    <3> QED
      BY <3>1, Growth, Typing DEF ClaimInv
  <2>2. CASE Takes(t)
    <3>1. CellOf(t).ptr \in Held
      BY <2>2, IndexedCell DEF Takes, CellInv, TakeOK, BusyOK, CellOf
    <3> QED
      BY <2>1, <2>2, <3>1 DEF Takes, Held, Stored
  <2>3. CASE Away(t)
    <3>1. pc[t] = "enq_reset" => index[reg[t].ptr] # 0
      BY DEF LocalInv, LocalOK, Enqueuing
    <3> QED
      BY <2>1, <2>3, <3>1 DEF Away
  <2>4. CASE ~ Takes(t) /\ ~ Away(t)
    <3>1. got' = got /\ added' = added
      BY <2>4
         DEF Moves, Inspects, Examines, Leaves, Issues, ClaimsTail, Stores, ClaimsHead,
             Spoils, CatchesUp, Shared
    <3> QED
      BY <2>1, <3>1
  <2> QED
    BY <2>2, <2>3, <2>4
<1> QED
  BY <1>1, <1>2, <1>3, <1>4, <1>5, <1>6 DEF ClaimInv, ClaimedBy

(* Cells, indexes and deliveries change in three moves only. *)
LEMMA CellMoves ==
  ASSUME NEW t \in Threads, Moves(t), ~ Stores(t), ~ Takes(t), ~ Spoils(t)
  PROVE  array' = array /\ index' = index /\ got' = got /\ Held' = Held
<1>1. array' = array /\ index' = index /\ got' = got
  BY DEF Moves, Away, Inspects, Examines, Leaves, Issues, ClaimsTail, ClaimsHead,
         CatchesUp, Shared
<1> QED
  BY <1>1 DEF Held, Stored

(* What a dequeue takes is the value of its index. *)
LEMMA TakesOwn ==
  ASSUME TypeOK, CellInv, NEW t \in Threads, pc[t] = "deq_take"
  PROVE  /\ CellOf(t).busy /\ CellOf(t).ptr \in Held /\ CellOf(t).ptr \in Values
         /\ index[CellOf(t).ptr] = reg[t].idx
<1>1. CellOf(t).busy /\ CellOf(t).cycle = Cycle(reg[t].idx)
  BY DEF CellInv, TakeOK
<1> DEFINE v == CellOf(t).ptr
<1>2. v \in Held /\ Map(index[v]) = Map(reg[t].idx) /\ Cycle(index[v]) = CellOf(t).cycle
  BY <1>1, IndexedCell DEF CellInv, BusyOK, CellOf
<1>3. v \in Values /\ index[v] \in Nat /\ reg[t].idx \in Nat
  BY <1>2, Typing DEF Held, Stored
<1>4. index[v] = reg[t].idx
  BY <1>1, <1>2, <1>3, OrderedHolds DEF Ordered
<1> QED
  BY <1>1, <1>2, <1>3, <1>4

(* A store finds its cell empty, and no other cell has its value. *)
LEMMA StoreKeepsCells ==
  ASSUME TypeOK, LocalInv, ClaimInv, CellInv, NEW t \in Threads, Stores(t)
  PROVE  CellInv'
<1> DEFINE i == reg[t].idx
           p == reg[t].ptr
           s == Map(i)
<1>1. /\ p \in Values /\ index[p] = 0 /\ p \notin got /\ i \in Nat /\ i # 0 /\ s \in Slots
      /\ Cycle(i) \in Nat
  <2>1. p \in Values /\ index[p] = 0 /\ n <= i
    BY Pointers DEF Stores, Enqueuing, LocalInv, LocalOK, Storing
  <2> QED
    BY <2>1, Typing, IndexedCell, CellOfIndexHolds DEF ClaimInv, CellOfIndex
<1>2. /\ array'[s].busy /\ array'[s].ptr = p /\ array'[s].cycle = Cycle(i)
      /\ \A x \in Slots : x # s => array'[x] = array[x]
  <2>1. array'[s] = Cell(Cycle(i), TRUE, FALSE, p)
    BY DEF Stores
  <2>2. array'[s].busy /\ array'[s].ptr = p /\ array'[s].cycle = Cycle(i)
    BY <2>1 DEF Cell
  <2> QED
    BY <2>2 DEF Stores, Elsewhere
<1>3. ~ array[s].busy
  BY DEF LocalInv, LocalOK, Stores, CellOf
<1>4. index'[p] = i /\ \A v \in Values : v # p => index'[v] = index[v]
  BY <1>1 DEF Stores
<1>5. p \in Held' /\ \A v : v # p => (v \in Held' <=> v \in Held)
  <2>1. got' = got
    BY DEF Stores
  <2> QED
    BY <1>1, <1>4, <2>1 DEF Held, Stored
<1>6. p \notin Held /\ Held \subseteq Values
  BY <1>1 DEF Held, Stored
<1> HIDE DEF i, p, s
<1>7. ASSUME NEW x \in Slots
      PROVE  BusyOK(x)'
  <2>1. CASE x = s
    BY <1>1, <1>2, <1>4, <1>5, <2>1 DEF BusyOK, s
  <2>2. CASE x # s
    <3>1. BusyOK(x) /\ array'[x] = array[x]
      BY <1>2, <2>2 DEF CellInv
    <3> QED
      BY <3>1, <1>4, <1>5, <1>6 DEF BusyOK
  <2> QED
    BY <2>1, <2>2
<1>8. ASSUME NEW v \in Held'
      PROVE  HeldOK(v)'
  <2>1. CASE v = p
    BY <1>2, <1>4, <2>1 DEF HeldOK, s
  <2>2. CASE v # p
    <3>1. v \in Held /\ HeldOK(v) /\ index'[v] = index[v]
      BY <1>4, <1>5, <1>6, <1>8, <2>2 DEF CellInv
    <3>2. Map(index[v]) # s
      BY <1>3, <3>1 DEF HeldOK
    <3>3. Map(index[v]) \in Slots
      BY <1>6, <3>1, Typing, CellOfIndexHolds DEF CellOfIndex
    <3> QED
      BY <1>2, <3>1, <3>2, <3>3 DEF HeldOK
  <2> QED
    BY <2>1, <2>2
<1>9. ASSUME NEW u \in Threads
      PROVE  TakeOK(u)'
  <2> SUFFICES ASSUME pc'[u] = "deq_take" PROVE TakeOK(u)'
    BY DEF TakeOK
  <2>1. u # t /\ pc[u] = "deq_take" /\ reg'[u] = reg[u]
    BY DEF Stores, Others
  <2>2. array[Map(reg[u].idx)].busy /\ array[Map(reg[u].idx)].cycle = Cycle(reg[u].idx)
    BY <2>1 DEF CellInv, TakeOK, CellOf
  <2>3. array'[Map(reg[u].idx)] = array[Map(reg[u].idx)]
    BY <1>2, <1>3, <2>2, IndexedCell
  <2> QED
    BY <2>1, <2>2, <2>3 DEF TakeOK, CellOf
<1> QED
  BY <1>7, <1>8, <1>9 DEF CellInv

(* A taken value was in no other cell, and no other dequeue wants the      *)
(* cell.                                                                   *)
LEMMA TakeKeepsCells ==
  ASSUME TypeOK, LocalInv, ClaimInv, CellInv, NEW t \in Threads, Takes(t)
  PROVE  CellInv'
<1> DEFINE i == reg[t].idx
           p == CellOf(t).ptr
           s == Map(i)
<1>1. /\ p \in Values /\ p \in Held /\ index[p] = i /\ i \in Nat /\ s \in Slots
      /\ array[s].busy /\ array[s].ptr = p /\ array[s].cycle = Cycle(i)
  BY TakesOwn, IndexedCell DEF Takes, CellOf, CellInv, TakeOK
<1>2. ~ array'[s].busy /\ \A x \in Slots : x # s => array'[x] = array[x]
  <2>1. array'[s] = Cell(CellOf(t).cycle, FALSE, CellOf(t).unsafe, None)
    BY DEF Takes
  <2>2. ~ array'[s].busy
    BY <2>1 DEF Cell
  <2> QED
    BY <2>2 DEF Takes, Elsewhere
<1>3. index' = index /\ \A v : v \in Held' <=> v \in Held /\ v # p
  BY DEF Takes, Held, Stored
<1>4. Held \subseteq Values
  BY DEF Held, Stored
<1>5. ASSUME NEW u \in Threads, u # t, pc[u] = "deq_take"
      PROVE  Map(reg[u].idx) # s
  <2>1. index[CellOf(u).ptr] = reg[u].idx /\ CellOf(u) = array[Map(reg[u].idx)]
    BY <1>5, TakesOwn DEF CellOf
  <2>2. reg[u].idx # i
    BY <1>5 DEF ClaimInv, Taking, Takes
  <2> QED
    BY <1>1, <2>1, <2>2
<1> HIDE DEF i, p, s
<1>7. ASSUME NEW x \in Slots
      PROVE  BusyOK(x)'
  <2>1. CASE x = s
    BY <1>2, <2>1 DEF BusyOK
  <2>2. CASE x # s
    <3>1. BusyOK(x) /\ array'[x] = array[x]
      BY <1>2, <2>2 DEF CellInv
    <3>2. array[x].busy => array[x].ptr # p
      BY <1>1, <2>2, <3>1 DEF BusyOK, s
    <3> QED
      BY <3>1, <3>2, <1>3 DEF BusyOK
  <2> QED
    BY <2>1, <2>2
<1>8. ASSUME NEW v \in Held'
      PROVE  HeldOK(v)'
  <2>1. v \in Held /\ v # p /\ HeldOK(v)
    BY <1>3, <1>8 DEF CellInv
  <2>2. Map(index[v]) # s
    BY <1>1, <2>1 DEF HeldOK
  <2>3. Map(index[v]) \in Slots
    BY <1>4, <2>1, Typing, CellOfIndexHolds DEF CellOfIndex
  <2> QED
    BY <1>2, <1>3, <2>1, <2>2, <2>3 DEF HeldOK
<1>9. ASSUME NEW u \in Threads
      PROVE  TakeOK(u)'
  <2> SUFFICES ASSUME pc'[u] = "deq_take" PROVE TakeOK(u)'
    BY DEF TakeOK
  <2>1. u # t /\ pc[u] = "deq_take" /\ reg'[u] = reg[u]
    BY DEF Takes, Others
  <2>2. array[Map(reg[u].idx)].busy /\ array[Map(reg[u].idx)].cycle = Cycle(reg[u].idx)
    BY <2>1 DEF CellInv, TakeOK, CellOf
  <2>3. array'[Map(reg[u].idx)] = array[Map(reg[u].idx)]
    BY <1>2, <1>5, <2>1, IndexedCell
  <2> QED
    BY <2>1, <2>2, <2>3 DEF TakeOK, CellOf
<1> QED
  BY <1>7, <1>8, <1>9 DEF CellInv

(* Spoiling a cell touches neither its value nor the cycle of a busy one. *)
LEMMA SpoilKeepsCells ==
  ASSUME TypeOK, LocalInv, ClaimInv, CellInv, NEW t \in Threads, Spoils(t)
  PROVE  CellInv'
<1> DEFINE s == Map(reg[t].idx)
<1>1. s \in Slots /\ CellOf(t) = array[s] /\ array[s].busy \in BOOLEAN
  BY IndexedCell, CellIsRecord DEF CellOf
<1>2. index' = index /\ Held' = Held
  BY DEF Spoils, Held, Stored
<1>3. \A x \in Slots : /\ array'[x].busy <=> array[x].busy
                       /\ array'[x].ptr = array[x].ptr
                       /\ array[x].busy => array'[x].cycle = array[x].cycle
  <2>1. \A x \in Slots : x # s => array'[x] = array[x]
    BY DEF Spoils, Elsewhere
  <2>2. CASE array[s].busy
    <3>1. array'[s] = Cell(array[s].cycle, TRUE, TRUE, array[s].ptr)
      BY <1>1, <2>2 DEF Spoils
    <3>2. /\ array'[s].busy /\ array'[s].ptr = array[s].ptr
          /\ array'[s].cycle = array[s].cycle
      BY <3>1 DEF Cell
    <3> QED
      BY <2>1, <2>2, <3>2
  <2>3. CASE ~ array[s].busy
    <3>1. array'[s] = Cell(Cycle(reg[t].idx), FALSE, array[s].unsafe, array[s].ptr)
      BY <1>1, <2>3 DEF Spoils
    <3>2. ~ array'[s].busy /\ array'[s].ptr = array[s].ptr
      BY <3>1 DEF Cell
    <3> QED
      BY <2>1, <2>3, <3>2
  <2> QED
    BY <2>2, <2>3
<1>4. ASSUME NEW x \in Slots
      PROVE  BusyOK(x)'
  BY <1>2, <1>3 DEF BusyOK, CellInv
<1>5. ASSUME NEW v \in Held'
      PROVE  HeldOK(v)'
  <2>1. v \in Held /\ HeldOK(v) /\ Map(index[v]) \in Slots
    BY <1>2, <1>5, Typing, CellOfIndexHolds DEF CellInv, CellOfIndex, Held, Stored
  <2> QED
    BY <1>2, <1>3, <2>1 DEF HeldOK
<1>6. ASSUME NEW u \in Threads
      PROVE  TakeOK(u)'
  <2> SUFFICES ASSUME pc'[u] = "deq_take" PROVE TakeOK(u)'
    BY DEF TakeOK
  <2>1. u # t /\ pc[u] = "deq_take" /\ reg'[u] = reg[u]
    BY DEF Spoils, Others
  <2>2. array[Map(reg[u].idx)].busy /\ array[Map(reg[u].idx)].cycle = Cycle(reg[u].idx)
    BY <2>1 DEF CellInv, TakeOK, CellOf
  <2>3. Map(reg[u].idx) \in Slots
    BY IndexedCell
  <2> QED
    BY <1>3, <2>1, <2>2, <2>3 DEF TakeOK, CellOf
<1> QED
  BY <1>4, <1>5, <1>6 DEF CellInv

(* An examining dequeue finds the cell of its own cycle busy: it would     *)
(* have been emptied by the dequeue of its index, which it is itself.      *)
LEMMA CellKeeps ==
  ASSUME TypeOK, LocalInv, ClaimInv, CellInv, EmptyInv, NEW t \in Threads, Moves(t)
  PROVE  CellInv'
<1>1. CASE ~ Stores(t) /\ ~ Takes(t) /\ ~ Spoils(t)
  <2>1. array' = array /\ index' = index /\ Held' = Held
    BY <1>1, CellMoves
  <2>2. (\A s \in Slots : BusyOK(s)') /\ (\A v \in Held' : HeldOK(v)')
    BY <2>1 DEF CellInv, BusyOK, HeldOK
  <2>3. ASSUME NEW u \in Threads
        PROVE  TakeOK(u)'
    <3> SUFFICES ASSUME pc'[u] = "deq_take" PROVE TakeOK(u)'
      BY DEF TakeOK
    <3>1. CASE pc[u] = "deq_take" /\ reg'[u].idx = reg[u].idx
      BY <2>1, <3>1 DEF CellInv, TakeOK, CellOf
    <3>2. CASE u = t /\ Examines(t)
      <4>1. CellOf(t).cycle = Cycle(reg[t].idx) /\ reg'[t].idx = reg[t].idx
        BY <3>2 DEF Examines
      <4>2. ~ Settled(reg[t].idx) /\ n <= reg[t].idx /\ reg[t].idx \in Nat
        BY <3>2, Typing DEF Settled, Pending, Examines, LocalInv, LocalOK
      <4>3. CellOf(t).busy
        BY <4>1, <4>2 DEF EmptyInv, Indexes, CellOf
      <4> QED
        BY <2>1, <3>2, <4>1, <4>3 DEF TakeOK, CellOf
    <3>3. u = t \/ (pc'[u] = pc[u] /\ reg'[u] = reg[u])
      BY Growth DEF Others
    <3>4. u = t => Examines(t)
      BY <1>1
         DEF Moves, Away, Inspects, Leaves, Issues, ClaimsTail, ClaimsHead, CatchesUp, Taking
    <3> QED
      BY <3>1, <3>2, <3>3, <3>4
  <2> QED
    BY <2>2, <2>3 DEF CellInv
<1> QED
  BY <1>1, StoreKeepsCells, TakeKeepsCells, SpoilKeepsCells

(* The cell which a call changes, afterwards. *)
LEMMA StoredCell ==
  ASSUME TypeOK, LocalInv, NEW t \in Threads, Stores(t)
  PROVE  /\ array'[Map(reg[t].idx)].busy
         /\ array'[Map(reg[t].idx)].cycle = Cycle(reg[t].idx)
         /\ ~ CellOf(t).busy /\ CellOf(t).cycle < Cycle(reg[t].idx)
         /\ reg[t].idx \in Nat /\ n <= reg[t].idx
<1>1. array'[Map(reg[t].idx)] = Cell(Cycle(reg[t].idx), TRUE, FALSE, reg[t].ptr)
  BY DEF Stores
<1>2. array'[Map(reg[t].idx)].busy /\ array'[Map(reg[t].idx)].cycle = Cycle(reg[t].idx)
  BY <1>1 DEF Cell
<1>3. ~ CellOf(t).busy /\ CellOf(t).cycle < Cycle(reg[t].idx) /\ n <= reg[t].idx
  BY DEF LocalInv, LocalOK, Stores, Storing
<1> QED
  BY <1>2, <1>3, Typing

LEMMA TakenCell ==
  ASSUME TypeOK, CellInv, NEW t \in Threads, Takes(t)
  PROVE  /\ ~ array'[Map(reg[t].idx)].busy
         /\ array'[Map(reg[t].idx)].cycle = CellOf(t).cycle
         /\ array'[Map(reg[t].idx)].unsafe <=> CellOf(t).unsafe
         /\ CellOf(t).busy /\ CellOf(t).cycle = Cycle(reg[t].idx)
<1>1. array'[Map(reg[t].idx)] = Cell(CellOf(t).cycle, FALSE, CellOf(t).unsafe, None)
  BY DEF Takes
<1>2. /\ ~ array'[Map(reg[t].idx)].busy
      /\ array'[Map(reg[t].idx)].cycle = CellOf(t).cycle
  BY <1>1 DEF Cell
<1>3. array'[Map(reg[t].idx)].unsafe = CellOf(t).unsafe
  BY <1>1 DEF Cell
<1>4. CellOf(t).busy /\ CellOf(t).cycle = Cycle(reg[t].idx)
  BY DEF CellInv, TakeOK, Takes
<1> QED
  BY <1>2, <1>3, <1>4

LEMMA SpoiledCell ==
  ASSUME TypeOK, NEW t \in Threads, Spoils(t)
  PROVE  /\ array'[Map(reg[t].idx)].busy <=> CellOf(t).busy
         /\ CellOf(t).unsafe => array'[Map(reg[t].idx)].unsafe
         /\ CellOf(t).busy => /\ array'[Map(reg[t].idx)].unsafe
                              /\ array'[Map(reg[t].idx)].cycle = CellOf(t).cycle
         /\ ~ CellOf(t).busy => array'[Map(reg[t].idx)].cycle = Cycle(reg[t].idx)
         /\ CellOf(t).cycle < Cycle(reg[t].idx)
<1>1. CASE CellOf(t).busy
  <2>1. array'[Map(reg[t].idx)] = Cell(CellOf(t).cycle, TRUE, TRUE, CellOf(t).ptr)
    BY <1>1 DEF Spoils
  <2>2. /\ array'[Map(reg[t].idx)].busy /\ array'[Map(reg[t].idx)].unsafe
        /\ array'[Map(reg[t].idx)].cycle = CellOf(t).cycle
    BY <2>1 DEF Cell
  <2> QED
    BY <1>1, <2>2 DEF Spoils
<1>2. CASE ~ CellOf(t).busy
  <2>1. array'[Map(reg[t].idx)]
           = Cell(Cycle(reg[t].idx), FALSE, CellOf(t).unsafe, CellOf(t).ptr)
    BY <1>2 DEF Spoils
  <2>2. /\ ~ array'[Map(reg[t].idx)].busy
        /\ array'[Map(reg[t].idx)].cycle = Cycle(reg[t].idx)
    BY <2>1 DEF Cell
  <2>3. array'[Map(reg[t].idx)].unsafe = CellOf(t).unsafe
    BY <2>1 DEF Cell
  <2> QED
    BY <1>2, <2>2, <2>3 DEF Spoils
<1> QED
  BY <1>1, <1>2

(* No value is left behind: neither by a dequeue which leaves the index of *)
(* one, nor by an enqueue which stores it too late.                        *)
LEMMA AheadKeeps ==
  ASSUME IndInv, NEW t \in Threads, Moves(t)
  PROVE  AheadInv'
<1> USE DEF IndInv
<1>1. /\ Held \subseteq Values
      /\ \A v \in Held : index[v] \in Nat /\ HeldOK(v) /\ ~ Settled(index[v])
  BY Typing DEF Held, Stored, CellInv, AheadInv
<1>2. \A v \in Held : Cycle(index[v]) = array[Map(index[v])].cycle
  BY <1>1, CellOfIndexHolds DEF HeldOK, CellOfIndex, CellInv, BusyOK
<1>3. CASE Same
  <2>1. CASE Stores(t)
    <3>1. ~ Settled(reg[t].idx)
      <4>1. CasOK(t) /\ CellOf(t) = reg[t].cell
        BY <2>1 DEF CasInv, Stores
      <4>2. CellOf(t).cycle \in Nat
        BY IndexedCell, CellIsRecord
      <4>3. reg[t].idx \in Nat
        BY Typing
      <4> QED
        BY <2>1, <4>1, <4>2, <4>3 DEF CasOK, Stores, Indexes
    <3>2. \A v \in Held' : v = reg[t].ptr \/ v \in Held
      BY <2>1 DEF Stores, Held, Stored
    <3>3. /\ reg[t].ptr \in Values /\ index'[reg[t].ptr] = reg[t].idx
          /\ \A v \in Values : v # reg[t].ptr => index'[v] = index[v]
      BY <2>1, Pointers DEF Stores, Enqueuing
    <3> QED
      BY <1>1, <1>3, <3>1, <3>2, <3>3, Typing DEF AheadInv, Same
  <2>2. CASE ~ Stores(t)
    <3>1. index' = index /\ Held' \subseteq Held
      <4>1. index' = index /\ got \subseteq got'
        BY <2>2, Growth
           DEF Moves, Away, Inspects, Examines, Leaves, Issues, ClaimsTail, ClaimsHead,
               Takes, Spoils, CatchesUp, Shared
      <4> QED
        BY <4>1 DEF Held, Stored
    <3> QED
      BY <1>1, <1>3, <3>1 DEF AheadInv, Same
  <2> QED
    BY <2>1, <2>2
<1>4. CASE Settles(t) /\ (Leaves(t) \/ Takes(t) \/ Spoils(t))
  <2>1. index' = index /\ Held' \subseteq Held
    BY <1>4 DEF Leaves, Takes, Spoils, Shared, Held, Stored
  <2>2. \A v \in Held' : index[v] # reg[t].idx
    <3>1. CASE Takes(t)
      <4>1. CellOf(t).ptr \in Values /\ CellOf(t).ptr \notin Held'
            /\ index[CellOf(t).ptr] = reg[t].idx /\ index[CellOf(t).ptr] # 0
        BY <3>1, TakesOwn DEF Takes, Held, Stored
      <4> QED
        BY <1>1, <2>1, <4>1 DEF ClaimInv
    <3>2. CASE Leaves(t) \/ Spoils(t)
      <4>1. CellOf(t).cycle # Cycle(reg[t].idx)
        <5>1. CellOf(t).cycle \in Nat /\ Cycle(reg[t].idx) \in Nat
          BY IndexedCell, CellIsRecord, CellOfIndexHolds DEF CellOfIndex
        <5>2. Leaves(t) => CellOf(t).cycle # Cycle(reg[t].idx)
          BY DEF Leaves
        <5>3. Spoils(t) => CellOf(t).cycle < Cycle(reg[t].idx)
          BY DEF Spoils
        <5> QED
          BY <3>2, <5>1, <5>2, <5>3
      <4> QED
        BY <1>2, <2>1, <4>1 DEF CellOf
    <3> QED
      BY <1>4, <3>1, <3>2
  <2> QED
    BY <1>1, <1>4, <2>1, <2>2 DEF AheadInv, Settles
<1> QED
  BY <1>3, <1>4, SettledMoves

(* Cycles of cells and indexes are numbers. *)
LEMMA CycleTypes ==
  ASSUME TypeOK
  PROVE  /\ \A i \in Nat : Map(i) \in Slots /\ Cycle(i) \in Nat
         /\ \A s \in Slots : array[s].cycle \in Nat
         /\ \A t \in Threads : reg[t].cell.cycle \in Nat
<1>1. \A t \in Threads : reg[t].cell \in Cells
  BY DEF TypeOK
<1>2. \A s \in Slots : array[s] \in Cells
  BY DEF TypeOK
<1> QED
  BY <1>1, <1>2, CellIsRecord, CellOfIndexHolds DEF CellOfIndex

(* A dequeue which settles makes its cell useless for its index; nothing   *)
(* makes it useful again.                                                  *)
LEMMA SpoilKeeps ==
  ASSUME IndInv, NEW t \in Threads, Moves(t)
  PROVE  SpoilInv'
<1> USE DEF IndInv, Indexes
<1> DEFINE s == Map(reg[t].idx)
<1>1. s \in Slots /\ CellOf(t) = array[s] /\ reg[t].idx \in Nat
  BY IndexedCell DEF CellOf
<1>2. ASSUME NEW i \in Nat, n <= i, Settled(i)', Settled(i)
      PROVE  array'[Map(i)].cycle >= Cycle(i) \/ array'[Map(i)].unsafe
  <2>1. array[Map(i)].cycle >= Cycle(i) \/ array[Map(i)].unsafe
    BY <1>2 DEF SpoilInv
  <2>2. CASE Map(i) = s
    <3>1. CASE Stores(t)
      <4>1. CasOK(t) /\ CellOf(t) = reg[t].cell
        BY <3>1 DEF CasInv, Stores
      <4>2. \A j \in Nat : reg[t].idx <= j /\ Map(j) = s => ~ Settled(j)
        BY <3>1, <4>1, <1>1, CycleTypes DEF CasOK, Stores
      <4>3. i < reg[t].idx
        BY <1>1, <1>2, <2>2, <4>2
      <4>4. Cycle(i) <= Cycle(reg[t].idx)
        BY <1>1, <4>3, OrderedHolds DEF Ordered
      <4> QED
        BY <2>2, <3>1, <4>4, StoredCell, <1>1, CycleTypes
    <3>2. CASE Takes(t)
      BY <1>1, <2>1, <2>2, <3>2, TakenCell
    <3>3. CASE Spoils(t)
      <4>1. array[s].cycle \in Nat /\ Cycle(reg[t].idx) \in Nat /\ Cycle(i) \in Nat
        BY <1>1, CycleTypes
      <4> QED
        BY <1>1, <2>1, <2>2, <3>3, <4>1, SpoiledCell
    <3> QED
      BY <2>1, <3>1, <3>2, <3>3, CellMoves
  <2>3. CASE Map(i) # s
    <3>1. array'[Map(i)] = array[Map(i)]
      BY <2>3, CellMoves, CycleTypes DEF Stores, Takes, Spoils, Elsewhere
    <3> QED
      BY <2>1, <3>1
  <2> QED
    BY <2>2, <2>3
<1>3. ASSUME Leaves(t) \/ Takes(t) \/ Spoils(t)
      PROVE  array'[s].cycle >= Cycle(reg[t].idx) \/ array'[s].unsafe
  <2>1. array[s].cycle \in Nat /\ Cycle(reg[t].idx) \in Nat
    BY <1>1, CycleTypes
  <2>2. CASE Leaves(t)
    BY <1>1, <2>1, <2>2 DEF Leaves, Shared
  <2>3. CASE Takes(t)
    BY <1>1, <2>1, <2>3, TakenCell
  <2>4. CASE Spoils(t)
    BY <1>1, <2>1, <2>4, SpoiledCell
  <2> QED
    BY <1>3, <2>2, <2>3, <2>4
<1>4. ASSUME NEW i \in Nat, n <= i, Settled(i)'
      PROVE  array'[Map(i)].cycle >= Cycle(i) \/ array'[Map(i)].unsafe
  BY <1>2, <1>3, <1>4, SettledMoves DEF Same, Settles
<1> QED
  BY <1>4 DEF SpoilInv

(* A cell gets empty, or an empty one gets a cycle, by the dequeue of this *)
(* cycle, which settles thereby.                                           *)
LEMMA EmptyKeeps ==
  ASSUME IndInv, NEW t \in Threads, Moves(t)
  PROVE  EmptyInv'
<1> USE DEF IndInv, Indexes
<1> DEFINE s == Map(reg[t].idx)
<1>1. s \in Slots /\ CellOf(t) = array[s] /\ reg[t].idx \in Nat
  BY IndexedCell DEF CellOf
<1>2. \A i \in Nat : Settled(i) => Settled(i)'
  BY SettledMoves DEF Same, Settles
<1>3. ASSUME NEW i \in Nat, n <= i, ~ array'[Map(i)].busy, array'[Map(i)].cycle = Cycle(i)
      PROVE  Settled(i)'
  <2>1. CASE array'[Map(i)] = array[Map(i)]
    BY <1>2, <1>3, <2>1 DEF EmptyInv
  <2>2. CASE array'[Map(i)] # array[Map(i)]
    <3>1. Map(i) = s /\ (Stores(t) \/ Takes(t) \/ Spoils(t))
      BY <2>2, CellMoves, CycleTypes DEF Stores, Takes, Spoils, Elsewhere
    <3>2. ~ Stores(t)
      BY <1>3, <3>1, StoredCell
    <3>3. array'[s].cycle = Cycle(reg[t].idx)
      BY <1>1, <1>3, <3>1, <3>2, TakenCell, SpoiledCell
    <3>4. i = reg[t].idx
      BY <1>1, <1>3, <3>1, <3>3, OrderedHolds DEF Ordered
    <3>5. Settles(t)
      BY <3>1, <3>2, SettledMoves
    <3> QED
      BY <3>4, <3>5 DEF Settles
  <2> QED
    BY <2>1, <2>2
<1> QED
  BY <1>3 DEF EmptyInv

(* An empty cell never comes back: either its cycle grows, or it is busy   *)
(* meanwhile, which ends in a later cycle.                                 *)
LEMMA CasKeeps ==
  ASSUME IndInv, NEW t \in Threads, Moves(t)
  PROVE  CasInv'
<1> USE DEF IndInv, Indexes
<1> DEFINE s == Map(reg[t].idx)
<1>1. s \in Slots /\ CellOf(t) = array[s] /\ reg[t].idx \in Nat
  BY IndexedCell DEF CellOf
<1>2. ASSUME NEW u \in Threads, pc'[u] \in {"enq_safe", "enq_cas"}, u # t
      PROVE  CasOK(u)'
  <2> DEFINE j == reg[u].idx
             c == reg[u].cell
             x == array[Map(reg[u].idx)]
             y == array'[Map(reg[u].idx)]
  <2>1. /\ pc'[u] = pc[u] /\ reg'[u] = reg[u] /\ j \in Nat /\ Map(j) \in Slots
        /\ CellOf(u) = x /\ CellOf(u)' = y
    BY <1>2, Growth, IndexedCell DEF Others, CellOf
  <2>2. CasOK(u) /\ c.cycle < Cycle(j) /\ ~ c.busy /\ n <= j
    BY <1>2, <2>1 DEF CasInv, LocalInv, LocalOK, Storing
  <2>3. c.cycle \in Nat /\ x.cycle \in Nat /\ Cycle(j) \in Nat /\ Cycle(reg[t].idx) \in Nat
    BY <1>1, <2>1, CycleTypes
  <2>4. c.cycle < x.cycle \/ x = c
    BY <2>1, <2>2 DEF CasOK
  <2>5. ASSUME c.cycle < y.cycle
        PROVE  CasOK(u)'
    BY <2>1, <2>5 DEF CasOK
  <2>6. CASE Map(j) = s /\ Stores(t)
    BY <1>1, <2>1, <2>3, <2>4, <2>5, <2>6, StoredCell
  <2>7. CASE Map(j) = s /\ Takes(t)
    <3>1. x.busy /\ y.cycle = x.cycle
      BY <1>1, <2>1, <2>7, TakenCell
    <3> QED
      BY <2>2, <2>4, <2>5, <3>1
  <2>8. CASE Map(j) = s /\ Spoils(t)
    <3>1. CASE x.busy
      <4>1. y.cycle = x.cycle
        BY <1>1, <2>1, <2>8, <3>1, SpoiledCell
      <4> QED
        BY <2>2, <2>4, <2>5, <3>1, <4>1
    <3>2. CASE ~ x.busy
      <4>1. y.cycle = Cycle(reg[t].idx) /\ x.cycle < Cycle(reg[t].idx)
        BY <1>1, <2>1, <2>8, <3>2, SpoiledCell
      <4> QED
        BY <2>3, <2>4, <2>5, <4>1
    <3> QED
      BY <3>1, <3>2
  <2>9. CASE y = x
    <3>1. CASE c.cycle < x.cycle
      BY <2>5, <2>9, <3>1
    <3>2. CASE ~ c.cycle < x.cycle
      <4>1. x = c /\ (pc[u] = "enq_cas" =>
                 \A i \in Nat : j <= i /\ Map(i) = Map(j) => ~ Settled(i))
        BY <2>1, <2>2, <3>2 DEF CasOK
      <4>2. ASSUME pc[u] = "enq_cas", NEW i \in Nat, j <= i, Map(i) = Map(j)
            PROVE  ~ Settled(i)'
        <5>1. ~ Settled(i)
          BY <4>1, <4>2
        <5>2. CASE i = reg[t].idx /\ (Leaves(t) \/ Takes(t) \/ Spoils(t))
          <6>1. Cycle(j) <= Cycle(i) /\ x = CellOf(t) /\ y = array'[s]
            BY <1>1, <2>1, <4>2, <5>2, OrderedHolds DEF Ordered
          <6>2. ~ x.busy /\ x.cycle < Cycle(i)
            BY <2>2, <2>3, <4>1, <4>2, <5>2, <6>1
          <6>3. ~ Leaves(t)
            BY <2>3, <5>2, <6>1, <6>2 DEF Leaves
          <6>4. ~ Takes(t)
            BY <6>1, <6>2, TakenCell
          <6>5. ~ Spoils(t)
            <7>1. Spoils(t) => y.cycle = Cycle(i)
              BY <5>2, <6>1, <6>2, SpoiledCell
            <7> QED
              BY <2>3, <2>9, <5>2, <6>2, <7>1
          <6> QED
            BY <5>2, <6>3, <6>4, <6>5
        <5>3. CASE ~ (i = reg[t].idx /\ (Leaves(t) \/ Takes(t) \/ Spoils(t)))
          BY <5>1, <5>3, <4>2, SettledMoves DEF Same, Settles
        <5> QED
          BY <5>2, <5>3
      <4> QED
        BY <2>1, <2>9, <4>1, <4>2 DEF CasOK
    <3> QED
      BY <3>1, <3>2
  <2>10. CASE ~ (Map(j) = s /\ (Stores(t) \/ Takes(t) \/ Spoils(t)))
    <3>1. y = x
      BY <2>1, <2>10, CellMoves DEF Stores, Takes, Spoils, Elsewhere
    <3> QED
      BY <2>9, <3>1
  <2> QED
    BY <2>6, <2>7, <2>8, <2>10
<1>3. ASSUME pc'[t] \in {"enq_safe", "enq_cas"}
      PROVE  CasOK(t)'
  <2>1. Inspects(t)
    BY <1>3 DEF Moves, Away, Examines, Leaves, Issues, ClaimsTail, Stores, ClaimsHead, Takes,
                Spoils, CatchesUp, Storing
  <2>2. /\ Same /\ array' = array /\ reg'[t].idx = reg[t].idx
        /\ CellOf(t)' = CellOf(t)
    BY <2>1, SettledMoves
       DEF Inspects, Leaves, Takes, Spoils, Storing, Taking, Shared, CellOf
  <2>3. reg[t].idx \in Nat /\ n <= reg[t].idx
    BY <1>1, <2>1 DEF Inspects, LocalInv, LocalOK
  <2>4. CASE /\ reg'[t].cell = CellOf(t)
             /\ CellOf(t).cycle < Cycle(reg[t].idx) /\ ~ CellOf(t).busy
             /\ pc'[t] = "enq_cas" => ~ CellOf(t).unsafe
    <3>1. ASSUME pc'[t] = "enq_cas", NEW i \in Nat, reg[t].idx <= i, Map(i) = s
          PROVE  ~ Settled(i)
      <4>1. Cycle(reg[t].idx) <= Cycle(i)
        BY <2>3, <3>1, OrderedHolds DEF Ordered
      <4>2. n <= i
        BY <2>3, <3>1, Size
      <4>3. array[Map(i)].cycle < Cycle(i) /\ ~ array[Map(i)].unsafe
        BY <1>1, <2>4, <3>1, <4>1, CycleTypes
      <4> QED
        BY <3>1, <4>2, <4>3, CycleTypes DEF SpoilInv
    <3> QED
      BY <2>2, <2>4, <3>1 DEF CasOK, Same
  <2>5. CASE /\ pc[t] = "enq_safe" /\ pc'[t] = "enq_cas"
             /\ reg'[t].cell = reg[t].cell /\ head <= reg[t].idx
    <3>1. CasOK(t)
      BY <2>5 DEF CasInv
    <3>2. \A i \in Nat : reg[t].idx <= i => ~ Settled(i)
      BY <2>3, <2>5, Typing DEF Settled
    <3> QED
      BY <2>2, <3>1, <3>2, <2>5 DEF CasOK, Same
  <2> QED
    BY <2>1, <2>4, <2>5 DEF Inspects
<1> QED
  BY <1>2, <1>3 DEF CasInv

(* A value which was added before an enqueue began has its index by then,  *)
(* and indexes are claimed in order.                                       *)
LEMMA OrderKeeps ==
  ASSUME IndInv, NEW t \in Threads, Moves(t)
  PROVE  OrderInv'
<1> USE DEF IndInv
<1>1. CASE Issues(t)
  <2>1. \A v \in Values : before'[v] = IF v = issued + 1 THEN added \ got ELSE before[v]
    BY <1>1 DEF Issues
  <2>2. \A a \in added \ got : index[a] # 0
    BY DEF ClaimInv
  <2>3. index[issued + 1] = 0 /\ issued' = issued + 1 /\ index' = index
    BY <1>1, Typing DEF Issues, ClaimInv
  <2>4. \A v \in Values : v > issued' => before'[v] = {}
    BY <2>1, <2>3, Typing DEF OrderInv
  <2>5. \A v \in Values : \A a \in before'[v] :
           index[a] # 0 /\ (index[v] # 0 => index[a] < index[v])
    BY <2>1, <2>2, <2>3 DEF OrderInv
  <2>6. ASSUME NEW u \in Threads, Storing(u)'
        PROVE  \A a \in before'[reg'[u].ptr] : index[a] < reg'[u].idx
    <3>1. u # t /\ Storing(u) /\ reg'[u] = reg[u]
      BY <1>1, <2>6 DEF Issues, Others, Storing
    <3>2. reg[u].ptr \in 1..issued /\ reg[u].ptr \in Values
      BY <3>1, Pointers DEF Storing, Enqueuing
    <3>3. before'[reg[u].ptr] = before[reg[u].ptr]
      BY <2>1, <3>2, Typing
    <3> QED
      BY <3>1, <3>3 DEF OrderInv
  <2> QED
    BY <2>3, <2>4, <2>5, <2>6 DEF OrderInv
<1>2. CASE Stores(t)
  <2>1. reg[t].ptr \in Values /\ index[reg[t].ptr] = 0 /\ reg[t].ptr \in 1..issued
    BY <1>2, Pointers DEF Stores, Enqueuing, LocalInv, LocalOK
  <2>2. index'[reg[t].ptr] = reg[t].idx
        /\ \A v \in Values : v # reg[t].ptr => index'[v] = index[v]
    BY <1>2, <2>1 DEF Stores
  <2>3. before' = before /\ issued' = issued
    BY <1>2 DEF Stores
  <2>4. \A v \in Values : \A a \in before[v] : a \in Values /\ a # reg[t].ptr
    BY <2>1 DEF OrderInv, TypeOK
  <2>5. \A v \in Values : v > issued' => before'[v] = {}
    BY <2>3 DEF OrderInv
  <2>6. \A v \in Values : \A a \in before'[v] :
           index'[a] # 0 /\ (index'[v] # 0 => index'[a] < index'[v])
    <3>1. \A a \in before[reg[t].ptr] : index[a] < reg[t].idx
      BY <1>2 DEF OrderInv, Stores, Storing
    <3> QED
      BY <2>1, <2>2, <2>3, <2>4, <3>1 DEF OrderInv
  <2>7. ASSUME NEW u \in Threads, Storing(u)'
        PROVE  \A a \in before'[reg'[u].ptr] : index'[a] < reg'[u].idx
    <3>1. u # t /\ Storing(u) /\ reg'[u] = reg[u]
      BY <1>2, <2>7 DEF Stores, Others, Storing
    <3>2. reg[u].ptr \in Values
      BY <3>1, Pointers DEF Storing, Enqueuing
    <3> QED
      BY <2>2, <2>3, <2>4, <3>1, <3>2 DEF OrderInv
  <2> QED
    BY <2>5, <2>6, <2>7 DEF OrderInv
<1>3. CASE ~ Issues(t) /\ ~ Stores(t)
  <2>1. before' = before /\ issued' = issued /\ index' = index
    BY <1>3
       DEF Moves, Away, Inspects, Examines, Leaves, ClaimsTail, ClaimsHead, Takes, Spoils,
           CatchesUp, Shared
  <2>2. ASSUME NEW u \in Threads, Storing(u)'
        PROVE  \A a \in before[reg'[u].ptr] : index[a] < reg'[u].idx
    <3>1. CASE u = t /\ ClaimsTail(t)
      <4>1. reg'[u].ptr = reg[u].ptr /\ reg'[u].idx = tail
        BY <3>1 DEF ClaimsTail
      <4>2. reg[u].ptr \in Values
        BY <3>1, Pointers DEF ClaimsTail, Enqueuing
      <4>3. \A a \in before[reg[u].ptr] : a \in Values /\ index[a] # 0
        BY <4>2 DEF OrderInv, TypeOK
      <4> QED
        BY <4>1, <4>2, <4>3 DEF ClaimInv
    <3>2. CASE ~ (u = t /\ ClaimsTail(t))
      <4>1. Storing(u) /\ reg'[u].idx = reg[u].idx /\ reg'[u].ptr = reg[u].ptr
        BY <1>3, <2>2, <3>2
           DEF Moves, Away, Inspects, Examines, Leaves, ClaimsTail, ClaimsHead, Takes, Spoils,
               CatchesUp, Others, Storing
      <4> QED
        BY <4>1 DEF OrderInv
    <3> QED
      BY <3>1, <3>2
  <2> QED
    BY <2>1, <2>2 DEF OrderInv
<1> QED
  BY <1>1, <1>2, <1>3

-----------------------------------------------------------------------------
(* The theorems *)

(* The invariant holds initially, and every step keeps it. *)
LEMMA InitEstablishes == Init => IndInv
<1> SUFFICES ASSUME Init PROVE IndInv
  OBVIOUS
<1> USE DEF Init, Indexes, Places, Calls
<1>1. NoCell \in Cells /\ ~ NoCell.busy /\ NoCell.cycle = 0
  BY DEF NoCell, Cell, Cells, None
<1>2. NoLocal \in Calls
  BY <1>1 DEF NoLocal, Local
<1>3. TypeOK
  <2>1. /\ issued \in 0..MaxCalls /\ called \in 0..MaxCalls
        /\ threshold \in -Cardinality(Threads)..Threshold
    BY Sizes
  <2>2. head \in Nat /\ tail \in Nat /\ cursor \in [Threads -> Nat]
    BY Sizes
  <2>3. array \in [Slots -> Cells] /\ reg \in [Threads -> Calls]
    BY <1>1, <1>2
  <2> QED
    BY <2>1, <2>2, <2>3 DEF TypeOK
<1>4. LocalInv
  BY DEF LocalInv, LocalOK, Enqueuing, Storing, Taking
<1>5. ClaimInv
  BY Sizes DEF ClaimInv, Enqueuing, Storing, Taking
<1>6. CellInv /\ AheadInv
  BY <1>1 DEF CellInv, BusyOK, TakeOK, AheadInv, Held, Stored
<1>7. SpoilInv
  BY Sizes DEF SpoilInv, Settled
<1>8. EmptyInv
  <2>1. \A i \in Nat : n <= i => Cycle(i) # 0 /\ Map(i) \in Slots
    BY CellOfIndexHolds DEF CellOfIndex
  <2> QED
    BY <1>1, <2>1 DEF EmptyInv
<1>9. CasInv /\ OrderInv
  BY DEF CasInv, OrderInv, Storing
<1>10. ThresholdInv
  <2>1. Looping = {}
    BY DEF Looping, Dequeuing
  <2>2. Cardinality(Looping) = 0
    BY <2>1, FS_EmptySet
  <2> QED
    BY <2>2, Sizes DEF ThresholdInv
<1> QED
  BY <1>3, <1>4, <1>5, <1>6, <1>7, <1>8, <1>9, <1>10 DEF IndInv

LEMMA StepKeeps == IndInv /\ Next => IndInv'
<1> SUFFICES ASSUME IndInv, Next PROVE IndInv'
  OBVIOUS
<1>1. PICK t \in Threads : Moves(t)
  BY StepMoves DEF IndInv
<1>2. ThresholdInv'
  BY ThresholdKeeps DEF IndInv
<1>3. TypeOK'
  BY <1>2, TypesKeep DEF IndInv
<1>4. LocalInv' /\ ClaimInv' /\ CellInv'
  BY <1>1, LocalKeeps, ClaimKeeps, CellKeeps DEF IndInv
<1>5. AheadInv' /\ SpoilInv' /\ EmptyInv' /\ CasInv' /\ OrderInv'
  BY <1>1, AheadKeeps, SpoilKeeps, EmptyKeeps, CasKeeps, OrderKeeps
<1> QED
  BY <1>2, <1>3, <1>4, <1>5 DEF IndInv

LEMMA StutterKeeps == IndInv /\ UNCHANGED vars => IndInv'
<1> SUFFICES ASSUME IndInv, UNCHANGED vars PROVE IndInv'
  OBVIOUS
<1> USE DEF vars, ring, history
<1>1. TypeOK'
  BY DEF IndInv, TypeOK
<1>2. LocalInv' /\ ClaimInv' /\ ThresholdInv'
  BY DEF IndInv, LocalInv, LocalOK, Storing, Taking, ClaimInv, ThresholdInv, Looping
<1>3. Same
  BY DEF Same, Settled, Pending, Taking
<1>4. CellInv' /\ AheadInv'
  BY DEF IndInv, CellInv, BusyOK, HeldOK, TakeOK, Held, Stored, CellOf, AheadInv,
         Settled, Pending, Taking
<1>5. SpoilInv' /\ EmptyInv'
  BY <1>3 DEF IndInv, SpoilInv, EmptyInv, Same, Indexes
<1>6. CasInv' /\ OrderInv'
  BY <1>3 DEF IndInv, CasInv, CasOK, CellOf, OrderInv, Storing, Same, Indexes
<1> QED
  BY <1>1, <1>2, <1>4, <1>5, <1>6 DEF IndInv

(* The invariant holds of every execution: of callers which the scheduler  *)
(* may stop between any two accesses to the ring, for any time.            *)
THEOREM RingInvariant == Spec => []IndInv
<1>1. IndInv /\ [Next]_vars => IndInv'
  BY StepKeeps, StutterKeeps
<1> QED
  BY <1>1, InitEstablishes, PTL DEF Spec

(* Indexes are never negative and the threshold stays between its bounds,  *)
(* minus the number of threads and 2n-1 (__evl_ringptr_threshold4).        *)
THEOREM RingTypes == Spec => []TypeOK
<1>1. IndInv => TypeOK
  BY DEF IndInv
<1> QED
  BY <1>1, RingInvariant, PTL

(* No value is lost, overwritten or delivered twice: a stored value is in  *)
(* the cell of its index until the one dequeue which claimed this index    *)
(* takes it (__evl_ringptr_enqueue, __evl_ringptr_dequeue).                *)
THEOREM NoValueIsLost == Spec => []ValuesReachable
<1>1. IndInv => ValuesReachable
  <2> SUFFICES ASSUME IndInv PROVE ValuesReachable
    OBVIOUS
  <2> USE DEF IndInv
  <2>1. ASSUME NEW v \in Held
        PROVE  /\ array[Map(index[v])].busy
               /\ array[Map(index[v])].ptr = v
               /\ array[Map(index[v])].cycle = Cycle(index[v])
               /\ index[v] >= head \/ BeingTaken(v)
    <3>1. v \in Values /\ index[v] \in Nat /\ Map(index[v]) \in Slots
      BY Typing, CellOfIndexHolds DEF Held, Stored, CellOfIndex
    <3>2. HeldOK(v) /\ BusyOK(Map(index[v])) /\ ~ Settled(index[v])
      BY <3>1 DEF CellInv, AheadInv
    <3>3. index[v] >= head \/ BeingTaken(v)
      BY <3>1, <3>2, Typing DEF Settled, Pending, Taking, BeingTaken
    <3> QED
      BY <3>2, <3>3 DEF HeldOK, BusyOK
  <2>2. \A s \in Slots : array[s].busy => array[s].ptr \in Held
    BY DEF CellInv, BusyOK
  <2>3. \A t \in Threads : At(t, "deq_take") =>
           CellOf(t).ptr \in Held /\ index[CellOf(t).ptr] = reg[t].idx
    BY TakesOwn DEF At
  <2> QED
    BY <2>1, <2>2, <2>3 DEF ValuesReachable
<1> QED
  BY <1>1, RingInvariant, PTL

(* Values leave in the order of their indexes, and those added before an   *)
(* enqueue began have smaller ones: none of them is overtaken, but by a    *)
(* dequeue which is faster than the one which claimed it.                  *)
THEOREM FirstInFirstOut == Spec => FifoOrder
<1> DEFINE Fifo == \A v \in got' \ got : \A a \in before[v] : a \in got \/ BeingTaken(a)
<1>1. IndInv /\ Next => Fifo
  <2> SUFFICES ASSUME IndInv, Next, NEW v \in got' \ got, NEW a \in before[v], a \notin got
               PROVE  BeingTaken(a)
    OBVIOUS
  <2> USE DEF IndInv
  <2>1. PICK t \in Threads : Moves(t)
    BY StepMoves
  <2>2. Takes(t)
    BY <2>1, CellMoves DEF Stores, Spoils
  <2>3. v = CellOf(t).ptr /\ v \in Values /\ index[v] = reg[t].idx /\ index[v] # 0
    BY <2>2, TakesOwn DEF Takes, Held, Stored
  <2>4. reg[t].idx < head
    BY <2>2 DEF Takes, Taking, LocalInv, LocalOK
  <2>5. a \in Values /\ index[a] # 0 /\ index[a] < index[v]
    BY <2>3 DEF OrderInv, TypeOK
  <2>6. a \in Held /\ index[a] < head
    BY <2>3, <2>4, <2>5, Typing DEF Held, Stored
  <2>7. Pending(index[a])
    BY <2>6 DEF AheadInv, Settled
  <2> QED
    BY <2>7 DEF Pending, Taking, BeingTaken
<1>2. IndInv /\ [Next]_vars => [Fifo]_vars
  BY <1>1
<1> QED
  BY <1>2, RingInvariant, PTL DEF Spec, FifoOrder

-----------------------------------------------------------------------------
(* The answers of the calls *)

(* The dequeues which have claimed an index and still have to lower the    *)
(* threshold for it.                                                       *)
InFlight == {t \in Threads : pc[t] \in Dequeuing \ {"deq_none", "deq_claim"}}

(* The threshold is high enough for the head to reach every value added:   *)
(* each index between the two costs one, and so does each dequeue on its   *)
(* way.                                                                    *)
CreditInv ==
    \A v \in added : index[v] >= head =>
        threshold >= index[v] - head + Cardinality(InFlight)

(* The tail runs more than n ahead of the head only as far as there are    *)
(* callers who looked at it before: last is the last index each claimed.   *)
LastOK(last, t) ==
    /\ last[t] < tail
    /\ pc[t] = "enq_claim" => last[t] < head + n
    /\ pc[t] = "enq_refresh" => last[t] < reg[t].idx /\ reg[t].idx <= tail
    /\ Storing(t) \/ pc[t] = "enq_next" => last[t] = reg[t].idx
ClaimedAhead(last) ==
    \A j \in Nat : head + n <= j /\ j < tail => \E t \in Threads : last[t] = j
RoomOK(last) == (\A t \in Threads : LastOK(last, t)) /\ ClaimedAhead(last)
RoomInv == \E last \in [Threads -> Nat] : RoomOK(last)

CursorInv == \A t \in Threads : cursor[t] <= head

(* A dequeue which is going to return nothing overlooks no value.          *)
ThereOK(t) ==
    /\ pc[t] \in Dequeuing => there[t] \subseteq added
    /\ pc[t] \in {"deq_none", "deq_empty", "catch_cas", "catch_head", "catch_tail"} =>
          \A v \in there[t] : index[v] < head
    /\ pc[t] = "deq_tail" => reg[t].idx < head
    /\ pc[t] \in {"catch_cas", "catch_tail"} => reg[t].head <= head
ThereInv == \A t \in Threads : ThereOK(t)

(* A cell which has been written; one which has not is good for every      *)
(* index that the head has not passed.                                     *)
Written(s) == \E v \in Stored : Map(index[v]) = s
FreshInv == \A j \in Nat : head <= j => Written(Map(j)) \/ array[Map(j)].cycle < Cycle(j)

(* The indexes between head and tail have been claimed: an enqueue gives   *)
(* one up only if its cell has been written.                               *)
StoringAt(j) == \E t \in Threads : Storing(t) /\ reg[t].idx = j
UsedInv == \A j \in Nat : head <= j /\ j < tail => Written(Map(j)) \/ StoringAt(j)

(* The value of an enqueue which stored it is not among those added yet.   *)
NewInv == \A t \in Threads : pc[t] = "enq_reset" => reg[t].ptr \notin added

(* The invariant of the answers, on top of the one of the values.          *)
HonestInv ==
    CreditInv /\ RoomInv /\ CursorInv /\ ThereInv /\ FreshInv /\ UsedInv /\ NewInv

(* What an action leaves alone. *)
LEMMA Frame ==
  ASSUME IndInv, NEW t \in Threads, Action(t)
  PROVE  /\ Moves(t) /\ Others(t) /\ head <= head' /\ tail <= tail'
         /\ head \in Nat /\ head' \in Nat /\ tail \in Nat /\ tail' \in Nat
         /\ \A v \in added : v \in Values /\ v \in added' /\ index'[v] = index[v]
         /\ \A v \in Stored : v \in Stored' /\ index'[v] = index[v]
<1> USE DEF IndInv
<1>1. Moves(t)
  BY ActionMoves
<1>2. /\ head <= head' /\ tail <= tail' /\ Others(t)
      /\ head' \in Nat /\ tail' \in Nat /\ head \in Nat /\ tail \in Nat
  BY <1>1, Growth, Typing
<1>3. \A v \in Stored : index'[v] = index[v]
  <2> SUFFICES ASSUME NEW v \in Stored, Stores(t), v = reg[t].ptr PROVE FALSE
    BY <1>1, Growth DEF Stored
  <2> QED
    BY DEF Stores, LocalInv, LocalOK, Enqueuing, Stored
<1>4. \A v \in Stored : v \in Stored'
  BY <1>3 DEF Stored
<1>5. \A v \in added : v \in Stored /\ v \in Values
  BY DEF ClaimInv, Stored, TypeOK
<1>6. added \subseteq added'
  BY <1>1 DEF Moves, Away, Inspects, Examines, Leaves, Issues, ClaimsTail, Stores,
              ClaimsHead, Takes, Spoils, CatchesUp, Shared
<1> QED
  BY <1>1, <1>2, <1>3, <1>4, <1>5, <1>6

(* An enqueue goes on as one, or returns. *)
LEMMA EnqueuePlaces ==
  ASSUME TypeOK, NEW t \in Threads,
         \/ Enqueue(t) \/ EnqueueRefresh(t) \/ EnqueueClaim(t) \/ EnqueueLoad(t)
         \/ EnqueueSafe(t) \/ EnqueueCas(t) \/ EnqueueReset(t) \/ EnqueueNext(t)
  PROVE  pc'[t] \in {"idle"} \cup Enqueuing /\ pc'[t] \notin Dequeuing
<1>1. Inspect(t) => pc'[t] \in {"enq_safe", "enq_cas", "enq_next"}
  BY GoMoves DEF Inspect, Usable
<1>2. pc'[t] \in {"idle"} \cup Enqueuing
  <2>1. CASE EnqueueLoad(t) \/ EnqueueSafe(t) \/ EnqueueCas(t)
    <3>1. pc'[t] \in {"enq_safe", "enq_cas", "enq_next", "enq_reset"}
      BY <1>1, <2>1, GoMoves DEF EnqueueLoad, EnqueueSafe, EnqueueCas
    <3> QED
      BY <3>1 DEF Enqueuing
  <2>2. CASE \/ Enqueue(t) \/ EnqueueRefresh(t) \/ EnqueueClaim(t) \/ EnqueueReset(t)
             \/ EnqueueNext(t)
    BY <2>2, GoMoves, ForgetMoves
       DEF Enqueue, EnqueueRefresh, EnqueueClaim, EnqueueReset, EnqueueNext, Fail, Return,
           Enqueuing
  <2> QED
    BY <2>1, <2>2
<1> QED
  BY <1>2 DEF Enqueuing, Dequeuing

(* A dequeue goes on as one, or returns. *)
LEMMA DequeuePlaces ==
  ASSUME TypeOK, NEW t \in Threads,
         \/ Dequeue(t) \/ DequeueClaim(t) \/ DequeueLoad(t) \/ DequeueTake(t)
         \/ DequeueCas(t) \/ DequeueTail(t) \/ DequeueNone(t) \/ DequeueEmpty(t)
         \/ DequeueRetry(t) \/ CatchupCas(t) \/ CatchupHead(t) \/ CatchupTail(t)
  PROVE  pc'[t] \notin Enqueuing
<1>1. Examine(t) => pc'[t] \in {"deq_take", "deq_tail", "deq_cas"}
  BY GoMoves DEF Examine, Outcome
<1>2. CASE DequeueLoad(t) \/ DequeueCas(t)
  <2>1. pc'[t] \in {"deq_take", "deq_tail", "deq_cas"}
    BY <1>1, <1>2, GoMoves DEF DequeueLoad, DequeueCas
  <2> QED
    BY <2>1 DEF Enqueuing
<1>3. CASE Dequeue(t) \/ DequeueClaim(t) \/ DequeueTail(t) \/ DequeueRetry(t)
  <2>1. pc'[t] \in {"deq_none", "deq_claim", "deq_load", "catch_cas", "deq_retry", "idle"}
    BY <1>3, GoMoves, ForgetMoves
       DEF Dequeue, DequeueClaim, DequeueTail, DequeueRetry, Nothing, Return
  <2> QED
    BY <2>1 DEF Enqueuing
<1>4. CASE \/ DequeueTake(t) \/ DequeueNone(t) \/ DequeueEmpty(t)
           \/ CatchupCas(t) \/ CatchupHead(t) \/ CatchupTail(t)
  <2>1. pc'[t] \in {"idle", "deq_empty", "catch_head", "catch_tail", "catch_cas"}
    BY <1>4, GoMoves, ForgetMoves
       DEF DequeueTake, DequeueNone, DequeueEmpty, CatchupCas, CatchupHead, CatchupTail,
           Nothing, Return
  <2> QED
    BY <2>1 DEF Enqueuing
<1> QED
  BY <1>2, <1>3, <1>4

(* A cursor is an old value of the head. *)
LEMMA CursorKeeps ==
  ASSUME IndInv, CursorInv, NEW t \in Threads, Action(t)
  PROVE  CursorInv'
<1>1. /\ head <= head' /\ head \in Nat /\ head' \in Nat
      /\ cursor \in [Threads -> Nat]
  BY Frame DEF IndInv, TypeOK, Indexes
<1>2. CASE EnqueueRefresh(t) \/ EnqueueNext(t)
  <2>1. head' = head
    BY <1>2 DEF EnqueueRefresh, EnqueueNext, ring
  <2>2. \A u \in Threads : cursor'[u] \in {head, cursor[u]}
    BY <1>1, <1>2 DEF EnqueueRefresh, EnqueueNext
  <2> QED
    BY <1>1, <2>1, <2>2 DEF CursorInv
<1>3. CASE UNCHANGED cursor
  BY <1>1, <1>3 DEF CursorInv
<1> QED
  BY <1>2, <1>3
     DEF Action, Enqueue, EnqueueClaim, EnqueueLoad, EnqueueSafe, EnqueueCas,
         EnqueueReset, Dequeue, DequeueClaim, DequeueLoad, DequeueTake,
         DequeueCas, DequeueTail, DequeueNone, DequeueEmpty, DequeueRetry, CatchupCas,
         CatchupHead, CatchupTail

(* A dequeue is empty-handed once the threshold or the tail told so.       *)
LEMMA ThereKeeps ==
  ASSUME IndInv, CreditInv, ThereInv, NEW t \in Threads, Action(t)
  PROVE  ThereInv'
<1> USE DEF IndInv, ring, history, At, Return, Fail, Nothing, Dequeuing, Enqueuing
<1>1. /\ Others(t) /\ head <= head'
      /\ head \in Nat /\ head' \in Nat /\ tail \in Nat /\ reg[t].idx \in Nat
      /\ \A v \in added : v \in added' /\ index'[v] = index[v] /\ v \in Values
      /\ \A v \in Values : index[v] \in Nat
  BY Frame, Typing
<1>2. ThereOK(t)
  BY DEF ThereInv
<1>3. there \in [Threads -> SUBSET Values] /\ reg \in [Threads -> Calls]
  BY DEF TypeOK, Calls, Indexes
<1>4. ASSUME NEW u \in Threads \ {t}
      PROVE  ThereOK(u)'
  <2>1. there'[u] = there[u]
    BY <1>3
       DEF Action, Enqueue, EnqueueRefresh, EnqueueClaim, EnqueueLoad, EnqueueSafe,
           EnqueueCas, EnqueueReset, EnqueueNext, Dequeue, DequeueClaim, DequeueLoad,
           DequeueTake, DequeueCas, DequeueTail, DequeueNone, DequeueEmpty, DequeueRetry,
           CatchupCas, CatchupHead, CatchupTail
  <2>2. pc'[u] = pc[u] /\ reg'[u] = reg[u] /\ ThereOK(u)
    BY <1>1 DEF Others, ThereInv
  <2>3. reg[u].idx \in Nat /\ reg[u].head \in Nat
    BY Typing
  <2> QED
    BY <1>1, <2>1, <2>2, <2>3 DEF ThereOK
<1> SUFFICES ThereOK(t)'
  BY <1>4 DEF ThereInv
<1>5. ASSUME pc'[t] \notin Dequeuing
      PROVE  ThereOK(t)'
  BY <1>5 DEF ThereOK
<1>6. CASE \/ Enqueue(t) \/ EnqueueRefresh(t) \/ EnqueueClaim(t) \/ EnqueueLoad(t)
           \/ EnqueueSafe(t) \/ EnqueueCas(t) \/ EnqueueReset(t) \/ EnqueueNext(t)
  <2>1. pc'[t] \notin Dequeuing
    BY <1>6, EnqueuePlaces
  <2> QED
    BY <1>5, <2>1
<1>7. CASE Dequeue(t)
  <2>1. there'[t] \subseteq added /\ added' = added /\ head' = head /\ index' = index
    BY <1>3, <1>7 DEF Dequeue
  <2>2. CASE threshold < 0
    <3>1. Cardinality(InFlight) \in Nat
      <4>1. InFlight \in SUBSET Threads
        BY DEF InFlight
      <4> QED
        BY <4>1, Counting
    <3>2. threshold \in Int
      BY DEF ThresholdInv
    <3>3. \A v \in added : index[v] < head
      BY <1>1, <2>2, <3>1, <3>2 DEF CreditInv
    <3>4. pc'[t] = "deq_none"
      BY <1>7, <2>2, GoMoves DEF Dequeue
    <3> QED
      BY <2>1, <3>3, <3>4 DEF ThereOK
  <2>3. CASE ~ threshold < 0
    <3>1. pc'[t] = "deq_claim"
      BY <1>7, <2>3, GoMoves DEF Dequeue
    <3> QED
      BY <2>1, <3>1 DEF ThereOK
  <2> QED
    BY <2>2, <2>3
<1>8. CASE DequeueClaim(t)
  BY <1>2, <1>8, GoMoves DEF DequeueClaim, ThereOK
<1>9. ASSUME Examine(t), Taking(t), UNCHANGED <<head, index, there, added>>
      PROVE  ThereOK(t)'
  <2>1. pc'[t] \in {"deq_take", "deq_tail", "deq_cas"} /\ reg'[t].idx = reg[t].idx
    BY <1>3, <1>9, GoMoves DEF Examine, Outcome, Calls
  <2>2. reg[t].idx < head /\ pc[t] \in Dequeuing
    BY <1>9 DEF LocalInv, LocalOK, Taking
  <2> QED
    BY <1>2, <1>9, <2>1, <2>2 DEF ThereOK
<1>10. CASE DequeueLoad(t)
  BY <1>9, <1>10 DEF DequeueLoad, Taking
<1>11. CASE DequeueCas(t)
  <2>1. CASE Go(t, "deq_tail") /\ UNCHANGED reg
    <3>1. reg[t].idx < head
      BY <1>11 DEF DequeueCas, LocalInv, LocalOK, Taking
    <3> QED
      BY <1>2, <1>11, <2>1, <3>1, GoMoves DEF DequeueCas, ThereOK
  <2> QED
    BY <1>9, <1>11, <2>1 DEF DequeueCas, Taking
<1>12. CASE DequeueTail(t)
  <2>1. /\ reg[t].idx < head /\ there[t] \subseteq added
        /\ UNCHANGED <<head, index, there, added>>
    BY <1>2, <1>12 DEF DequeueTail, ThereOK
  <2>2. CASE tail <= reg[t].idx + 1
    <3>1. \A v \in there[t] : index[v] < head
      BY <1>1, <2>1, <2>2 DEF ClaimInv
    <3>2. pc'[t] = "catch_cas" /\ reg'[t].head = reg[t].idx + 1
      BY <1>3, <1>12, <2>2, GoMoves DEF DequeueTail, Local
    <3> QED
      BY <1>1, <2>1, <3>1, <3>2 DEF ThereOK
  <2>3. CASE ~ tail <= reg[t].idx + 1
    <3>1. pc'[t] = "deq_retry"
      BY <1>12, <2>3, ForgetMoves DEF DequeueTail
    <3> QED
      BY <2>1, <3>1 DEF ThereOK
  <2> QED
    BY <2>2, <2>3
<1>13. CASE CatchupCas(t) \/ CatchupHead(t) \/ CatchupTail(t)
  <2>1. /\ there[t] \subseteq added /\ \A v \in there[t] : index[v] < head
        /\ UNCHANGED <<head, index, there, added>>
    BY <1>2, <1>13 DEF CatchupCas, CatchupHead, CatchupTail, ThereOK
  <2>2. CASE Forget(t, "deq_empty")
    BY <2>1, <2>2, ForgetMoves DEF ThereOK
  <2>3. CASE Go(t, "catch_head")
    BY <2>1, <2>3, GoMoves DEF ThereOK
  <2>4. CASE Go(t, "catch_tail") /\ reg' = [reg EXCEPT ![t].head = head]
    <3>1. pc'[t] = "catch_tail" /\ reg'[t].head = head
      BY <1>3, <2>4, GoMoves DEF Calls
    <3> QED
      BY <1>1, <2>1, <3>1 DEF ThereOK
  <2>5. CASE /\ pc[t] = "catch_tail" /\ Go(t, "catch_cas")
             /\ reg' = [reg EXCEPT ![t].tail = tail]
    <3>1. pc'[t] = "catch_cas" /\ reg'[t].head = reg[t].head /\ reg[t].head <= head
      BY <1>2, <1>3, <2>5, GoMoves DEF Calls, ThereOK
    <3> QED
      BY <2>1, <3>1 DEF ThereOK
  <2> QED
    BY <1>13, <2>2, <2>3, <2>4, <2>5 DEF CatchupCas, CatchupHead, CatchupTail
<1>14. CASE DequeueTake(t) \/ DequeueNone(t) \/ DequeueEmpty(t)
  BY <1>5, <1>14, ForgetMoves DEF DequeueTake, DequeueNone, DequeueEmpty
<1>15. CASE DequeueRetry(t)
  <2>1. CASE Forget(t, "idle")
    BY <1>5, <2>1, ForgetMoves
  <2>2. CASE Go(t, "deq_claim") /\ UNCHANGED <<reg, history>>
    BY <1>2, <1>15, <2>2, GoMoves DEF DequeueRetry, ThereOK
  <2> QED
    BY <1>15, <2>1, <2>2 DEF DequeueRetry
<1> QED
  BY <1>6, <1>7, <1>8, <1>10, <1>11, <1>12, <1>13, <1>14, <1>15 DEF Action

(* The dequeues on their way, after a step. *)
LEMMA FlightMoves ==
  ASSUME TypeOK, NEW t \in Threads, NEW l, Go(t, l)
  PROVE  /\ InFlight' = IF l \in Dequeuing \ {"deq_none", "deq_claim"}
                          THEN InFlight \cup {t} ELSE InFlight \ {t}
         /\ t \in InFlight <=> pc[t] \in Dequeuing \ {"deq_none", "deq_claim"}
         /\ Cardinality(InFlight) \in Nat /\ Cardinality(InFlight') \in Nat
         /\ Cardinality(InFlight') =
               Cardinality(InFlight)
                 + (IF t \in InFlight' THEN 1 ELSE 0) - (IF t \in InFlight THEN 1 ELSE 0)
<1>1. /\ InFlight' = IF l \in Dequeuing \ {"deq_none", "deq_claim"}
                       THEN InFlight \cup {t} ELSE InFlight \ {t}
      /\ t \in InFlight <=> pc[t] \in Dequeuing \ {"deq_none", "deq_claim"}
  BY GoMoves DEF InFlight
<1>2. InFlight \in SUBSET Threads /\ InFlight' \in SUBSET Threads
  BY DEF InFlight
<1>3. /\ Cardinality(InFlight) \in Nat /\ Cardinality(InFlight') \in Nat
      /\ t \in InFlight => Cardinality(InFlight \ {t}) = Cardinality(InFlight) - 1
      /\ t \in InFlight' => Cardinality(InFlight' \ {t}) = Cardinality(InFlight') - 1
  BY <1>2, Counting
<1>4. /\ t \notin InFlight => InFlight \ {t} = InFlight
      /\ t \notin InFlight' => InFlight' \ {t} = InFlight'
      /\ InFlight' \ {t} = InFlight \ {t}
  BY <1>1
<1> DEFINE rest == Cardinality(InFlight \ {t})
<1>5. /\ t \in InFlight => rest = Cardinality(InFlight) - 1
      /\ t \notin InFlight => rest = Cardinality(InFlight)
  BY <1>3, <1>4, Zenon
<1>6. /\ t \in InFlight' => rest = Cardinality(InFlight') - 1
      /\ t \notin InFlight' => rest = Cardinality(InFlight')
  BY <1>3, <1>4, Zenon
<1> HIDE DEF rest
<1>7. Cardinality(InFlight') = Cardinality(InFlight)
        + (IF t \in InFlight' THEN 1 ELSE 0) - (IF t \in InFlight THEN 1 ELSE 0)
  BY <1>3, <1>5, <1>6
<1> QED
  BY <1>1, <1>3, <1>7

(* The tail is at most n and the number of threads ahead of the head.      *)
LEMMA TailBound ==
  ASSUME TypeOK, RoomInv
  PROVE  tail <= head + n + Cardinality(Threads)
<1>1. PICK last \in [Threads -> Nat] : RoomOK(last)
  BY DEF RoomInv
<1>2. head \in Nat /\ tail \in Nat /\ n \in Nat /\ Cardinality(Threads) \in Nat
      /\ IsFiniteSet(Threads)
  BY Typing, Sizes
<1> SUFFICES ASSUME head + n + Cardinality(Threads) < tail
             PROVE  FALSE
  BY <1>2
<1> DEFINE W == head + n .. tail - 1
<1>3. Cardinality(W) = tail - (head + n) /\ IsFiniteSet(W)
  <2>1. head + n \in Int /\ tail - 1 \in Int /\ ~ head + n > tail - 1
    BY <1>2
  <2>2. IsFiniteSet(W) /\ Cardinality(W) = (tail - 1) - (head + n) + 1
    BY <2>1, FS_Interval
  <2> QED
    BY <1>2, <2>2
<1>4. \A j \in W : \E t \in Threads : last[t] = j
  BY <1>1, <1>2 DEF RoomOK, ClaimedAhead
<1> DEFINE f == [j \in W |-> CHOOSE t \in Threads : last[t] = j]
<1>5. \A j \in W : f[j] \in Threads /\ last[f[j]] = j
  BY <1>4
<1>6. f \in [W -> Threads]
  BY <1>5
<1> HIDE DEF W, f
<1>7. Cardinality(Threads) < Cardinality(W)
  BY <1>2, <1>3
<1>8. \E x, y \in W : x # y /\ f[x] = f[y]
  BY <1>2, <1>3, <1>6, <1>7, FS_PigeonHole
<1> QED
  BY <1>5, <1>8

(* The credit of the values: a claim of the head moves the cost of an      *)
(* index to the dequeue which claimed it, which pays later; a store resets *)
(* the threshold to more than all that can be owed.                        *)
LEMMA CreditKeeps ==
  ASSUME IndInv, CreditInv, RoomInv, NEW t \in Threads, Action(t)
  PROVE  CreditInv'
<1> USE DEF IndInv, Action, ring, history, At, Return, Fail, Nothing
<1>1. /\ head <= head' /\ head \in Nat /\ head' \in Nat /\ tail \in Nat /\ tail' \in Nat
      /\ \A v \in added : v \in added' /\ index'[v] = index[v] /\ index[v] \in Nat
      /\ threshold \in Int
  BY Frame, Typing DEF ThresholdInv
<1>2. PICK l : Go(t, l)
  BY DEF Enqueue, EnqueueRefresh, EnqueueClaim, EnqueueLoad, EnqueueSafe, EnqueueCas,
         EnqueueReset, EnqueueNext, Dequeue, DequeueClaim, DequeueLoad, DequeueTake,
         DequeueCas, DequeueTail, DequeueNone, DequeueEmpty, DequeueRetry, CatchupCas,
         CatchupHead, CatchupTail, Inspect, Examine, Forget
<1>3. pc'[t] = l
  BY <1>2, GoMoves
<1> DEFINE F == Cardinality(InFlight)
           G == Cardinality(InFlight')
           Paying == Dequeuing \ {"deq_none", "deq_claim"}
<1>4. /\ F \in Nat /\ G \in Nat
      /\ t \in InFlight <=> pc[t] \in Paying
      /\ t \in InFlight' <=> pc'[t] \in Paying
      /\ G = F + (IF t \in InFlight' THEN 1 ELSE 0) - (IF t \in InFlight THEN 1 ELSE 0)
  BY <1>2, <1>3, FlightMoves DEF InFlight
<1> HIDE DEF F, G
<1>5. ASSUME threshold' = threshold, added' = added, G <= F
      PROVE  CreditInv'
  BY <1>1, <1>4, <1>5 DEF CreditInv, F, G
<1>6. ASSUME threshold' = threshold, added' = added, pc'[t] \in Paying => pc[t] \in Paying
      PROVE  CreditInv'
  BY <1>4, <1>5, <1>6
<1>7. ASSUME threshold' = threshold - 1, added' = added,
             pc[t] \in Paying, pc'[t] \notin Paying
      PROVE  CreditInv'
  BY <1>1, <1>4, <1>7 DEF CreditInv, F, G
<1>8. CASE DequeueClaim(t)
  <2>1. /\ head' = head + 1 /\ threshold' = threshold /\ added' = added
        /\ pc[t] = "deq_claim" /\ pc'[t] = "deq_load"
    BY <1>8, GoMoves DEF DequeueClaim
  <2>2. G = F + 1
    BY <1>4, <2>1 DEF Dequeuing
  <2> QED
    BY <1>1, <1>4, <2>1, <2>2 DEF CreditInv, F, G
<1>9. CASE EnqueueReset(t)
  <2>1. /\ head' = head /\ tail' = tail /\ threshold' = Threshold /\ index' = index
        /\ pc[t] = "enq_reset" /\ pc'[t] = "idle" /\ added' = added \cup {reg[t].ptr}
    BY <1>9, ForgetMoves DEF EnqueueReset
  <2>2. G <= Cardinality(Threads) - 1
    <3>1. InFlight' \in SUBSET (Threads \ {t})
      BY <1>4, <2>1 DEF InFlight, Dequeuing
    <3>2. /\ IsFiniteSet(Threads \ {t})
          /\ Cardinality(Threads \ {t}) = Cardinality(Threads) - 1
      BY Sizes, FS_RemoveElement
    <3> QED
      BY <3>1, <3>2, FS_Subset DEF G
  <2>3. \A v \in added' : index'[v] \in Nat /\ index'[v] < tail
    <3>1. \A v \in added : index[v] # 0 /\ v \in Values
      BY DEF ClaimInv, TypeOK
    <3>2. reg[t].ptr \in Values /\ index[reg[t].ptr] # 0
      BY <2>1, Pointers DEF Enqueuing, LocalInv, LocalOK
    <3> QED
      BY <2>1, <3>1, <3>2, Typing DEF ClaimInv
  <2>4. tail <= head + n + Cardinality(Threads)
    BY TailBound
  <2>5. 2 * Cardinality(Threads) <= n /\ Cardinality(Threads) \in Nat /\ n \in Nat
    BY RingAssumption, PowersAssumption, Sizes
  <2> QED
    BY <1>1, <1>4, <2>1, <2>2, <2>3, <2>4, <2>5 DEF CreditInv, G, Threshold
<1>10. CASE DequeueEmpty(t)
  BY <1>7, <1>10, ForgetMoves DEF DequeueEmpty, Dequeuing
<1>11. CASE DequeueRetry(t)
  <2>1. pc'[t] \in {"idle", "deq_claim"}
    BY <1>11, GoMoves, ForgetMoves DEF DequeueRetry
  <2> QED
    BY <1>7, <1>11, <2>1 DEF DequeueRetry, Dequeuing
<1>12. CASE DequeueTake(t)
  BY <1>6, <1>12, ForgetMoves DEF DequeueTake, Dequeuing
<1>13. CASE DequeueNone(t)
  BY <1>6, <1>13, ForgetMoves DEF DequeueNone, Dequeuing
<1>14. CASE Dequeue(t)
  <2>1. pc'[t] \in {"deq_none", "deq_claim"}
    BY <1>14, GoMoves DEF Dequeue
  <2> QED
    BY <1>6, <1>14, <2>1 DEF Dequeue
<1>15. CASE DequeueLoad(t) \/ DequeueCas(t) \/ DequeueTail(t) \/ CatchupCas(t)
            \/ CatchupHead(t) \/ CatchupTail(t)
  <2>1. pc[t] \in Paying
    BY <1>15
       DEF DequeueLoad, DequeueCas, DequeueTail, CatchupCas, CatchupHead, CatchupTail,
           Dequeuing
  <2> QED
    BY <1>6, <1>15, <2>1
       DEF DequeueLoad, DequeueCas, DequeueTail, CatchupCas, CatchupHead, CatchupTail
<1>16. CASE \/ Enqueue(t) \/ EnqueueRefresh(t) \/ EnqueueClaim(t) \/ EnqueueLoad(t)
            \/ EnqueueSafe(t) \/ EnqueueCas(t) \/ EnqueueNext(t)
  <2>1. pc'[t] \in {"idle"} \cup Enqueuing
    BY <1>16, EnqueuePlaces
  <2> QED
    BY <1>6, <1>16, <2>1
       DEF Enqueue, EnqueueRefresh, EnqueueClaim, EnqueueLoad, EnqueueSafe, EnqueueCas,
           EnqueueNext, Enqueuing, Dequeuing
<1> QED
  BY <1>8, <1>9, <1>10, <1>11, <1>12, <1>13, <1>14, <1>15, <1>16

(* The last index which each thread claimed, after a step. *)
LEMMA RoomKeeps ==
  ASSUME IndInv, RoomInv, CursorInv, ThereInv, NEW t \in Threads, Action(t)
  PROVE  RoomInv'
<1> USE DEF IndInv, ring, history, At, Return, Fail, Nothing
<1>1. PICK last \in [Threads -> Nat] : RoomOK(last)
  BY DEF RoomInv
<1>2. /\ Others(t) /\ head <= head' /\ tail <= tail'
      /\ head \in Nat /\ head' \in Nat /\ tail \in Nat /\ tail' \in Nat /\ n \in Nat
      /\ \A u \in Threads : last[u] \in Nat /\ reg[u].idx \in Nat /\ cursor[u] \in Nat
  BY Frame, Typing, <1>1 DEF TypeOK, Indexes
<1>3. reg \in [Threads -> Calls] /\ cursor \in [Threads -> Nat]
  BY DEF TypeOK, Calls, Indexes
<1>4. ASSUME NEW new \in [Threads -> Nat], \A u \in Threads \ {t} : new[u] = last[u],
             NEW u \in Threads \ {t}
      PROVE  LastOK(new, u)'
  <2>1. pc'[u] = pc[u] /\ reg'[u] = reg[u] /\ LastOK(last, u)
    BY <1>1, <1>2 DEF Others, RoomOK
  <2>2. last[u] \in Nat /\ reg[u].idx \in Nat
    BY <1>2
  <2> QED
    BY <1>2, <1>4, <2>1, <2>2 DEF LastOK, Storing
<1>5. CASE EnqueueClaim(t)
  <2>1. PICK new \in [Threads -> Nat] :
           new[t] = tail /\ \A u \in Threads \ {t} : new[u] = last[u]
    <3> DEFINE f == [last EXCEPT ![t] = tail]
    <3>1. /\ f \in [Threads -> Nat] /\ f[t] = tail
          /\ \A u \in Threads \ {t} : f[u] = last[u]
      BY <1>1, <1>2
    <3> QED
      BY <3>1
  <2>2. /\ head' = head /\ tail' = tail + 1 /\ pc[t] = "enq_claim"
        /\ pc'[t] = "enq_load" /\ reg'[t].idx = tail
    BY <1>3, <1>5, GoMoves DEF EnqueueClaim, Calls
  <2>3. LastOK(new, t)'
    BY <1>2, <2>1, <2>2 DEF LastOK, Storing
  <2>4. ClaimedAhead(new)'
    <3> SUFFICES ASSUME NEW j \in Nat, head' + n <= j, j < tail'
                 PROVE  \E u \in Threads : new[u] = j
      BY DEF ClaimedAhead
    <3>1. CASE j = tail
      BY <2>1, <3>1
    <3>2. CASE j < tail
      <4>1. PICK u \in Threads : last[u] = j
        BY <1>1, <2>2, <3>2 DEF RoomOK, ClaimedAhead
      <4>2. last[t] < head + n
        BY <1>1, <2>2 DEF RoomOK, LastOK
      <4>3. u # t
        BY <1>2, <2>2, <4>1, <4>2
      <4> QED
        BY <2>1, <4>1, <4>3
    <3> QED
      BY <1>2, <2>2, <3>1, <3>2
  <2> QED
    BY <1>4, <2>1, <2>3, <2>4 DEF RoomInv, RoomOK
<1>6. ASSUME LastOK(last, t)', tail' = tail \/ tail' <= head
      PROVE  RoomInv'
  <2>1. ClaimedAhead(last)'
    <3> SUFFICES ASSUME NEW j \in Nat, head' + n <= j, j < tail'
                 PROVE  \E u \in Threads : last[u] = j
      BY DEF ClaimedAhead
    <3>1. /\ head \in Nat /\ head' \in Nat /\ tail' \in Nat /\ n \in Nat
          /\ head <= head'
      BY <1>2
    <3>2. \A a, b, c, m, k \in Nat : a <= b /\ b + m <= k /\ k < c => ~ c <= a /\ a + m <= k
      OBVIOUS
    <3>3. ~ tail' <= head /\ head + n <= j
      BY <3>1, <3>2, Zenon
    <3>4. tail' = tail
      BY <1>6, <3>3
    <3> QED
      BY <1>1, <3>3, <3>4 DEF RoomOK, ClaimedAhead
  <2>2. \A u \in Threads : LastOK(last, u)'
    BY <1>1, <1>4, <1>6
  <2> QED
    BY <1>1, <2>1, <2>2 DEF RoomInv, RoomOK
<1>7. LastOK(last, t)
  BY <1>1 DEF RoomOK
<1>8. ASSUME tail' = tail, pc'[t] \notin Enqueuing \ {"enq_reset"}
      PROVE  RoomInv'
  BY <1>2, <1>6, <1>7, <1>8 DEF LastOK, Storing, Enqueuing
<1>9. CASE Enqueue(t)
  <2>1. /\ tail' = tail /\ head' = head /\ reg'[t].idx = tail
        /\ pc'[t] = IF tail >= cursor[t] + n THEN "enq_refresh" ELSE "enq_claim"
    BY <1>3, <1>9, GoMoves DEF Enqueue, Local, Calls
  <2>2. cursor[t] <= head
    BY DEF CursorInv
  <2>3. pc'[t] = "enq_claim" => last[t] < head + n
    BY <1>2, <1>7, <2>1, <2>2 DEF LastOK
  <2> QED
    BY <1>2, <1>6, <1>7, <2>1, <2>3 DEF LastOK, Storing
<1>10. CASE EnqueueRefresh(t)
  <2>1. tail' = tail /\ head' = head /\ pc[t] = "enq_refresh"
    BY <1>10 DEF EnqueueRefresh
  <2>2. CASE reg[t].idx >= head + n
    <3>1. pc'[t] = "idle"
      BY <1>10, <2>2, ForgetMoves DEF EnqueueRefresh
    <3> QED
      BY <1>8, <2>1, <3>1 DEF Enqueuing
  <2>3. CASE ~ reg[t].idx >= head + n
    <3>1. pc'[t] = "enq_claim"
      BY <1>10, <2>3, GoMoves DEF EnqueueRefresh
    <3>2. last[t] < head + n
      BY <1>2, <1>7, <2>1, <2>3 DEF LastOK
    <3> QED
      BY <1>2, <1>6, <1>7, <2>1, <3>1, <3>2 DEF LastOK, Storing
  <2> QED
    BY <2>2, <2>3
<1>11. CASE EnqueueNext(t)
  <2>1. /\ tail' = tail /\ head' = head /\ pc[t] = "enq_next"
        /\ cursor'[t] \in {head, cursor[t]}
    BY <1>3, <1>11 DEF EnqueueNext
  <2>2. CASE reg[t].idx + 1 >= cursor'[t] + n
    <3>1. pc'[t] = "idle"
      BY <1>11, <2>2, ForgetMoves DEF EnqueueNext
    <3> QED
      BY <1>8, <2>1, <3>1 DEF Enqueuing
  <2>3. CASE ~ reg[t].idx + 1 >= cursor'[t] + n
    <3>1. pc'[t] = "enq_claim"
      BY <1>11, <2>3, GoMoves DEF EnqueueNext
    <3>2. last[t] < head + n
      <4>1. cursor'[t] <= head /\ cursor'[t] \in Nat
        BY <1>2, <2>1 DEF CursorInv
      <4>2. last[t] = reg[t].idx
        BY <1>7, <2>1 DEF LastOK
      <4> QED
        BY <1>2, <2>3, <4>1, <4>2
    <3> QED
      BY <1>2, <1>6, <1>7, <2>1, <3>1, <3>2 DEF LastOK, Storing
  <2> QED
    BY <2>2, <2>3
<1>12. ASSUME Storing(t), tail' = tail, head' = head, reg'[t].idx = reg[t].idx,
              pc'[t] \in {"enq_safe", "enq_cas", "enq_next"}
       PROVE  RoomInv'
  BY <1>2, <1>6, <1>7, <1>12 DEF LastOK, Storing
<1>13. ASSUME Inspect(t)
       PROVE  /\ reg'[t].idx = reg[t].idx
              /\ pc'[t] \in {"enq_safe", "enq_cas", "enq_next"}
  BY <1>3, <1>13, GoMoves DEF Inspect, Usable, Calls
<1>14. CASE EnqueueLoad(t)
  BY <1>12, <1>13, <1>14 DEF EnqueueLoad, Storing
<1>15. CASE EnqueueSafe(t)
  <2>1. pc'[t] \in {"enq_cas", "enq_next"}
    BY <1>15, GoMoves DEF EnqueueSafe
  <2> QED
    BY <1>12, <1>15, <2>1 DEF EnqueueSafe, Storing
<1>16. CASE EnqueueCas(t)
  <2>1. CASE Go(t, "enq_reset")
    <3>1. pc'[t] = "enq_reset" /\ tail' = tail
      BY <1>16, <2>1, GoMoves DEF EnqueueCas
    <3> QED
      BY <1>8, <3>1
  <2>2. CASE Inspect(t)
    BY <1>12, <1>13, <1>16, <2>2 DEF EnqueueCas, Storing
  <2> QED
    BY <1>16, <2>1, <2>2 DEF EnqueueCas
<1>17. CASE EnqueueReset(t)
  BY <1>8, <1>17, ForgetMoves DEF EnqueueReset, Enqueuing
<1>18. CASE \/ Dequeue(t) \/ DequeueClaim(t) \/ DequeueLoad(t) \/ DequeueTake(t)
            \/ DequeueCas(t) \/ DequeueTail(t) \/ DequeueNone(t) \/ DequeueEmpty(t)
            \/ DequeueRetry(t) \/ CatchupCas(t) \/ CatchupHead(t) \/ CatchupTail(t)
  <2>1. pc'[t] \notin Enqueuing
    BY <1>18, DequeuePlaces
  <2>2. tail' = tail \/ tail' <= head
    <3>1. CASE CatchupCas(t)
      BY <3>1 DEF CatchupCas, ThereInv, ThereOK
    <3> QED
      BY <1>18, <3>1
         DEF Dequeue, DequeueClaim, DequeueLoad, DequeueTake, DequeueCas, DequeueTail,
             DequeueNone, DequeueEmpty, DequeueRetry, CatchupHead, CatchupTail
  <2> QED
    BY <1>2, <1>6, <1>7, <2>1, <2>2 DEF LastOK, Storing, Enqueuing
<1> QED
  BY <1>5, <1>9, <1>10, <1>11, <1>14, <1>15, <1>16, <1>17, <1>18 DEF Action

(* The cells which were written stay so, and the others are of an earlier  *)
(* cycle than any index ahead of the head.                                 *)
LEMMA FreshKeeps ==
  ASSUME IndInv, FreshInv, NEW t \in Threads, Action(t)
  PROVE  FreshInv'
<1> USE DEF IndInv
<1>1. /\ Moves(t) /\ head <= head' /\ head \in Nat /\ head' \in Nat
      /\ \A s : Written(s) => Written(s)'
  BY Frame DEF Written
<1>2. reg[t].idx \in Nat /\ CellOf(t) \in Cells
  BY IndexedCell
<1> SUFFICES ASSUME NEW j \in Nat, head' <= j, ~ Written(Map(j))'
             PROVE  array'[Map(j)].cycle < Cycle(j)
  BY DEF FreshInv
<1>3. array[Map(j)].cycle < Cycle(j) /\ Map(j) \in Slots
  BY <1>1, CellOfIndexHolds DEF FreshInv, CellOfIndex
<1>4. CASE array'[Map(j)] = array[Map(j)]
  BY <1>3, <1>4
<1>5. ASSUME Map(j) = Map(reg[t].idx), Stores(t)
      PROVE  FALSE
  <2>1. reg[t].ptr \in Values /\ reg[t].idx # 0
    BY <1>5, Pointers, Typing DEF Stores, Enqueuing, LocalInv, LocalOK, Storing
  <2> QED
    BY <1>5, <2>1 DEF Stores, Written, Stored
<1>6. ASSUME Map(j) = Map(reg[t].idx), Takes(t)
      PROVE  array'[Map(j)].cycle < Cycle(j)
  BY <1>3, <1>6 DEF Takes, Cell, CellOf
<1>7. ASSUME Map(j) = Map(reg[t].idx), Spoils(t)
      PROVE  array'[Map(j)].cycle < Cycle(j)
  <2>1. reg[t].idx < j
    BY <1>1, <1>2, <1>7 DEF Spoils, LocalInv, LocalOK, Taking
  <2>2. Cycle(reg[t].idx) < Cycle(j)
    BY <1>2, <1>7, <2>1, OrderedHolds DEF Ordered
  <2>3. array'[Map(j)].cycle \in {CellOf(t).cycle, Cycle(reg[t].idx)}
    BY <1>7 DEF Spoils, Cell
  <2> QED
    BY <1>3, <1>7, <2>2, <2>3 DEF CellOf
<1>8. \/ array'[Map(j)] = array[Map(j)]
      \/ Map(j) = Map(reg[t].idx) /\ (Stores(t) \/ Takes(t) \/ Spoils(t))
  BY <1>1, <1>3, CellMoves DEF Stores, Takes, Spoils, Elsewhere
<1> QED
  BY <1>4, <1>5, <1>6, <1>7, <1>8

(* An enqueue which gives up its index found its cell written, or finds    *)
(* the head past the index.                                                *)
LEMMA GivesUp ==
  ASSUME IndInv, FreshInv, NEW t \in Threads, Action(t), Storing(t)
  PROVE  \/ Storing(t)' /\ reg'[t].idx = reg[t].idx
         \/ Stores(t)
         \/ reg[t].idx < head
         \/ Written(Map(reg[t].idx))
<1> USE DEF IndInv, At
<1>1. /\ reg[t].idx \in Nat /\ CellOf(t) \in Cells /\ Map(reg[t].idx) \in Slots
      /\ CellOf(t).cycle \in Nat /\ Cycle(reg[t].idx) \in Nat /\ head \in Nat
  BY IndexedCell, CellIsRecord, CellOfIndexHolds, Typing DEF CellOfIndex
<1>2. CellOf(t).busy => Written(Map(reg[t].idx))
  BY <1>1 DEF CellInv, BusyOK, CellOf, Held, Written
<1>3. ASSUME Inspect(t)
      PROVE  \/ Storing(t)' /\ reg'[t].idx = reg[t].idx
             \/ reg[t].idx < head
             \/ Written(Map(reg[t].idx))
  <2>1. pc'[t] = Usable(CellOf(t), reg[t].idx) /\ reg'[t].idx = reg[t].idx
    BY <1>3, GoMoves DEF Inspect, TypeOK
  <2>2. CASE CellOf(t).cycle < Cycle(reg[t].idx) /\ ~ CellOf(t).busy
    BY <2>1, <2>2 DEF Usable, Storing
  <2>3. CASE ~ CellOf(t).cycle < Cycle(reg[t].idx)
    BY <1>1, <2>3 DEF FreshInv, CellOf
  <2> QED
    BY <1>2, <2>2, <2>3
<1>4. CASE EnqueueLoad(t)
  BY <1>3, <1>4 DEF EnqueueLoad
<1>5. CASE EnqueueSafe(t)
  BY <1>1, <1>5, GoMoves DEF EnqueueSafe, Storing
<1>6. CASE EnqueueCas(t)
  <2>1. Moves(t)
    BY ActionMoves
  <2>2. Inspect(t) \/ pc'[t] = "enq_reset"
    BY <1>6, GoMoves DEF EnqueueCas
  <2>3. ASSUME pc[t] = "enq_cas", pc'[t] = "enq_reset"
        PROVE  Stores(t)
    BY <2>1, <2>3
       DEF Moves, Away, Inspects, Examines, Leaves, Issues, ClaimsTail, ClaimsHead, Takes,
           Spoils, CatchesUp, Taking, Enqueuing
  <2> QED
    BY <1>3, <1>6, <2>2, <2>3 DEF EnqueueCas
<1> QED
  BY <1>4, <1>5, <1>6
     DEF Action, Enqueue, EnqueueRefresh, EnqueueClaim, EnqueueReset, EnqueueNext, Dequeue,
         DequeueClaim, DequeueLoad, DequeueTake, DequeueCas, DequeueTail, DequeueNone,
         DequeueEmpty, DequeueRetry, CatchupCas, CatchupHead, CatchupTail, Storing

(* The indexes which are claimed stay so, until the head passes them.      *)
LEMMA UsedKeeps ==
  ASSUME IndInv, FreshInv, UsedInv, ThereInv, NEW t \in Threads, Action(t)
  PROVE  UsedInv'
<1> USE DEF IndInv
<1>1. /\ Moves(t) /\ Others(t) /\ head <= head' /\ tail <= tail'
      /\ head \in Nat /\ head' \in Nat /\ tail \in Nat /\ tail' \in Nat
      /\ \A s : Written(s) => Written(s)'
  BY Frame DEF Written
<1> SUFFICES ASSUME NEW j \in Nat, head' <= j, j < tail', ~ Written(Map(j))'
             PROVE  StoringAt(j)'
  BY DEF UsedInv
<1>2. CASE j < tail
  <2>1. StoringAt(j)
    BY <1>1, <1>2 DEF UsedInv
  <2>2. PICK u \in Threads : Storing(u) /\ reg[u].idx = j
    BY <2>1 DEF StoringAt
  <2>3. CASE u # t
    BY <1>1, <2>2, <2>3 DEF Others, StoringAt, Storing
  <2>4. CASE u = t
    <3>1. ASSUME Stores(t)
          PROVE  FALSE
      <4>1. reg[t].ptr \in Values /\ reg[t].idx # 0
        BY <3>1, Pointers, Typing DEF Stores, Enqueuing, LocalInv, LocalOK, Storing
      <4> QED
        BY <2>2, <2>4, <3>1, <4>1 DEF Stores, Written, Stored
    <3>2. ~ reg[t].idx < head
      BY <1>1, <2>2, <2>4
    <3> QED
      BY <1>1, <2>2, <2>4, <3>1, <3>2, GivesUp DEF StoringAt
  <2> QED
    BY <2>3, <2>4
<1>3. CASE ~ j < tail
  <2>1. ClaimsTail(t) \/ CatchesUp(t)
    BY <1>1, <1>3
       DEF Moves, Away, Inspects, Examines, Leaves, Issues, Stores, ClaimsHead, Takes, Spoils,
           Shared
  <2>2. CASE ClaimsTail(t)
    BY <1>1, <1>3, <2>2 DEF ClaimsTail, StoringAt, Storing
  <2>3. CASE CatchesUp(t)
    BY <1>1, <2>3 DEF CatchesUp, ThereInv, ThereOK
  <2> QED
    BY <2>1, <2>2, <2>3
<1> QED
  BY <1>2, <1>3

(* Values are added once.                                                  *)
LEMMA NewKeeps ==
  ASSUME IndInv, NewInv, NEW t \in Threads, Moves(t)
  PROVE  NewInv'
<1> USE DEF IndInv
<1>1. ASSUME NEW u \in Threads \ {t}, pc'[u] = "enq_reset"
      PROVE  reg'[u].ptr \notin added'
  <2>1. pc[u] = "enq_reset" /\ reg'[u] = reg[u] /\ reg[u].ptr \notin added
    BY <1>1, Growth DEF Others, NewInv
  <2>2. added' = added \/ (pc[t] = "enq_reset" /\ added' = added \cup {reg[t].ptr})
    BY DEF Moves, Away, Inspects, Examines, Leaves, Issues, ClaimsTail, Stores, ClaimsHead,
           Takes, Spoils, CatchesUp, Shared
  <2>3. pc[t] = "enq_reset" => reg[t].ptr # reg[u].ptr
    BY <2>1 DEF ClaimInv, Enqueuing
  <2> QED
    BY <2>1, <2>2, <2>3
<1>2. ASSUME pc'[t] = "enq_reset"
      PROVE  reg'[t].ptr \notin added'
  <2>1. Stores(t)
    BY <1>2
       DEF Moves, Away, Inspects, Examines, Leaves, Issues, ClaimsTail, ClaimsHead, Takes,
           Spoils, CatchesUp, Enqueuing
  <2>2. index[reg[t].ptr] = 0
    BY <2>1 DEF Stores, LocalInv, LocalOK, Enqueuing
  <2> QED
    BY <2>1, <2>2 DEF Stores, ClaimInv
<1> QED
  BY <1>1, <1>2 DEF NewInv

(* The invariant of honest answers holds initially, and every step keeps   *)
(* it.                                                                     *)
LEMMA InitIsHonest == Init => HonestInv
<1> SUFFICES ASSUME Init PROVE HonestInv
  OBVIOUS
<1> USE DEF Init
<1>1. n \in Nat \ {0} /\ head = n /\ tail = n
  BY Sizes
<1>2. CreditInv /\ CursorInv /\ ThereInv /\ NewInv
  BY <1>1 DEF CreditInv, CursorInv, ThereInv, ThereOK, NewInv, Dequeuing
<1>3. RoomInv
  <2>1. [u \in Threads |-> 0] \in [Threads -> Nat]
    OBVIOUS
  <2>2. ASSUME NEW last \in [Threads -> Nat], \A u \in Threads : last[u] = 0
        PROVE  RoomOK(last)
    BY <1>1, <2>2 DEF RoomOK, LastOK, ClaimedAhead, Storing
  <2> QED
    BY <2>1, <2>2 DEF RoomInv
<1>4. FreshInv
  <2>1. \A j \in Nat : n <= j => 0 < Cycle(j) /\ Map(j) \in Slots
    BY CellOfIndexHolds DEF CellOfIndex
  <2> QED
    BY <1>1, <2>1 DEF FreshInv, NoCell, Cell
<1>5. UsedInv
  BY <1>1 DEF UsedInv
<1> QED
  BY <1>2, <1>3, <1>4, <1>5 DEF HonestInv

LEMMA StepIsHonest == IndInv /\ HonestInv /\ [Next]_vars => HonestInv'
<1> SUFFICES ASSUME IndInv, HonestInv, [Next]_vars PROVE HonestInv'
  OBVIOUS
<1> USE DEF HonestInv
<1>1. CASE Next
  <2>1. PICK t \in Threads : Action(t)
    BY <1>1 DEF Next, Action
  <2>2. CreditInv' /\ RoomInv'
    BY <2>1, CreditKeeps, RoomKeeps
  <2>3. CursorInv' /\ ThereInv'
    BY <2>1, CursorKeeps, ThereKeeps
  <2>4. FreshInv' /\ UsedInv' /\ NewInv'
    BY <2>1, FreshKeeps, UsedKeeps, NewKeeps, ActionMoves DEF IndInv
  <2> QED
    BY <2>2, <2>3, <2>4
<1>2. CASE UNCHANGED vars
  <2> USE <1>2 DEF vars, ring, history
  <2>1. CreditInv'
    BY DEF CreditInv, InFlight
  <2>2. RoomInv'
    BY DEF RoomInv, RoomOK, LastOK, ClaimedAhead, Storing
  <2>3. CursorInv' /\ ThereInv'
    BY DEF CursorInv, ThereInv, ThereOK
  <2>4. FreshInv' /\ UsedInv' /\ NewInv'
    BY DEF FreshInv, UsedInv, NewInv, Written, Stored, StoringAt, Storing
  <2> QED
    BY <2>1, <2>2, <2>3, <2>4
<1> QED
  BY <1>1, <1>2

(* A dequeue which returns nothing. *)
LEMMA EmptyAnswer ==
  ASSUME IndInv, ThereInv, CreditInv, NEW t \in Threads, Action(t),
         pc[t] \in Dequeuing, pc'[t] = "idle", got' = got
  PROVE  EmptyIsHonest(t)
<1> USE DEF IndInv
<1>1. \A v \in there[t] : v \in added /\ index[v] < head
  <2>1. there[t] \subseteq added
    BY DEF ThereInv, ThereOK
  <2>2. CASE DequeueNone(t) \/ DequeueEmpty(t)
    BY <2>1, <2>2 DEF DequeueNone, DequeueEmpty, At, ThereInv, ThereOK
  <2>3. CASE DequeueRetry(t)
    <3>1. pc[t] = "deq_retry" /\ threshold \in Int
      BY <2>3 DEF DequeueRetry, At, ThresholdInv
    <3>2. threshold <= 0
      BY <2>3, GoMoves DEF DequeueRetry
    <3>3. Cardinality(InFlight) \in Nat /\ Cardinality(InFlight) # 0
      <4>1. InFlight \in SUBSET Threads /\ t \in InFlight
        BY <3>1 DEF InFlight, Dequeuing
      <4>2. InFlight \ {t} \in SUBSET Threads
        BY <4>1
      <4>3. Cardinality(InFlight) \in Nat /\ Cardinality(InFlight \ {t}) \in Nat
        BY <4>1, <4>2, Counting
      <4>4. Cardinality(InFlight \ {t}) = Cardinality(InFlight) - 1
        BY <4>1, Counting
      <4> QED
        BY <4>3, <4>4
    <3>4. \A v \in added : index[v] \in Nat /\ head \in Nat
      BY Typing
    <3> QED
      BY <2>1, <3>1, <3>2, <3>3, <3>4 DEF CreditInv
  <2>4. ~ DequeueTake(t)
    <3> SUFFICES ASSUME DequeueTake(t) PROVE FALSE
      OBVIOUS
    <3>1. CellOf(t).ptr \in Held /\ CellOf(t).ptr \in got'
      BY TakesOwn DEF DequeueTake, At
    <3> QED
      BY <3>1 DEF Held
  <2>5. CASE \/ Dequeue(t) \/ DequeueClaim(t) \/ DequeueLoad(t) \/ DequeueCas(t)
             \/ DequeueTail(t) \/ CatchupCas(t) \/ CatchupHead(t) \/ CatchupTail(t)
    <3>1. Examine(t) => pc'[t] \in {"deq_take", "deq_tail", "deq_cas"}
      BY GoMoves DEF Examine, Outcome
    <3>2. ~ DequeueLoad(t) /\ ~ DequeueCas(t)
      BY <3>1, GoMoves DEF DequeueLoad, DequeueCas
    <3> QED
      BY <2>5, <3>2, GoMoves, ForgetMoves
         DEF Dequeue, DequeueClaim, DequeueTail, CatchupCas, CatchupHead, CatchupTail
  <2>6. ASSUME \/ Enqueue(t) \/ EnqueueRefresh(t) \/ EnqueueClaim(t) \/ EnqueueLoad(t)
               \/ EnqueueSafe(t) \/ EnqueueCas(t) \/ EnqueueReset(t) \/ EnqueueNext(t)
        PROVE  FALSE
    BY <2>6
       DEF Enqueue, EnqueueRefresh, EnqueueClaim, EnqueueLoad, EnqueueSafe, EnqueueCas,
           EnqueueReset, EnqueueNext, At, Dequeuing
  <2> QED
    BY <2>2, <2>3, <2>4, <2>5, <2>6 DEF Action
<1> SUFFICES ASSUME NEW v \in there[t], v \notin got PROVE BeingTaken(v)
  BY DEF EmptyIsHonest
<1>2. v \in Held /\ index[v] < head
  BY <1>1 DEF ClaimInv, Held, Stored, TypeOK
<1>3. Pending(index[v])
  BY <1>2 DEF AheadInv, Settled
<1> QED
  BY <1>3 DEF Pending, Taking, BeingTaken

(* An enqueue which fails: each cell has been written, but for those of    *)
(* the other enqueues on their way.                                        *)
LEMMA FullAnswer ==
  ASSUME IndInv, UsedInv, RoomInv, NewInv, NEW t \in Threads, Action(t),
         pc[t] \in Enqueuing, pc'[t] = "idle", added' = added
  PROVE  Cardinality(Stored) > 2^Order
<1> USE DEF IndInv
<1>1. head + n <= tail /\ ~ Storing(t)
  <2>1. /\ head \in Nat /\ tail \in Nat /\ n \in Nat /\ reg[t].idx \in Nat
        /\ cursor \in [Threads -> Nat]
    BY Typing DEF TypeOK, Indexes
  <2>2. PICK last \in [Threads -> Nat] : RoomOK(last)
    BY DEF RoomInv
  <2>3. LastOK(last, t) /\ last[t] \in Nat
    BY <2>2 DEF RoomOK
  <2>4. CASE EnqueueRefresh(t)
    <3>1. pc[t] = "enq_refresh" /\ reg[t].idx >= head + n
      BY <2>4, GoMoves DEF EnqueueRefresh, At
    <3> QED
      BY <2>1, <2>3, <3>1 DEF LastOK, Storing
  <2>5. CASE EnqueueNext(t)
    <3>1. pc[t] = "enq_next" /\ reg[t].idx + 1 >= cursor'[t] + n
      BY <2>5, GoMoves DEF EnqueueNext, At
    <3>2. reg[t].idx + 1 >= head + n
      BY <2>1, <2>5, <3>1 DEF EnqueueNext
    <3>3. reg[t].idx < tail
      BY <2>3, <3>1 DEF LastOK
    <3> QED
      BY <2>1, <3>1, <3>2, <3>3 DEF Storing
  <2>6. CASE EnqueueReset(t)
    <3>1. reg[t].ptr \in added' /\ pc[t] = "enq_reset"
      BY <2>6 DEF EnqueueReset, At
    <3> QED
      BY <3>1 DEF NewInv
  <2>7. CASE \/ Enqueue(t) \/ EnqueueClaim(t) \/ EnqueueLoad(t) \/ EnqueueSafe(t)
             \/ EnqueueCas(t)
    <3>1. Inspect(t) => pc'[t] # "idle"
      BY GoMoves DEF Inspect, Usable
    <3>2. ~ EnqueueLoad(t)
      BY <3>1 DEF EnqueueLoad
    <3>3. ~ Go(t, "enq_reset")
      BY GoMoves
    <3>4. ~ EnqueueCas(t)
      BY <3>1, <3>3 DEF EnqueueCas
    <3> QED
      BY <2>7, <3>2, <3>4, GoMoves DEF Enqueue, EnqueueClaim, EnqueueSafe
  <2> QED
    BY <2>4, <2>5, <2>6, <2>7
       DEF Action, At, Enqueuing, Dequeue, DequeueClaim, DequeueLoad, DequeueTake,
           DequeueCas, DequeueTail, DequeueNone, DequeueEmpty, DequeueRetry, CatchupCas,
           CatchupHead, CatchupTail
<1> DEFINE W == head .. head + n - 1
           Q == {j \in W : Written(Map(j))}
           P == W \ Q
           others == Threads \ {t}
<1>2. IsFiniteSet(W) /\ Cardinality(W) = n
  <2>1. head \in Int /\ head + n - 1 \in Int /\ ~ head > head + n - 1
    BY Typing
  <2>2. IsFiniteSet(W) /\ Cardinality(W) = (head + n - 1) - head + 1
    BY <2>1, FS_Interval
  <2> QED
    BY <2>2, Typing
<1>3. IsFiniteSet(others) /\ Cardinality(others) = Cardinality(Threads) - 1
  BY Sizes, FS_RemoveElement
<1>4. IsFiniteSet(Stored)
  <2>1. Stored \subseteq 1..MaxCalls /\ IsFiniteSet(1..MaxCalls)
    BY Sizes, FS_Interval DEF Stored, Values
  <2> QED
    BY <2>1, FS_Subset
<1>5. Cardinality(Q) <= Cardinality(Stored) /\ IsFiniteSet(Q)
  <2> DEFINE f == [j \in Q |-> CHOOSE v \in Stored : Map(index[v]) = Map(j)]
  <2>1. \A j \in Q : f[j] \in Stored /\ Map(index[f[j]]) = Map(j)
    BY DEF Written
  <2>2. \A i, j \in Q : Map(i) = Map(j) => i = j
    <3> SUFFICES ASSUME NEW i \in Q, NEW j \in Q, Map(i) = Map(j), i < j
                 PROVE  FALSE
      BY Typing
    <3>1. i + n <= j
      BY Typing, OrderedHolds DEF Ordered
    <3> QED
      BY <3>1, Typing
  <2> HIDE DEF f, Q
  <2>3. f \in [Q -> Stored]
    BY <2>1 DEF f
  <2>4. f \in Injection(Q, Stored)
    BY <2>1, <2>2, <2>3 DEF Injection, IsInjective
  <2> QED
    BY <1>4, <2>4, FS_Injection
<1>6. Cardinality(P) <= Cardinality(others) /\ IsFiniteSet(P)
  <2>1. \A j \in P : \E u \in others : reg[u].idx = j
    BY <1>1, Typing DEF UsedInv, StoringAt
  <2> DEFINE f == [j \in P |-> CHOOSE u \in others : reg[u].idx = j]
  <2>2. \A j \in P : f[j] \in others /\ reg[f[j]].idx = j
    BY <2>1
  <2> HIDE DEF f, P
  <2>3. f \in [P -> others]
    BY <2>2 DEF f
  <2>4. f \in Injection(P, others)
    BY <2>2, <2>3 DEF Injection, IsInjective
  <2> QED
    BY <1>3, <2>4, FS_Injection
<1>7. n <= Cardinality(Q) + Cardinality(P)
  <2>1. W = Q \cup P /\ Q \cap P = {}
    OBVIOUS
  <2> HIDE DEF W, Q, P
  <2>2. Cardinality(W) = Cardinality(Q) + Cardinality(P) - Cardinality({})
    BY <1>5, <1>6, <2>1, FS_Union
  <2> QED
    BY <1>2, <1>5, <1>6, <2>2, FS_EmptySet, FS_CardinalityType
<1> HIDE DEF W, P, Q, others
<1>8. /\ Cardinality(Q) \in Nat /\ Cardinality(P) \in Nat /\ Cardinality(Stored) \in Nat
      /\ Cardinality(Threads) \in Nat /\ Cardinality(Threads) <= 2^Order
      /\ 2^Order \in Nat /\ n = 2 * 2^Order
  BY <1>4, <1>5, <1>6, FS_CardinalityType, RingAssumption, PowersAssumption, Sizes
<1> QED
  BY <1>3, <1>5, <1>6, <1>7, <1>8

(* At any time the threshold, the head, the tail and the cells justify the *)
(* answer of each call which is about to fail (the tests of threshold and  *)
(* of tail in __evl_ringptr_enqueue and __evl_ringptr_dequeue).            *)
THEOREM RingAnswers == Spec => []HonestInv
<1>1. Init => HonestInv
  BY InitIsHonest
<1>2. IndInv /\ HonestInv /\ [Next]_vars => HonestInv'
  BY StepIsHonest
<1> QED
  BY <1>1, <1>2, RingInvariant, PTL DEF Spec

(* A dequeue which finds nothing did not overlook a value that was in the  *)
(* ring when it began: 2n-1 attempts reach any of them                     *)
(* (__evl_ringptr_threshold4).  An enqueue does not fail before more than  *)
(* 2^order values were stored: those of ring-spray.c all get in.           *)
THEOREM AnswersAreHonest == Spec => StatusIsHonest
<1> DEFINE Honest ==
      \A t \in Threads : pc'[t] = "idle" =>
        /\ pc[t] \in Dequeuing /\ got' = got => EmptyIsHonest(t)
        /\ pc[t] \in Enqueuing /\ added' = added => Cardinality(Stored) > 2^Order
<1>1. IndInv /\ HonestInv /\ Next => Honest
  <2> SUFFICES ASSUME IndInv, HonestInv, Next, NEW t \in Threads, pc'[t] = "idle"
               PROVE  /\ pc[t] \in Dequeuing /\ got' = got => EmptyIsHonest(t)
                      /\ pc[t] \in Enqueuing /\ added' = added =>
                            Cardinality(Stored) > 2^Order
    OBVIOUS
  <2>1. PICK u \in Threads : Action(u)
    BY DEF Next, Action
  <2>2. u # t => pc[t] = "idle"
    BY <2>1, Frame DEF Others
  <2>3. CASE u = t
    BY <2>1, <2>3, EmptyAnswer, FullAnswer DEF HonestInv
  <2> QED
    BY <2>2, <2>3 DEF Dequeuing, Enqueuing
<1>2. IndInv /\ HonestInv /\ [Next]_vars => [Honest]_vars
  BY <1>1
<1> QED
  BY <1>2, RingInvariant, RingAnswers, PTL DEF Spec, StatusIsHonest
=============================================================================
