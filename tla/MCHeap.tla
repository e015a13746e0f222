------------------------------- MODULE MCHeap -------------------------------
(***************************************************************************)
(* Model checking of Heap and RangeTrees, side by side: the initial state  *)
(* picks which of them runs, the heap, with pages of 2 or 3 blocks, or the *)
(* page pool of one extent, whose nodes are page numbers.  The other stays *)
(* as it is initially.                                                     *)
(***************************************************************************)
EXTENDS Heap

CONSTANTS half, third,
    PoolSize,              \* pages of the pool
    MaxHeight, Requests    \* see Avl and RangeTrees

VARIABLES part, size, size_tree, addr_tree, busy

pool == <<size, size_tree, addr_tree, busy>>
Pool == INSTANCE RangeTrees WITH Nodes <- 0..PoolSize-1, Nil <- -1, Anchor <- PoolSize

ASSUME PoolAssumption == PoolSize \in Nat \ {0} /\ Pool!RangeTreesConstants

Both == {half, third}
Counts == [b \in Buckets |-> IF b = half THEN 2 ELSE 3]

MCInit == Init /\ Pool!Init /\ part \in {"heap", "pool"}

MCNext ==
    /\ \/ part = "heap" /\ Next /\ UNCHANGED pool
       \/ part = "pool" /\ Pool!Next /\ UNCHANGED vars
    /\ UNCHANGED part

MCSpec == MCInit /\ [][MCNext]_<<part, vars, pool>>

(* The properties of the pool, by names of this module: both trees are AVL *)
(* trees after any operation, links included (avl_insert, avl_delete...),  *)
(* and hold the same ranges in their order, ...                            *)
PoolTreesAreSound ==
    part = "pool" => Pool!TypeOK /\ Pool!TreesAreBalanced /\ Pool!TreesAreOrdered

(* ... and they implement the set of ranges which the heap works on        *)
(* (reserve_page_range, release_page_range).                               *)
PoolImplements == Pool!Implements
=============================================================================
