----------------------------- MODULE RangeTrees -----------------------------
(***************************************************************************)
(* The page pool of an extent (src/lib/heap.c): free ranges of pages are   *)
(* indexed by two AVL trees, by size and by address, whose nodes lie in    *)
(* the free memory itself, in the first page of each range.                *)
(***************************************************************************)
EXTENDS Ranges, Avl

CONSTANT Requests       \* how many pages a program asks for

Pages == Nodes
RangeTreesConstants ==
    /\ AvlConstants
    /\ Pages = 0..Cardinality(Pages)-1 /\ Pages # {} /\ Requests \subseteq Nat \ {0}

VARIABLES
    size,       \* the size in the descriptor of the free range of each page, or 0
    size_tree, addr_tree,
    busy        \* history: the ranges which are in use

vars == <<size, size_tree, addr_tree, busy>>

(* compare_range_by_size(), compare_range_by_addr(): a key against the nodes. *)
BySize(n) == [h \in Nodes |-> Sign(n, size[h])]
ByAddr(pg) == [h \in Nodes |-> Sign(pg, h)]

(* Mutant: a range of the very size asked for is passed over. *)
FindSuitableLarger(n) ==
    Nearest(size_tree, [h \in Nodes |-> IF size[h] > n THEN Left ELSE Right], Right)

(* find_suitable_range(): Nil if no range is large enough. *)
FindSuitable(n) == Nearest(size_tree, BySize(n), Right)

(* The node goes to the tree of sizes, after those of the same size. *)
IndexSize(T, node, n) == InsertBack(InitNode(T, node), node, BySize(n))

(* add_extent(): one range, all pages. *)
Init ==
    /\ size = [pg \in Pages |-> IF pg = 0 THEN Cardinality(Pages) ELSE 0]
    /\ size_tree = IndexSize(EmptyTree, 0, Cardinality(Pages))
    /\ addr_tree = Prepend(InitNode(EmptyTree, 0), 0)
    /\ busy = {}

Pool(sizes, by_size, by_addr) ==
    [size |-> sizes, size_tree |-> by_size, addr_tree |-> by_addr]

(* reserve_page_range(): take the whole range new, or the upper part of a   *)
(* larger one, which keeps its address and is indexed anew by size.         *)
PoolWithout(new, rest) ==
    LET others == Delete(size_tree, new)
        sizes == [size EXCEPT ![new] = rest]
    IN IF rest = 0 THEN Pool(sizes, others, Delete(addr_tree, new))
       ELSE Pool(sizes, IndexSize(others, new, rest), addr_tree)

Mergeable(left, n, right) == left + n = right

(* release_page_range(): merge the n pages at pg with the range which ends  *)
(* where they start, then with the one which starts where they end.         *)
PoolWith(pg, n) ==
    LET cmp == ByAddr(pg)
        left == Nearest(addr_tree, cmp, Left)
        linked == left # Nil /\ Mergeable(left, size[left], pg)
        freed == IF linked THEN left ELSE pg
        size1 == IF linked THEN size[left] + n ELSE n
        right == IF linked THEN Inorder(addr_tree, left, Right)
                 ELSE Nearest(addr_tree, cmp, Right)
        merged == right # Nil /\ Mergeable(freed, size1, right)
        size2 == IF merged THEN size1 + size[right] ELSE size1
        T1 == IF linked THEN Delete(size_tree, left) ELSE size_tree
        T2 == IF merged THEN Delete(T1, right) ELSE T1
        init == InitNode(addr_tree, freed)
        by_addr ==
          IF merged /\ linked THEN Delete(addr_tree, right)
          ELSE IF merged THEN Replace(addr_tree, right, freed)
          ELSE IF linked THEN addr_tree
          ELSE IF left # Nil THEN Insert(init, freed, cmp)
          ELSE Prepend(init, freed)
        sizes == [h \in Pages |-> IF h = freed THEN size2
                                  ELSE IF merged /\ h = right THEN 0 ELSE size[h]]
    IN Pool(sizes, IndexSize(T2, freed, size2), by_addr)

BecomePool(P) ==
    size' = P.size /\ size_tree' = P.size_tree /\ addr_tree' = P.addr_tree

Reserve(n) ==
    \E new \in {FindSuitable(n)} \ {Nil} :
        /\ BecomePool(PoolWithout(new, size[new] - n))
        /\ busy' = busy \cup {PageRange(new + size[new] - n, n)}

Release(b) ==
    /\ BecomePool(PoolWith(b.start, b.size))
    /\ busy' = busy \ {b}

Next == (\E n \in Requests : Reserve(n)) \/ (\E b \in busy : Release(b))

Spec == Init /\ [][Next]_vars

-----------------------------------------------------------------------------
TreeType ==
    [link : [Nodes \cup {Anchor} -> [{Left, Up, Right} -> Nodes \cup {Anchor, Nil}]],
     type : [Nodes \cup {Anchor} -> {Left, Up, Right}],
     bal : [Nodes \cup {Anchor} -> -1..1 \cup {Junk}],
     end : [Sides -> Nodes \cup {Nil}],
     count : 0..Cardinality(Nodes), height : 0..Cardinality(Nodes)]

TypeOK ==
    /\ size \in [Pages -> 0..Cardinality(Pages)]
    /\ size_tree \in TreeType /\ addr_tree \in TreeType
    /\ busy \subseteq [start : Pages, size : Requests]

(* However ranges are split and merged, both trees stay AVL trees: links    *)
(* both ways agree, no subtree is more than a level higher than its         *)
(* sibling, and the stored balances and heights are the real ones           *)
(* (avl_insert_inner, avl_delete, avlh_rebalance).                          *)
TreesAreBalanced ==
    \A T \in {size_tree, addr_tree} : Linked(T) /\ Balanced(T)

(* Both trees index the same ranges, and following them in order meets      *)
(* each range once, by increasing address or size, from one end of the tree *)
(* to the other (avl_inorder, and the heads and tails avl_delete updates).  *)
TreesAreOrdered ==
    /\ InTree(addr_tree) = InTree(size_tree)
    /\ Ordered(addr_tree, LAMBDA g, h : g + size[g] < h)
    /\ Ordered(size_tree, LAMBDA g, h : size[g] <= size[h])

(* The trees do what the heap expects from its page pool: the smallest      *)
(* range which fits is split, a freed one merges with both neighbours       *)
(* (reserve_page_range, release_page_range).                                *)
FreeRanges == {PageRange(pg, size[pg]) : pg \in InTree(addr_tree)}
Abs == INSTANCE AbsRanges WITH PageCount <- Cardinality(Pages), free <- FreeRanges
Implements == Abs!Spec
=============================================================================
