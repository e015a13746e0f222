-------------------------------- MODULE Avl --------------------------------
(***************************************************************************)
(* The AVL trees of the heap (src/lib/heap.c): nodes linked to their       *)
(* parent and children, which know on which side of their parent they are  *)
(* and by how much their right subtree is higher than their left one.  The *)
(* tree hangs from the right of an anchor.  Trees are values here, every   *)
(* operation returns the tree it makes.                                    *)
(***************************************************************************)
EXTENDS Integers, FiniteSets

CONSTANTS
    Nodes,          \* what may be linked to a tree: the pages of an extent
    MaxHeight,      \* bound: levels of a tree, and one more
    Anchor, Nil

(* The fewest nodes of an AVL tree of a height. *)
Fewest[h \in 0..MaxHeight+1] ==
    IF h < 2 THEN h ELSE Fewest[h-1] + Fewest[h-2] + 1

AvlConstants ==
    /\ IsFiniteSet(Nodes) /\ Anchor \notin Nodes /\ Nil \notin Nodes
    /\ MaxHeight \in Nat /\ Cardinality(Nodes) < Fewest[MaxHeight+1]

Left == -1
Up == 0
Right == 1
Sides == {Left, Right}
Opp(side) == -side
Sign(a, b) == IF a > b THEN 1 ELSE IF a < b THEN -1 ELSE 0
Depth == 0..MaxHeight

NoLinks == [d \in {Left, Up, Right} |-> Nil]
Junk == 2       \* a balance found in program memory: a node out of the tree

(* avl_init() *)
EmptyTree ==
    [link |-> [h \in Nodes \cup {Anchor} |-> NoLinks],
     type |-> [h \in Nodes \cup {Anchor} |-> Up],
     bal |-> [h \in Nodes \cup {Anchor} |-> IF h = Anchor THEN 0 ELSE Junk],
     end |-> [s \in Sides |-> Nil],
     count |-> 0, height |-> 0]

Top(T) == T.link[Anchor][Right]
Child(T, h, side) == T.link[h][side]
Parent(T, h) == T.link[h][Up]

-----------------------------------------------------------------------------
(* Searching *)

(* A loop of at most MaxHeight steps from a node. *)
Walk(next, h) ==
    LET at[k \in Depth] == IF k = 0 THEN h ELSE next[at[k-1]] IN at[MaxHeight]

(* DECLARE_AVL_SEARCH: go down from the top, cmp[h] tells on which side of *)
(* node h the key is; at an equal one, stop if dir is 0 or go on there.    *)
Search(T, cmp, dir) ==
    LET toward(h) == IF cmp[h] = 0 THEN dir ELSE cmp[h]
        down == [h \in Nodes |->
                   IF toward(h) = 0 \/ Child(T, h, toward(h)) = Nil THEN h
                   ELSE Child(T, h, toward(h))]
        found == Walk(down, Top(T))
    IN IF Top(T) = Nil THEN [holder |-> Nil, delta |-> Right]
       ELSE [holder |-> found, delta |-> cmp[found]]

(* avl_inorder(): the next node on that side, Nil after the last one. *)
Inorder(T, h, dir) ==
    LET down == [g \in Nodes |->
                   IF Child(T, g, Opp(dir)) = Nil THEN g ELSE Child(T, g, Opp(dir))]
        up == [g \in Nodes \cup {Anchor} |->
                 IF g = Anchor \/ T.type[g] # dir THEN g ELSE Parent(T, g)]
        last == Walk(up, h)
    IN IF Child(T, h, dir) # Nil THEN Walk(down, Child(T, h, dir))
       ELSE IF last = Anchor \/ Parent(T, last) = Anchor THEN Nil
       ELSE Parent(T, last)

(* avl_search_nearest(): the node itself, else the nearest one on a side. *)
Nearest(T, cmp, dir) ==
    LET s == Search(T, cmp, 0)
    IN IF s.holder = Nil \/ s.delta # dir THEN s.holder ELSE Inorder(T, s.holder, dir)

-----------------------------------------------------------------------------
(* Balancing *)

Adopt(T, h, side, child) ==
    IF child = Nil THEN [T EXCEPT !.link[h][side] = Nil]
    ELSE [T EXCEPT !.link[h][side] = child, !.link[child][Up] = h, !.type[child] = side]

(* avlh_rotate(): the child opposite to dir takes the place of h. *)
Rotate(T, h, dir) ==
    LET nexttop == Child(T, h, Opp(dir))
        T1 == Adopt(T, h, Opp(dir), Child(T, nexttop, dir))
        T2 == Adopt(T1, Parent(T, h), T.type[h], nexttop)
    IN Adopt(T2, nexttop, dir, h)

(* avlh_rebalance(): the subtree of h is two levels higher on side delta. *)
Rebalance(T, h, delta) ==
    LET heavy == Child(T, h, delta)
        inner == Child(T, heavy, Opp(delta))
        dir == IF T.bal[inner] = 0 THEN Right ELSE T.bal[inner]
        T1 == Rotate(T, h, Opp(delta))
        T2 == Rotate(Rotate(T, heavy, delta), h, Opp(delta))
    IN IF T.bal[heavy] = -delta
         THEN [node |-> inner,
               tree |-> [T2 EXCEPT !.bal[Child(T2, inner, dir)] = 0,
                                   !.bal[Child(T2, inner, Opp(dir))] = -T.bal[inner],
                                   !.bal[inner] = 0]]
         ELSE [node |-> heavy,
               tree |-> [T1 EXCEPT !.bal[h] = @ - T.bal[heavy], !.bal[heavy] = @ - delta]]

(* avlh_balance_add() *)
BalanceAdd(T, h, delta) ==
    IF T.bal[h] = delta THEN Rebalance(T, h, delta)
    ELSE [node |-> h, tree |-> [T EXCEPT !.bal[h] = @ + delta]]

(* The loops of avl_insert_inner() and avl_delete(), which climb while the *)
(* subtree of a node has become higher (sign 1), or lower (sign -1).       *)
Climb(T, h, sign) ==
    LET settled(s) == s.node = Anchor \/ (s.tree.bal[s.node] # 0) # (sign = 1)
        step[k \in Depth] ==
          IF k = 0 THEN [node |-> h, tree |-> T]
          ELSE LET s == step[k-1]
                   up == Parent(s.tree, s.node)
                   delta == sign * s.tree.type[s.node]
               IN IF settled(s) THEN s
                  ELSE IF up = Anchor
                    THEN [node |-> up, tree |-> [s.tree EXCEPT !.height = @ + sign]]
                    ELSE BalanceAdd(s.tree, up, delta)
    IN step[MaxHeight].tree

-----------------------------------------------------------------------------
(* Insertion *)

(* Mutant: the node keeps the balance found in its memory. *)
InitNodeNot(T, node) == T

(* avlh_init() *)
InitNode(T, node) == [T EXCEPT !.bal[node] = 0, !.type[node] = Up]

(* avl_insert_inner(): attach the node to its parent. *)
InsertInner(T, parent, node, side) ==
    LET attached == [Adopt(T, IF parent = Nil THEN Anchor ELSE parent, side, node)
                       EXCEPT !.count = @ + 1]
    IN IF parent = Nil
         THEN [attached EXCEPT !.end = [s \in Sides |-> node], !.height = @ + 1]
         ELSE Climb([attached EXCEPT !.end[side] = IF @ = parent THEN node ELSE @,
                                     !.bal[parent] = @ + side], parent, 1)

(* avl_insert(): no other node has this key. *)
Insert(T, node, cmp) ==
    LET s == Search(T, cmp, 0) IN InsertInner(T, s.holder, node, s.delta)

(* avl_insert_back(): after the nodes which have the same key. *)
InsertBack(T, node, cmp) ==
    LET s == Search(T, cmp, Right)
    IN InsertInner(T, s.holder, node, IF s.delta = 0 THEN Right ELSE s.delta)

(* avl_prepend(): before all others. *)
Prepend(T, node) ==
    InsertInner(T, T.end[Left], node, IF T.end[Left] = Nil THEN Right ELSE Left)

-----------------------------------------------------------------------------
(* Deletion *)

(* The memory of a node which has left the tree may be overwritten. *)
Forgotten(T, node) ==
    [T EXCEPT !.link[node] = NoLinks, !.type[node] = Up, !.bal[node] = Junk]

(* avlh_replace(): a node takes over the links of another one. *)
TakeOver(T, old, new) ==
    LET T1 == Adopt(T, Parent(T, old), T.type[old], new)
        T2 == Adopt(T1, new, Left, Child(T, old, Left))
    IN Adopt(T2, new, Right, Child(T, old, Right))

MoveEnd(T, side, old, new) == [T EXCEPT !.end[side] = IF @ = old THEN new ELSE @]

(* avl_replace() *)
Replace(T, old, new) ==
    LET T1 == [TakeOver(T, old, new) EXCEPT !.bal[new] = T.bal[old]]
    IN Forgotten(MoveEnd(MoveEnd(T1, Left, old, new), Right, old, new), old)

(* avl_delete_leaf() *)
DeleteLeaf(T, node) ==
    LET side == T.type[node]
        T1 == [T EXCEPT !.link[Parent(T, node)][side] = Nil]
    IN Climb(MoveEnd(T1, side, node, Parent(T, node)), node, -1)

(* avl_delete_1child(): the child, a leaf, replaces the node. *)
DeleteOneChild(T, node, dir) ==
    LET new == Child(T, node, dir)
        T1 == TakeOver([T EXCEPT !.link[node][dir] = Child(T, new, dir)], node, new)
    IN Climb(MoveEnd(T1, Opp(dir), node, new), new, -1)

(* avl_delete() of a node with one child at most. *)
DeleteOuter(T, node) ==
    LET T1 == [T EXCEPT !.count = @ - 1]
    IN IF T1.count = 0
         THEN [T1 EXCEPT !.link[Anchor][Right] = Nil, !.end = [s \in Sides |-> Nil],
                         !.height = @ - 1]
         ELSE IF Child(T, node, Left) = Nil /\ Child(T, node, Right) = Nil
           THEN DeleteLeaf(T1, node)
           ELSE DeleteOneChild(T1, node, IF Child(T, node, Left) = Nil THEN Right ELSE Left)

(* avl_delete(); avl_delete_2children() deletes the next or previous node, *)
(* which takes the place the node then has.                                *)
Delete(T, node) ==
    IF Child(T, node, Left) = Nil \/ Child(T, node, Right) = Nil
      THEN Forgotten(DeleteOuter(T, node), node)
      ELSE LET dir == IF T.bal[node] = 0 THEN Right ELSE T.bal[node]
               new == Inorder(T, node, dir)
               T1 == DeleteOuter(T, new)
               T2 == [TakeOver(T1, node, new) EXCEPT !.bal[new] = T1.bal[node]]
           IN Forgotten(MoveEnd(T2, dir, node, new), node)

-----------------------------------------------------------------------------
(* What a tree should be *)

InTree(T) ==
    LET level[k \in Depth] ==
          IF k = 0 THEN {Top(T)}
          ELSE LET seen == level[k-1]
               IN seen \cup {Child(T, h, s) : h \in seen \ {Nil}, s \in Sides}
    IN level[MaxHeight] \ {Nil}

Height(T) ==
    LET ht[k \in Depth] ==
          IF k = 0 THEN [h \in Nodes \cup {Nil} |-> 0]
          ELSE LET below == ht[k-1]
                   higher(l, r) == IF l > r THEN l ELSE r
               IN [h \in Nodes \cup {Nil} |->
                     IF h = Nil THEN 0
                     ELSE 1 + higher(below[Child(T, h, Left)], below[Child(T, h, Right)])]
    IN ht[MaxHeight]

(* The links are those of a tree, the number of nodes is right. *)
Linked(T) ==
    /\ T.count = Cardinality(InTree(T))
    /\ \A h \in InTree(T) : T.link[Parent(T, h)][T.type[h]] = h
    /\ \A h \in InTree(T), s \in Sides : Child(T, h, s) # Nil =>
         Parent(T, Child(T, h, s)) = h /\ T.type[Child(T, h, s)] = s

(* The two subtrees of a node differ by one level at most, and the node    *)
(* knows by how much.                                                      *)
Balanced(T) ==
    LET ht == Height(T) IN
    /\ T.height = ht[Top(T)]
    /\ \A h \in InTree(T) :
         /\ T.bal[h] \in -1..1
         /\ T.bal[h] = ht[Child(T, h, Right)] - ht[Child(T, h, Left)]

(* Going through the tree meets each node once, in order.  Less(g, h) is   *)
(* what two neighbours must satisfy.                                       *)
Ordered(T, Less(_, _)) ==
    /\ \A h \in InTree(T) :
         LET next == Inorder(T, h, Right)
             prev == Inorder(T, h, Left)
         IN /\ IF next = Nil THEN h = T.end[Right] ELSE Less(h, next) /\ Inorder(T, next, Left) = h
            /\ IF prev = Nil THEN h = T.end[Left] ELSE Inorder(T, prev, Right) = h
    /\ Top(T) = Nil => T.end[Left] = Nil /\ T.end[Right] = Nil
=============================================================================
