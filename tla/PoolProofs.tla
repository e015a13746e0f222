----------------------------- MODULE PoolProofs -----------------------------
(***************************************************************************)
(* Proofs about the page pool of the heap (module RangeTrees, part of      *)
(* MCHeap), for any number of pages: reserve_page_range() and              *)
(* release_page_range() keep the two AVL trees balanced, ordered and in    *)
(* agreement about which pages are free, and together do what AbsRanges    *)
(* asks of them.  Most of it is about the AVL trees of the heap (Avl):     *)
(* what their insertion, deletion and rebalancing keep.                    *)
(***************************************************************************)
EXTENDS MCHeap, FiniteSetTheorems, FunctionTheorems, TLAPS

-----------------------------------------------------------------------------
(* The page pool of an extent: its trees. *)

(* Pages, places of the two tables of a tree (PoolSize is the anchor),   *)
(* what a link may be, the three links and the two sides.                *)
Pg == 0..(PoolSize - 1)
Slots == 0..PoolSize
Some == -1..PoolSize
Links == {-1, 0, 1}
Sd == {-1, 1}

(* Records with the fields of a tree, of any counts and heights. *)
Trees ==
    [link : [Slots -> [Links -> Some]], type : [Slots -> Links], bal : [Slots -> Int],
     end : [Sd -> Some], count : Int, height : Int]

(* The pool has pages. *)
LEMMA PoolHasPages == PoolSize \in Nat \ {0}
BY PoolAssumption

(* A tree with a new child c of h on side s (Adopt), c knowing its       *)
(* parent.                                                               *)
Relinked(A, T, h, s, c) ==
    /\ A \in Trees
    /\ A.bal = T.bal /\ A.end = T.end /\ A.count = T.count /\ A.height = T.height
    /\ \A x \in Slots, d \in Links :
         A.link[x][d] = IF x = h /\ d = s THEN c ELSE IF x = c /\ d = 0 THEN h ELSE T.link[x][d]
    /\ \A x \in Slots : A.type[x] = IF x = c THEN s ELSE T.type[x]

(* The fields of a tree have their types. *)
LEMMA Fields ==
  ASSUME NEW T \in Trees
  PROVE  /\ T.link \in [Slots -> [Links -> Some]] /\ T.type \in [Slots -> Links]
         /\ T.bal \in [Slots -> Int] /\ T.end \in [Sd -> Some] /\ T.count \in Int /\ T.height \in Int
BY DEF Trees

(* Linking a child, or none, to a node (avlh_link_child and the          *)
(* assignments around it) changes the link down, the link up and the     *)
(* side only.                                                            *)
LEMMA Adopted ==
  ASSUME NEW T \in Trees, NEW h \in Slots, NEW s \in Sd, NEW c \in -1..(PoolSize-1), c # h
  PROVE  Relinked(Pool!Adopt(T, h, s, c), T, h, s, c)
<1>0. /\ s \in Links /\ 0 \in Links /\ s # 0
      /\ c \in Some /\ h \in Some
      /\ c # -1 => c \in Slots
  BY PoolHasPages DEF Slots, Links, Sd, Some
<1> DEFINE A == Pool!Adopt(T, h, s, c)
           L1 == [T.link EXCEPT ![h] = [@ EXCEPT ![s] = c]]
<1>1. /\ L1 \in [Slots -> [Links -> Some]]
      /\ \A x \in Slots, d \in Links : L1[x][d] = IF x = h /\ d = s THEN c ELSE T.link[x][d]
  BY <1>0, Fields
<1>2. CASE c = -1
  <2>1. A = [T EXCEPT !.link = L1]
    BY <1>2 DEF Pool!Adopt
  <2>2. /\ A \in Trees /\ A.link = L1 /\ A.type = T.type
        /\ A.bal = T.bal /\ A.end = T.end /\ A.count = T.count /\ A.height = T.height
    <3> HIDE DEF L1, A
    <3> QED BY <2>1, <1>1 DEF Trees
  <2> HIDE DEF L1, A
  <2>3. \A x \in Slots : x # c
    BY <1>2 DEF Slots
  <2>4. Relinked(A, T, h, s, c)
    BY <2>2, <2>3, <1>1 DEF Relinked
  <2> QED BY <2>4 DEF A
<1>3. CASE c # -1
  <2> DEFINE L2 == [L1 EXCEPT ![c] = [@ EXCEPT ![0] = h]]
             Y == [T.type EXCEPT ![c] = s]
  <2>1. A = [T EXCEPT !.link = L2, !.type = Y]
    <3>1. A = [T EXCEPT !.link[h][s] = c, !.link[c][0] = h, !.type[c] = s]
      BY <1>3 DEF Pool!Adopt, Pool!Up
    <3> QED BY <3>1
  <2>3. /\ L2 \in [Slots -> [Links -> Some]]
        /\ \A x \in Slots, d \in Links : L2[x][d] = IF x = c /\ d = 0 THEN h ELSE L1[x][d]
    <3> HIDE DEF L1
    <3> QED BY <1>0, <1>1, <1>3
  <2>4. /\ Y \in [Slots -> Links]
        /\ \A x \in Slots : Y[x] = IF x = c THEN s ELSE T.type[x]
    BY <1>0, <1>3, Fields
  <2>5. /\ A \in Trees /\ A.link = L2 /\ A.type = Y
        /\ A.bal = T.bal /\ A.end = T.end /\ A.count = T.count /\ A.height = T.height
    <3> HIDE DEF L1, L2, Y, A
    <3> QED BY <2>1, <2>3, <2>4 DEF Trees
  <2> HIDE DEF L1, L2, Y, A
  <2>6. Relinked(A, T, h, s, c)
    BY <2>5, <2>3, <2>4, <1>1, <1>0, <1>3 DEF Relinked
  <2> QED BY <2>6 DEF A
<1> QED BY <1>2, <1>3

-----------------------------------------------------------------------------
(* The shape of a tree. *)

(* The nodes N of a tree in their order: pos is the place of a node, 1   *)
(* to n, E[s][h] the place of the last node on side s below h.           *)
Ranks(N, n, pos, E) ==
    /\ N \in SUBSET Pg /\ n \in Nat
    /\ pos \in [N -> 1..n] /\ E \in [Sd -> [N -> 1..n]]
    /\ \A h \in N : E[-1][h] <= pos[h] /\ pos[h] <= E[1][h]
    /\ \A g, h \in N : pos[g] = pos[h] => g = h
    /\ \A i \in 1..n : \E h \in N : pos[h] = i

(* The child of h on side s begins next to h and ends where h ends. *)
Below(L, Y, N, pos, E, h, s) ==
    /\ L[h][s] \in N /\ L[L[h][s]][0] = h /\ Y[L[h][s]] = s
    /\ E[s][L[h][s]] = E[s][h] /\ E[-s][L[h][s]] = pos[h] + s

(* There is no child, and nothing below on that side, or it is in its    *)
(* place.                                                                *)
Kid(L, Y, N, pos, E, h, s) ==
    \/ L[h][s] = -1 /\ E[s][h] = pos[h]
    \/ Below(L, Y, N, pos, E, h, s)

(* A node is the child its parent and its side say (avl_parent,          *)
(* avl_type).                                                            *)
Above(L, Y, N, h) ==
    /\ Y[h] \in Sd /\ L[h][0] \in N \cup {PoolSize} /\ L[L[h][0]][Y[h]] = h
    /\ L[h][0] = PoolSize => Y[h] = 1

(* The anchor has the top of the tree as its right child. *)
Rooted(L, Y, N, n, E) ==
    /\ L[PoolSize][-1] = -1
    /\ IF n = 0 THEN L[PoolSize][1] = -1
       ELSE /\ L[PoolSize][1] \in N
            /\ L[L[PoolSize][1]][0] = PoolSize /\ Y[L[PoolSize][1]] = 1
            /\ E[-1][L[PoolSize][1]] = 1 /\ E[1][L[PoolSize][1]] = n

(* The links L and sides Y make N one tree, in the order pos. *)
Shape(L, Y, N, n, pos, E) ==
    /\ Ranks(N, n, pos, E)
    /\ \A h \in N, s \in Sd : Kid(L, Y, N, pos, E, h, s)
    /\ \A h \in N : Above(L, Y, N, h)
    /\ Rooted(L, Y, N, n, E)

(* Any links, any sides. *)
LinkType == [Slots -> [Links -> Some]]
SideType == [Slots -> Links]

(* The links after Rotate(T, h, dir), c being the child which takes its  *)
(* place.                                                                *)
Turned(L2, Y2, L, Y, h, dir, c) ==
    LET i == L[c][dir]
        p == L[h][0]
        s == Y[h]
    IN /\ L2 \in LinkType /\ Y2 \in SideType
       /\ \A x \in Slots, d \in Links :
            L2[x][d] = IF x = c /\ d = dir THEN h
                       ELSE IF x = h /\ d = 0 THEN c
                       ELSE IF x = p /\ d = s THEN c
                       ELSE IF x = c /\ d = 0 THEN p
                       ELSE IF x = h /\ d = -dir THEN i
                       ELSE IF x = i /\ d = 0 THEN h
                       ELSE L[x][d]
       /\ \A x \in Slots : Y2[x] = IF x = h THEN dir ELSE IF x = c THEN s
                                   ELSE IF x = i THEN -dir ELSE Y[x]

(* What sides are. *)
LEMMA SideFacts == \A s \in Sd : s \in Int /\ s # 0 /\ -s \in Sd /\ -(-s) = s /\ s \in Links /\ (s = 1 \/ s = -1)
BY DEF Sd, Links

(* The other side of the left is the right. *)
LEMMA Flip == \A s \in Sd : s # 1 => -s = 1
<1>1. \A s \in Sd : s # 1 => s + 1 = 0
  BY DEF Sd
<1> QED BY <1>1 DEF Sd

(* What pages are. *)
LEMMA PageFacts == \A x \in Pg : x \in Int /\ x \in Slots /\ x # -1 /\ x # PoolSize /\ x \in Some /\ x \in -1..(PoolSize-1)
BY PoolHasPages DEF Pg, Slots, Some

(* One less than the number of nodes below h, h included. *)
Width(E, h) == E[1][h] - E[-1][h]

(* There are fewer nodes below a child than below its parent. *)
LEMMA Narrower ==
  ASSUME NEW L, NEW Y, NEW N, NEW n, NEW pos, NEW E, Ranks(N, n, pos, E),
         NEW h \in N, NEW s \in Sd, Below(L, Y, N, pos, E, h, s)
  PROVE  /\ Width(E, L[h][s]) < Width(E, h)
         /\ Width(E, L[h][s]) \in 0..n /\ Width(E, h) \in 0..n
<1>1. CASE s = 1
  BY <1>1 DEF Ranks, Below, Sd, Width
<1>2. CASE s # 1
  <2> DEFINE c == L[h][s]
  <2>1. c \in N /\ E[-1][c] = E[-1][h] /\ E[1][c] = pos[h] - 1
    <3>1. -s = 1 /\ s = -1
      BY <1>2, Flip DEF Sd
    <3> QED BY <1>2, <3>1 DEF Below
  <2> HIDE DEF c
  <2>2. Width(E, c) < Width(E, h) /\ Width(E, c) \in 0..n /\ Width(E, h) \in 0..n
    BY <2>1 DEF Ranks, Sd, Width
  <2> QED BY <2>2 DEF c
<1> QED BY <1>1, <1>2

(* A node, its child, its parent and the children of its child are not   *)
(* the same (the pointers avlh_rotate() reads and writes).               *)
LEMMA Around ==
  ASSUME NEW L, NEW Y, NEW N, NEW n, NEW pos, NEW E, Shape(L, Y, N, n, pos, E),
         NEW h \in N, NEW s \in Sd, L[h][s] # -1
  PROVE  /\ L[h][s] \in N /\ L[h][s] # h /\ L[h][0] # h /\ L[h][0] # L[h][s]
         /\ L[L[h][s]][-1] # h /\ L[L[h][s]][1] # h
         /\ L[h][-s] # L[h][s]
<1> DEFINE c == L[h][s]
           p == L[h][0]
<1>0. Ranks(N, n, pos, E) /\ s \in {-1, 1} /\ -s \in Sd /\ -(-s) = s /\ s \in Int
  BY SideFacts DEF Shape, Sd
<1>1. Below(L, Y, N, pos, E, h, s)
  BY DEF Shape, Kid
<1>2. c \in N /\ c # h
  BY <1>1, <1>0, SideFacts DEF Below, Ranks, Sd
<1>3. Above(L, Y, N, h)
  BY DEF Shape
<1>4. ASSUME NEW x \in N, NEW d \in Sd, L[x][d] = h PROVE x # h /\ x # c
  <2>1. Below(L, Y, N, pos, E, x, d)
    BY <1>4, PageFacts DEF Shape, Kid, Ranks
  <2>2. x # h
    BY <2>1, <1>4, <1>0, SideFacts DEF Below, Ranks, Sd
  <2>3. x # c
    <3>1. Width(E, c) < Width(E, h) /\ Width(E, c) \in Int /\ Width(E, h) \in Int
      BY <1>1, <1>0, Narrower
    <3>2. Width(E, h) < Width(E, x)
      BY <2>1, <1>4, <1>0, Narrower
    <3> QED BY <3>1, <3>2
  <2> QED BY <2>2, <2>3
<1>5. p # h /\ p # c
  <2>1. CASE p = PoolSize
    BY <2>1, <1>2, <1>0, PageFacts DEF Ranks
  <2>2. CASE p \in N
    BY <2>2, <1>3, <1>4 DEF Above
  <2> QED BY <2>1, <2>2, <1>3 DEF Above
<1>6. L[c][-1] # h /\ L[c][1] # h
  BY <1>2, <1>4 DEF Sd
<1>7. L[h][-s] # c
  <2>1. L[h][-s] = c => Below(L, Y, N, pos, E, h, -s)
    BY <1>0, <1>2, PageFacts DEF Shape, Kid, Ranks
  <2> QED BY <2>1, <1>1, <1>0, SideFacts DEF Below
<1> QED BY <1>2, <1>5, <1>6, <1>7

-----------------------------------------------------------------------------
(* Rotations. *)

(* Only links and sides differ. *)
SameBut(A, T) == A.bal = T.bal /\ A.end = T.end /\ A.count = T.count /\ A.height = T.height

(* A is T with the links of h and c turned. *)
Rotated(A, T, h, dir, c) ==
    A \in Trees /\ SameBut(A, T) /\ Turned(A.link, A.type, T.link, T.type, h, dir, c)

(* What avlh_rotate() does to the links, all three assignments together. *)
LEMMA RotateLinks ==
  ASSUME NEW T \in Trees, NEW N, NEW n, NEW pos, NEW E, Shape(T.link, T.type, N, n, pos, E),
         NEW h \in N, NEW dir \in Sd, T.link[h][-dir] # -1
  PROVE  Rotated(Pool!Rotate(T, h, dir), T, h, dir, T.link[h][-dir])
<1> DEFINE c == T.link[h][-dir]
           i == T.link[c][dir]
           p == T.link[h][0]
           s == T.type[h]
           T1 == Pool!Adopt(T, h, -dir, i)
           T2 == Pool!Adopt(T1, p, s, c)
           A == Pool!Adopt(T2, c, dir, h)
<1>0. /\ -dir \in Sd /\ -(-dir) = dir /\ dir \in Links /\ -dir \in Links /\ 0 \in Links
      /\ dir # 0 /\ -dir # 0 /\ -dir # dir
      /\ h \in Pg /\ h \in Slots /\ h # -1 /\ h \in -1..(PoolSize-1)
  BY SideFacts, PageFacts DEF Shape, Ranks, Sd, Links
<1>1. /\ c \in N /\ c # h /\ p # h /\ p # c /\ T.link[c][-1] # h /\ T.link[c][1] # h
      /\ T.link[h][dir] # c
  BY <1>0, Around
<1>2. /\ s \in Sd /\ s \in Links /\ s # 0 /\ p \in N \cup {PoolSize} /\ T.link[p][s] = h
  BY SideFacts DEF Shape, Above
<1>3. /\ c \in Pg /\ c \in Slots /\ c # -1 /\ c \in -1..(PoolSize-1)
      /\ p \in Slots /\ p # -1
  BY <1>1, <1>2, PageFacts, PoolHasPages DEF Shape, Ranks, Slots
<1>4. i = -1 \/ i \in N
  BY <1>1 DEF Shape, Kid, Below
<1>5. i \in -1..(PoolSize-1) /\ i # h
  BY <1>1, <1>4, <1>0, PageFacts, PoolHasPages DEF Shape, Ranks, Sd
<1>6. i # c /\ i # p
  <2>1. ASSUME i = c PROVE FALSE
    BY <2>1, <1>1, <1>3, <1>0, Around
  <2>2. ASSUME i = p PROVE FALSE
    <3>1. i \in N /\ i # -1
      BY <2>2, <1>2, <1>4, <1>3
    <3>2. T.link[i][0] = c
      BY <3>1, <1>1 DEF Shape, Kid, Below
    <3>3. T.link[i][-1] # c /\ T.link[i][1] # c
      <4>1. \A d \in Sd : T.link[i][d] = c => T.link[i][0] # c
        BY <3>1, <1>3, Around
      <4> QED BY <4>1, <3>2 DEF Sd
    <3>4. T.link[i][s] = h
      BY <2>2, <1>2
    <3>5. T.link[c][0] = h
      BY <1>3, <1>0 DEF Shape, Kid, Below
    <3>6. Below(T.link, T.type, N, pos, E, i, s) /\ Below(T.link, T.type, N, pos, E, c, dir)
          /\ Below(T.link, T.type, N, pos, E, h, -dir)
      BY <3>4, <3>1, <1>0, <1>1, <1>2, <1>3 DEF Shape, Kid
    <3>7. Width(E, h) < Width(E, i) /\ Width(E, i) < Width(E, c) /\ Width(E, c) < Width(E, h)
          /\ Width(E, h) \in Int /\ Width(E, i) \in Int /\ Width(E, c) \in Int
      BY <3>4, <3>6, <3>1, <1>0, <1>1, <1>2, Narrower DEF Shape
    <3> QED BY <3>7
  <2> QED BY <2>1, <2>2
<1>7. Relinked(T1, T, h, -dir, i)
  <2> HIDE DEF i, c
  <2> QED BY Adopted, <1>0, <1>5
<1>8. Relinked(T2, T1, p, s, c)
  <2>1. T1 \in Trees
    BY <1>7, Zenon DEF Relinked
  <2> HIDE DEF T1, p, s, c
  <2> QED BY <2>1, Adopted, <1>1, <1>2, <1>3
<1>9. Relinked(A, T2, c, dir, h)
  <2>1. T2 \in Trees
    BY <1>8, Zenon DEF Relinked
  <2> HIDE DEF T2, c
  <2> QED BY <2>1, Adopted, <1>0, <1>1, <1>3
<1>10. Pool!Rotate(T, h, dir) = A
  BY <1>0 DEF Pool!Rotate, Pool!Child, Pool!Parent, Pool!Opp, Pool!Up
<1>11. A \in Trees /\ SameBut(A, T)
  <2> HIDE DEF A, T2, T1, i, c, p, s
  <2> QED BY <1>7, <1>8, <1>9 DEF Relinked, SameBut
<1>12. A.link \in LinkType /\ A.type \in SideType
  BY <1>11, Fields, Zenon DEF LinkType, SideType
<1>13. ASSUME NEW x \in Slots, NEW d \in Links
       PROVE  A.link[x][d] = IF x = c /\ d = dir THEN h
                       ELSE IF x = h /\ d = 0 THEN c
                       ELSE IF x = p /\ d = s THEN c
                       ELSE IF x = c /\ d = 0 THEN p
                       ELSE IF x = h /\ d = -dir THEN i
                       ELSE IF x = i /\ d = 0 THEN h
                       ELSE T.link[x][d]
  <2>1. A.link[x][d] = IF x = c /\ d = dir THEN h ELSE IF x = h /\ d = 0 THEN c ELSE T2.link[x][d]
    BY <1>9, Zenon DEF Relinked
  <2>2. T2.link[x][d] = IF x = p /\ d = s THEN c ELSE IF x = c /\ d = 0 THEN p ELSE T1.link[x][d]
    BY <1>8, Zenon DEF Relinked
  <2>3. T1.link[x][d] = IF x = h /\ d = -dir THEN i ELSE IF x = i /\ d = 0 THEN h ELSE T.link[x][d]
    BY <1>7, Zenon DEF Relinked
  <2> HIDE DEF A, T2, T1, i, c, p, s
  <2> QED BY <2>1, <2>2, <2>3
<1>14. ASSUME NEW x \in Slots
       PROVE  A.type[x] = IF x = h THEN dir ELSE IF x = c THEN s
                          ELSE IF x = i THEN -dir ELSE T.type[x]
  <2>1. A.type[x] = IF x = h THEN dir ELSE T2.type[x]
    BY <1>9, Zenon DEF Relinked
  <2>2. T2.type[x] = IF x = c THEN s ELSE T1.type[x]
    BY <1>8, Zenon DEF Relinked
  <2>3. T1.type[x] = IF x = i THEN -dir ELSE T.type[x]
    BY <1>7, Zenon DEF Relinked
  <2> HIDE DEF A, T2, T1, i, c, p, s
  <2> QED BY <2>1, <2>2, <2>3
<1>15. Rotated(A, T, h, dir, c)
  <2> HIDE DEF A
  <2> QED BY <1>11, <1>12, <1>13, <1>14 DEF Rotated, Turned
<1> HIDE DEF A
<1> QED BY <1>10, <1>15

(* Where subtrees end after a rotation. *)
Edges(E2, E, N, pos, h, dir, c) ==
    /\ E2 \in [Sd -> [N -> Int]]
    /\ \A d \in Sd, x \in N :
         E2[d][x] = IF x = h /\ d = -dir THEN pos[c] + dir
                    ELSE IF x = c /\ d = dir THEN E[dir][h] ELSE E[d][x]

(* Such ends exist. *)
TurnedEdges(E, pos, h, dir, c) ==
    [[E EXCEPT ![-dir] = [@ EXCEPT ![h] = pos[c] + dir]]
       EXCEPT ![dir] = [@ EXCEPT ![c] = E[dir][h]]]

(* TurnedEdges are those ends. *)
LEMMA EdgesTurned ==
  ASSUME NEW N, NEW n, NEW pos, NEW E, Ranks(N, n, pos, E),
         NEW h \in N, NEW dir \in Sd, NEW c \in N
  PROVE  Edges(TurnedEdges(E, pos, h, dir, c), E, N, pos, h, dir, c)
<1>0. /\ -dir \in Sd /\ dir # -dir /\ dir \in Int
  BY SideFacts
<1>1. E \in [Sd -> [N -> Int]] /\ pos[c] + dir \in Int /\ E[dir][h] \in Int
  BY <1>0 DEF Ranks
<1> DEFINE v == pos[c] + dir
           w == E[dir][h]
           E1 == [E EXCEPT ![-dir] = [@ EXCEPT ![h] = v]]
           E2 == [E1 EXCEPT ![dir] = [@ EXCEPT ![c] = w]]
<1>2. TurnedEdges(E, pos, h, dir, c) = E2
  BY DEF TurnedEdges
<1>3. v \in Int /\ w \in Int
  BY <1>1
<1> HIDE DEF v, w
<1>4. E1 \in [Sd -> [N -> Int]] /\ \A d \in Sd, x \in N : E1[d][x] = IF x = h /\ d = -dir THEN v ELSE E[d][x]
  BY <1>0, <1>1, <1>3
<1>5. E2 \in [Sd -> [N -> Int]] /\ \A d \in Sd, x \in N : E2[d][x] = IF x = c /\ d = dir THEN w ELSE E1[d][x]
  <2> HIDE DEF E1
  <2> QED BY <1>0, <1>4, <1>3
<1> HIDE DEF E1, E2
<1>6. Edges(E2, E, N, pos, h, dir, c)
  BY <1>4, <1>5, <1>0 DEF Edges, v, w
<1> QED BY <1>2, <1>6

(* A rotation keeps the order of the nodes, with those ends. *)
LEMMA TurnedRanks ==
  ASSUME NEW L, NEW Y, NEW N, NEW n, NEW pos, NEW E, Ranks(N, n, pos, E),
         NEW h \in N, NEW dir \in Sd, Below(L, Y, N, pos, E, h, -dir),
         NEW E2, Edges(E2, E, N, pos, h, dir, L[h][-dir])
  PROVE  Ranks(N, n, pos, E2)
<1> DEFINE c == L[h][-dir]
<1>0. c \in N /\ E[-dir][c] = E[-dir][h] /\ E[dir][c] = pos[h] - dir
  BY SideFacts DEF Below
<1> HIDE DEF c
<1>1. ASSUME NEW d \in Sd, NEW x \in N PROVE E2[d][x] \in 1..n
  <2>1. E[d][x] \in 1..n /\ E[dir][h] \in 1..n
    BY DEF Ranks
  <2>2. pos[c] + dir \in 1..n
    <3>1. CASE dir = 1
      BY <3>1, <1>0 DEF Ranks, Sd
    <3>2. CASE dir # 1
      <4>1. dir + 1 = 0 /\ -dir = 1 /\ dir = -1
        BY <3>2, Flip DEF Sd
      <4>2. E[-1][c] = pos[h] + 1
        BY <1>0, <4>1
      <4>3. pos[c] - 1 \in 1..n
        BY <1>0, <4>2 DEF Ranks
      <4> QED BY <4>1, <4>3
    <3> QED BY <3>1, <3>2
  <2> QED BY <2>1, <2>2 DEF Edges, c
<1>2. ASSUME NEW x \in N PROVE E2[-1][x] <= pos[x] /\ pos[x] <= E2[1][x]
  <2>0. E[-1][x] <= pos[x] /\ pos[x] <= E[1][x] /\ E[-1][h] <= pos[h] /\ pos[h] <= E[1][h]
        /\ E[-1][c] <= pos[c] /\ pos[c] <= E[1][c]
        /\ pos[x] \in Int /\ pos[h] \in Int /\ pos[c] \in Int
    BY <1>0 DEF Ranks
  <2>00. \A y \in N : /\ E[-1][y] \in Int /\ E[1][y] \in Int
    BY DEF Ranks, Sd
  <2>1. CASE dir = 1
    <3>1. -dir = -1 /\ -1 \in Sd /\ 1 \in Sd
      BY <2>1 DEF Sd
    <3>2. /\ E2[-1][x] = IF x = h THEN pos[c] + 1 ELSE E[-1][x]
          /\ E2[1][x] = IF x = c THEN E[1][h] ELSE E[1][x]
      BY <2>1, <3>1 DEF Edges, c
    <3>3. E[1][c] = pos[h] - 1
      BY <1>0, <2>1
    <3> QED BY <3>2, <3>3, <2>0, <2>00, <1>0
  <2>2. CASE dir # 1
    <3>1. -dir = 1 /\ -1 \in Sd /\ 1 \in Sd /\ dir = -1
      BY <2>2, Flip DEF Sd
    <3>2. /\ E2[1][x] = IF x = h THEN pos[c] - 1 ELSE E[1][x]
          /\ E2[-1][x] = IF x = c THEN E[-1][h] ELSE E[-1][x]
      <4>1. pos[c] + dir = pos[c] - 1
        BY <3>1, <2>0
      <4> QED BY <4>1, <2>2, <3>1 DEF Edges, c
    <3>3. E[-1][c] = pos[h] + 1
      <4>1. pos[h] - dir = pos[h] + 1
        BY <3>1, <2>0
      <4> QED BY <1>0, <3>1, <4>1
    <3> QED BY <3>2, <3>3, <2>0, <2>00, <1>0
  <2> QED BY <2>1, <2>2
<1>3. E2 \in [Sd -> [N -> 1..n]]
  BY <1>1 DEF Edges
<1> QED BY <1>2, <1>3 DEF Ranks

(* avlh_rotate() keeps a tree a tree, in the same order. *)
LEMMA TurnedShape ==
  ASSUME NEW L, NEW Y, NEW N, NEW n, NEW pos, NEW E, Shape(L, Y, N, n, pos, E),
         NEW h \in N, NEW dir \in Sd, L[h][-dir] # -1,
         NEW L2, NEW Y2, Turned(L2, Y2, L, Y, h, dir, L[h][-dir]),
         NEW E2, Edges(E2, E, N, pos, h, dir, L[h][-dir])
  PROVE  Shape(L2, Y2, N, n, pos, E2)
<1> DEFINE c == L[h][-dir]
           i == L[c][dir]
           p == L[h][0]
           s == Y[h]
<1>0. /\ -dir \in Sd /\ -(-dir) = dir /\ dir \in Links /\ -dir \in Links /\ 0 \in Links
      /\ dir # 0 /\ -dir # 0 /\ -dir # dir /\ dir \in Int
  BY SideFacts DEF Links
<1>1. /\ c \in N /\ c # h /\ p # h /\ p # c /\ L[c][-1] # h /\ L[c][1] # h /\ L[h][dir] # c
      /\ Below(L, Y, N, pos, E, h, -dir)
  BY <1>0, Around DEF Shape, Kid
<1>2. /\ s \in Sd /\ s \in Links /\ s # 0 /\ p \in N \cup {PoolSize} /\ L[p][s] = h
      /\ p = PoolSize => s = 1
  BY SideFacts DEF Shape, Above
<1>3. Ranks(N, n, pos, E2)
  BY <1>1, <1>0, TurnedRanks DEF Shape
<1>4. \/ i = -1 /\ E[dir][c] = pos[c]
      \/ i \in N /\ i # h /\ i # c /\ i # p /\ Below(L, Y, N, pos, E, c, dir)
  <2>1. Kid(L, Y, N, pos, E, c, dir)
    BY <1>1 DEF Shape
  <2>2. ASSUME Below(L, Y, N, pos, E, c, dir) PROVE i # h /\ i # c /\ i # p
    <3>0. Ranks(N, n, pos, E)
      BY DEF Shape
    <3>1. /\ Width(E, i) < Width(E, c) /\ Width(E, c) < Width(E, h)
          /\ Width(E, h) \in Int /\ Width(E, i) \in Int /\ Width(E, c) \in Int
      BY <1>1, <2>2, <1>0, <3>0, Narrower
    <3>2. i = p => Width(E, h) < Width(E, i)
      <4>1. ASSUME i = p PROVE Width(E, h) < Width(E, i)
        <5>1. i \in N /\ Kid(L, Y, N, pos, E, p, s) /\ h # -1
          BY <4>1, <2>2, <1>2, PageFacts, <3>0 DEF Below, Shape, Ranks
        <5>2. Below(L, Y, N, pos, E, p, s)
          BY <5>1, <1>2 DEF Kid
        <5> QED BY <5>2, <5>1, <4>1, <1>2, <3>0, Narrower
      <4> QED BY <4>1
    <3> QED BY <3>1, <3>2
  <2>3. CASE Below(L, Y, N, pos, E, c, dir)
    <3>1. i \in N
      BY <2>3 DEF Below
    <3> QED BY <2>3, <3>1, <2>2
  <2>4. CASE i = -1 /\ E[dir][c] = pos[c]
    BY <2>4
  <2>5. (i = -1 /\ E[dir][c] = pos[c]) \/ Below(L, Y, N, pos, E, c, dir)
    BY <2>1 DEF Kid
  <2> QED BY <2>5, <2>3, <2>4
<1>5. \A x \in N : x \in Slots /\ x # -1 /\ x # PoolSize
  BY PageFacts DEF Shape, Ranks
<1>50. p \in Slots /\ p # -1 /\ PoolSize \in Slots
  BY <1>5, <1>2, PoolHasPages DEF Slots
<1>6. \A x \in Slots, d \in Links :
            L2[x][d] = IF x = c /\ d = dir THEN h
                       ELSE IF x = h /\ d = 0 THEN c
                       ELSE IF x = p /\ d = s THEN c
                       ELSE IF x = c /\ d = 0 THEN p
                       ELSE IF x = h /\ d = -dir THEN i
                       ELSE IF x = i /\ d = 0 THEN h
                       ELSE L[x][d]
  BY DEF Turned
<1>7. \A x \in Slots : Y2[x] = IF x = h THEN dir ELSE IF x = c THEN s ELSE IF x = i THEN -dir ELSE Y[x]
  BY DEF Turned
<1>8. \A d \in Sd, x \in N :
         E2[d][x] = IF x = h /\ d = -dir THEN pos[c] + dir
                    ELSE IF x = c /\ d = dir THEN E[dir][h] ELSE E[d][x]
  BY DEF Edges
<1>9. \A x \in N, d \in Sd : Kid(L, Y, N, pos, E, x, d)
  BY DEF Shape
<1>10. /\ E[-dir][c] = E[-dir][h] /\ E[dir][c] = pos[h] - dir
  BY <1>1, <1>0 DEF Below
<1> HIDE DEF c, i, p, s
<1>11. ASSUME NEW x \in N, NEW d \in Sd PROVE Kid(L2, Y2, N, pos, E2, x, d)
  <2>0. d \in Links /\ d # 0 /\ -d \in Sd /\ d \in Int /\ -(-d) = d
    BY SideFacts
  <2>00. pos[c] \in Int /\ pos[h] \in Int
    BY <1>1 DEF Shape, Ranks
  <2>1. CASE x = c /\ d = dir
    <3>1. L2[x][d] = h /\ L2[h][0] = c /\ Y2[h] = dir
      BY <2>1, <1>6, <1>7, <1>1, <1>0, <1>5
    <3>2. E2[d][h] = E2[d][x]
      BY <2>1, <1>8, <1>1, <1>0
    <3>3. E2[-d][h] = pos[x] + d
      BY <2>1, <1>8, <1>1, <1>0
    <3> QED BY <3>1, <3>2, <3>3, <2>1 DEF Kid, Below
  <2>2. CASE x = h /\ d = -dir
    <3>0. L2[x][d] = i
      BY <2>2, <1>6, <1>1, <1>0, <1>5
    <3>1. CASE i = -1
      <4>1. E2[d][x] = pos[c] + dir /\ E[dir][c] = pos[c] /\ E[dir][c] = pos[h] - dir
        BY <2>2, <1>8, <1>0, <1>10, <3>1, <1>4, <1>5
      <4>2. E2[d][x] = pos[h]
        BY <4>1, <2>00, <1>0
      <4> QED BY <3>0, <3>1, <4>2, <2>2 DEF Kid
    <3>2. CASE i # -1
      <4>1. i \in N /\ i # h /\ i # c /\ i # p /\ Below(L, Y, N, pos, E, c, dir)
        BY <3>2, <1>4
      <4>2. L2[i][0] = h /\ Y2[i] = d
        BY <2>2, <4>1, <1>6, <1>7, <1>5, <1>0, <1>1
      <4>3. E2[d][i] = E[d][i] /\ E2[-d][i] = E[-d][i]
        BY <4>1, <1>8, <2>0
      <4>4. E[dir][i] = E[dir][c] /\ E[-dir][i] = pos[c] + dir
        BY <4>1, <1>1 DEF Below, i
      <4>5. E[dir][i] = pos[h] - dir
        BY <4>4, <1>10
      <4>6. E2[-d][i] = pos[x] + d
        BY <4>5, <4>3, <2>2, <2>00, <1>0
      <4>7. E2[d][i] = E2[d][x]
        BY <4>4, <4>3, <2>2, <1>8
      <4> QED BY <3>0, <4>1, <4>2, <4>6, <4>7, <2>2 DEF Kid, Below
    <3> QED BY <3>1, <3>2
  <2>3. CASE x = p /\ d = s
    <3>1. L2[x][d] = c /\ L2[c][0] = p /\ Y2[c] = s
      BY <2>3, <1>6, <1>7, <1>1, <1>2, <1>0, <1>5
    <3>2. L[x][d] = h /\ h # -1
      BY <2>3, <1>2, <1>5
    <3>3. Below(L, Y, N, pos, E, x, d)
      BY <1>9, <3>2 DEF Kid
    <3>4. E[d][h] = E[d][x] /\ E[-d][h] = pos[x] + d
      BY <3>2, <3>3 DEF Below
    <3>5. E2[d][x] = E[d][x]
      BY <2>3, <1>8, <1>1
    <3>6. E2[d][c] = E[d][h] /\ E2[-d][c] = E[-d][h]
      <4>1. d = dir \/ d = -dir
        BY <1>0, SideFacts DEF Sd
      <4>2. CASE d = dir
        BY <4>2, <1>8, <1>1, <1>10, <1>0
      <4>3. CASE d = -dir
        BY <4>3, <1>8, <1>1, <1>10, <1>0, <2>0
      <4> QED BY <4>1, <4>2, <4>3
    <3> QED BY <3>1, <3>4, <3>5, <3>6, <2>3, <1>1 DEF Kid, Below
  <2>4. CASE ~(x = c /\ d = dir) /\ ~(x = h /\ d = -dir) /\ ~(x = p /\ d = s)
    <3>1. L2[x][d] = L[x][d]
      BY <2>4, <1>6, <1>5, <2>0
    <3>2. E2[d][x] = E[d][x]
      BY <2>4, <1>8
    <3>3. CASE L[x][d] = -1
      BY <3>1, <3>2, <3>3, <1>9, <1>5 DEF Kid, Below
    <3>4. CASE L[x][d] # -1
      <4> DEFINE k == L[x][d]
      <4>1. Below(L, Y, N, pos, E, x, d)
        BY <3>4, <1>9 DEF Kid
      <4>2. k \in N /\ L[k][0] = x /\ Y[k] = d /\ E[d][k] = E[d][x] /\ E[-d][k] = pos[x] + d
        BY <4>1 DEF Below
      <4>3. k # h
        BY <4>2, <2>4 DEF p, s
      <4>4. k # c
        BY <4>2, <2>4, <1>1 DEF Below, c
      <4>5. k # i
        BY <4>2, <2>4, <1>4, <1>5 DEF Below, i
      <4> HIDE DEF k
      <4>6. L2[k][0] = x /\ Y2[k] = d
        BY <4>2, <4>3, <4>4, <4>5, <1>6, <1>7, <1>5, <1>0, <1>2
      <4>7. E2[d][k] = E[d][k] /\ E2[-d][k] = E[-d][k]
        BY <4>2, <4>3, <4>4, <1>8, <2>0
      <4>8. L2[x][d] = k
        BY <3>1 DEF k
      <4> QED BY <4>8, <4>2, <4>6, <4>7, <3>2 DEF Kid, Below
    <3> QED BY <3>3, <3>4
  <2> QED BY <2>1, <2>2, <2>3, <2>4
<1>12. ASSUME NEW x \in N PROVE Above(L2, Y2, N, x)
  <2>0. Above(L, Y, N, x)
    BY DEF Shape
  <2>1. CASE x = h
    BY <2>1, <1>6, <1>7, <1>1, <1>0, <1>5 DEF Above
  <2>2. CASE x = c
    BY <2>2, <1>6, <1>7, <1>1, <1>2, <1>0, <1>5, <1>50 DEF Above
  <2>3. CASE x = i
    BY <2>3, <1>6, <1>7, <1>1, <1>2, <1>0, <1>5, <1>4 DEF Above
  <2>4. CASE x # h /\ x # c /\ x # i
    <3> DEFINE q == L[x][0]
    <3>1. L2[x][0] = q /\ Y2[x] = Y[x]
      BY <2>4, <1>6, <1>7, <1>5, <1>0, <1>2
    <3>2. q \in N \cup {PoolSize} /\ Y[x] \in Sd /\ L[q][Y[x]] = x /\ Y[x] \in Links /\ Y[x] # 0
      BY <2>0, SideFacts DEF Above
    <3>3. q \in Slots
      BY <3>2, <1>5, <1>50
    <3> HIDE DEF q
    <3>4. L2[q][Y[x]] = x
      BY <3>3, <3>2, <1>6, <2>4, <1>2, <1>1 DEF c, i
    <3> QED BY <3>1, <3>2, <3>4, <2>0 DEF Above, q
  <2> QED BY <2>1, <2>2, <2>3, <2>4
<1>13. Rooted(L2, Y2, N, n, E2)
  <2>0. Rooted(L, Y, N, n, E)
    BY DEF Shape
  <2>1. -1 \in Sd /\ 1 \in Sd /\ -1 \in Links /\ 1 \in Links /\ n # 0
    BY DEF Links, Sd, Shape, Ranks
  <2>2. PoolSize # c /\ PoolSize # h /\ PoolSize # i
    BY <1>5, <1>1, <1>4, PoolHasPages
  <2>3. L2[PoolSize][-1] = L[PoolSize][-1]
    BY <2>2, <1>6, <1>50, <2>1, <1>2
  <2>4. CASE p = PoolSize
    <3>1. s = 1 /\ L[PoolSize][1] = h
      BY <2>4, <1>2
    <3>2. L2[PoolSize][1] = c /\ L2[c][0] = PoolSize /\ Y2[c] = 1
      BY <3>1, <2>4, <2>2, <1>6, <1>7, <1>50, <2>1, <1>1, <1>5, <1>0
    <3>3. E[-1][h] = 1 /\ E[1][h] = n
      BY <2>0, <2>1, <3>1 DEF Rooted
    <3>4. E2[-1][c] = E[-1][h] /\ E2[1][c] = E[1][h]
      <4>1. CASE dir = 1
        <5>1. -dir = -1
          BY <4>1
        <5> QED BY <4>1, <5>1, <1>8, <1>10, <1>1, <2>1
      <4>2. CASE dir # 1
        <5>1. -dir = 1 /\ dir = -1
          BY <4>2, Flip DEF Sd
        <5> QED BY <5>1, <1>8, <1>10, <1>1, <2>1
      <4> QED BY <4>1, <4>2
    <3> QED BY <3>2, <3>3, <3>4, <2>3, <2>0, <2>1, <1>1 DEF Rooted
  <2>5. CASE p # PoolSize
    <3> DEFINE t == L[PoolSize][1]
    <3>1. t \in N /\ L[t][0] = PoolSize /\ Y[t] = 1 /\ E[-1][t] = 1 /\ E[1][t] = n
      BY <2>0, <2>1 DEF Rooted
    <3>2. t # h /\ t # c /\ t # i
      BY <3>1, <2>5, <1>1, <1>4, <1>5 DEF p, Below, c, i
    <3>3. L2[PoolSize][1] = t
      BY <2>5, <2>2, <1>6, <1>50, <2>1
    <3> HIDE DEF t
    <3>4. L2[t][0] = PoolSize /\ Y2[t] = 1 /\ E2[-1][t] = 1 /\ E2[1][t] = n
      BY <3>1, <3>2, <1>6, <1>7, <1>8, <1>5, <1>0, <2>1, <1>2
    <3> QED BY <3>3, <3>1, <3>4, <2>3, <2>0, <2>1 DEF Rooted
  <2> QED BY <2>4, <2>5
<1> QED BY <1>3, <1>11, <1>12, <1>13 DEF Shape

-----------------------------------------------------------------------------
(* Levels and balances. *)

(* What a rotation means to the levels: c and h change places, below p. *)
Swapped(L2, Y2, L, Y, N, h, dir, c, p, s) ==
    /\ c \in N /\ c # h /\ p # c /\ p # h /\ p \in N \cup {PoolSize}
    /\ s \in Sd /\ (p = PoolSize => s = 1) /\ L[p][s] = h
    /\ L2[c][dir] = h /\ L2[c][-dir] = L[c][-dir]
    /\ L2[h][-dir] = L[c][dir] /\ L2[h][dir] = L[h][dir]
    /\ L2[c][0] = p /\ Y2[c] = s /\ L2[p][s] = c
    /\ \A x \in N \cup {PoolSize}, d \in Sd :
          x # h /\ x # c /\ ~(x = p /\ d = s) =>
            L2[x][d] = L[x][d] /\ L[x][d] # h /\ L[x][d] # c

(* A rotation does that. *)
LEMMA Replaced ==
  ASSUME NEW L, NEW Y, NEW N, NEW n, NEW pos, NEW E, Shape(L, Y, N, n, pos, E),
         NEW h \in N, NEW dir \in Sd, L[h][-dir] # -1,
         NEW L2, NEW Y2, Turned(L2, Y2, L, Y, h, dir, L[h][-dir])
  PROVE  Swapped(L2, Y2, L, Y, N, h, dir, L[h][-dir], L[h][0], Y[h])
<1> DEFINE c == L[h][-dir]
           i == L[c][dir]
           p == L[h][0]
           s == Y[h]
<1>0. /\ -dir \in Sd /\ -(-dir) = dir /\ dir \in Links /\ -dir \in Links /\ 0 \in Links
      /\ dir # 0 /\ -dir # 0 /\ -dir # dir /\ dir \in Int
  BY SideFacts DEF Links
<1>1. /\ c \in N /\ c # h /\ p # h /\ p # c /\ L[c][-1] # h /\ L[c][1] # h /\ L[h][dir] # c
      /\ L[c][0] = h /\ Y[c] = -dir
  BY <1>0, Around DEF Shape, Kid, Below
<1>2. /\ s \in Sd /\ s \in Links /\ s # 0 /\ p \in N \cup {PoolSize} /\ L[p][s] = h
      /\ (p = PoolSize => s = 1)
  BY SideFacts DEF Shape, Above
<1>5. /\ PoolSize \in Slots /\ PoolSize \notin N
      /\ \A x \in N \cup {PoolSize} : x \in Slots /\ x # -1
  BY PageFacts, PoolHasPages DEF Shape, Ranks, Slots
<1>6. \A x \in Slots, d \in Links :
            L2[x][d] = IF x = c /\ d = dir THEN h
                       ELSE IF x = h /\ d = 0 THEN c
                       ELSE IF x = p /\ d = s THEN c
                       ELSE IF x = c /\ d = 0 THEN p
                       ELSE IF x = h /\ d = -dir THEN i
                       ELSE IF x = i /\ d = 0 THEN h
                       ELSE L[x][d]
  BY DEF Turned
<1>7. \A x \in Slots : Y2[x] = IF x = h THEN dir ELSE IF x = c THEN s ELSE IF x = i THEN -dir ELSE Y[x]
  BY DEF Turned
<1>8. ASSUME NEW x \in N \cup {PoolSize}, NEW d \in Sd, L[x][d] # -1, x # PoolSize \/ d = 1
      PROVE  L[L[x][d]][0] = x /\ Y[L[x][d]] = d
  <2>1. CASE x = PoolSize
    BY <2>1, <1>8 DEF Shape, Rooted
  <2>2. CASE x \in N
    BY <2>2, <1>8 DEF Shape, Kid, Below
  <2> QED BY <2>1, <2>2
<1>9. L[PoolSize][-1] = -1
  BY DEF Shape, Rooted
<1> HIDE DEF c, i, p, s
<1>10. ASSUME NEW x \in N \cup {PoolSize}, NEW d \in Sd, x # h, x # c, ~(x = p /\ d = s)
       PROVE  L2[x][d] = L[x][d] /\ L[x][d] # h /\ L[x][d] # c
  <2>0. d \in Links /\ d # 0
    BY SideFacts
  <2>1. L2[x][d] = L[x][d]
    BY <1>6, <1>5, <1>10, <2>0
  <2>2. CASE x = PoolSize /\ d # 1
    BY <2>2, <1>9, <1>5, <1>1, <2>1 DEF Sd
  <2>3. CASE x # PoolSize \/ d = 1
    BY <2>3, <2>1, <1>8, <1>5, <1>1, <1>10 DEF p, s
  <2> QED BY <2>2, <2>3
<1>11. L2[c][dir] = h /\ L2[c][-dir] = L[c][-dir] /\ L2[h][-dir] = i /\ L2[h][dir] = L[h][dir]
       /\ L2[c][0] = p /\ Y2[c] = s /\ L2[p][s] = c
  BY <1>6, <1>7, <1>5, <1>0, <1>1, <1>2
<1> QED BY <1>10, <1>11, <1>1, <1>2 DEF c, i, p, s, Swapped

(* What is not in the tree keeps its links and its balance. *)
Outside(A, T, N) ==
    \A x \in Slots : x \notin N =>
        /\ A.bal[x] = T.bal[x]
        /\ x # PoolSize => \A d \in Links : A.link[x][d] = T.link[x][d]

(* The larger one of two heights. *)
Higher(l, r) == IF l > r THEN l ELSE r

(* How much higher side d of a node is. *)
Uneven(L, b, x, d) == b[L[x][d]] - b[L[x][-d]]

(* The height b of a node is right, its stored balance B tells the       *)
(* difference of its sides, which is one level at most.                  *)
Even(L, B, b, x) ==
    /\ b[x] = 1 + Higher(b[L[x][-1]], b[L[x][1]])
    /\ B[x] = b[L[x][1]] - b[L[x][-1]] /\ B[x] \in -1..1

(* The same for node p, if its subtree on side s had height v. *)
EvenBut(L, B, b, p, s, v) ==
    /\ b[p] = 1 + Higher(v, b[L[p][-s]])
    /\ B[p] = IF s = 1 THEN v - b[L[p][-s]] ELSE b[L[p][-s]] - v
    /\ B[p] \in -1..1

(* An AVL tree, would the subtree of p on side s have height v. *)
Hole(T, N, b, p, s, v) ==
    /\ b \in [N \cup {-1} -> Nat] /\ b[-1] = 0 /\ v \in Nat
    /\ \A x \in N : x # p => Even(T.link, T.bal, b, x)
    /\ p \in N => EvenBut(T.link, T.bal, b, p, s, v)
    /\ T.height = IF p = PoolSize THEN v ELSE b[T.link[PoolSize][1]]

(* A subtree is rebuilt from nodes of M: outside, nothing changes but    *)
(* its top.                                                              *)
OnlyInside(A, T, N, M, h, q, p, s, b, b2) ==
    /\ T \in Trees /\ A \in Trees /\ N \in SUBSET Pg /\ M \in SUBSET N
    /\ h \in M /\ q \in M /\ p \in N \cup {PoolSize} /\ s \in Sd
    /\ p \notin M /\ (p = PoolSize => s = 1) /\ T.link[p][s] = h
    /\ \A x \in N, d \in Sd : T.link[x][d] = -1 \/ T.link[x][d] \in N
    /\ T.link[PoolSize][1] = -1 \/ T.link[PoolSize][1] \in N
    /\ \A x \in N \cup {PoolSize}, d \in Sd : x \notin M /\ ~(x = p /\ d = s) =>
             A.link[x][d] = T.link[x][d] /\ T.link[x][d] \notin M
    /\ A.link[p][s] = q /\ A.height = T.height
    /\ b \in [N \cup {-1} -> Nat] /\ b[-1] = 0 /\ b2 \in [N \cup {-1} -> Nat]
    /\ \A x \in N \cup {-1} : x \notin M => b2[x] = b[x]
    /\ \A x \in N : x \notin M => A.bal[x] = T.bal[x]
    /\ \A x \in N : x \notin M => Even(T.link, T.bal, b, x)
    /\ \A x \in M : Even(A.link, A.bal, b2, x)
    /\ T.height = b[T.link[PoolSize][1]]

(* Then the levels outside are as before. *)
LEMMA OtherLevels ==
  ASSUME NEW A, NEW T, NEW N, NEW M, NEW h, NEW q, NEW p, NEW s, NEW b, NEW b2,
         OnlyInside(A, T, N, M, h, q, p, s, b, b2)
  PROVE  Hole(A, N, b2, p, s, b[h])
<1> USE DEF OnlyInside
<1>0. -1 \in Sd /\ 1 \in Sd /\ -s \in Sd /\ s # -s /\ PoolSize \notin N /\ -1 \notin N
  BY SideFacts, PageFacts DEF Sd
<1>1. b2[-1] = 0 /\ b[h] \in Nat
  BY <1>0
<1>2. ASSUME NEW x \in N, x # p PROVE Even(A.link, A.bal, b2, x)
  <2>1. CASE x \in M
    BY <2>1, SMTT(20)
  <2>2. CASE x \notin M
    <3>1. \A d \in Sd : A.link[x][d] = T.link[x][d] /\ T.link[x][d] \notin M /\ T.link[x][d] \in N \cup {-1}
      BY <2>2, <1>2
    <3>2. \A d \in Sd : b2[A.link[x][d]] = b[T.link[x][d]]
      BY <3>1
    <3>3. b2[x] = b[x] /\ A.bal[x] = T.bal[x] /\ Even(T.link, T.bal, b, x)
      BY <2>2
    <3> QED BY <3>2, <3>3, <1>0 DEF Even
  <2> QED BY <2>1, <2>2
<1>3. ASSUME p \in N PROVE EvenBut(A.link, A.bal, b2, p, s, b[h])
  <2>1. A.link[p][-s] = T.link[p][-s] /\ T.link[p][-s] \notin M /\ T.link[p][-s] \in N \cup {-1}
    BY <1>0, <1>3
  <2>2. b2[A.link[p][-s]] = b[T.link[p][-s]]
    BY <2>1
  <2>3. b2[p] = b[p] /\ A.bal[p] = T.bal[p] /\ Even(T.link, T.bal, b, p)
    BY <1>3
  <2>4. CASE s = 1
    <3>1. -s = -1
      BY <2>4
    <3>2. b[T.link[p][1]] = b[h]
      BY <2>4
    <3>3. b[T.link[p][-1]] = b2[A.link[p][-s]] /\ b[h] \in Nat /\ b2[A.link[p][-s]] \in Nat
      BY <2>2, <3>1, <2>1, <1>1
    <3> QED BY <2>3, <3>2, <3>3, <2>4 DEF Even, EvenBut, Higher
  <2>5. CASE s # 1
    <3>1. -s = 1 /\ s = -1
      BY <2>5, Flip DEF Sd
    <3>2. b[T.link[p][-1]] = b[h]
      BY <3>1
    <3>3. b[T.link[p][1]] = b2[A.link[p][-s]] /\ b[h] \in Nat /\ b2[A.link[p][-s]] \in Nat
      BY <2>2, <3>1, <2>1, <1>1
    <3> QED BY <2>3, <3>2, <3>3, <2>5 DEF Even, EvenBut, Higher
  <2> QED BY <2>4, <2>5
<1>4. A.height = IF p = PoolSize THEN b[h] ELSE b2[A.link[PoolSize][1]]
  <2>1. CASE p = PoolSize
    BY <2>1
  <2>2. CASE p # PoolSize
    BY <2>2, <1>0
  <2> QED BY <2>1, <2>2
<1> QED BY <1>1, <1>2, <1>3, <1>4 DEF Hole

-----------------------------------------------------------------------------
(* Rebalancing. *)

(* The subtree of h is two levels higher on side delta, as before        *)
(* avlh_rebalance().                                                     *)
OffByTwo(T, N, n, pos, E, b, h, delta) ==
     /\ T \in Trees /\ Shape(T.link, T.type, N, n, pos, E)
     /\ h \in N /\ delta \in Sd
     /\ b \in [N \cup {-1} -> Nat] /\ b[-1] = 0
     /\ \A x \in N : x # h => Even(T.link, T.bal, b, x)
     /\ T.bal[h] = delta
     /\ b[T.link[h][delta]] = b[T.link[h][-delta]] + 2
     /\ T.height = b[T.link[PoolSize][1]]

(* What avlh_rebalance() promises: q is the new top, the balances are    *)
(* right, and it tells how high the subtree is now.                      *)
Rebuilt(A, q, T, N, n, pos, b, h, delta) ==
    /\ A \in Trees /\ A.end = T.end /\ A.count = T.count /\ A.height = T.height
    /\ Outside(A, T, N)
    /\ q \in N /\ A.link[q][0] = T.link[h][0] /\ A.type[q] = T.type[h]
    /\ \E E2 : Shape(A.link, A.type, N, n, pos, E2)
    /\ \E b2 : /\ Hole(A, N, b2, T.link[h][0], T.type[h], b[h])
               /\ b2[q] = b[T.link[h][-delta]] + (IF A.bal[q] = 0 THEN 2 ELSE 3)
    /\ T.bal[T.link[h][delta]] # 0 => A.bal[q] = 0

(* Even, told from a side. *)
LEMMA SideEven ==
  ASSUME NEW L, NEW B, NEW b, NEW x, NEW d \in Sd, Even(L, B, b, x),
         b[L[x][d]] \in Nat, b[L[x][-d]] \in Nat
  PROVE  /\ b[x] = 1 + Higher(b[L[x][d]], b[L[x][-d]])
         /\ B[x] = IF d = 1 THEN b[L[x][d]] - b[L[x][-d]] ELSE b[L[x][-d]] - b[L[x][d]]
         /\ B[x] \in -1..1
<1>1. CASE d = 1
  <2>1. -d = -1
    BY <1>1
  <2> QED BY <1>1, <2>1 DEF Even, Higher
<1>2. CASE d # 1
  <2>1. -d = 1 /\ d = -1
    BY <1>2, Flip DEF Sd
  <2>2. b[L[x][1]] = b[L[x][-d]] /\ b[L[x][-1]] = b[L[x][d]]
    BY <2>1
  <2> QED BY <1>2, <2>2 DEF Even, Higher
<1> QED BY <1>1, <1>2

(* The other way round. *)
LEMMA EvenSide ==
  ASSUME NEW L, NEW B, NEW b, NEW x, NEW d \in Sd,
         b[L[x][d]] \in Nat, b[L[x][-d]] \in Nat,
         b[x] = 1 + Higher(b[L[x][d]], b[L[x][-d]]),
         B[x] = IF d = 1 THEN b[L[x][d]] - b[L[x][-d]] ELSE b[L[x][-d]] - b[L[x][d]],
         B[x] \in -1..1
  PROVE  Even(L, B, b, x)
<1>1. CASE d = 1
  <2>1. -d = -1
    BY <1>1
  <2> QED BY <1>1, <2>1 DEF Even, Higher
<1>2. CASE d # 1
  <2>1. -d = 1 /\ d = -1
    BY <1>2, Flip DEF Sd
  <2>2. b[L[x][1]] = b[L[x][-d]] /\ b[L[x][-1]] = b[L[x][d]]
    BY <2>1
  <2> QED BY <1>2, <2>2 DEF Even, Higher
<1> QED BY <1>1, <1>2

(* Links of nodes lead to nodes or nowhere. *)
LEMMA Children ==
  ASSUME NEW L, NEW Y, NEW N, NEW n, NEW pos, NEW E, Shape(L, Y, N, n, pos, E)
  PROVE  /\ \A x \in N, d \in Sd : L[x][d] = -1 \/ L[x][d] \in N
         /\ L[PoolSize][1] = -1 \/ L[PoolSize][1] \in N
         /\ N \in SUBSET Pg /\ -1 \notin N /\ PoolSize \notin N
<1>1. \A x \in N, d \in Sd : L[x][d] = -1 \/ L[x][d] \in N
  BY DEF Shape, Kid, Below
<1>2. L[PoolSize][1] = -1 \/ L[PoolSize][1] \in N
  BY DEF Shape, Rooted
<1> QED BY <1>1, <1>2, PageFacts DEF Shape, Ranks

(* avlh_rebalance() with one rotation, the heavy child leaning outwards  *)
(* or not at all, keeps its promise.                                     *)
LEMMA RebalancedOnce ==
  ASSUME NEW T, NEW N, NEW n, NEW pos, NEW E, NEW b, NEW h, NEW delta,
         OffByTwo(T, N, n, pos, E, b, h, delta),
         T.bal[T.link[h][delta]] # -delta
  PROVE  Rebuilt(Pool!Rebalance(T, h, delta).tree, Pool!Rebalance(T, h, delta).node,
                 T, N, n, pos, b, h, delta)
<1> DEFINE L == T.link
           c == L[h][delta]
           B == T.bal
           dir == -delta
           A1 == Pool!Rotate(T, h, dir)
           B1 == [A1.bal EXCEPT ![h] = @ - B[c]]
           B2 == [B1 EXCEPT ![c] = A1.bal[c] - delta]
           A == [A1 EXCEPT !.bal = B2]
           p == L[h][0]
           s == T.type[h]
           y == b[L[h][-delta]]
<1>0. /\ T \in Trees /\ h \in N /\ delta \in Sd /\ dir \in Sd /\ -dir = delta /\ delta \in Int
      /\ Shape(T.link, T.type, N, n, pos, E) /\ b \in [N \cup {-1} -> Nat] /\ b[-1] = 0
  BY SideFacts DEF OffByTwo
<1>1. /\ \A x \in N, d \in Sd : L[x][d] \in N \cup {-1}
      /\ N \in SUBSET Pg /\ -1 \notin N /\ PoolSize \notin N
  BY <1>0, Children
<1>2. y \in Nat /\ b[c] = y + 2 /\ B[h] = delta
  BY <1>0, <1>1 DEF OffByTwo
<1>3. c # -1 /\ L[h][-dir] = c
  BY <1>0, <1>2
<1>4. Rotated(A1, T, h, dir, c)
  <2> HIDE DEF dir
  <2> QED BY <1>0, <1>3, RotateLinks
<1>5. Turned(A1.link, A1.type, T.link, T.type, h, dir, c) /\ A1 \in Trees /\ SameBut(A1, T)
  BY <1>4 DEF Rotated
<1>6. /\ c \in N /\ c # h /\ p # c /\ p # h /\ p \in N \cup {PoolSize}
      /\ s \in Sd /\ (p = PoolSize => s = 1) /\ L[p][s] = h
      /\ A1.link[c][dir] = h /\ A1.link[c][-dir] = L[c][-dir]
      /\ A1.link[h][-dir] = L[c][dir] /\ A1.link[h][dir] = L[h][dir]
      /\ A1.link[c][0] = p /\ A1.type[c] = s /\ A1.link[p][s] = c
      /\ \A x \in N \cup {PoolSize}, d \in Sd :
            x # h /\ x # c /\ ~(x = p /\ d = s) =>
              A1.link[x][d] = L[x][d] /\ L[x][d] # h /\ L[x][d] # c
  <2>1. Swapped(A1.link, A1.type, L, T.type, N, h, dir, L[h][-dir], p, s)
    <3>1. L[h][-dir] # -1 /\ Turned(A1.link, A1.type, L, T.type, h, dir, L[h][-dir])
      BY <1>3, <1>5
    <3> HIDE DEF A1, dir
    <3> QED BY <3>1, <1>0, Replaced
  <2>2. Swapped(A1.link, A1.type, L, T.type, N, h, dir, c, p, s)
    <3> HIDE DEF A1, dir
    <3> QED BY <2>1, <1>3
  <2> HIDE DEF A1, dir, p, s, c
  <2> QED BY <2>2 DEF Swapped
<1>7. PICK E2 : Shape(A1.link, A1.type, N, n, pos, E2)
  <2>1. Edges(TurnedEdges(E, pos, h, dir, c), E, N, pos, h, dir, c)
    <3> HIDE DEF dir, c
    <3> QED BY <1>0, <1>6, EdgesTurned DEF Shape
  <2> HIDE DEF A1, dir
  <2> QED BY <2>1, <1>0, <1>3, <1>5, TurnedShape
<1> HIDE DEF A1
<1>8. /\ A \in Trees /\ A.link = A1.link /\ A.type = A1.type /\ A.end = T.end
      /\ A.count = T.count /\ A.height = T.height
      /\ \A x \in Slots : A.bal[x] = IF x = h THEN B[h] - B[c] ELSE IF x = c THEN B[c] - delta ELSE B[x]
  <2>0. h \in Slots /\ c \in Slots
    BY <1>0, <1>1, <1>6, PageFacts
  <2>1. B \in [Slots -> Int] /\ A1.bal = B
    BY <1>0, <1>5, Fields DEF SameBut
  <2>2. B2 \in [Slots -> Int] /\ \A x \in Slots : B2[x] = IF x = h THEN B[h] - B[c] ELSE IF x = c THEN B[c] - delta ELSE B[x]
    <3>1. B1 \in [Slots -> Int] /\ \A x \in Slots : B1[x] = IF x = h THEN B[h] - B[c] ELSE B[x]
      <4> HIDE DEF c, B
      <4> QED BY <2>0, <2>1, <1>0, <1>6
    <3>2. B2 = [B1 EXCEPT ![c] = B[c] - delta] /\ B[c] - delta \in Int
      <4> HIDE DEF c, B, B1
      <4> QED BY <2>0, <2>1, <1>0
    <3>3. c # h
      BY <1>6
    <3> HIDE DEF c, B, B1, B2
    <3> QED BY <2>0, <3>1, <3>2, <3>3
  <2> HIDE DEF B2, B
  <2>4. A \in Trees /\ A.link = A1.link /\ A.type = A1.type /\ A.end = A1.end
        /\ A.count = A1.count /\ A.height = A1.height /\ A.bal = B2
    BY <2>2, <1>5 DEF Trees
  <2> QED BY <2>4, <2>2, <1>5 DEF SameBut
<1>81. \A x \in N : x \in Slots /\ A.bal[x] = IF x = h THEN B[h] - B[c] ELSE IF x = c THEN B[c] - delta ELSE B[x]
  BY <1>1, <1>8, PageFacts
<1>82. Outside(A, T, N)
  <2>3. -1 \notin Slots
    BY PoolHasPages DEF Slots
  <2>4. \A x \in Slots : x # h /\ x # c => A.bal[x] = B[x]
    BY <1>8
  <2>1. /\ h \in N /\ c \in N /\ p \in N \cup {PoolSize} /\ L[c][dir] \in N \cup {-1}
    BY <1>0, <1>1, <1>6
  <2> HIDE DEF c, dir, A
  <2>2. \A x \in Slots, d \in Links : x \notin N /\ x # PoolSize => A.link[x][d] = L[x][d]
    BY <1>5, <1>8, <2>1, <2>3 DEF Turned
  <2> QED BY <2>1, <2>2, <2>4 DEF Outside
<1>9. Pool!Rebalance(T, h, delta) = [node |-> c, tree |-> A]
  <2>1. c = Pool!Child(T, h, delta)
    BY DEF Pool!Child
  <2>2. A1 = Pool!Rotate(T, h, Pool!Opp(delta))
    BY DEF Pool!Opp, A1
  <2>3. A = [A1 EXCEPT !.bal[h] = @ - T.bal[c], !.bal[c] = @ - delta]
    <3> HIDE DEF c
    <3> QED OBVIOUS
  <2>4. T.bal[c] # -delta
    OBVIOUS
  <2> HIDE DEF c, A, A1
  <2> QED BY <2>1, <2>2, <2>3, <2>4 DEF Pool!Rebalance
<1> HIDE DEF A
<1> DEFINE i == L[c][dir]
           o == L[c][-dir]
           bh == 1 + Higher(b[i], y)
           b2 == [b EXCEPT ![h] = bh, ![c] = 1 + Higher(b[o], bh)]
<1>10. /\ i \in N \cup {-1} /\ o \in N \cup {-1} /\ i # h /\ o # h /\ i # c /\ o # c
       /\ L[h][dir] \in N \cup {-1} /\ L[h][dir] # h /\ L[h][dir] # c
  <2>0. Ranks(N, n, pos, E)
    BY <1>0 DEF Shape
  <2>1. \A x \in N, d \in Sd : L[x][d] # x
    <3> SUFFICES ASSUME NEW x \in N, NEW d \in Sd, L[x][d] = x PROVE FALSE
      OBVIOUS
    <3>1. L[x][d] # -1
      BY <1>1
    <3> QED BY <3>1, <1>0, Around
  <2>2. L[c][-1] # h /\ L[c][1] # h /\ L[h][dir] # c
    BY <1>0, <1>3, Around
  <2> HIDE DEF c, dir
  <2> QED BY <1>0, <1>1, <1>6, <2>1, <2>2 DEF Sd
<1>11. b[i] \in Nat /\ b[o] \in Nat /\ bh \in Nat /\ (1 + Higher(b[o], bh)) \in Nat
  <2> HIDE DEF i, o
  <2> QED BY <1>0, <1>10, <1>2 DEF Higher
<1>12. /\ b2 \in [N \cup {-1} -> Nat] /\ b2[h] = bh /\ b2[c] = 1 + Higher(b[o], bh)
       /\ \A x \in N \cup {-1} : x # h /\ x # c => b2[x] = b[x]
  <2> HIDE DEF i, o, c, bh
  <2> QED BY <1>0, <1>6, <1>11
<1> HIDE DEF b2
<1>13. Even(L, B, b, c)
  BY <1>6 DEF OffByTwo
<1>14. /\ b[c] = 1 + Higher(b[o], b[i])
       /\ B[c] = IF delta = 1 THEN b[o] - b[i] ELSE b[i] - b[o]
       /\ B[c] \in -1..1
  <2>1. b[L[c][delta]] = b[o] /\ b[L[c][-delta]] = b[i]
    BY <1>0
  <2>2. b[L[c][delta]] \in Nat /\ b[L[c][-delta]] \in Nat
    BY <2>1, <1>11
  <2>3. /\ b[c] = 1 + Higher(b[L[c][delta]], b[L[c][-delta]])
        /\ B[c] = IF delta = 1 THEN b[L[c][delta]] - b[L[c][-delta]] ELSE b[L[c][-delta]] - b[L[c][delta]]
        /\ B[c] \in -1..1
    <3> HIDE DEF c, B, L
    <3> QED BY <1>0, <2>2, <1>13, SideEven
  <2> HIDE DEF c, i, o
  <2> QED BY <2>1, <2>3
<1>15. /\ b[o] = y + 1 /\ (b[i] = y \/ b[i] = y + 1)
       /\ B[c] = IF b[i] = y THEN delta ELSE 0
  <2>0. B[c] # -delta
    OBVIOUS
  <2> HIDE DEF i, o, y, c, B
  <2>1. CASE delta = 1
    BY <2>0, <2>1, <1>14, <1>11, <1>2 DEF Higher
  <2>2. CASE delta # 1
    <3>1. -delta = 1 /\ delta = -1
      BY <1>0, <2>2, Flip DEF Sd
    <3> QED BY <2>0, <2>2, <3>1, <1>14, <1>11, <1>2 DEF Higher
  <2> QED BY <2>1, <2>2
<1>16. /\ bh = b[i] + (IF b[i] = y THEN 1 ELSE 1)
       /\ b2[c] = y + (IF b[i] = y THEN 2 ELSE 3)
  <2> HIDE DEF i, o, y, c
  <2> QED BY <1>15, <1>12, <1>11, <1>2 DEF Higher
<1>17. /\ A.bal[h] = IF b[i] = y THEN 0 ELSE delta
       /\ A.bal[c] = IF b[i] = y THEN 0 ELSE -delta
  <2>1. A.bal[h] = B[h] - B[c] /\ A.bal[c] = B[c] - delta
    BY <1>8, <1>81, <1>0, <1>6
  <2> HIDE DEF c, i, o, y, B
  <2> QED BY <2>1, <1>15, <1>2, <1>0, SMTT(20)
<1>18. Even(A.link, A.bal, b2, h)
  <2>1. b2[A.link[h][delta]] = b[i] /\ b2[A.link[h][-delta]] = y
    <3>1. A.link[h][-dir] = i /\ A.link[h][dir] = L[h][dir]
      BY <1>8, <1>81, <1>6
    <3>2. A.link[h][delta] = i /\ A.link[h][-delta] = L[h][dir]
      BY <3>1, <1>0
    <3>3. y = b[L[h][dir]]
      OBVIOUS
    <3> HIDE DEF i, y, c, dir
    <3> QED BY <3>2, <3>3, <1>10, <1>12
  <2>2. b2[h] = 1 + Higher(b[i], y)
    BY <1>12
  <2>3. A.bal[h] = IF delta = 1 THEN b[i] - y ELSE y - b[i]
    <3>1. delta = 1 \/ (delta # 1 /\ delta = -1)
      BY <1>0 DEF Sd
    <3> HIDE DEF i, y
    <3> QED BY <3>1, <1>17, <1>15, <1>11, <1>2
  <2>4. A.bal[h] \in -1..1
    BY <1>17, <1>0 DEF Sd
  <2> HIDE DEF i, y, dir
  <2> QED BY <2>1, <2>2, <2>3, <2>4, <1>0, <1>11, <1>2, EvenSide
<1>19. Even(A.link, A.bal, b2, c)
  <2>1. b2[A.link[c][delta]] = b[o] /\ b2[A.link[c][-delta]] = bh
    <3>1. A.link[c][dir] = h /\ A.link[c][-dir] = o
      BY <1>8, <1>81, <1>6
    <3>2. A.link[c][-delta] = h /\ A.link[c][delta] = o
      BY <3>1, <1>0
    <3> HIDE DEF o, y, c, dir, bh
    <3> QED BY <3>2, <1>10, <1>12
  <2>2. b2[c] = 1 + Higher(b[o], bh)
    BY <1>12
  <2>3. A.bal[c] = IF delta = 1 THEN b[o] - bh ELSE bh - b[o]
    <3>1. delta = 1 \/ (delta # 1 /\ delta = -1 /\ -delta = 1)
      BY <1>0, Flip DEF Sd
    <3>2. bh = b[i] + 1
      BY <1>16
    <3> HIDE DEF i, y, bh, o, c
    <3> QED BY <3>1, <3>2, <1>17, <1>15, <1>11, <1>2
  <2>4. A.bal[c] \in -1..1
    BY <1>17, <1>0, SideFacts DEF Sd
  <2>5. /\ b2[A.link[c][delta]] \in Nat /\ b2[A.link[c][-delta]] \in Nat
        /\ b2[c] = 1 + Higher(b2[A.link[c][delta]], b2[A.link[c][-delta]])
    BY <2>1, <2>2, <1>11
  <2>6. A.bal[c] = IF delta = 1 THEN b2[A.link[c][delta]] - b2[A.link[c][-delta]]
                   ELSE b2[A.link[c][-delta]] - b2[A.link[c][delta]]
    BY <2>1, <2>3
  <2> HIDE DEF i, y, dir, o, bh, c
  <2> QED BY <2>5, <2>6, <2>4, <1>0, EvenSide
<1>20. Hole(A, N, b2, p, s, b[h])
  <2> DEFINE M == {h, c}
  <2>1. M \in SUBSET N /\ h \in M /\ c \in M /\ p \notin M
    BY <1>0, <1>6
  <2>2. \A x \in N \cup {PoolSize}, d \in Sd : x \notin M /\ ~(x = p /\ d = s) =>
             A.link[x][d] = T.link[x][d] /\ T.link[x][d] \notin M
    BY <1>6, <1>8
  <2>3. \A x \in N \cup {-1} : x \notin M => b2[x] = b[x]
    BY <1>12
  <2>4. \A x \in N : x \notin M => A.bal[x] = T.bal[x]
    BY <1>8, <1>81
  <2>41. \A x \in N : x \notin M => Even(T.link, T.bal, b, x)
    BY DEF OffByTwo
  <2>5. \A x \in M : Even(A.link, A.bal, b2, x)
    BY <1>18, <1>19
  <2>6. A.link[p][s] = c /\ A.height = T.height /\ T.height = b[T.link[PoolSize][1]]
    BY <1>6, <1>8, <1>81, Zenon DEF OffByTwo
  <2>7. \A x \in N, d \in Sd : T.link[x][d] = -1 \/ T.link[x][d] \in N
    BY <1>1
  <2>8. T.link[PoolSize][1] = -1 \/ T.link[PoolSize][1] \in N
    BY <1>0, Children
  <2>9. T.link[p][s] = h /\ (p = PoolSize => s = 1) /\ p \in N \cup {PoolSize} /\ s \in Sd
    BY <1>6
  <2> HIDE DEF M, p, s, c
  <2>20. OnlyInside(A, T, N, M, h, c, p, s, b, b2)
    BY <2>1, <2>2, <2>3, <2>4, <2>41, <2>5, <2>6, <2>7, <2>8, <2>9, <1>0, <1>1, <1>8, <1>81, <1>12 DEF OnlyInside
  <2> QED BY <2>20, OtherLevels
<1>21. b2[c] = y + (IF A.bal[c] = 0 THEN 2 ELSE 3)
  <2>1. -delta # 0
    BY <1>0, SideFacts
  <2> HIDE DEF y, c, i
  <2> QED BY <2>1, <1>16, <1>17
<1>22. B[c] # 0 => A.bal[c] = 0
  BY <1>15, <1>17
<1>23. Rebuilt(A, c, T, N, n, pos, b, h, delta)
  BY <1>6, <1>7, <1>8, <1>81, <1>20, <1>21, <1>22, <1>82, Zenon DEF Rebuilt
<1> QED BY <1>9, <1>23

(* A child knows its parent and its side. *)
LEMMA Parented ==
  ASSUME NEW L, NEW Y, NEW N, NEW n, NEW pos, NEW E, Shape(L, Y, N, n, pos, E),
         NEW p \in N \cup {PoolSize}, NEW s \in Sd, p = PoolSize => s = 1,
         L[p][s] \in N
  PROVE  L[L[p][s]][0] = p /\ Y[L[p][s]] = s
<1>0. L[p][s] # -1
  BY Children
<1>1. CASE p = PoolSize
  BY <1>1, <1>0 DEF Shape, Rooted
<1>2. CASE p # PoolSize
  BY <1>2, <1>0 DEF Shape, Kid, Below
<1> QED BY <1>1, <1>2

(* A rotation, with all what it leaves alone. *)
Turn(A, T, N, h, dir, c, p, s) ==
    /\ A \in Trees /\ SameBut(A, T) /\ Outside(A, T, N)
    /\ Swapped(A.link, A.type, T.link, T.type, N, h, dir, c, p, s)

(* avlh_rotate() gives a tree of the same nodes, and is a turn. *)
LEMMA RotatedTree ==
  ASSUME NEW T \in Trees, NEW N, NEW n, NEW pos, NEW E, Shape(T.link, T.type, N, n, pos, E),
         NEW h \in N, NEW dir \in Sd, T.link[h][-dir] # -1,
         NEW A, A = Pool!Rotate(T, h, dir)
  PROVE  /\ Turn(A, T, N, h, dir, T.link[h][-dir], T.link[h][0], T.type[h])
         /\ \E E2 : Shape(A.link, A.type, N, n, pos, E2)
<1> DEFINE c == T.link[h][-dir]
<1>1. Rotated(A, T, h, dir, c)
  BY RotateLinks
<1>2. Turned(A.link, A.type, T.link, T.type, h, dir, c) /\ A \in Trees /\ SameBut(A, T)
  BY <1>1 DEF Rotated
<1>3. Swapped(A.link, A.type, T.link, T.type, N, h, dir, c, T.link[h][0], T.type[h])
  BY <1>2, Replaced
<1>4. c \in N
  BY <1>3 DEF Swapped
<1>5. Edges(TurnedEdges(E, pos, h, dir, c), E, N, pos, h, dir, c)
  <2> HIDE DEF c
  <2> QED BY <1>4, EdgesTurned DEF Shape
<1>6. Shape(A.link, A.type, N, n, pos, TurnedEdges(E, pos, h, dir, c))
  BY <1>5, <1>2, TurnedShape
<1>7. Outside(A, T, N)
  <2>1. /\ h \in N /\ c \in N /\ T.link[h][0] \in N \cup {PoolSize} /\ -1 \notin Slots
        /\ T.link[c][dir] \in N \cup {-1} /\ A.bal = T.bal
    BY <1>2, <1>4, Children, PoolHasPages DEF Swapped, SameBut, Shape, Above, Slots
  <2> HIDE DEF c
  <2>2. \A x \in Slots, d \in Links : x \notin N /\ x # PoolSize => A.link[x][d] = T.link[x][d]
    BY <1>2, <2>1 DEF Turned
  <2> QED BY <2>1, <2>2 DEF Outside
<1> QED BY <1>2, <1>3, <1>6, <1>7 DEF Turn

(* Rotate(Rotate(T, c, delta), h, -delta), where c is the child of h and *)
(* g that of c.                                                          *)
TwoTurns(A, T, N, h, delta, c, g, p, s) ==
    /\ A \in Trees /\ SameBut(A, T) /\ Outside(A, T, N)
    /\ c \in N /\ g \in N /\ c # h /\ g # h /\ g # c
    /\ p \in N \cup {PoolSize} /\ s \in Sd /\ (p = PoolSize => s = 1) /\ T.link[p][s] = h
    /\ p # h /\ p # c /\ p # g
    /\ A.link[g][delta] = c /\ A.link[g][-delta] = h
    /\ A.link[c][delta] = T.link[c][delta] /\ A.link[c][-delta] = T.link[g][delta]
    /\ A.link[h][delta] = T.link[g][-delta] /\ A.link[h][-delta] = T.link[h][-delta]
    /\ A.link[p][s] = g /\ A.link[g][0] = p /\ A.type[g] = s
    /\ T.link[c][delta] \notin {h, c, g} /\ T.link[g][delta] \notin {h, c, g}
    /\ T.link[g][-delta] \notin {h, c, g} /\ T.link[h][-delta] \notin {h, c, g}
    /\ \A x \in N \cup {PoolSize}, d \in Sd : x \notin {h, c, g} /\ ~(x = p /\ d = s) =>
         A.link[x][d] = T.link[x][d] /\ T.link[x][d] \notin {h, c, g}

(* The two calls of avlh_rotate() in avlh_rebalance(). *)
LEMMA TwoRotations ==
  ASSUME NEW T \in Trees, NEW N, NEW n, NEW pos, NEW E, Shape(T.link, T.type, N, n, pos, E),
         NEW h \in N, NEW delta \in Sd, NEW c, c = T.link[h][delta], c # -1,
         NEW g, g = T.link[c][-delta], g # -1,
         NEW A, A = Pool!Rotate(Pool!Rotate(T, c, delta), h, -delta)
  PROVE  /\ TwoTurns(A, T, N, h, delta, c, g, T.link[h][0], T.type[h])
         /\ \E E2 : Shape(A.link, A.type, N, n, pos, E2)
<1> DEFINE A1 == Pool!Rotate(T, c, delta)
           p == T.link[h][0]
           s == T.type[h]
           dir == -delta
<1>0. /\ dir \in Sd /\ delta # dir /\ -dir = delta
      /\ N \in SUBSET Pg /\ -1 \notin N /\ PoolSize \notin N
      /\ \A x \in N, d \in Sd : T.link[x][d] = -1 \/ T.link[x][d] \in N
  <2>1. dir \in Sd /\ delta # dir /\ -dir = delta
    BY SideFacts DEF Links
  <2> HIDE DEF dir
  <2> QED BY <2>1, Children
<1>1. c \in N /\ g \in N
  BY <1>0
<1>2. T.link[c][0] = h /\ T.type[c] = delta
  BY <1>0, <1>1, Parented
<1>3. /\ Turn(A1, T, N, c, delta, g, h, delta)
      /\ \E E2 : Shape(A1.link, A1.type, N, n, pos, E2)
  <2>1. T.link[c][-delta] = g
    OBVIOUS
  <2> HIDE DEF A1
  <2>2. /\ Turn(A1, T, N, c, delta, T.link[c][-delta], T.link[c][0], T.type[c])
        /\ \E E2 : Shape(A1.link, A1.type, N, n, pos, E2)
    BY <1>1, RotatedTree DEF A1
  <2> QED BY <2>1, <2>2, <1>2
<1> HIDE DEF A1
<1>4. PICK E2 : Shape(A1.link, A1.type, N, n, pos, E2)
  BY <1>3
<1>5. /\ A1 \in Trees /\ SameBut(A1, T)
      /\ g # c /\ h # g /\ h # c
      /\ A1.link[g][delta] = c /\ A1.link[g][dir] = T.link[g][dir]
      /\ A1.link[c][dir] = T.link[g][delta] /\ A1.link[c][delta] = T.link[c][delta]
      /\ A1.link[h][delta] = g
      /\ \A x \in N \cup {PoolSize}, d \in Sd :
          x # c /\ x # g /\ ~(x = h /\ d = delta) =>
            A1.link[x][d] = T.link[x][d] /\ T.link[x][d] # c /\ T.link[x][d] # g
  <2> HIDE DEF p, s
  <2> QED BY <1>3, Zenon DEF Turn, Swapped
<1>6. /\ p \in N \cup {PoolSize} /\ s \in Sd /\ (p = PoolSize => s = 1) /\ T.link[p][s] = h
      /\ p # h /\ p # c
  <2>1. Above(T.link, T.type, N, h)
    BY DEF Shape
  <2> QED BY <2>1, Around DEF Above
<1>60. p # g
  <2>0. Ranks(N, n, pos, E) /\ h # -1
    BY <1>0 DEF Shape
  <2>1. Below(T.link, T.type, N, pos, E, h, delta) /\ Below(T.link, T.type, N, pos, E, c, dir)
    BY <1>0, <1>1 DEF Shape, Kid
  <2>2. Width(E, c) < Width(E, h) /\ Width(E, g) < Width(E, c)
        /\ Width(E, c) \in Int /\ Width(E, h) \in Int /\ Width(E, g) \in Int
    BY <2>0, <2>1, <1>0, <1>1, Narrower
  <2>3. ASSUME p = g PROVE Width(E, h) < Width(E, g)
    <3>1. T.link[g][s] = h /\ s \in Sd
      BY <2>3, <1>6
    <3>2. Below(T.link, T.type, N, pos, E, g, s)
      BY <3>1, <1>1, <2>0 DEF Shape, Kid
    <3> HIDE DEF s, p
    <3> QED BY <3>1, <3>2, <2>0, <1>1, Narrower
  <2> QED BY <2>2, <2>3
<1>7. A1.link[h][0] = p /\ A1.type[h] = s
  <2> HIDE DEF p, s
  <2>1. A1.link[p][s] = h
    BY <1>5, <1>6, <1>60, Zenon
  <2> QED BY <2>1, <1>6, <1>4, Parented
<1>8. /\ Turn(A, A1, N, h, dir, g, p, s)
      /\ \E E3 : Shape(A.link, A.type, N, n, pos, E3)
  <2> HIDE DEF dir, p, s
  <2>1. A1.link[h][-dir] = g
    BY <1>0, <1>5, Zenon
  <2>2. /\ Turn(A, A1, N, h, dir, A1.link[h][-dir], A1.link[h][0], A1.type[h])
        /\ \E E3 : Shape(A.link, A.type, N, n, pos, E3)
    <3>1. A = Pool!Rotate(A1, h, dir)
      BY DEF A1, dir
    <3> QED BY <3>1, <2>1, <1>0, <1>4, <1>5, RotatedTree, Zenon
  <2> QED BY <2>1, <2>2, <1>7
<1>9. /\ A \in Trees /\ SameBut(A, A1)
      /\ A.link[g][dir] = h /\ A.link[g][-dir] = A1.link[g][-dir]
      /\ A.link[h][-dir] = A1.link[g][dir] /\ A.link[h][dir] = A1.link[h][dir]
      /\ A.link[g][0] = p /\ A.type[g] = s /\ A.link[p][s] = g
      /\ \A x \in N \cup {PoolSize}, d \in Sd :
          x # h /\ x # g /\ ~(x = p /\ d = s) =>
            A.link[x][d] = A1.link[x][d] /\ A1.link[x][d] # h /\ A1.link[x][d] # g
  <2> HIDE DEF p, s, dir
  <2> QED BY <1>8, Zenon DEF Turn, Swapped
<1> HIDE DEF p, s, dir
<1>91. ASSUME NEW x \in N \cup {PoolSize}, NEW d \in Sd, x # h, x # g, ~(x = p /\ d = s)
       PROVE  A.link[x][d] = A1.link[x][d] /\ A1.link[x][d] # h /\ A1.link[x][d] # g
  BY <1>9, <1>91, Zenon
<1>51. ASSUME NEW x \in N \cup {PoolSize}, NEW d \in Sd, x # c, x # g, ~(x = h /\ d = delta)
       PROVE  A1.link[x][d] = T.link[x][d] /\ T.link[x][d] # c /\ T.link[x][d] # g
  BY <1>5, <1>51, Zenon
<1>10. A.link[c][delta] = A1.link[c][delta] /\ A.link[c][dir] = A1.link[c][dir]
       /\ A1.link[c][delta] \notin {h, g} /\ A1.link[c][dir] \notin {h, g}
  <2>1. c \in N \cup {PoolSize} /\ c # h /\ c # g /\ ~(c = p)
    BY <1>1, <1>5, <1>6, Zenon
  <2> QED BY <2>1, <1>91, <1>0
<1>11. A1.link[h][dir] = T.link[h][dir] /\ T.link[h][dir] \notin {c, g}
  BY <1>5, <1>0, Zenon
<1>12. T.link[h][dir] # h /\ T.link[c][delta] # c /\ T.link[g][dir] # g /\ T.link[g][delta] # g
       /\ T.link[g][delta] # c /\ T.link[g][dir] # c /\ T.link[g][dir] # h
  <2>1. \A x \in N, d \in Sd : T.link[x][d] # x
    <3> SUFFICES ASSUME NEW x \in N, NEW d \in Sd, T.link[x][d] = x PROVE FALSE
      OBVIOUS
    <3>1. T.link[x][d] # -1
      BY <1>0
    <3> QED BY <3>1, Around
  <2>2. T.link[g][-1] # c /\ T.link[g][1] # c
    BY <1>0, <1>1, Around DEF dir
  <2>3. T.link[g][dir] # h
    <3> SUFFICES ASSUME T.link[g][dir] = h PROVE FALSE
      OBVIOUS
    <3>1. T.link[h][0] = g
      BY <1>0, <1>1, Parented
    <3> QED BY <3>1, <1>60 DEF p
  <2>4. T.link[h][dir] # h /\ T.link[c][delta] # c /\ T.link[g][dir] # g /\ T.link[g][delta] # g
    BY <2>1, <1>0, <1>1
  <2>5. T.link[g][delta] # c /\ T.link[g][dir] # c
    BY <2>2, <1>0 DEF Sd
  <2> QED BY <2>3, <2>4, <2>5
<1>13. \A x \in N \cup {PoolSize}, d \in Sd : x \notin {h, c, g} /\ ~(x = p /\ d = s) =>
         A.link[x][d] = T.link[x][d] /\ T.link[x][d] \notin {h, c, g}
  BY <1>91, <1>51
<1>14. SameBut(A, T)
  BY <1>5, <1>9, Zenon DEF SameBut
<1>16. Outside(A, T, N)
  <2>1. Outside(A, A1, N) /\ Outside(A1, T, N)
    BY <1>3, <1>8 DEF Turn
  <2> QED BY <2>1 DEF Outside
<1>15. TwoTurns(A, T, N, h, delta, c, g, p, s)
  <2>1. A.link[g][delta] = c /\ A.link[g][-delta] = h
    BY <1>0, <1>5, <1>9, Zenon DEF dir
  <2>2. A.link[c][delta] = T.link[c][delta] /\ A.link[c][-delta] = T.link[g][delta]
    BY <1>10, <1>5, Zenon DEF dir
  <2>3. A.link[h][delta] = T.link[g][-delta] /\ A.link[h][-delta] = T.link[h][-delta]
    BY <1>0, <1>5, <1>9, <1>11, Zenon DEF dir
  <2>4. /\ T.link[c][delta] \notin {h, c, g} /\ T.link[g][delta] \notin {h, c, g}
        /\ T.link[g][-delta] \notin {h, c, g} /\ T.link[h][-delta] \notin {h, c, g}
    BY <1>10, <1>5, <1>11, <1>12, Zenon DEF dir
  <2> QED BY <2>1, <2>2, <2>3, <2>4, <1>1, <1>5, <1>6, <1>60, <1>9, <1>13, <1>14, <1>16, Zenon DEF TwoTurns
<1> QED BY <1>15, <1>8 DEF p, s

(* The balances of the three nodes after a double rotation. *)
Reset(A2, u, w, g, k) == [A2 EXCEPT !.bal[u] = 0, !.bal[w] = k, !.bal[g] = 0]

(* Setting them leaves the rest alone. *)
LEMMA BalancesSet ==
  ASSUME NEW A2 \in Trees, NEW u \in Slots, NEW w \in Slots, NEW g \in Slots,
         u # w, u # g, w # g, NEW k \in Int,
         NEW Z, Z = Reset(A2, u, w, g, k)
  PROVE  /\ Z \in Trees /\ Z.link = A2.link /\ Z.type = A2.type /\ Z.end = A2.end
         /\ Z.count = A2.count /\ Z.height = A2.height
         /\ \A x \in Slots : Z.bal[x] = IF x = u THEN 0 ELSE IF x = w THEN k
                                        ELSE IF x = g THEN 0 ELSE A2.bal[x]
<1> DEFINE B1 == [A2.bal EXCEPT ![u] = 0]
           B2 == [B1 EXCEPT ![w] = k]
           B3 == [B2 EXCEPT ![g] = 0]
           A == [A2 EXCEPT !.bal = B3]
<1>1. A = Z
  BY DEF Trees, Reset
<1>2. B1 \in [Slots -> Int] /\ \A x \in Slots : B1[x] = IF x = u THEN 0 ELSE A2.bal[x]
  BY Fields
<1>3. B2 \in [Slots -> Int] /\ \A x \in Slots : B2[x] = IF x = w THEN k ELSE B1[x]
  <2> HIDE DEF B1
  <2> QED BY <1>2
<1>4. B3 \in [Slots -> Int] /\ \A x \in Slots : B3[x] = IF x = g THEN 0 ELSE B2[x]
  <2> HIDE DEF B2
  <2> QED BY <1>3
<1> HIDE DEF B1, B2, B3
<1>5. A \in Trees /\ A.link = A2.link /\ A.type = A2.type /\ A.end = A2.end
      /\ A.count = A2.count /\ A.height = A2.height /\ A.bal = B3
  BY <1>4 DEF Trees
<1>6. \A x \in Slots : A.bal[x] = IF x = u THEN 0 ELSE IF x = w THEN k
                                           ELSE IF x = g THEN 0 ELSE A2.bal[x]
  <2> HIDE DEF A
  <2> QED BY <1>2, <1>3, <1>4, <1>5
<1> HIDE DEF A
<1> QED BY <1>1, <1>5, <1>6

(* avlh_rebalance() with two rotations, the heavy child leaning inwards, *)
(* keeps its promise.                                                    *)
LEMMA RebalancedTwice ==
  ASSUME NEW T, NEW N, NEW n, NEW pos, NEW E, NEW b, NEW h, NEW delta,
         OffByTwo(T, N, n, pos, E, b, h, delta),
         T.bal[T.link[h][delta]] = -delta
  PROVE  Rebuilt(Pool!Rebalance(T, h, delta).tree, Pool!Rebalance(T, h, delta).node,
                 T, N, n, pos, b, h, delta)
<1> DEFINE L == T.link
           B == T.bal
           c == L[h][delta]
           g == L[c][-delta]
           A2 == Pool!Rotate(Pool!Rotate(T, c, delta), h, -delta)
           dir == IF B[g] = 0 THEN 1 ELSE B[g]
           A == [A2 EXCEPT !.bal[Pool!Child(A2, g, dir)] = 0,
                           !.bal[Pool!Child(A2, g, Pool!Opp(dir))] = -B[g],
                           !.bal[g] = 0]
           p == L[h][0]
           s == T.type[h]
           y == b[L[h][-delta]]
           z == b[L[c][delta]]
           o == L[g][delta]
           m == L[g][-delta]
<1>0. /\ T \in Trees /\ h \in N /\ delta \in Sd /\ -delta \in Sd /\ -(-delta) = delta
      /\ delta \in Int /\ delta # 0 /\ -delta # 0 /\ delta # -delta
      /\ Shape(T.link, T.type, N, n, pos, E) /\ b \in [N \cup {-1} -> Nat] /\ b[-1] = 0
  BY SideFacts DEF OffByTwo, Links
<1>1. /\ \A x \in N, d \in Sd : L[x][d] \in N \cup {-1}
      /\ N \in SUBSET Pg /\ -1 \notin N /\ PoolSize \notin N
  BY <1>0, Children
<1>2. y \in Nat /\ b[c] = y + 2 /\ B[h] = delta /\ c \in N \cup {-1}
  BY <1>0, <1>1 DEF OffByTwo
<1>3. c \in N /\ c # -1
  BY <1>0, <1>1, <1>2
<1>30. c # h
  <2>1. L[h][delta] # -1
    BY <1>3
  <2> QED BY <2>1, <1>0, Around
<1>4. g \in N \cup {-1} /\ z \in Nat /\ b[g] \in Nat
  BY <1>0, <1>1, <1>3
<1>5. z = y /\ b[g] = y + 1
  <2>1. Even(L, B, b, c)
    BY <1>3, <1>30 DEF OffByTwo
  <2>2. PICK e \in Sd : e = -delta /\ -e = delta
    BY <1>0
  <2>3. L[c][e] = g /\ L[c][-e] = L[c][delta]
    BY <2>2
  <2>4. /\ b[c] = 1 + Higher(b[g], z)
        /\ B[c] = IF -delta = 1 THEN b[g] - z ELSE z - b[g]
    <3>1. b[L[c][e]] = b[g] /\ b[L[c][-e]] = z
      BY <2>3
    <3>2. b[L[c][e]] \in Nat /\ b[L[c][-e]] \in Nat
      BY <3>1, <1>4
    <3>3. /\ b[c] = 1 + Higher(b[L[c][e]], b[L[c][-e]])
          /\ B[c] = IF e = 1 THEN b[L[c][e]] - b[L[c][-e]] ELSE b[L[c][-e]] - b[L[c][e]]
      <4> HIDE DEF c, B, L, g, z, y, A, A2, dir, o, m, p, s
      <4>1. /\ b[c] = 1 + Higher(b[L[c][e]], b[L[c][-e]])
            /\ B[c] = IF e = 1 THEN b[L[c][e]] - b[L[c][-e]] ELSE b[L[c][-e]] - b[L[c][e]]
            /\ B[c] \in -1..1
        BY <3>2, <2>1, SideEven
      <4> QED BY <4>1
    <3> HIDE DEF z, g, c, B
    <3> QED BY <3>3, <3>1, <2>2
  <2>5. B[c] = -delta
    OBVIOUS
  <2>6. b[g] - z = 1
    <3> HIDE DEF g, c, z, y, B
    <3>1. CASE delta = 1
      BY <3>1, <2>4, <2>5, <1>4
    <3>2. CASE delta # 1
      <4>1. -delta = 1
        BY <1>0, <3>2, Flip
      <4> QED BY <4>1, <2>4, <2>5, <1>4
    <3> QED BY <3>1, <3>2
  <2> HIDE DEF g, c, z, y, B
  <2> QED BY <2>4, <2>6, <1>4, <1>2 DEF Higher
<1>6. g \in N /\ g # -1
  <2> HIDE DEF g, y
  <2> QED BY <1>4, <1>5, <1>2, <1>0
<1>7. /\ TwoTurns(A2, T, N, h, delta, c, g, p, s)
      /\ \E E2 : Shape(A2.link, A2.type, N, n, pos, E2)
  <2>1. c = T.link[h][delta] /\ g = T.link[c][-delta] /\ c # -1 /\ g # -1
    BY <1>3, <1>6
  <2> HIDE DEF c, g
  <2> QED BY <2>1, <1>0, TwoRotations
<1> HIDE DEF A2
<1>8. A2 \in Trees /\ SameBut(A2, T)
      /\ c # h /\ g # h /\ g # c
      /\ p \in N \cup {PoolSize} /\ s \in Sd /\ (p = PoolSize => s = 1) /\ T.link[p][s] = h
      /\ p # h /\ p # c /\ p # g
      /\ A2.link[g][delta] = c /\ A2.link[g][-delta] = h
      /\ A2.link[c][delta] = T.link[c][delta] /\ A2.link[c][-delta] = o
      /\ A2.link[h][delta] = m /\ A2.link[h][-delta] = T.link[h][-delta]
      /\ A2.link[p][s] = g /\ A2.link[g][0] = p /\ A2.type[g] = s
      /\ T.link[c][delta] \notin {h, c, g} /\ o \notin {h, c, g}
      /\ m \notin {h, c, g} /\ T.link[h][-delta] \notin {h, c, g}
  BY <1>7, Zenon DEF TwoTurns
<1>9. Even(L, B, b, g) /\ o \in N \cup {-1} /\ m \in N \cup {-1} /\ b[o] \in Nat /\ b[m] \in Nat
  <2>1. Even(L, B, b, g)
    BY <1>6, <1>8, Zenon DEF OffByTwo
  <2> HIDE DEF g
  <2> QED BY <2>1, <1>1, <1>0, <1>6
<1>10. /\ b[g] = 1 + Higher(b[o], b[m])
       /\ B[g] = IF delta = 1 THEN b[o] - b[m] ELSE b[m] - b[o]
       /\ B[g] \in -1..1
  <2>1. b[L[g][delta]] \in Nat /\ b[L[g][-delta]] \in Nat
    BY <1>9, Zenon
  <2> HIDE DEF g, B, L
  <2> QED BY <2>1, <1>0, <1>9, SideEven, Zenon
<1>11. /\ B[g] = delta \/ B[g] = -delta \/ B[g] = 0
       /\ B[g] = delta => b[o] = y /\ b[m] = y - 1
       /\ B[g] = -delta => b[o] = y - 1 /\ b[m] = y
       /\ B[g] = 0 => b[o] = y /\ b[m] = y
  <2> HIDE DEF g, o, m, y, B
  <2>1. CASE delta = 1
    BY <2>1, <1>10, <1>9, <1>5, <1>2 DEF Higher
  <2>2. CASE delta # 1
    <3>1. -delta = 1 /\ delta = -1
      BY <1>0, <2>2, Flip DEF Sd
    <3> QED BY <2>2, <3>1, <1>10, <1>9, <1>5, <1>2 DEF Higher
  <2> QED BY <2>1, <2>2
<1>12. /\ A \in Trees /\ A.link = A2.link /\ A.type = A2.type /\ A.end = T.end
       /\ A.count = T.count /\ A.height = T.height
       /\ Outside(A, T, N) /\ A.bal[g] = 0
       /\ A.bal[c] = IF B[g] = -delta THEN delta ELSE 0
       /\ A.bal[h] = IF B[g] = delta THEN -delta ELSE 0
       /\ \A x \in N : x \notin {h, c, g} => A.bal[x] = B[x]
  <2> DEFINE u == IF B[g] = delta \/ (B[g] = 0 /\ delta = 1) THEN c ELSE h
             w == IF u = c THEN h ELSE c
  <2>1. Pool!Child(A2, g, dir) = u /\ Pool!Child(A2, g, Pool!Opp(dir)) = w
    <3>1. /\ dir = delta \/ dir = -delta
          /\ dir = delta => u = c /\ w = h
          /\ dir = -delta => u = h /\ w = c
          /\ dir = delta => -dir = -delta
          /\ dir = -delta => -dir = delta
      <4> HIDE DEF g, c, B
      <4>1. delta = 1 \/ (delta # 1 /\ -delta = 1)
        BY <1>0, Flip
      <4> QED BY <4>1, <1>11, <1>0, <1>8
    <3> HIDE DEF dir, u, w
    <3> QED BY <3>1, <1>8, Zenon DEF Pool!Child, Pool!Opp
  <2>2. {u, w} = {c, h} /\ u # w /\ u # g /\ w # g
    BY <1>8, Zenon
  <2>3. \A x \in N : x \in Slots
    BY <1>1, PageFacts
  <2>4. u \in Slots /\ w \in Slots /\ g \in Slots /\ -B[g] \in Int
    <3>1. u \in {c, h} /\ w \in {c, h}
      BY <2>2, Zenon
    <3> HIDE DEF u, w, g, c, B
    <3> QED BY <3>1, <2>3, <1>0, <1>3, <1>6, <1>10
  <2>5. /\ u = c => w = h
        /\ u # c => u = h /\ w = c
    BY <1>8, Zenon
  <2>6. A = [A2 EXCEPT !.bal[u] = 0, !.bal[w] = -B[g], !.bal[g] = 0]
    <3> HIDE DEF u, w, dir
    <3> QED BY <2>1
  <2>7. /\ A \in Trees /\ A.link = A2.link /\ A.type = A2.type /\ A.end = A2.end
            /\ A.count = A2.count /\ A.height = A2.height
            /\ \A x \in Slots : A.bal[x] = IF x = u THEN 0 ELSE IF x = w THEN -B[g]
                                           ELSE IF x = g THEN 0 ELSE A2.bal[x]
    <3> DEFINE k == -B[g]
    <3>1. k \in Int
      BY <2>4
    <3> HIDE DEF u, w, k, A, g
    <3>2. A = Reset(A2, u, w, g, k)
      BY <2>6 DEF k, Reset
    <3>4. u # w /\ u # g /\ w # g /\ u \in Slots /\ w \in Slots /\ g \in Slots
      BY <2>2, <2>4
    <3>5. A2 \in Trees
      BY <1>8
    <3>3. /\ A \in Trees /\ A.link = A2.link /\ A.type = A2.type /\ A.end = A2.end
            /\ A.count = A2.count /\ A.height = A2.height
            /\ \A x \in Slots : A.bal[x] = IF x = u THEN 0 ELSE IF x = w THEN k
                                           ELSE IF x = g THEN 0 ELSE A2.bal[x]
      BY <3>1, <3>2, <3>4, <3>5, BalancesSet
    <3> QED BY <3>3 DEF k
  <2> HIDE DEF A
  <2>8. A2.end = T.end /\ A2.count = T.count /\ A2.height = T.height /\ A2.bal = B
    BY <1>8, Zenon DEF SameBut
  <2>9. A.bal[g] = 0 /\ A.bal[u] = 0 /\ A.bal[w] = -B[g]
    <3> HIDE DEF u, w, g, B
    <3> QED BY <2>2, <2>4, <2>7
  <2>10. \A x \in N : x \notin {h, c, g} => A.bal[x] = B[x]
    <3> HIDE DEF u, w, g, B, c
    <3> QED BY <2>2, <2>3, <2>7, <2>8
  <2>12. Outside(A, T, N)
    <3>1. Outside(A2, T, N)
      BY <1>7, Zenon DEF TwoTurns
    <3>2. u \in N /\ w \in N /\ g \in N
      <4>1. c \in N /\ g \in N
        BY <1>7, Zenon DEF TwoTurns
      <4> HIDE DEF u, w, g, B, c
      <4> QED BY <2>2, <4>1, <1>0
    <3> HIDE DEF u, w, g, B, c
    <3> QED BY <3>1, <3>2, <2>7 DEF Outside
  <2>11. /\ A.bal[c] = IF B[g] = -delta THEN delta ELSE 0
         /\ A.bal[h] = IF B[g] = delta THEN -delta ELSE 0
    <3>1. CASE B[g] = delta
      <4>1. u = c /\ w = h
        BY <3>1
      <4> HIDE DEF u, w, g, B, c
      <4> QED BY <4>1, <3>1, <2>9, <1>0
    <3>2. CASE B[g] = -delta
      <4>1. u = h /\ w = c
        BY <3>2, <1>0, <1>8, Zenon
      <4> HIDE DEF u, w, g, B, c
      <4> QED BY <4>1, <3>2, <2>9, <1>0
    <3>3. CASE B[g] = 0
      <4>1. -B[g] = 0
        <5>1. \A k \in Int : k + 1 = 1 => -k = 0
          OBVIOUS
        <5>2. B[g] \in Int /\ B[g] + 1 = 1
          BY <3>3
        <5> HIDE DEF B, g
        <5> QED BY <5>1, <5>2
      <4>2. A.bal[u] = 0 /\ A.bal[w] = 0
        BY <4>1, <2>9, Zenon
      <4>3. A.bal[c] = 0 /\ A.bal[h] = 0
        <5> HIDE DEF u, w, g, B, c
        <5> QED BY <4>2, <2>5
      <4> HIDE DEF u, w, g, B, c
      <4> QED BY <4>3, <3>3, <1>0
    <3> HIDE DEF u, w, g, B, c
    <3> QED BY <3>1, <3>2, <3>3, <1>11
  <2> HIDE DEF u, w, g, B, c
  <2> QED BY <2>12, <2>7, <2>8, <2>9, <2>10, <2>11
<1>13. Pool!Rebalance(T, h, delta) = [node |-> g, tree |-> A]
  <2>1. c = Pool!Child(T, h, delta) /\ g = Pool!Child(T, c, Pool!Opp(delta))
    BY DEF Pool!Child, Pool!Opp
  <2>2. A2 = Pool!Rotate(Pool!Rotate(T, c, delta), h, Pool!Opp(delta))
    BY DEF Pool!Opp, A2
  <2>3. T.bal[c] = -delta
    OBVIOUS
  <2>4. A = [A2 EXCEPT !.bal[Pool!Child(A2, g, IF T.bal[g] = 0 THEN Pool!Right ELSE T.bal[g])] = 0,
                       !.bal[Pool!Child(A2, g, Pool!Opp(IF T.bal[g] = 0 THEN Pool!Right ELSE T.bal[g]))] = -T.bal[g],
                       !.bal[g] = 0]
    BY DEF Pool!Right
  <2> HIDE DEF c, A, A2, g
  <2> QED BY <2>1, <2>2, <2>3, <2>4 DEF Pool!Rebalance
<1> HIDE DEF A
<1> DEFINE b2 == [[[b EXCEPT ![h] = y + 1] EXCEPT ![c] = y + 1] EXCEPT ![g] = y + 2]
<1>14. /\ b2 \in [N \cup {-1} -> Nat] /\ b2[h] = y + 1 /\ b2[c] = y + 1 /\ b2[g] = y + 2
       /\ \A x \in N \cup {-1} : x \notin {h, c, g} => b2[x] = b[x]
  <2>1. y + 1 \in Nat /\ y + 2 \in Nat
    BY <1>2
  <2> HIDE DEF y, c, g
  <2> QED BY <2>1, <1>0, <1>3, <1>6, <1>8
<1> HIDE DEF b2
<1>15. /\ b2[A.link[h][delta]] = b[m] /\ b2[A.link[h][-delta]] = y
       /\ b2[A.link[c][delta]] = y /\ b2[A.link[c][-delta]] = b[o]
       /\ b2[A.link[g][delta]] = y + 1 /\ b2[A.link[g][-delta]] = y + 1
  <2>1. L[h][-delta] \in N \cup {-1} /\ L[c][delta] \in N \cup {-1}
    BY <1>0, <1>1, <1>3
  <2>2. b2[m] = b[m] /\ b2[o] = b[o] /\ b2[L[h][-delta]] = y
    <3> HIDE DEF m, o, c, g
    <3> QED BY <2>1, <1>8, <1>9, <1>14
  <2>3. b2[L[c][delta]] = z
    <3> HIDE DEF m, o, c, g
    <3> QED BY <2>1, <1>8, <1>14
  <2> HIDE DEF m, o, c, g, y, z
  <2> QED BY <2>2, <2>3, <1>8, <1>12, <1>14, <1>5
<1>16. Even(A.link, A.bal, b2, h)
  <2>1. b2[h] = 1 + Higher(b[m], y)
    <3> HIDE DEF m, o, c, g, y, B
    <3> QED BY <1>11, <1>14, <1>2 DEF Higher
  <2>2. A.bal[h] = IF delta = 1 THEN b[m] - y ELSE y - b[m]
    <3>1. delta = 1 \/ (delta # 1 /\ delta = -1 /\ -delta = 1)
      BY <1>0, Flip DEF Sd
    <3> HIDE DEF m, o, c, g, y, B
    <3> QED BY <3>1, <1>12, <1>11, <1>9, <1>2, <1>0
  <2>3. A.bal[h] \in -1..1
    <3> HIDE DEF c, g, B
    <3> QED BY <1>12, <1>0 DEF Sd
  <2>4. b2[A.link[h][delta]] \in Nat /\ b2[A.link[h][-delta]] \in Nat
        /\ b2[h] = 1 + Higher(b2[A.link[h][delta]], b2[A.link[h][-delta]])
        /\ A.bal[h] = IF delta = 1 THEN b2[A.link[h][delta]] - b2[A.link[h][-delta]]
                      ELSE b2[A.link[h][-delta]] - b2[A.link[h][delta]]
    <3> HIDE DEF m, y
    <3> QED BY <1>15, <2>1, <2>2, <1>2, <1>9, Zenon
  <2> QED BY <2>3, <2>4, <1>0, EvenSide
<1>17. Even(A.link, A.bal, b2, c)
  <2>1. b2[c] = 1 + Higher(y, b[o])
    <3> HIDE DEF m, o, c, g, y, B
    <3> QED BY <1>11, <1>14, <1>2 DEF Higher
  <2>2. A.bal[c] = IF delta = 1 THEN y - b[o] ELSE b[o] - y
    <3>1. delta = 1 \/ (delta # 1 /\ delta = -1 /\ -delta = 1)
      BY <1>0, Flip DEF Sd
    <3> HIDE DEF m, o, c, g, y, B
    <3> QED BY <3>1, <1>12, <1>11, <1>9, <1>2, <1>0
  <2>3. A.bal[c] \in -1..1
    <3> HIDE DEF c, g, B
    <3> QED BY <1>12, <1>0 DEF Sd
  <2> HIDE DEF c
  <2>4. b2[A.link[c][delta]] \in Nat /\ b2[A.link[c][-delta]] \in Nat
        /\ b2[c] = 1 + Higher(b2[A.link[c][delta]], b2[A.link[c][-delta]])
        /\ A.bal[c] = IF delta = 1 THEN b2[A.link[c][delta]] - b2[A.link[c][-delta]]
                      ELSE b2[A.link[c][-delta]] - b2[A.link[c][delta]]
    <3> HIDE DEF o, y
    <3> QED BY <1>15, <2>1, <2>2, <1>2, <1>9
  <2> QED BY <2>3, <2>4, <1>0, EvenSide
<1>18. Even(A.link, A.bal, b2, g)
  <2> HIDE DEF g, y, c, o, m, z, B
  <2>4. /\ b2[A.link[g][delta]] \in Nat /\ b2[A.link[g][-delta]] \in Nat
        /\ b2[g] = 1 + Higher(b2[A.link[g][delta]], b2[A.link[g][-delta]])
        /\ A.bal[g] = IF delta = 1 THEN b2[A.link[g][delta]] - b2[A.link[g][-delta]]
                      ELSE b2[A.link[g][-delta]] - b2[A.link[g][delta]]
        /\ A.bal[g] \in -1..1
    BY <1>15, <1>14, <1>12, <1>2 DEF Higher
  <2> QED BY <2>4, <1>0, EvenSide
<1>19. Hole(A, N, b2, p, s, b[h])
  <2> DEFINE M == {h, c, g}
  <2>1. M \in SUBSET N /\ h \in M /\ g \in M /\ p \notin M
    BY <1>0, <1>3, <1>6, <1>8, Zenon
  <2>2. \A x \in N \cup {PoolSize}, d \in Sd : x \notin M /\ ~(x = p /\ d = s) =>
             A.link[x][d] = T.link[x][d] /\ T.link[x][d] \notin M
    <3> HIDE DEF c, g, p, s
    <3> QED BY <1>7, <1>12 DEF TwoTurns
  <2>3. \A x \in N \cup {-1} : x \notin M => b2[x] = b[x]
    BY <1>14
  <2>4. \A x \in N : x \notin M => A.bal[x] = T.bal[x]
    BY <1>12
  <2>41. \A x \in N : x \notin M => Even(T.link, T.bal, b, x)
    BY DEF OffByTwo
  <2>5. \A x \in M : Even(A.link, A.bal, b2, x)
    BY <1>16, <1>17, <1>18
  <2>6. A.link[p][s] = g /\ A.height = T.height /\ T.height = b[T.link[PoolSize][1]]
    BY <1>8, <1>12, ZenonT(40) DEF OffByTwo
  <2>7. \A x \in N, d \in Sd : T.link[x][d] = -1 \/ T.link[x][d] \in N
    BY <1>1
  <2>8. T.link[PoolSize][1] = -1 \/ T.link[PoolSize][1] \in N
    BY <1>0, Children
  <2>9. T.link[p][s] = h /\ (p = PoolSize => s = 1) /\ p \in N \cup {PoolSize} /\ s \in Sd
    BY <1>8, Zenon
  <2> HIDE DEF M, p, s, c, g
  <2>20. OnlyInside(A, T, N, M, h, g, p, s, b, b2)
    BY <2>1, <2>2, <2>3, <2>4, <2>41, <2>5, <2>6, <2>7, <2>8, <2>9, <1>0, <1>1, <1>12, <1>14 DEF OnlyInside
  <2> QED BY <2>20, OtherLevels
<1>20. b2[g] = y + (IF A.bal[g] = 0 THEN 2 ELSE 3)
  BY <1>12, <1>14, Zenon
<1>21. \E E2 : Shape(A.link, A.type, N, n, pos, E2)
  BY <1>7, <1>12
<1>22. Rebuilt(A, g, T, N, n, pos, b, h, delta)
  <2>1. /\ A \in Trees /\ A.end = T.end /\ A.count = T.count /\ A.height = T.height
        /\ Outside(A, T, N) /\ g \in N /\ A.link[g][0] = p /\ A.type[g] = s /\ A.bal[g] = 0
    BY <1>6, <1>8, <1>12, Zenon
  <2> HIDE DEF g, c
  <2> QED BY <2>1, <1>19, <1>20, <1>21 DEF Rebuilt
<1> QED BY <1>13, <1>22

-----------------------------------------------------------------------------
(* Climbing. *)

(* By how much a subtree whose balance is now k has become higher (sign  *)
(* 1) or lower: an inserted level may show or be absorbed.               *)
Change(sign, k) == IF sign = 1 THEN (IF k # 0 THEN 1 ELSE 0) ELSE (IF k = 0 THEN -1 ELSE 0)

(* A level of a climb is done: q is the top of the subtree below p on    *)
(* side s, which had height w.                                           *)
Climbed(A, q, T, N, n, pos, p, s, w, sign) ==
    /\ A \in Trees /\ A.end = T.end /\ A.count = T.count /\ A.height = T.height
    /\ Outside(A, T, N)
    /\ q \in N /\ A.link[q][0] = p /\ A.type[q] = s
    /\ \E E : Shape(A.link, A.type, N, n, pos, E)
    /\ \E b : Hole(A, N, b, p, s, w) /\ b[q] = w + Change(sign, A.bal[q])

(* What a hole says of heights and balances. *)
LEMMA HoleFacts ==
  ASSUME NEW T \in Trees, NEW N, NEW n, NEW pos, NEW E, Shape(T.link, T.type, N, n, pos, E),
         NEW h \in N, NEW s \in Sd, NEW b, NEW v, Hole(T, N, b, h, s, v)
  PROVE  /\ b \in [N \cup {-1} -> Nat] /\ b[-1] = 0 /\ v \in Nat /\ b[h] \in Nat
         /\ \A x \in N, d \in Sd : T.link[x][d] \in N \cup {-1} /\ b[T.link[x][d]] \in Nat
         /\ \A x \in N : x # h => Even(T.link, T.bal, b, x)
         /\ b[h] = 1 + Higher(v, b[T.link[h][-s]])
         /\ T.bal[h] = IF s = 1 THEN v - b[T.link[h][-s]] ELSE b[T.link[h][-s]] - v
         /\ T.bal[h] \in -1..1
         /\ T.height = b[T.link[PoolSize][1]]
         /\ N \in SUBSET Pg /\ -1 \notin N /\ PoolSize \notin N
<1>1. \A x \in N, d \in Sd : T.link[x][d] \in N \cup {-1}
  BY Children
<1>2. N \in SUBSET Pg /\ -1 \notin N /\ PoolSize \notin N
  BY Children
<1>3. b \in [N \cup {-1} -> Nat] /\ b[-1] = 0 /\ v \in Nat
  BY DEF Hole
<1>4. EvenBut(T.link, T.bal, b, h, s, v)
  BY DEF Hole
<1>5. T.height = b[T.link[PoolSize][1]]
  BY <1>2 DEF Hole
<1>6. \A x \in N : x # h => Even(T.link, T.bal, b, x)
  BY DEF Hole
<1> QED BY <1>1, <1>2, <1>3, <1>4, <1>5, <1>6 DEF EvenBut

(* The balance of a node changes by one. *)
Leaned(T, h, delta) == [T EXCEPT !.bal[h] = @ + delta]

(* The height of a child has changed by one level, and the node leans to *)
(* the other side: no rotation is needed.                                *)
LEMMA LeanChanged ==
  ASSUME NEW T \in Trees, NEW N, NEW n, NEW pos, NEW E, Shape(T.link, T.type, N, n, pos, E),
         NEW h \in N, NEW s \in Sd, NEW b, NEW v, Hole(T, N, b, h, s, v),
         NEW sign \in {-1, 1}, NEW delta,
         \/ sign = 1 /\ delta = s /\ b[T.link[h][s]] = v + 1
         \/ sign # 1 /\ delta = -s /\ v = b[T.link[h][s]] + 1,
         T.bal[h] # delta,
         NEW A, A = Leaned(T, h, delta)
  PROVE  Climbed(A, h, T, N, n, pos, T.link[h][0], T.type[h], b[h], sign)
<1> DEFINE L == T.link
           p == L[h][0]
           t == T.type[h]
           r == b[L[h][s]]
           y == b[L[h][-s]]
           bh == 1 + Higher(r, y)
           b2 == [b EXCEPT ![h] = bh]
<1>0. /\ b \in [N \cup {-1} -> Nat] /\ b[-1] = 0 /\ v \in Nat /\ b[h] \in Nat
      /\ \A x \in N, d \in Sd : L[x][d] \in N \cup {-1} /\ b[L[x][d]] \in Nat
      /\ \A x \in N : x # h => Even(T.link, T.bal, b, x)
      /\ b[h] = 1 + Higher(v, y)
      /\ T.bal[h] = IF s = 1 THEN v - y ELSE y - v
      /\ T.bal[h] \in -1..1
      /\ T.height = b[T.link[PoolSize][1]]
      /\ N \in SUBSET Pg /\ -1 \notin N /\ PoolSize \notin N
  BY HoleFacts
<1>1. -s \in Sd /\ s \in Int /\ s # 0 /\ delta \in Sd /\ delta \in Int
  BY SideFacts
<1>2. r \in Nat /\ y \in Nat /\ bh \in Nat
  <2>1. r \in Nat /\ y \in Nat
    BY <1>0, <1>1
  <2> HIDE DEF r, y
  <2> QED BY <2>1 DEF Higher
<1>3. /\ A \in Trees /\ A.link = L /\ A.type = T.type /\ A.end = T.end
      /\ A.count = T.count /\ A.height = T.height
      /\ \A x \in Slots : A.bal[x] = IF x = h THEN T.bal[h] + delta ELSE T.bal[x]
  <2> DEFINE B2 == [T.bal EXCEPT ![h] = @ + delta]
  <2>1. B2 \in [Slots -> Int] /\ \A x \in Slots : B2[x] = IF x = h THEN T.bal[h] + delta ELSE T.bal[x]
    <3>1. h \in Slots
      BY <1>0, PageFacts
    <3> QED BY <3>1, <1>1, Fields
  <2>2. A = [T EXCEPT !.bal = B2]
    BY DEF Leaned
  <2> HIDE DEF B2
  <2>3. /\ A \in Trees /\ A.link = L /\ A.type = T.type /\ A.end = T.end
        /\ A.count = T.count /\ A.height = T.height /\ A.bal = B2
    BY <2>1, <2>2 DEF Trees
  <2> QED BY <2>1, <2>3
<1>4. /\ b2 \in [N \cup {-1} -> Nat] /\ b2[h] = bh
      /\ \A x \in N \cup {-1} : x # h => b2[x] = b[x]
  <2> HIDE DEF bh
  <2> QED BY <1>0, <1>2
<1>5. p \in N \cup {PoolSize} /\ t \in Sd /\ (p = PoolSize => t = 1) /\ L[p][t] = h
  BY DEF Shape, Above
<1>6. \A x \in N \cup {PoolSize}, d \in Sd : ~(x = p /\ d = t) => L[x][d] # h
  <2> SUFFICES ASSUME NEW x \in N \cup {PoolSize}, NEW d \in Sd, L[x][d] = h PROVE x = p /\ d = t
    OBVIOUS
  <2>1. x = PoolSize => d = 1
    <3>1. L[PoolSize][-1] = -1
      BY DEF Shape, Rooted
    <3> QED BY <3>1, <1>0 DEF Sd
  <2> QED BY <2>1, Parented
<1>7. p # h
  <2> SUFFICES ASSUME p = h PROVE FALSE
    OBVIOUS
  <2>1. L[h][t] = h
    BY <1>5
  <2> QED BY <2>1, <1>5, <1>0, Around
<1>8. L[h][s] # h /\ L[h][-s] # h
  <2>1. \A d \in Sd : L[h][d] # h
    <3> SUFFICES ASSUME NEW d \in Sd, L[h][d] = h PROVE FALSE
      OBVIOUS
    <3>1. L[h][d] # -1
      BY <1>0
    <3> QED BY <3>1, Around
  <2> QED BY <2>1, <1>1
<1>9. b2[A.link[h][s]] = r /\ b2[A.link[h][-s]] = y
  <2>1. L[h][s] \in N \cup {-1} /\ L[h][-s] \in N \cup {-1}
    BY <1>0, <1>1
  <2> HIDE DEF b2
  <2> QED BY <2>1, <1>3, <1>4, <1>8
<1> HIDE DEF b2
<1>10. /\ A.bal[h] = IF s = 1 THEN r - y ELSE y - r
       /\ A.bal[h] \in -1..1
       /\ b2[h] = b[h] + Change(sign, A.bal[h])
  <2>1. A.bal[h] = T.bal[h] + delta /\ b2[h] = 1 + Higher(r, y)
    <3>1. h \in Slots
      BY <1>0, PageFacts
    <3> QED BY <3>1, <1>3, <1>4
  <2> DEFINE B == T.bal[h]
  <2>2. /\ \/ sign = 1 /\ delta = s /\ r = v + 1
           \/ sign # 1 /\ delta = -s /\ v = r + 1
        /\ B # delta /\ A.bal[h] = B + delta
        /\ B = (IF s = 1 THEN v - y ELSE y - v) /\ B \in -1..1
    BY <1>0, <2>1
  <2> HIDE DEF r, y, B
  <2>3. CASE sign = 1 /\ s = 1
    BY <2>3, <2>2, <2>1, <1>0, <1>2 DEF Higher, Change
  <2>4. CASE sign = 1 /\ s # 1
    <3>1. s = -1
      BY <2>4 DEF Sd
    <3> QED BY <2>4, <3>1, <2>2, <2>1, <1>0, <1>2 DEF Higher, Change
  <2>5. CASE sign # 1 /\ s = 1
    <3>1. delta = -1
      BY <2>5, <2>2
    <3> QED BY <2>5, <3>1, <2>2, <2>1, <1>0, <1>2 DEF Higher, Change
  <2>6. CASE sign # 1 /\ s # 1
    <3>1. delta = 1
      BY <2>6, <2>2, Flip
    <3>2. r = v - 1 /\ A.bal[h] = B + 1 /\ B = y - v /\ B # 1
      BY <3>1, <2>2, <2>6, <1>2, <1>0
    <3> QED BY <2>6, <3>2, <2>2, <2>1, <1>0, <1>2 DEF Higher, Change
  <2> QED BY <2>3, <2>4, <2>5, <2>6
<1>11. Even(A.link, A.bal, b2, h)
  <2>1. /\ b2[A.link[h][s]] \in Nat /\ b2[A.link[h][-s]] \in Nat
        /\ b2[h] = 1 + Higher(b2[A.link[h][s]], b2[A.link[h][-s]])
        /\ A.bal[h] = IF s = 1 THEN b2[A.link[h][s]] - b2[A.link[h][-s]]
                      ELSE b2[A.link[h][-s]] - b2[A.link[h][s]]
        /\ A.bal[h] \in -1..1
    <3> HIDE DEF r, y
    <3> QED BY <1>9, <1>10, <1>4, <1>2
  <2> QED BY <2>1, <1>1, EvenSide
<1>12. Hole(A, N, b2, p, t, b[h])
  <2> DEFINE M == {h}
  <2>1. M \in SUBSET N /\ h \in M /\ p \notin M
    BY <1>7
  <2>2. \A x \in N \cup {PoolSize}, d \in Sd : x \notin M /\ ~(x = p /\ d = t) =>
             A.link[x][d] = T.link[x][d] /\ T.link[x][d] \notin M
    BY <1>6, <1>3
  <2>3. \A x \in N \cup {-1} : x \notin M => b2[x] = b[x]
    BY <1>4
  <2>4. \A x \in N : x \notin M => A.bal[x] = T.bal[x]
    BY <1>3, <1>0, PageFacts
  <2>41. \A x \in N : x \notin M => Even(T.link, T.bal, b, x)
    BY <1>0
  <2>5. \A x \in M : Even(A.link, A.bal, b2, x)
    BY <1>11
  <2>6. A.link[p][t] = h /\ A.height = T.height /\ T.height = b[T.link[PoolSize][1]]
    BY <1>5, <1>3, <1>0
  <2>7. \A x \in N, d \in Sd : T.link[x][d] = -1 \/ T.link[x][d] \in N
    BY <1>0
  <2>8. T.link[PoolSize][1] = -1 \/ T.link[PoolSize][1] \in N
    BY Children
  <2>9. /\ A \in Trees /\ N \in SUBSET Pg /\ T.link[p][t] = h
        /\ b \in [N \cup {-1} -> Nat] /\ b[-1] = 0 /\ b2 \in [N \cup {-1} -> Nat]
    BY <1>0, <1>3, <1>4, <1>5
  <2>10. p \in N \cup {PoolSize} /\ t \in Sd /\ (p = PoolSize => t = 1)
    BY <1>5
  <2> HIDE DEF M, p, t
  <2>20. OnlyInside(A, T, N, M, h, h, p, t, b, b2)
    BY <2>1, <2>2, <2>3, <2>4, <2>41, <2>5, <2>6, <2>7, <2>8, <2>9, <2>10 DEF OnlyInside
  <2> QED BY <2>20, OtherLevels
<1>13. A.link[h][0] = p /\ A.type[h] = t /\ Shape(A.link, A.type, N, n, pos, E)
  BY <1>3
<1>14. Outside(A, T, N)
  BY <1>3 DEF Outside
<1> QED BY <1>3, <1>10, <1>12, <1>13, <1>14 DEF Climbed

(* avlh_balance_add() completes a level of a climb, by a rotation or     *)
(* without one.                                                          *)
LEMMA BalanceAdded ==
  ASSUME NEW T \in Trees, NEW N, NEW n, NEW pos, NEW E, Shape(T.link, T.type, N, n, pos, E),
         NEW h \in N, NEW s \in Sd, NEW b, NEW v, Hole(T, N, b, h, s, v),
         NEW sign \in {-1, 1}, NEW delta,
         \/ sign = 1 /\ delta = s /\ b[T.link[h][s]] = v + 1 /\ T.bal[T.link[h][s]] # 0
         \/ sign # 1 /\ delta = -s /\ v = b[T.link[h][s]] + 1,
         NEW R, R = Pool!BalanceAdd(T, h, delta)
  PROVE  Climbed(R.tree, R.node, T, N, n, pos, T.link[h][0], T.type[h], b[h], sign)
<1> DEFINE L == T.link
           r == b[L[h][s]]
           y == b[L[h][-s]]
<1>0. /\ b \in [N \cup {-1} -> Nat] /\ b[-1] = 0 /\ v \in Nat /\ b[h] \in Nat
      /\ \A x \in N, d \in Sd : L[x][d] \in N \cup {-1} /\ b[L[x][d]] \in Nat
      /\ \A x \in N : x # h => Even(T.link, T.bal, b, x)
      /\ b[h] = 1 + Higher(v, y)
      /\ T.bal[h] = IF s = 1 THEN v - y ELSE y - v
      /\ T.bal[h] \in -1..1
      /\ T.height = b[T.link[PoolSize][1]]
      /\ N \in SUBSET Pg /\ -1 \notin N /\ PoolSize \notin N
  BY HoleFacts
<1>1. -s \in Sd /\ s \in Int /\ s # 0 /\ delta \in Sd /\ delta \in Int /\ -(-s) = s
  BY SideFacts
<1>2. r \in Nat /\ y \in Nat
  BY <1>0, <1>1
<1>3. CASE T.bal[h] # delta
  <2> DEFINE A == Leaned(T, h, delta)
  <2>1. R = [node |-> h, tree |-> A]
    BY <1>3 DEF Pool!BalanceAdd, Leaned
  <2>2. R.node = h /\ R.tree = A
    <3> HIDE DEF A
    <3> QED BY <2>1 DEF A
  <2>3. \/ sign = 1 /\ delta = s /\ b[T.link[h][s]] = v + 1
        \/ sign # 1 /\ delta = -s /\ v = b[T.link[h][s]] + 1
    OBVIOUS
  <2>4. Climbed(A, h, T, N, n, pos, T.link[h][0], T.type[h], b[h], sign)
    BY <1>3, <2>3, LeanChanged
  <2> HIDE DEF A
  <2> QED BY <2>2, <2>4
<1>4. CASE T.bal[h] = delta
  <2>1. R = Pool!Rebalance(T, h, delta)
    BY <1>4 DEF Pool!BalanceAdd
  <2>2. /\ b[L[h][delta]] = b[L[h][-delta]] + 2
        /\ sign = 1 => /\ b[L[h][-delta]] = y /\ b[h] = y + 2 /\ L[h][delta] = L[h][s]
        /\ sign # 1 => /\ b[L[h][-delta]] = r /\ b[h] = r + 3
    <3>1. CASE sign = 1
      <4>1. delta = s /\ r = v + 1
        BY <3>1
      <4>2. v = y + 1
        <5> HIDE DEF y
        <5>1. CASE s = 1
          BY <5>1, <4>1, <1>4, <1>0, <1>2
        <5>2. CASE s # 1
          <6>1. s = -1
            BY <5>2 DEF Sd
          <6> QED BY <5>2, <6>1, <4>1, <1>4, <1>0, <1>2
        <5> QED BY <5>1, <5>2
      <4>3. b[L[h][delta]] = r /\ b[L[h][-delta]] = y
        BY <4>1
      <4> HIDE DEF r, y
      <4> QED BY <3>1, <4>1, <4>2, <4>3, <1>0, <1>2 DEF Higher
    <3>2. CASE sign # 1
      <4>1. delta = -s /\ v = r + 1
        BY <3>2
      <4>2. y = v + 1
        <5> HIDE DEF y
        <5>1. CASE s = 1
          <6>1. delta = -1
            BY <5>1, <4>1
          <6> QED BY <5>1, <6>1, <1>4, <1>0, <1>2
        <5>2. CASE s # 1
          <6>1. delta = 1
            BY <5>2, <4>1, Flip
          <6> QED BY <5>2, <6>1, <1>4, <1>0, <1>2
        <5> QED BY <5>1, <5>2
      <4>3. b[L[h][delta]] = y /\ b[L[h][-delta]] = r
        <5>1. -delta = s
          BY <4>1, <1>1
        <5> QED BY <4>1, <5>1
      <4> HIDE DEF r, y
      <4> QED BY <3>2, <4>1, <4>2, <4>3, <1>0, <1>2 DEF Higher
    <3> QED BY <3>1, <3>2
  <2>3. OffByTwo(T, N, n, pos, E, b, h, delta)
    BY <2>2, <1>0, <1>1, <1>4 DEF OffByTwo
  <2>4. Rebuilt(R.tree, R.node, T, N, n, pos, b, h, delta)
    BY <2>1, <2>3, RebalancedOnce, RebalancedTwice
  <2> DEFINE A == R.tree
             q == R.node
  <2> HIDE DEF A, q
  <2>5. Rebuilt(A, q, T, N, n, pos, b, h, delta)
    BY <2>4 DEF A, q
  <2>6. PICK b2 : Hole(A, N, b2, T.link[h][0], T.type[h], b[h])
               /\ b2[q] = b[T.link[h][-delta]] + (IF A.bal[q] = 0 THEN 2 ELSE 3)
    BY <2>5 DEF Rebuilt
  <2>7. b2[q] = b[h] + Change(sign, A.bal[q])
    <3>1. CASE sign = 1
      <4>1. A.bal[q] = 0
        BY <3>1, <2>2, <2>5 DEF Rebuilt
      <4> HIDE DEF y
      <4> QED BY <3>1, <4>1, <2>2, <2>6, <1>2 DEF Change
    <3>2. CASE sign # 1
      <4> HIDE DEF r
      <4> QED BY <3>2, <2>2, <2>6, <1>2 DEF Change
    <3> QED BY <3>1, <3>2
  <2>8. Climbed(A, q, T, N, n, pos, T.link[h][0], T.type[h], b[h], sign)
    BY <2>5, <2>6, <2>7 DEF Rebuilt, Climbed
  <2> QED BY <2>8 DEF A, q
<1> QED BY <1>3, <1>4

-----------------------------------------------------------------------------
(* Induction and loops. *)

(* Induction over the natural numbers, for sets: a set of numbers        *)
(* without a first number outside of it has no number outside.           *)
LEMMA SetInduction ==
  ASSUME NEW S \in SUBSET Nat, 0 \in S, \A n \in S : n + 1 \in S
  PROVE  S = Nat
<1> SUFFICES ASSUME NEW x \in Nat, x \notin S PROVE FALSE
  OBVIOUS
<1> DEFINE A == S \cap (0..x)
           B == A \ {0}
           up == [n \in A |-> n + 1]
<1>1. IsFiniteSet(A)
  <2>1. IsFiniteSet(0..x) /\ A \in SUBSET (0..x)
    BY FS_Interval
  <2> QED BY <2>1, FS_Subset
<1>2. up \in Injection(A, B)
  <2>1. \A n \in A : n + 1 \in B
    OBVIOUS
  <2>2. up \in [A -> B]
    BY <2>1
  <2>3. \A m, n \in A : up[m] = up[n] => m = n
    OBVIOUS
  <2> QED BY <2>2, <2>3 DEF Injection, IsInjective
<1>3. IsFiniteSet(B) /\ Cardinality(B) = Cardinality(A) - 1 /\ Cardinality(A) \in Nat
  <2> HIDE DEF A
  <2>1. 0 \in A BY DEF A
  <2> QED BY <1>1, <2>1, FS_RemoveElement, FS_CardinalityType
<1> HIDE DEF A, B, up
<1> QED BY <1>2, <1>3, FS_Injection

(* Repeating a step from a first value. *)
Iterates(f, S, first, next, N) ==
    /\ f \in [0..N -> S] /\ f[0] = first
    /\ \A k \in 1..N : f[k] = next[f[k-1]]

(* A step can be repeated any number of times: what the recursive        *)
(* functions of the model, its loops, are equal to.                      *)
LEMMA Loop ==
  ASSUME NEW S, NEW first \in S, NEW next \in [S -> S], NEW N \in Nat
  PROVE  \E f : Iterates(f, S, first, next, N)
<1> DEFINE Good(n) == \E f \in [0..n -> S] : f[0] = first /\ \A k \in 1..n : f[k] = next[f[k-1]]
           G == {n \in Nat : Good(n)}
<1>1. 0 \in G
  <2> DEFINE f == [k \in 0..0 |-> first]
  <2>1. f \in [0..0 -> S] /\ f[0] = first /\ \A k \in 1..0 : f[k] = next[f[k-1]]
    OBVIOUS
  <2> QED BY <2>1
<1>2. ASSUME NEW n \in G PROVE n + 1 \in G
  <2>1. PICK f \in [0..n -> S] : f[0] = first /\ \A k \in 1..n : f[k] = next[f[k-1]]
    OBVIOUS
  <2> DEFINE g == [k \in 0..(n+1) |-> IF k \in 0..n THEN f[k] ELSE next[f[n]]]
  <2>2. next[f[n]] \in S
    OBVIOUS
  <2>3. g \in [0..(n+1) -> S]
    BY <2>2
  <2>4. g[0] = first
    BY <2>1
  <2>5. ASSUME NEW k \in 1..(n+1) PROVE g[k] = next[g[k-1]]
    <3>1. CASE k = n + 1
      BY <3>1
    <3>2. CASE k \in 1..n
      BY <3>2, <2>1
    <3> QED BY <3>1, <3>2
  <2> HIDE DEF g
  <2>6. Good(n+1)
    BY <2>3, <2>4, <2>5
  <2>7. n + 1 \in Nat
    OBVIOUS
  <2> HIDE DEF Good
  <2> QED BY <2>6, <2>7
<1>3. G = Nat
  <2> HIDE DEF G
  <2> QED BY <1>1, <1>2, SetInduction, G \subseteq Nat DEF G
<1>4. Good(N)
  BY <1>3
<1> QED BY <1>4 DEF Iterates

(* An AVL tree, with heights b. *)
AvlTree(T, N, b) == Hole(T, N, b, PoolSize, 1, b[T.link[PoolSize][1]])

(* No subtree is higher than the tree is believed to be (the height      *)
(* avl_insert_inner() and avl_delete() maintain).                        *)
LEMMA HoleBound ==
  ASSUME NEW T \in Trees, NEW N, NEW n, NEW pos, NEW E, Shape(T.link, T.type, N, n, pos, E),
         NEW p \in N \cup {PoolSize}, NEW s \in Sd, p = PoolSize => s = 1,
         NEW b, NEW w, Hole(T, N, b, p, s, w), b[T.link[p][s]] <= w + 1
  PROVE  /\ w <= T.height /\ T.height \in Nat
         /\ \A y \in N : y # T.link[p][s] => b[y] <= T.height
<1> DEFINE L == T.link
           x == L[p][s]
           val(y) == IF y = x THEN w ELSE b[y]
           Fine(k) == \A y \in N : n - Width(E, y) <= k => val(y) <= T.height
           G == {k \in Nat : Fine(k)}
<1>0. /\ Ranks(N, n, pos, E) /\ n \in Nat /\ N \in SUBSET Pg /\ PoolSize \notin N /\ -1 \notin N
      /\ b \in [N \cup {-1} -> Nat] /\ b[-1] = 0 /\ w \in Nat
      /\ \A y \in N : b[y] \in Nat
      /\ \A y \in N, d \in Sd : L[y][d] \in N \cup {-1} /\ b[L[y][d]] \in Nat
  BY Children DEF Shape, Ranks, Hole
<1>1. x \in N \cup {-1} /\ x # p /\ b[x] \in Nat
  <2>1. x \in N \cup {-1}
    BY Children
  <2>2. x = p => FALSE
    <3> SUFFICES ASSUME x = p PROVE FALSE
      OBVIOUS
    <3>1. p \in N /\ L[p][s] # -1
      BY <2>1, <1>0, PoolHasPages
    <3> QED BY <3>1, Around
  <2> QED BY <2>1, <2>2, <1>0
<1>2. T.height \in Nat
  <2>1. b[L[PoolSize][1]] \in Nat
    BY <1>0, Children
  <2> QED BY <2>1, <1>0 DEF Hole
<1>3. ASSUME p \in N PROVE w + 1 <= b[p]
  <2>1. EvenBut(L, T.bal, b, p, s, w) /\ b[L[p][-s]] \in Nat
    BY <1>3, <1>0, SideFacts DEF Hole
  <2> QED BY <2>1, <1>0 DEF EvenBut, Higher
<1>4. ASSUME NEW y \in N, y # x, L[y][0] \in N PROVE b[y] + 1 <= b[L[y][0]]
  <2> DEFINE q == L[y][0]
             d == T.type[y]
  <2>1. q \in N /\ d \in Sd /\ L[q][d] = y /\ -d \in Sd
    BY <1>4, SideFacts DEF Shape, Above
  <2> HIDE DEF q, d
  <2>2. CASE q # p
    <3>1. Even(L, T.bal, b, q)
      BY <2>1, <2>2 DEF Hole
    <3>3. b[L[q][d]] \in Nat /\ b[L[q][-d]] \in Nat
      BY <2>1, <1>0
    <3>2. b[q] = 1 + Higher(b[L[q][d]], b[L[q][-d]])
      <4>1. CASE d = 1
        <5>1. -d = -1
          BY <4>1
        <5> HIDE DEF L
        <5> QED BY <4>1, <5>1, <3>1, <3>3 DEF Even, Higher
      <4>2. CASE d # 1
        <5>1. -d = 1 /\ d = -1
          BY <4>2, <2>1, Flip DEF Sd
        <5>2. b[L[q][1]] = b[L[q][-d]] /\ b[L[q][-1]] = b[L[q][d]]
          BY <5>1
        <5> HIDE DEF L
        <5> QED BY <5>2, <3>1, <3>3 DEF Even, Higher
      <4> QED BY <4>1, <4>2
    <3> QED BY <3>2, <2>1, <1>0 DEF Higher, q
  <2>3. CASE q = p
    <3>1. EvenBut(L, T.bal, b, p, s, w) /\ d # s
      BY <2>1, <2>3, <1>4 DEF Hole
    <3>2. d = -s
      BY <3>1, <2>1, SideFacts DEF Sd
    <3>3. b[p] = 1 + Higher(w, b[y])
      BY <3>1, <3>2, <2>1, <2>3 DEF EvenBut
    <3> HIDE DEF L
    <3>4. b[q] = 1 + Higher(w, b[y]) /\ b[y] \in Nat
      BY <3>3, <2>3, <1>0
    <3> QED BY <3>4, <1>0 DEF Higher, q
  <2> QED BY <2>2, <2>3
<1>5. \A y \in N : L[y][0] \in N => Width(E, y) + 1 <= Width(E, L[y][0])
  <2> SUFFICES ASSUME NEW y \in N, L[y][0] \in N PROVE Width(E, y) + 1 <= Width(E, L[y][0])
    OBVIOUS
  <2> DEFINE q == L[y][0]
             d == T.type[y]
  <2>1. q \in N /\ d \in Sd /\ L[q][d] = y
    BY DEF Shape, Above
  <2> HIDE DEF q, d
  <2>2. Below(L, T.type, N, pos, E, q, d)
    BY <2>1, <1>0 DEF Shape, Kid
  <2>3. Width(E, y) < Width(E, q) /\ Width(E, y) \in Int /\ Width(E, q) \in Int
    BY <2>1, <2>2, <1>0, Narrower
  <2> QED BY <2>3 DEF q
<1>6. \A y \in N : Width(E, y) \in Int /\ Width(E, y) + 1 <= n
  <2> SUFFICES ASSUME NEW y \in N PROVE Width(E, y) \in Int /\ Width(E, y) + 1 <= n
    OBVIOUS
  <2>1. E[1][y] \in 1..n /\ E[-1][y] \in 1..n
    BY <1>0 DEF Ranks, Sd
  <2> QED BY <2>1, <1>0 DEF Width
<1>7. ASSUME NEW y \in N, NEW k \in Nat, Fine(k), n - Width(E, y) <= k + 1 PROVE val(y) <= T.height
  <2>1. Above(L, T.type, N, y)
    BY DEF Shape
  <2>2. CASE y = x
    <3>1. CASE p = PoolSize
      BY <2>2, <3>1, <1>0, <1>2 DEF Hole
    <3>2. CASE p \in N
      <4>1. L[y][0] = p
        BY <2>2, <3>2, Parented
      <4>2. n - Width(E, p) <= k /\ val(p) = b[p]
        BY <4>1, <3>2, <1>5, <1>6, <1>7, <1>0, <1>1
      <4>3. b[p] <= T.height
        BY <4>2, <1>7, <3>2
      <4> HIDE DEF x, L
      <4> QED BY <2>2, <4>3, <1>3, <3>2, <1>0, <1>2
    <3> QED BY <3>1, <3>2
  <2>3. CASE y # x
    <3> DEFINE q == L[y][0]
    <3>1. CASE q = PoolSize
      <4>1. L[PoolSize][1] = y
        BY <2>1, <3>1 DEF Above
      <4>2. p # PoolSize
        BY <4>1, <2>3
      <4> QED BY <4>1, <4>2, <2>3, <1>0, <1>2 DEF Hole
    <3>2. CASE q \in N
      <4>1. n - Width(E, q) <= k /\ b[y] + 1 <= b[q]
        BY <2>3, <3>2, <1>4, <1>5, <1>6, <1>7, <1>0
      <4>2. val(q) <= T.height
        BY <4>1, <1>7, <3>2
      <4>3. val(y) = b[y]
        BY <2>3
      <4> HIDE DEF q
      <4>4. CASE q = x
        <5>1. w <= T.height /\ b[q] <= w + 1
          BY <4>4, <4>2
        <5> HIDE DEF x, L
        <5> QED BY <4>3, <5>1, <4>1, <3>2, <1>0, <1>2
      <4>5. CASE q # x
        <5>1. b[q] <= T.height
          BY <4>5, <4>2
        <5> HIDE DEF x, L
        <5> QED BY <4>3, <5>1, <4>1, <3>2, <1>0, <1>2
      <4> QED BY <4>4, <4>5
    <3> QED BY <3>1, <3>2, <2>1 DEF Above
  <2> QED BY <2>2, <2>3
<1>8. 0 \in G
  <2>1. \A y \in N : ~(n - Width(E, y) <= 0)
    BY <1>6, <1>0
  <2> QED BY <2>1
<1>9. \A k \in G : k + 1 \in G
  <2> HIDE DEF val
  <2> QED BY <1>7
<1>10. G = Nat
  <2> HIDE DEF G
  <2> QED BY <1>8, <1>9, SetInduction, G \subseteq Nat DEF G
<1>11. ASSUME NEW y \in N PROVE val(y) <= T.height
  <2>1. n - Width(E, y) \in Nat
    BY <1>0, <1>6
  <2>2. Fine(n - Width(E, y))
    BY <2>1, <1>10
  <2>3. n - Width(E, y) <= n - Width(E, y)
    BY <2>1
  <2> HIDE DEF val
  <2> QED BY <2>2, <2>3
<1>12. w <= T.height
  <2>1. CASE p = PoolSize
    BY <2>1, <1>0, <1>2 DEF Hole
  <2>2. CASE p \in N
    <3>1. b[p] <= T.height
      BY <2>2, <1>11, <1>1
    <3> QED BY <3>1, <2>2, <1>3, <1>0, <1>2
  <2> QED BY <2>1, <2>2
<1>13. \A y \in N : y # x => b[y] <= T.height
  BY <1>11
<1> QED BY <1>2, <1>12, <1>13

-----------------------------------------------------------------------------
(* Climbing to the top. *)

(* A climb ends above the tree, or where the height no longer changes. *)
Stop(s, sign) == s.node = PoolSize \/ Change(sign, s.tree.bal[s.node]) = 0

(* All is even but on the path upwards from x, which is below p on side  *)
(* d.                                                                    *)
Loose(T, x, p, d, N, sign, k, b, w) ==
    /\ Hole(T, N, b, p, d, w) /\ b[T.link[p][d]] = w + Change(sign, T.bal[x])
    /\ sign = 1 => T.link[p][d] = x
    /\ Change(sign, T.bal[x]) # 0 => k + 1 <= w

(* What holds in the loops of avl_insert_inner() and avl_delete(), k     *)
(* levels up.                                                            *)
Climbing(s, k, T0, N, n, pos, sign) ==
    /\ s \in [node : Slots, tree : Trees]
    /\ s.tree.end = T0.end /\ s.tree.count = T0.count /\ Outside(s.tree, T0, N)
    /\ \E E : Shape(s.tree.link, s.tree.type, N, n, pos, E)
    /\ s.node = PoolSize => \E b : AvlTree(s.tree, N, b)
    /\ s.node # PoolSize =>
         LET p == s.tree.link[s.node][0]
             d == s.tree.type[s.node]
         IN /\ s.tree.height = T0.height
            /\ p \in N \cup {PoolSize} /\ d \in Sd /\ (p = PoolSize => d = 1)
            /\ \E b, w : Loose(s.tree, s.node, p, d, N, sign, k, b, w)

(* The tree becomes higher or lower. *)
Grown(T, k) == [T EXCEPT !.height = @ + k]

(* A step of the loops. *)
Upwards(s, sign) ==
    LET up == s.tree.link[s.node][0]
        delta == sign * s.tree.type[s.node]
    IN IF Stop(s, sign) THEN s
       ELSE IF up = PoolSize THEN [node |-> up, tree |-> Grown(s.tree, sign)]
       ELSE Pool!BalanceAdd(s.tree, up, delta)

(* Only the height changes. *)
LEMMA GrownTree ==
  ASSUME NEW T \in Trees, NEW k \in Int
  PROVE  /\ Grown(T, k) \in Trees /\ Grown(T, k).height = T.height + k
         /\ Grown(T, k).link = T.link /\ Grown(T, k).type = T.type /\ Grown(T, k).bal = T.bal
         /\ Grown(T, k).end = T.end /\ Grown(T, k).count = T.count
BY DEF Grown, Trees

(* When Change() is zero, in the words of the code. *)
LEMMA StopMeans ==
  ASSUME NEW sign \in {-1, 1}, NEW v \in Int
  PROVE  /\ Change(sign, v) # 0 => Change(sign, v) = sign
         /\ Change(sign, v) = 0 <=> ((v # 0) # (sign = 1))
<1>1. CASE sign = 1
  BY <1>1 DEF Change
<1>2. CASE sign = -1
  BY <1>2 DEF Change
<1> QED BY <1>1, <1>2

(* Multiplying by a sign. *)
LEMMA Scaled ==
  \A sign \in {-1, 1}, d \in Sd : /\ sign = 1 => sign * d = d
                                  /\ sign # 1 => sign * d = -d
                                  /\ sign # 1 => sign = -1
<1> SUFFICES ASSUME NEW sign \in {-1, 1}, NEW d \in Sd
             PROVE /\ sign = 1 => sign * d = d
                   /\ sign # 1 => sign * d = -d
                   /\ sign # 1 => sign = -1
  OBVIOUS
<1>1. d \in Int
  BY SideFacts
<1>2. sign = 1 => sign * d = d
  BY <1>1
<1>3. sign # 1 => sign = -1
  OBVIOUS
<1>4. \A u \in Int : (-1) * u = -u
  OBVIOUS
<1>5. sign # 1 => sign * d = -d
  BY <1>1, <1>3, <1>4
<1> QED BY <1>2, <1>3, <1>5

(* avlh_balance_add() answers with a node and a tree. *)
LEMMA BalanceRecord ==
  ASSUME NEW T, NEW h, NEW delta, NEW R, R = Pool!BalanceAdd(T, h, delta)
  PROVE  R = [node |-> R.node, tree |-> R.tree]
<1>1. CASE T.bal[h] = delta
  <2>1. R = Pool!Rebalance(T, h, delta)
    BY <1>1 DEF Pool!BalanceAdd
  <2>2. \E x, A : R = [node |-> x, tree |-> A]
    BY <2>1 DEF Pool!Rebalance
  <2> QED BY <2>2
<1>2. CASE T.bal[h] # delta
  <2>2. \E x, A : R = [node |-> x, tree |-> A]
    BY <1>2 DEF Pool!BalanceAdd
  <2> QED BY <2>2
<1> QED BY <1>1, <1>2

(* A step of the loops of avl_insert_inner() and avl_delete() keeps what *)
(* holds in them, one level up.                                          *)
LEMMA ClimbStep ==
  ASSUME NEW T0, NEW N, NEW n, NEW pos, NEW sign \in {-1, 1}, NEW k \in Nat,
         NEW s, Climbing(s, k, T0, N, n, pos, sign)
  PROVE  Climbing(Upwards(s, sign), k+1, T0, N, n, pos, sign)
<1> DEFINE T == s.tree
           x == s.node
           p == T.link[x][0]
           d == T.type[x]
<1>0. /\ T \in Trees /\ x \in Slots /\ T.end = T0.end /\ T.count = T0.count
      /\ s = [node |-> x, tree |-> T]
  BY DEF Climbing
<1>1. CASE Stop(s, sign)
  <2>1. Upwards(s, sign) = s
    BY <1>1 DEF Upwards
  <2>2. x # PoolSize => Change(sign, T.bal[x]) = 0
    BY <1>1 DEF Stop
  <2> HIDE DEF T, x, p, d
  <2>3. Climbing(s, k+1, T0, N, n, pos, sign)
    BY <2>2, <1>0, Zenon DEF Climbing, Loose, T, x
  <2> QED BY <2>1, <2>3
<1>2. CASE ~Stop(s, sign)
  <2>1. /\ x # PoolSize /\ Change(sign, T.bal[x]) # 0 /\ T.bal[x] \in Int
        /\ T.height = T0.height /\ p \in N \cup {PoolSize} /\ d \in Sd /\ (p = PoolSize => d = 1)
    BY <1>2, <1>0, Fields DEF Stop, Climbing
  <2>2. PICK b, w : Loose(T, x, p, d, N, sign, k, b, w)
    BY <2>1 DEF Climbing
  <2>3. PICK E : Shape(T.link, T.type, N, n, pos, E)
    BY DEF Climbing
  <2>4. Change(sign, T.bal[x]) = sign
    BY <2>1, StopMeans
  <2>5. Hole(T, N, b, p, d, w) /\ b[T.link[p][d]] = w + sign /\ k + 1 <= w /\ w \in Nat
        /\ (sign = 1 => T.link[p][d] = x)
    BY <2>2, <2>4, <2>1, Zenon DEF Loose, Hole
  <2>6. CASE p = PoolSize
    <3> DEFINE A == Grown(T, sign)
    <3>1. Upwards(s, sign) = [node |-> PoolSize, tree |-> A]
      BY <1>2, <2>6 DEF Upwards
    <3>2. /\ A \in Trees /\ A.height = T.height + sign
          /\ A.link = T.link /\ A.type = T.type /\ A.bal = T.bal /\ A.end = T.end /\ A.count = T.count
      BY <1>0, GrownTree
    <3>3. T.height = w /\ d = 1
      BY <2>5, <2>6, <2>1, Zenon DEF Hole
    <3> HIDE DEF A, T, x, p, d
    <3>4. A.height = b[A.link[PoolSize][1]] /\ b[A.link[PoolSize][1]] \in Nat
      <4>1. A.height = b[A.link[PoolSize][1]]
        BY <3>2, <3>3, <2>5, <2>6
      <4>2. A.link[PoolSize][1] \in N \cup {-1} /\ b \in [N \cup {-1} -> Nat]
        BY <2>3, <3>2, <2>5, Children DEF Hole
      <4> QED BY <4>1, <4>2
    <3>5. PoolSize \notin N
      BY <2>3, Children
    <3>6. AvlTree(A, N, b)
      BY <3>2, <3>4, <3>5, <2>5, <2>6, <3>3 DEF AvlTree, Hole
    <3>7. PoolSize \in Slots
      BY PoolHasPages DEF Slots
    <3>8. Climbing([node |-> PoolSize, tree |-> A], k+1, T0, N, n, pos, sign)
      <4>1. Outside(T, T0, N)
        BY DEF Climbing, T
      <4>2. Outside(A, T0, N)
        BY <4>1, <3>2 DEF Outside
      <4> QED BY <4>2, <3>2, <3>6, <3>7, <1>0, <2>3 DEF Climbing
    <3> QED BY <3>1, <3>8
  <2>7. CASE p # PoolSize
    <3> DEFINE delta == sign * d
               R == Pool!BalanceAdd(T, p, delta)
    <3>0. p \in N
      BY <2>1, <2>7
    <3>1. Upwards(s, sign) = R
      BY <1>2, <2>7 DEF Upwards
    <3>2. (sign = 1 => delta = d) /\ (sign # 1 => delta = -d) /\ (sign # 1 => sign = -1)
      BY <2>1, Scaled
    <3>21. R = Pool!BalanceAdd(T, p, delta)
      OBVIOUS
    <3>10. p \in Slots /\ p # PoolSize
      BY <2>7, <3>0, <2>3, PageFacts DEF Shape, Ranks
    <3> HIDE DEF T, x, p, d, delta, R
    <3>9. R = [node |-> R.node, tree |-> R.tree]
      BY <3>21, BalanceRecord
    <3>3. \/ sign = 1 /\ delta = d /\ b[T.link[p][d]] = w + 1 /\ T.bal[T.link[p][d]] # 0
          \/ sign # 1 /\ delta = -d /\ w = b[T.link[p][d]] + 1
      <4>1. CASE sign = 1
        BY <4>1, <3>2, <2>5, <2>1 DEF Change
      <4>2. CASE sign # 1
        BY <4>2, <3>2, <2>5
      <4> QED BY <4>1, <4>2
    <3>4. Climbed(R.tree, R.node, T, N, n, pos, T.link[p][0], T.type[p], b[p], sign)
      BY <3>3, <3>0, <1>0, <2>1, <2>3, <2>5, BalanceAdded DEF R
    <3>5. b[p] \in Nat /\ k + 2 <= b[p]
      <4>1. EvenBut(T.link, T.bal, b, p, d, w)
        BY <3>0, <2>5 DEF Hole
      <4>2. b[T.link[p][-d]] \in Nat
        <5>1. -d \in Sd
          BY <2>1, SideFacts
        <5>2. \A e \in Sd : b[T.link[p][e]] \in Nat
          BY <3>0, <2>1, <2>5, <2>3, <1>0, HoleFacts
        <5> QED BY <5>1, <5>2
      <4>3. b[p] = 1 + Higher(w, b[T.link[p][-d]])
        BY <4>1 DEF EvenBut
      <4>4. w \in Nat /\ k + 1 <= w
        BY <2>5
      <4> HIDE DEF T, p, d
      <4> QED BY <4>2, <4>3, <4>4 DEF Higher
    <3>6. /\ T.link[p][0] \in N \cup {PoolSize} /\ T.type[p] \in Sd
          /\ (T.link[p][0] = PoolSize => T.type[p] = 1)
      BY <3>0, <2>3 DEF Shape, Above
    <3> DEFINE A == R.tree
               q == R.node
    <3>18a. A = R.tree /\ q = R.node
      OBVIOUS
    <3>7. /\ A \in Trees /\ A.end = T0.end /\ A.count = T0.count /\ q \in N /\ q \in Slots /\ q # PoolSize
          /\ A.link[q][0] = T.link[p][0] /\ A.type[q] = T.type[p]
          /\ \E E2 : Shape(A.link, A.type, N, n, pos, E2)
      BY <3>4, <1>0, <2>3, PageFacts DEF Climbed, Shape, Ranks
    <3>8. PICK b2 : Hole(A, N, b2, T.link[p][0], T.type[p], b[p]) /\ b2[q] = b[p] + Change(sign, A.bal[q])
      BY <3>4 DEF Climbed
    <3>20. \E E2 : Shape(A.link, A.type, N, n, pos, E2)
      BY <3>7
    <3> HIDE DEF A, q
    <3>11. A.link[A.link[q][0]][A.type[q]] = q
      BY <3>7 DEF Shape, Above
    <3>12. A.height = T0.height
      BY <3>4, <2>1 DEF Climbed, A
    <3>14. A.bal[q] \in Int
      BY <3>7, Fields
    <3>15. Change(sign, A.bal[q]) # 0 => k + 1 + 1 <= b[p]
      BY <3>5
    <3>16. sign = 1 => A.link[A.link[q][0]][A.type[q]] = q
      BY <3>11
    <3>17. Loose(A, q, A.link[q][0], A.type[q], N, sign, k+1, b2, b[p])
      BY <3>8, <3>7, <3>11, <3>15, <3>5 DEF Loose
    <3>18. /\ R \in [node : Slots, tree : Trees] /\ R.node = q /\ R.tree = A
      BY <3>7, <3>9, <3>18a
    <3>19. A.link[q][0] \in N \cup {PoolSize} /\ A.type[q] \in Sd /\ (A.link[q][0] = PoolSize => A.type[q] = 1)
      BY <3>6, <3>7
    <3>13. Climbing(R, k+1, T0, N, n, pos, sign)
      <4>1. Outside(T, T0, N) /\ Outside(A, T, N)
        BY <3>4 DEF Climbing, Climbed, T, A
      <4>2. Outside(A, T0, N)
        BY <4>1 DEF Outside
      <4> QED BY <4>2, <3>18, <3>7, <3>12, <3>17, <3>19 DEF Climbing
    <3> QED BY <3>1, <3>13
  <2> QED BY <2>6, <2>7
<1> QED BY <1>1, <1>2

(* A step, as Climb defines it. *)
Stepped(s, sign) ==
    LET up == Pool!Parent(s.tree, s.node)
        delta == sign * s.tree.type[s.node]
    IN IF s.node = PoolSize \/ (s.tree.bal[s.node] # 0) # (sign = 1) THEN s
       ELSE IF up = PoolSize THEN [node |-> up, tree |-> [s.tree EXCEPT !.height = @ + sign]]
       ELSE Pool!BalanceAdd(s.tree, up, delta)

(* It is the same. *)
LEMMA SteppedUpwards ==
  ASSUME NEW sign \in {-1, 1}, NEW s, s.node # PoolSize => s.tree.bal[s.node] \in Int
  PROVE  Stepped(s, sign) = Upwards(s, sign)
<1>1. (s.node = PoolSize \/ (s.tree.bal[s.node] # 0) # (sign = 1)) <=> Stop(s, sign)
  BY StopMeans DEF Stop
<1> QED BY <1>1 DEF Stepped, Upwards, Pool!Parent, Pool!Up, Grown

(* What holds a level up holds here. *)
LEMMA Later ==
  ASSUME NEW s, NEW k \in Nat, NEW T0, NEW N, NEW n, NEW pos, NEW sign,
         Climbing(s, k+1, T0, N, n, pos, sign)
  PROVE  Climbing(s, k, T0, N, n, pos, sign)
<1>1. ASSUME NEW T, NEW x, NEW p, NEW d, NEW b, NEW w, Loose(T, x, p, d, N, sign, k+1, b, w)
      PROVE  Loose(T, x, p, d, N, sign, k, b, w)
  <2>1. w \in Nat
    BY <1>1 DEF Loose, Hole
  <2>2. k + 1 + 1 <= w => k + 1 <= w
    BY <2>1
  <2> QED BY <1>1, <2>2 DEF Loose
<1> QED BY <1>1 DEF Climbing

(* Balances stay numbers while climbing. *)
LEMMA ClimbingBalance ==
  ASSUME NEW s, NEW k, NEW T0, NEW N, NEW n, NEW pos, NEW sign,
         Climbing(s, k, T0, N, n, pos, sign)
  PROVE  s.tree \in Trees /\ s.tree.bal[s.node] \in Int
<1>1. s.tree \in Trees /\ s.node \in Slots
  BY DEF Climbing
<1> QED BY <1>1, Fields

(* The loops of avl_insert_inner() and avl_delete() keep what holds in   *)
(* them, by induction over the levels.                                   *)
LEMMA ClimbLoop ==
  ASSUME NEW T \in Trees, NEW N, NEW n, NEW pos, NEW sign \in {-1, 1}, NEW h,
         Climbing([node |-> h, tree |-> T], 0, T, N, n, pos, sign)
  PROVE  \E s : /\ Pool!Climb(T, h, sign) = s.tree
                /\ Climbing(s, MaxHeight, T, N, n, pos, sign)
<1>0. MaxHeight \in Nat /\ Pool!Depth = 0..MaxHeight
  BY PoolAssumption DEF Pool!RangeTreesConstants, Pool!AvlConstants, Pool!Depth
<1> DEFINE first == [node |-> h, tree |-> T]
           S == {s \in [node : Slots, tree : Trees] : Climbing(s, 0, T, N, n, pos, sign)}
           next == [s \in S |-> Upwards(s, sign)]
           step[k \in Pool!Depth] ==
             IF k = 0 THEN [node |-> h, tree |-> T] ELSE Stepped(step[k-1], sign)
<1>1. first \in S
  BY 0 \in Nat DEF Climbing
<1>2. next \in [S -> S]
  <2>1. ASSUME NEW s \in S PROVE Upwards(s, sign) \in S
    <3>1. Climbing(Upwards(s, sign), 0+1, T, N, n, pos, sign)
      BY ClimbStep, 0 \in Nat
    <3>2. Climbing(Upwards(s, sign), 0, T, N, n, pos, sign)
      BY <3>1, Later, 0 \in Nat
    <3>3. Upwards(s, sign) \in [node : Slots, tree : Trees]
      BY <3>2 DEF Climbing
    <3> DEFINE u == Upwards(s, sign)
    <3>4. u \in [node : Slots, tree : Trees] /\ Climbing(u, 0, T, N, n, pos, sign)
      BY <3>2, <3>3
    <3> HIDE DEF u
    <3>5. u \in S
      BY <3>4
    <3> QED BY <3>5 DEF u
  <2> HIDE DEF S
  <2> QED BY <2>1
<1>30. PICK f : Iterates(f, S, first, next, MaxHeight)
  <2> HIDE DEF first, S, next
  <2> QED BY <1>0, <1>1, <1>2, Loop
<1>3. f \in [0..MaxHeight -> S] /\ f[0] = first /\ \A k \in 1..MaxHeight : f[k] = next[f[k-1]]
  <2> HIDE DEF first, S, next
  <2> QED BY <1>30 DEF Iterates
<1>4. \A s \in S : next[s] = Stepped(s, sign)
  <2>1. ASSUME NEW s \in S PROVE Upwards(s, sign) = Stepped(s, sign)
    <3>1. s.tree.bal[s.node] \in Int
      BY ClimbingBalance
    <3> QED BY <3>1, SteppedUpwards
  <2> QED BY <2>1
<1>5. f = [k \in Pool!Depth |-> IF k = 0 THEN first ELSE Stepped(f[k-1], sign)]
  <2>1. \A k \in 0..MaxHeight : k # 0 => f[k] = Stepped(f[k-1], sign)
    <3> SUFFICES ASSUME NEW k \in 0..MaxHeight, k # 0 PROVE f[k] = Stepped(f[k-1], sign)
      OBVIOUS
    <3>1. k \in 1..MaxHeight /\ k-1 \in 0..MaxHeight
      BY <1>0
    <3> HIDE DEF S, next
    <3> QED BY <3>1, <1>3, <1>4
  <2> HIDE DEF S, next, first
  <2> QED BY <2>1, <1>3, <1>0
<1>6. step = [k \in Pool!Depth |-> IF k = 0 THEN first ELSE Stepped(step[k-1], sign)]
  <2> HIDE DEF S, next
  <2>1. \E g : g = [k \in Pool!Depth |-> IF k = 0 THEN first ELSE Stepped(g[k-1], sign)]
    BY <1>5
  <2> QED BY <2>1
<1>7. Pool!Climb(T, h, sign) = step[MaxHeight].tree
  BY DEF Pool!Climb, Stepped, Pool!Right
<1> DEFINE G == {k \in Nat : k \in 0..MaxHeight => Climbing(step[k], k, T, N, n, pos, sign)}
<1> HIDE DEF step, S, next
<1>8. 0 \in G
  <2>1. step[0] = first
    BY <1>6, <1>0
  <2> QED BY <2>1
<1>9. \A k \in G : k + 1 \in G
  <2> SUFFICES ASSUME NEW k \in G, k + 1 \in 0..MaxHeight
               PROVE  Climbing(step[k+1], k+1, T, N, n, pos, sign)
    OBVIOUS
  <2>1. k \in Nat /\ k \in 0..MaxHeight /\ k+1-1 = k /\ k+1 # 0 /\ k+1 \in 0..MaxHeight
    BY <1>0
  <2>2. step[k+1] = Stepped(step[k], sign)
    BY <1>6, <1>0, <2>1
  <2>3. Climbing(step[k], k, T, N, n, pos, sign)
    BY <2>1
  <2>4. Stepped(step[k], sign) = Upwards(step[k], sign)
    BY <2>3, ClimbingBalance, SteppedUpwards
  <2> QED BY <2>1, <2>2, <2>3, <2>4, ClimbStep
<1>10. MaxHeight \in G
  <2> HIDE DEF G
  <2>1. G = Nat
    BY <1>8, <1>9, SetInduction, G \subseteq Nat DEF G
  <2> QED BY <2>1, <1>0
<1>11. Climbing(step[MaxHeight], MaxHeight, T, N, n, pos, sign)
  BY <1>10, <1>0
<1> QED BY <1>7, <1>11

(* The climb is over, the tree is an AVL tree. *)
Settled(A, T, N, n, pos) ==
    /\ A \in Trees /\ A.end = T.end /\ A.count = T.count /\ Outside(A, T, N)
    /\ \E E : Shape(A.link, A.type, N, n, pos, E)
    /\ \E b : AvlTree(A, N, b)

(* Where a climb is. *)
At(h, T) == [node |-> h, tree |-> T]

(* After MaxHeight levels every climb has ended, above the tree or where *)
(* heights no longer change.                                             *)
LEMMA ClimbSettles ==
  ASSUME NEW T \in Trees, NEW N, NEW n, NEW pos, NEW sign \in {-1, 1}, NEW h,
         Climbing(At(h, T), 0, T, N, n, pos, sign),
         T.height <= MaxHeight
  PROVE  Settled(Pool!Climb(T, h, sign), T, N, n, pos)
<1>0. MaxHeight \in Nat
  BY PoolAssumption DEF Pool!RangeTreesConstants, Pool!AvlConstants
<1>1. PICK s : /\ Pool!Climb(T, h, sign) = s.tree
               /\ Climbing(s, MaxHeight, T, N, n, pos, sign)
  BY ClimbLoop DEF At
<1> DEFINE A == s.tree
           x == s.node
           p == A.link[x][0]
           d == A.type[x]
<1>2. /\ A \in Trees /\ A.end = T.end /\ A.count = T.count /\ Outside(A, T, N) /\ A.bal[x] \in Int
      /\ \E E : Shape(A.link, A.type, N, n, pos, E)
  BY <1>1, ClimbingBalance DEF Climbing
<1>3. CASE x = PoolSize
  BY <1>1, <1>2, <1>3 DEF Climbing, Settled
<1>4. CASE x # PoolSize
  <2>1. A.height = T.height /\ p \in N \cup {PoolSize} /\ d \in Sd /\ (p = PoolSize => d = 1)
    BY <1>1, <1>4 DEF Climbing
  <2>2. PICK b, w : Loose(A, x, p, d, N, sign, MaxHeight, b, w)
    BY <1>1, <1>4 DEF Climbing
  <2>3. PICK E : Shape(A.link, A.type, N, n, pos, E)
    BY <1>2
  <2> HIDE DEF A, x, p, d
  <2>4. Hole(A, N, b, p, d, w) /\ w \in Nat
    BY <2>2 DEF Loose, Hole
  <2>5. Change(sign, A.bal[x]) = 0
    <3> SUFFICES ASSUME Change(sign, A.bal[x]) # 0 PROVE FALSE
      OBVIOUS
    <3>1. MaxHeight + 1 <= w
      BY <2>2 DEF Loose
    <3>2. b[A.link[p][d]] = w + Change(sign, A.bal[x]) /\ Change(sign, A.bal[x]) = sign
      BY <2>2, <1>2, StopMeans DEF Loose
    <3>3. b[A.link[p][d]] <= w + 1
      BY <3>2, <2>4
    <3>4. w <= A.height /\ A.height \in Nat
      BY <3>3, <2>1, <2>3, <2>4, <1>2, HoleBound
    <3> QED BY <3>1, <3>4, <2>1, <2>4, <1>0
  <2>6. w = b[A.link[p][d]]
    BY <2>5, <2>2, <2>4 DEF Loose
  <2>7. /\ b \in [N \cup {-1} -> Nat] /\ N \in SUBSET Pg /\ -1 \notin N /\ PoolSize \notin N
        /\ \A y \in N, e \in Sd : A.link[y][e] \in N \cup {-1} /\ b[A.link[y][e]] \in Nat
    BY <2>3, <2>4, Children DEF Hole
  <2>8. \A y \in N : Even(A.link, A.bal, b, y)
    <3> SUFFICES ASSUME p \in N PROVE Even(A.link, A.bal, b, p)
      BY <2>4 DEF Hole
    <3>1. EvenBut(A.link, A.bal, b, p, d, w)
      BY <2>4 DEF Hole
    <3>2. -d \in Sd
      BY <2>1, SideFacts
    <3>3. b[A.link[p][d]] \in Nat /\ b[A.link[p][-d]] \in Nat
      BY <2>7, <3>2, <2>1
    <3>4. /\ b[p] = 1 + Higher(b[A.link[p][d]], b[A.link[p][-d]])
          /\ A.bal[p] = IF d = 1 THEN b[A.link[p][d]] - b[A.link[p][-d]]
                        ELSE b[A.link[p][-d]] - b[A.link[p][d]]
          /\ A.bal[p] \in -1..1
      BY <3>1, <2>6 DEF EvenBut
    <3> QED BY <3>3, <3>4, <2>1, EvenSide
  <2>9. A.height = b[A.link[PoolSize][1]] /\ b[A.link[PoolSize][1]] \in Nat
    <3>1. A.link[PoolSize][1] \in N \cup {-1}
      BY <2>3, Children
    <3> QED BY <3>1, <2>4, <2>6, <2>1, <2>7 DEF Hole
  <2>10. AvlTree(A, N, b)
    BY <2>7, <2>8, <2>9, <2>4 DEF AvlTree, Hole
  <2> QED BY <2>10, <1>1, <1>2 DEF Settled, A, x
<1> QED BY <1>3, <1>4

-----------------------------------------------------------------------------
(* How high a tree gets. *)

(* The fewest nodes of an AVL tree, level by level. *)
FewestType ==
    /\ MaxHeight \in Nat /\ PoolSize < Pool!Fewest[MaxHeight+1]
    /\ Pool!Fewest \in [0..MaxHeight+1 -> Nat]
    /\ Pool!Fewest[0] = 0 /\ Pool!Fewest[1] = 1
    /\ \A h \in 2..MaxHeight+1 : Pool!Fewest[h] = Pool!Fewest[h-1] + Pool!Fewest[h-2] + 1

(* What is assumed of the pool. *)
LEMMA PoolConstants ==
  /\ MaxHeight \in Nat /\ PoolSize < Pool!Fewest[MaxHeight+1]
  /\ Requests \in SUBSET (Nat \ {0})
<1>1. Pool!RangeTreesConstants /\ Pool!AvlConstants
  BY PoolAssumption DEF Pool!RangeTreesConstants
<1>2. Cardinality(0..PoolSize-1) = PoolSize
  BY PoolHasPages, FS_Interval
<1>3. Pool!Cardinality(0..PoolSize-1) = Cardinality(0..PoolSize-1)
  BY DEF Pool!Cardinality, Cardinality
<1> QED BY <1>1, <1>2, <1>3 DEF Pool!RangeTreesConstants, Pool!AvlConstants

(* They are as defined, for every height. *)
LEMMA FewestNodes == FewestType
<1>0. MaxHeight \in Nat /\ PoolSize < Pool!Fewest[MaxHeight+1]
  BY PoolConstants
<1> DEFINE top == MaxHeight + 1
           S == Nat \X Nat
           next == [s \in S |-> <<s[2], s[1] + s[2] + 1>>]
           F[h \in 0..MaxHeight+1] == IF h < 2 THEN h ELSE F[h-1] + F[h-2] + 1
<1>1. next \in [S -> S] /\ <<0, 1>> \in S /\ top \in Nat
  BY <1>0
<1>2. PICK f : Iterates(f, S, <<0, 1>>, next, top)
  <2> HIDE DEF S, next
  <2> QED BY <1>1, Loop
<1>3. f \in [0..top -> S] /\ f[0] = <<0, 1>> /\ \A k \in 1..top : f[k] = next[f[k-1]]
  <2> HIDE DEF S, next
  <2> QED BY <1>2 DEF Iterates
<1> DEFINE g == [h \in 0..top |-> f[h][1]]
<1>4. /\ g \in [0..top -> Nat] /\ g[0] = 0 /\ g[1] = 1
      /\ \A h \in 2..top : g[h] = g[h-1] + g[h-2] + 1
  <2>1. \A k \in 0..top : f[k] \in Nat \X Nat
    BY <1>3
  <2>2. \A k \in 1..top : f[k][1] = f[k-1][2] /\ f[k][2] = f[k-1][1] + f[k-1][2] + 1
    <3> SUFFICES ASSUME NEW k \in 1..top
                 PROVE f[k][1] = f[k-1][2] /\ f[k][2] = f[k-1][1] + f[k-1][2] + 1
      OBVIOUS
    <3>1. k-1 \in 0..top
      BY <1>1
    <3>2. PICK p \in Nat, q \in Nat : f[k-1] = <<p, q>>
      BY <3>1, <2>1
    <3>3. next[<<p, q>>] = <<q, p + q + 1>>
      OBVIOUS
    <3>4. f[k] = next[f[k-1]]
      BY <1>3
    <3>5. f[k] = <<q, p + q + 1>>
      BY <3>2, <3>3, <3>4
    <3> HIDE DEF next
    <3> QED BY <3>2, <3>5
  <2>3. g \in [0..top -> Nat]
    BY <2>1
  <2>4. g[0] = 0
    BY <1>3, <1>1
  <2>5. g[1] = 1
    <3>1. 1 \in 1..top /\ 1-1 = 0
      BY <1>0
    <3> QED BY <3>1, <2>2, <1>3, <1>1
  <2>6. ASSUME NEW h \in 2..top PROVE g[h] = g[h-1] + g[h-2] + 1
    <3>1. h \in 1..top /\ h-1 \in 1..top /\ h-1 \in 0..top /\ h-2 \in 0..top /\ h-1-1 = h-2 /\ h \in 0..top
      BY <1>1
    <3>2. f[h][1] = f[h-1][2] /\ f[h-1][2] = f[h-2][1] + f[h-2][2] + 1 /\ f[h-1][1] = f[h-2][2]
      BY <3>1, <2>2
    <3>3. f[h-1][1] \in Nat /\ f[h-2][1] \in Nat
      BY <3>1, <2>1
    <3>4. g[h] = f[h][1] /\ g[h-1] = f[h-1][1] /\ g[h-2] = f[h-2][1]
      BY <3>1
    <3> QED BY <3>2, <3>3, <3>4
  <2> QED BY <2>3, <2>4, <2>5, <2>6
<1>5. g = [h \in 0..MaxHeight+1 |-> IF h < 2 THEN h ELSE g[h-1] + g[h-2] + 1]
  <2>1. \A h \in 0..top : g[h] = IF h < 2 THEN h ELSE g[h-1] + g[h-2] + 1
    <3> SUFFICES ASSUME NEW h \in 0..top PROVE g[h] = IF h < 2 THEN h ELSE g[h-1] + g[h-2] + 1
      OBVIOUS
    <3>1. h = 0 \/ h = 1 \/ h \in 2..top
      BY <1>1
    <3> HIDE DEF g
    <3> QED BY <3>1, <1>4
  <2> HIDE DEF g
  <2>2. g \in [0..MaxHeight+1 -> Nat]
    BY <1>4
  <2> QED BY <2>1, <2>2
<1>6. F = [h \in 0..MaxHeight+1 |-> IF h < 2 THEN h ELSE F[h-1] + F[h-2] + 1]
  <2> HIDE DEF g
  <2>1. \E G : G = [h \in 0..MaxHeight+1 |-> IF h < 2 THEN h ELSE G[h-1] + G[h-2] + 1]
    BY <1>5
  <2> QED BY <2>1
<1>7. Pool!Fewest = F
  BY DEF Pool!Fewest
<1> HIDE DEF F, g
<1> DEFINE Q(k) == \A h \in 0..top : h <= k => F[h] = g[h]
           G == {k \in Nat : Q(k)}
<1>8. 0 \in G
  <2>1. F[0] = 0
    BY <1>6, <1>0
  <2> QED BY <2>1, <1>4
<1>9. \A k \in G : k + 1 \in G
  <2> SUFFICES ASSUME NEW k \in G, NEW h \in 0..top, h <= k+1 PROVE F[h] = g[h]
    OBVIOUS
  <2>1. F[h] = IF h < 2 THEN h ELSE F[h-1] + F[h-2] + 1
    BY <1>6
  <2>2. CASE h < 2
    <3>1. h = 0 \/ h = 1
      BY <2>2, <1>1
    <3> QED BY <3>1, <2>1, <1>4
  <2>3. CASE ~(h < 2)
    <3>1. h \in 2..top /\ h-1 \in 0..top /\ h-2 \in 0..top /\ h-1 <= k /\ h-2 <= k
      BY <2>3, <1>1
    <3>2. F[h-1] = g[h-1] /\ F[h-2] = g[h-2]
      BY <3>1
    <3> QED BY <3>1, <3>2, <2>1, <2>3, <1>4
  <2> QED BY <2>2, <2>3
<1>10. top \in G
  <2> HIDE DEF G
  <2>1. G = Nat
    BY <1>8, <1>9, SetInduction, G \subseteq Nat DEF G
  <2> QED BY <2>1, <1>1
<1>11. \A h \in 0..top : F[h] = g[h]
  BY <1>10, <1>1
<1>12. F \in [0..MaxHeight+1 -> Nat]
  <2>1. F = [h \in 0..top |-> g[h]]
    <3>1. F = [h \in 0..top |-> F[h]]
      BY <1>6
    <3> QED BY <3>1, <1>11
  <2> QED BY <2>1, <1>4
<1>13. F[0] = 0 /\ F[1] = 1
  <2>1. 0 \in 0..top /\ 1 \in 0..top
    BY <1>0
  <2> QED BY <2>1, <1>11, <1>4
<1>14. \A h \in 2..top : F[h] = F[h-1] + F[h-2] + 1
  <2> SUFFICES ASSUME NEW h \in 2..top PROVE F[h] = F[h-1] + F[h-2] + 1
    OBVIOUS
  <2>1. h \in 0..top /\ ~(h < 2)
    BY <1>1
  <2> QED BY <2>1, <1>6
<1> QED BY <1>0, <1>7, <1>12, <1>13, <1>14 DEF FewestType

(* The places of nodes number them: there are n, not more than pages. *)
LEMMA HowMany ==
  ASSUME NEW N, NEW n, NEW pos, NEW E, Ranks(N, n, pos, E)
  PROVE  IsFiniteSet(N) /\ Cardinality(N) = n /\ n <= PoolSize
<1>1. IsFiniteSet(1..n) /\ Cardinality(1..n) = n
  BY FS_Interval DEF Ranks
<1>2. pos \in Bijection(N, 1..n)
  BY DEF Ranks, Bijection, Injection, Surjection, IsInjective
<1>3. IsFiniteSet(0..PoolSize-1) /\ Cardinality(0..PoolSize-1) = PoolSize
  BY PoolHasPages, FS_Interval
<1>4. N \in SUBSET (0..PoolSize-1)
  BY DEF Ranks, Pg
<1>5. IsFiniteSet(N) /\ Cardinality(N) <= PoolSize
  BY <1>3, <1>4, FS_Subset
<1>6. Cardinality(N) = n
  <2>1. ExistsBijection(N, 1..n)
    BY <1>2 DEF ExistsBijection
  <2> QED BY <2>1, <1>1, <1>5, FS_Bijection
<1> QED BY <1>5, <1>6

(* An AVL tree with as many nodes as pages, or fewer, is not higher than *)
(* MaxHeight, the bound of the loops.                                    *)
LEMMA LowEnough ==
  ASSUME NEW T \in Trees, NEW N, NEW n, NEW pos, NEW E, Shape(T.link, T.type, N, n, pos, E),
         NEW b, AvlTree(T, N, b)
  PROVE  /\ \A y \in N : b[y] <= MaxHeight /\ b[y] <= Width(E, y) + 1
         /\ T.height \in Nat /\ T.height <= MaxHeight /\ T.height <= n
<1> DEFINE L == T.link
           F == Pool!Fewest
           Fine(y) == b[y] <= MaxHeight /\ F[b[y]] <= Width(E, y) + 1 /\ b[y] <= Width(E, y) + 1
           Q(k) == \A y \in N : b[y] <= k => Fine(y)
           G == {k \in Nat : Q(k)}
<1>0. /\ Ranks(N, n, pos, E) /\ n \in Nat /\ n <= PoolSize /\ PoolSize \in Nat
      /\ b \in [N \cup {-1} -> Nat] /\ b[-1] = 0
      /\ \A y \in N : b[y] \in Nat /\ Even(L, T.bal, b, y)
      /\ -1 \notin N /\ PoolSize \notin N
      /\ T.height = b[L[PoolSize][1]] /\ L[PoolSize][1] \in N \cup {-1}
  <2>1. Ranks(N, n, pos, E) /\ n \in Nat /\ n <= PoolSize /\ PoolSize \in Nat
    BY HowMany, PoolHasPages DEF Shape, Ranks
  <2>2. -1 \notin N /\ PoolSize \notin N /\ L[PoolSize][1] \in N \cup {-1}
    BY Children
  <2>3. Hole(T, N, b, PoolSize, 1, b[L[PoolSize][1]])
    BY DEF AvlTree
  <2>4. /\ b \in [N \cup {-1} -> Nat] /\ b[-1] = 0
        /\ \A y \in N : y # PoolSize => Even(L, T.bal, b, y)
        /\ T.height = b[L[PoolSize][1]]
    BY <2>3 DEF Hole
  <2> QED BY <2>1, <2>2, <2>4
<1>1. FewestType
  BY FewestNodes
<1>2. F \in [0..MaxHeight+1 -> Nat] /\ MaxHeight \in Nat /\ PoolSize < F[MaxHeight+1]
      /\ F[0] = 0 /\ F[1] = 1
      /\ \A h \in 2..MaxHeight+1 : F[h] = F[h-1] + F[h-2] + 1
  BY <1>1 DEF FewestType
<1> HIDE DEF F
<1>3. ASSUME NEW y \in N
      PROVE  E[1][y] \in 1..n /\ E[-1][y] \in 1..n /\ pos[y] \in 1..n
             /\ E[-1][y] <= pos[y] /\ pos[y] <= E[1][y]
  BY <1>0 DEF Ranks, Sd
<1>4. ASSUME NEW y \in N
      PROVE  /\ Width(E, y) \in Nat /\ Width(E, y) + 1 <= n
             /\ L[y][1] = -1 => E[1][y] - pos[y] = 0
             /\ L[y][1] # -1 => L[y][1] \in N /\ Width(E, L[y][1]) + 1 = E[1][y] - pos[y]
             /\ L[y][-1] = -1 => pos[y] - E[-1][y] = 0
             /\ L[y][-1] # -1 => L[y][-1] \in N /\ Width(E, L[y][-1]) + 1 = pos[y] - E[-1][y]
  <2>1. Kid(L, T.type, N, pos, E, y, 1) /\ Kid(L, T.type, N, pos, E, y, -1)
    BY DEF Shape, Sd
  <2>2. L[y][1] # -1 => L[y][1] \in N /\ E[1][L[y][1]] = E[1][y] /\ E[-1][L[y][1]] = pos[y] + 1
    BY <2>1 DEF Kid, Below
  <2>3. L[y][-1] # -1 => L[y][-1] \in N /\ E[-1][L[y][-1]] = E[-1][y] /\ E[1][L[y][-1]] = pos[y] - 1
    <3> SUFFICES ASSUME NEW s \in Sd, s # 1, L[y][s] # -1
                 PROVE  L[y][s] \in N /\ E[s][L[y][s]] = E[s][y] /\ E[1][L[y][s]] = pos[y] - 1
      BY DEF Sd
    <3>1. Below(L, T.type, N, pos, E, y, s)
      BY DEF Shape, Kid
    <3>2. -s = 1
      BY Flip
    <3>3. L[y][s] \in N /\ E[s][L[y][s]] = E[s][y] /\ E[1][L[y][s]] = pos[y] + s
      BY <3>1, <3>2 DEF Below
    <3>4. s = -1 /\ pos[y] \in Int
      BY <1>3, <1>0 DEF Sd
    <3> QED BY <3>3, <3>4
  <2>4. (L[y][1] = -1 => E[1][y] = pos[y]) /\ (L[y][-1] = -1 => E[-1][y] = pos[y])
    BY <2>1, <1>0 DEF Kid, Below
  <2> HIDE DEF L
  <2> QED BY <2>2, <2>3, <2>4, <1>3, <1>0 DEF Width
<1>5. 0 \in G
  <2>1. \A y \in N : b[y] >= 1
    <3> SUFFICES ASSUME NEW y \in N PROVE b[y] >= 1
      OBVIOUS
    <3>1. b[L[y][1]] \in Nat /\ b[L[y][-1]] \in Nat
      BY <1>4, <1>0
    <3> QED BY <3>1, <1>0 DEF Even, Higher
  <2> QED BY <2>1, <1>0
<1>6. ASSUME NEW k \in G PROVE k + 1 \in G
  <2> SUFFICES ASSUME NEW y \in N, b[y] <= k+1 PROVE Fine(y)
    OBVIOUS
  <2> DEFINE l == L[y][-1]
             r == L[y][1]
             wl == pos[y] - E[-1][y]
             wr == E[1][y] - pos[y]
  <2>1. l \in N \cup {-1} /\ r \in N \cup {-1} /\ b[l] \in Nat /\ b[r] \in Nat
    BY <1>4, <1>0
  <2>2. /\ b[y] = 1 + Higher(b[l], b[r]) /\ b[r] - b[l] \in -1..1 /\ b[y] \in Nat
    BY <1>0 DEF Even
  <2>3. wl \in Nat /\ wr \in Nat /\ Width(E, y) + 1 = wl + wr + 1 /\ Width(E, y) + 1 <= n
    BY <1>3, <1>4, <1>0 DEF Width
  <2>4. b[l] <= MaxHeight /\ F[b[l]] <= wl /\ b[l] <= wl
    <3>1. CASE l = -1
      BY <3>1, <1>0, <1>2, <2>3
    <3>2. CASE l # -1
      <4>1. l \in N /\ Width(E, l) + 1 = wl
        BY <3>2, <1>4
      <4>2. b[l] <= k
        BY <2>1, <2>2 DEF Higher
      <4>3. Fine(l)
        BY <4>1, <4>2
      <4> QED BY <4>1, <4>3
    <3> QED BY <3>1, <3>2
  <2>5. b[r] <= MaxHeight /\ F[b[r]] <= wr /\ b[r] <= wr
    <3>1. CASE r = -1
      BY <3>1, <1>0, <1>2, <2>3
    <3>2. CASE r # -1
      <4>1. r \in N /\ Width(E, r) + 1 = wr
        BY <3>2, <1>4
      <4>2. b[r] <= k
        BY <2>1, <2>2 DEF Higher
      <4>3. Fine(r)
        BY <4>1, <4>2
      <4> QED BY <4>1, <4>3
    <3> QED BY <3>1, <3>2
  <2> DEFINE u == b[l]
             v == b[r]
             t == b[y]
  <2>6. u \in 0..MaxHeight /\ v \in 0..MaxHeight /\ F[u] \in Nat /\ F[v] \in Nat
    <3>1. u \in Nat /\ v \in Nat /\ u <= MaxHeight /\ v <= MaxHeight
      BY <2>1, <2>4, <2>5
    <3> HIDE DEF u, v
    <3> QED BY <3>1, <1>2
  <2>7. t = 1 + Higher(u, v) /\ v - u \in -1..1 /\ t \in 1..MaxHeight+1 /\ t <= wl + wr + 1
    <3>1. t = 1 + Higher(u, v) /\ v - u \in -1..1 /\ u <= wl /\ v <= wr
      BY <2>2, <2>4, <2>5
    <3> HIDE DEF u, v, t, wl, wr
    <3> QED BY <3>1, <2>6, <2>3, <1>2 DEF Higher
  <2> HIDE DEF u, v, t, l, r, wl, wr
  <2>8. F[t] <= F[u] + F[v] + 1
    <3>1. CASE t = 1
      BY <3>1, <2>6, <1>2
    <3>2. CASE t # 1
      <4>1. t \in 2..MaxHeight+1
        BY <3>2, <2>7, <1>2
      <4>2. F[t] = F[t-1] + F[t-2] + 1
        BY <4>1, <1>2
      <4>3. t-1 \in 0..MaxHeight+1 /\ t-2 \in 0..MaxHeight+1 /\ F[t-1] \in Nat /\ F[t-2] \in Nat
        BY <4>1, <1>2
      <4>4. F[t-2] <= F[t-1]
        <5>1. CASE t = 2
          BY <5>1, <1>2
        <5>2. CASE t # 2
          <6>1. t-1 \in 2..MaxHeight+1 /\ t-1-1 = t-2 /\ t-1-2 = t-3 /\ t-3 \in 0..MaxHeight+1
            BY <5>2, <4>1, <1>2
          <6>2. F[t-1] = F[t-2] + F[t-3] + 1 /\ F[t-3] \in Nat
            BY <6>1, <1>2
          <6> QED BY <6>2, <4>3
        <5> QED BY <5>1, <5>2
      <4>5. \/ u = t-1 /\ v = t-1
            \/ u = t-1 /\ v = t-2
            \/ u = t-2 /\ v = t-1
        BY <2>6, <2>7, <4>1 DEF Higher
      <4> QED BY <4>2, <4>3, <4>4, <4>5
    <3> QED BY <3>1, <3>2
  <2>9. F[t] <= Width(E, y) + 1 /\ F[t] \in Nat
    <3>1. F[u] <= wl /\ F[v] <= wr
      BY <2>4, <2>5 DEF u, v
    <3>2. F[t] \in Nat
      BY <2>7, <1>2
    <3> QED BY <3>1, <3>2, <2>8, <2>3, <2>6
  <2>10. t # MaxHeight + 1
    BY <2>9, <2>3, <1>0, <1>2
  <2>11. t <= MaxHeight /\ t <= Width(E, y) + 1
    BY <2>10, <2>7, <2>3, <1>2
  <2> QED BY <2>9, <2>11 DEF t
<1>7. G = Nat
  <2> HIDE DEF G
  <2> QED BY <1>5, <1>6, SetInduction, G \subseteq Nat DEF G
<1>8. ASSUME NEW y \in N PROVE Fine(y)
  <2>1. b[y] \in G /\ b[y] <= b[y]
    BY <1>7, <1>0
  <2> QED BY <2>1
<1>9. T.height \in Nat /\ T.height <= MaxHeight /\ T.height <= n
  <2>1. CASE L[PoolSize][1] = -1
    BY <2>1, <1>0, <1>2
  <2>2. CASE L[PoolSize][1] \in N
    <3> DEFINE y == L[PoolSize][1]
    <3>1. Fine(y) /\ b[y] \in Nat /\ Width(E, y) + 1 <= n /\ Width(E, y) \in Nat
      BY <2>2, <1>8, <1>0, <1>4
    <3> HIDE DEF y
    <3>2. b[y] <= MaxHeight /\ b[y] <= n
      BY <3>1, <1>0, <1>2
    <3> QED BY <3>1, <3>2, <1>0 DEF y
  <2> QED BY <2>1, <2>2, <1>0
<1> QED BY <1>8, <1>9

-----------------------------------------------------------------------------
(* Insertion. *)

(* Kid, for the right side. *)
RightKid(L, Y, N, pos, E, h) ==
    LET c == L[h][1] IN
    \/ c = -1 /\ E[1][h] = pos[h]
    \/ c \in N /\ L[c][0] = h /\ Y[c] = 1 /\ E[1][c] = E[1][h] /\ E[-1][c] = pos[h] + 1

(* Kid, for the left side. *)
LeftKid(L, Y, N, pos, E, h) ==
    LET c == L[h][-1] IN
    \/ c = -1 /\ E[-1][h] = pos[h]
    \/ c \in N /\ L[c][0] = h /\ Y[c] = -1 /\ E[-1][c] = E[-1][h] /\ E[1][c] = pos[h] - 1

(* Kid, for both sides. *)
LEMMA KidSides ==
  ASSUME NEW L, NEW Y, NEW N, NEW pos, NEW E, NEW h, pos[h] \in Int
  PROVE  (\A s \in Sd : Kid(L, Y, N, pos, E, h, s))
           <=> RightKid(L, Y, N, pos, E, h) /\ LeftKid(L, Y, N, pos, E, h)
<1>1. Kid(L, Y, N, pos, E, h, 1) <=> RightKid(L, Y, N, pos, E, h)
  BY DEF Kid, Below, RightKid
<1>2. \A s \in Sd : s # 1 => (Kid(L, Y, N, pos, E, h, s) <=> LeftKid(L, Y, N, pos, E, h))
  <2> SUFFICES ASSUME NEW s \in Sd, s # 1
               PROVE  Kid(L, Y, N, pos, E, h, s) <=> LeftKid(L, Y, N, pos, E, h)
    OBVIOUS
  <2>1. -s = 1
    BY Flip
  <2>2. Kid(L, Y, N, pos, E, h, s) <=>
          \/ L[h][s] = -1 /\ E[s][h] = pos[h]
          \/ /\ L[h][s] \in N /\ L[L[h][s]][0] = h /\ Y[L[h][s]] = s
             /\ E[s][L[h][s]] = E[s][h] /\ E[1][L[h][s]] = pos[h] + s
    BY <2>1 DEF Kid, Below
  <2>3. s = -1
    BY DEF Sd
  <2> QED BY <2>2, <2>3 DEF LeftKid
<1>3. -1 \in Sd /\ 1 \in Sd /\ -1 # 1 /\ \A s \in Sd : s = 1 \/ s = -1
  BY DEF Sd
<1>4. ASSUME \A s \in Sd : Kid(L, Y, N, pos, E, h, s)
      PROVE  RightKid(L, Y, N, pos, E, h) /\ LeftKid(L, Y, N, pos, E, h)
  <2>1. PICK s \in Sd : s # 1
    BY <1>3
  <2> QED BY <1>4, <1>1, <1>2, <1>3, <2>1
<1>5. ASSUME RightKid(L, Y, N, pos, E, h) /\ LeftKid(L, Y, N, pos, E, h), NEW s \in Sd
      PROVE  Kid(L, Y, N, pos, E, h, s)
  <2>1. CASE s = 1
    BY <1>5, <2>1, <1>1
  <2>2. CASE s # 1
    BY <1>5, <2>2, <1>2
  <2> QED BY <2>1, <2>2
<1> QED BY <1>4, <1>5

(* Positions once a node has come at position at, next to the node at    *)
(* pp.                                                                   *)
Place(pp, side) == IF side = 1 THEN pp + 1 ELSE pp
Shifted(v, at) == IF v >= at THEN v + 1 ELSE v
PosWith(pos, N, node, at) ==
    [x \in N \cup {node} |-> IF x = node THEN at ELSE Shifted(pos[x], at)]
EdgesWith(E, N, node, pp, at) ==
    [s \in Sd |-> [x \in N \cup {node} |->
        IF x = node THEN at ELSE IF s = 1 THEN Shifted(E[1][x], pp) ELSE Shifted(E[-1][x], pp + 1)]]

(* A node c is linked below h on side s. *)
Attached(L2, Y2, L, Y, h, s, c) ==
    /\ L2 \in LinkType /\ Y2 \in SideType
    /\ \A x \in Slots, d \in Links :
         L2[x][d] = IF x = h /\ d = s THEN c ELSE IF x = c /\ d = 0 THEN h ELSE L[x][d]
    /\ \A x \in Slots : Y2[x] = IF x = c THEN s ELSE Y[x]

(* Shifted places stay different. *)
LEMMA LaterInjective ==
  ASSUME NEW v \in Int, NEW w \in Int, NEW a \in Int, Shifted(v, a) = Shifted(w, a)
  PROVE  v = w
BY DEF Shifted

(* Numbering the nodes again when one comes between two others. *)
LEMMA RanksWith ==
  ASSUME NEW N, NEW n, NEW pos, NEW E, Ranks(N, n, pos, E),
         NEW node \in Pg, node \notin N, NEW at \in 1..n+1, NEW pp \in 1..n, at = pp \/ at = pp + 1
  PROVE  Ranks(N \cup {node}, n+1, PosWith(pos, N, node, at), EdgesWith(E, N, node, pp, at))
<1> DEFINE N2 == N \cup {node}
           P == PosWith(pos, N, node, at)
           F == EdgesWith(E, N, node, pp, at)
<1>0. /\ N \in SUBSET Pg /\ n \in Nat /\ pos \in [N -> 1..n] /\ E \in [Sd -> [N -> 1..n]]
      /\ \A h \in N : E[-1][h] <= pos[h] /\ pos[h] <= E[1][h]
      /\ \A g, h \in N : pos[g] = pos[h] => g = h
      /\ \A i \in 1..n : \E h \in N : pos[h] = i
      /\ n+1 \in Nat /\ N2 \in SUBSET Pg
  BY DEF Ranks
<1>1. \A v \in 1..n, a \in 1..n+1 : Shifted(v, a) \in 1..n+1
  BY <1>0 DEF Shifted
<1>2. /\ P[node] = at /\ node \in N2
      /\ \A x \in N : P[x] = Shifted(pos[x], at)
  BY DEF PosWith
<1>3. /\ F[1][node] = at /\ F[-1][node] = at
      /\ \A x \in N : F[1][x] = Shifted(E[1][x], pp) /\ F[-1][x] = Shifted(E[-1][x], pp+1)
  BY DEF EdgesWith, Sd
<1>31. pp + 1 \in 1..n+1 /\ pp \in 1..n+1
  BY <1>0
<1>32. \A x \in N : /\ pos[x] \in 1..n /\ E[1][x] \in 1..n /\ E[-1][x] \in 1..n
                    /\ E[-1][x] <= pos[x] /\ pos[x] <= E[1][x]
  BY <1>0 DEF Sd
<1>4. P \in [N2 -> 1..n+1]
  BY <1>0, <1>1 DEF PosWith
<1>5. F \in [Sd -> [N2 -> 1..n+1]]
  <2>1. \A x \in N : Shifted(E[1][x], pp) \in 1..n+1 /\ Shifted(E[-1][x], pp+1) \in 1..n+1
    BY <1>32, <1>31, <1>1
  <2> QED BY <2>1 DEF EdgesWith
<1> HIDE DEF P, F
<1>6. \A x \in N2 : F[-1][x] <= P[x] /\ P[x] <= F[1][x]
  <2>1. ASSUME NEW x \in N PROVE F[-1][x] <= P[x] /\ P[x] <= F[1][x]
    <3> DEFINE e == E[-1][x]
               p == pos[x]
               f == E[1][x]
    <3>1. e \in 1..n /\ p \in 1..n /\ f \in 1..n /\ e <= p /\ p <= f
      BY <1>32
    <3>2. Shifted(e, pp+1) <= Shifted(p, at) /\ Shifted(p, at) <= Shifted(f, pp)
      <4> HIDE DEF e, p, f
      <4> QED BY <3>1, <1>0 DEF Shifted
    <3> QED BY <3>2, <1>2, <1>3
  <2> QED BY <2>1, <1>2, <1>3, <1>0
<1>7. \A g, h \in N2 : P[g] = P[h] => g = h
  <2>1. \A g \in N : P[g] # at
    <3> SUFFICES ASSUME NEW g \in N PROVE Shifted(pos[g], at) # at
      BY <1>2
    <3> QED BY <1>32, <1>0 DEF Shifted
  <2>2. \A g, h \in N : P[g] = P[h] => g = h
    <3> SUFFICES ASSUME NEW g \in N, NEW h \in N, P[g] = P[h] PROVE g = h
      OBVIOUS
    <3>0. /\ Shifted(pos[g], at) = Shifted(pos[h], at) /\ pos[g] \in 1..n /\ pos[h] \in 1..n
      BY <1>2, <1>32
    <3>1. pos[g] = pos[h]
      <4>1. pos[g] \in Int /\ pos[h] \in Int /\ at \in Int
        BY <3>0, <1>0
      <4> QED BY <3>0, <4>1, LaterInjective
    <3> QED BY <3>1, <1>0
  <2> QED BY <2>1, <2>2, <1>2
<1>8. ASSUME NEW i \in 1..n+1 PROVE \E h \in N2 : P[h] = i
  <2>1. CASE i = at
    BY <2>1, <1>2
  <2>2. CASE i < at
    <3>1. i \in 1..n /\ Shifted(i, at) = i
      BY <2>2, <1>0 DEF Shifted
    <3> QED BY <3>1, <1>0, <1>2
  <2>3. CASE i > at
    <3>1. i-1 \in 1..n /\ Shifted(i-1, at) = i
      BY <2>3, <1>0 DEF Shifted
    <3>2. PICK h \in N : pos[h] = i-1
      BY <3>1, <1>0
    <3>3. P[h] = Shifted(i-1, at)
      BY <3>2, <1>2
    <3>4. P[h] = i
      BY <3>1, <3>3
    <3> QED BY <3>2, <3>4
  <2> QED BY <2>1, <2>2, <2>3, <1>0
<1>9. Ranks(N2, n+1, P, F)
  <2> HIDE DEF N2
  <2> QED BY <1>0, <1>4, <1>5, <1>6, <1>7, <1>8 DEF Ranks
<1> QED BY <1>9 DEF P, F

(* Linking a node where no child is (avl_insert_inner) gives a tree in   *)
(* which it follows or precedes its parent.                              *)
LEMMA AttachedShape ==
  ASSUME NEW L \in LinkType, NEW Y \in SideType, NEW N, NEW n, NEW pos, NEW E, Shape(L, Y, N, n, pos, E),
         NEW node \in Pg, node \notin N, \A d \in Sd : L[node][d] = -1,
         NEW h \in N, NEW side \in Sd, L[h][side] = -1,
         NEW L2, NEW Y2, Attached(L2, Y2, L, Y, h, side, node)
  PROVE  Shape(L2, Y2, N \cup {node}, n+1, PosWith(pos, N, node, Place(pos[h], side)),
               EdgesWith(E, N, node, pos[h], Place(pos[h], side)))
<1> DEFINE pp == pos[h]
           at == Place(pp, side)
           N2 == N \cup {node}
           P == PosWith(pos, N, node, at)
           F == EdgesWith(E, N, node, pp, at)
<1>0. /\ Ranks(N, n, pos, E) /\ N \in SUBSET Pg /\ n \in Nat /\ pp \in 1..n /\ -1 \notin N /\ PoolSize \notin N
      /\ node # -1 /\ node # PoolSize /\ h # node /\ PoolSize \in Slots
      /\ \A x \in N2 : x \in Slots /\ x # -1 /\ x # PoolSize
      /\ -1 \in Links /\ 1 \in Links /\ 0 \in Links /\ side \in Links /\ side # 0
      /\ \A x \in N : /\ pos[x] \in 1..n /\ E[1][x] \in 1..n /\ E[-1][x] \in 1..n
                      /\ E[-1][x] <= pos[x] /\ pos[x] <= E[1][x]
  <2>1. Ranks(N, n, pos, E)
    BY DEF Shape
  <2>2. \A x \in N2 : x \in Slots /\ x # -1 /\ x # PoolSize
    BY <2>1, PageFacts DEF Ranks
  <2> QED BY <2>1, <2>2, Children, PoolHasPages, SideFacts DEF Ranks, Sd, Links, Slots
<1>1. at \in 1..n+1 /\ (at = pp \/ at = pp + 1) /\ (side = 1 => at = pp + 1) /\ (side # 1 => at = pp)
  BY <1>0 DEF Place
<1> HIDE DEF at
<1>2. Ranks(N2, n+1, P, F)
  <2> HIDE DEF pp
  <2> QED BY <1>0, <1>1, RanksWith
<1>3. /\ P[node] = at
      /\ \A x \in N : P[x] = Shifted(pos[x], at)
      /\ F[1][node] = at /\ F[-1][node] = at
      /\ \A x \in N : F[1][x] = Shifted(E[1][x], pp) /\ F[-1][x] = Shifted(E[-1][x], pp+1)
  BY DEF PosWith, EdgesWith, Sd
<1> HIDE DEF P, F
<1>4. /\ \A x \in Slots, d \in Links : L2[x][d] = IF x = h /\ d = side THEN node
                                                 ELSE IF x = node /\ d = 0 THEN h ELSE L[x][d]
      /\ \A x \in Slots : Y2[x] = IF x = node THEN side ELSE Y[x]
  BY DEF Attached
<1>5. /\ \A d \in Sd : L2[node][d] = -1
      /\ L2[node][0] = h /\ Y2[node] = side /\ L2[h][side] = node
      /\ \A x \in N : L2[x][0] = L[x][0] /\ Y2[x] = Y[x]
      /\ \A x \in N, d \in Sd : ~(x = h /\ d = side) => L2[x][d] = L[x][d]
      /\ \A d \in Sd : L2[PoolSize][d] = L[PoolSize][d]
  BY <1>0, <1>4, SideFacts
<1>6. ASSUME NEW x \in N
      PROVE  RightKid(L, Y, N, pos, E, x) /\ LeftKid(L, Y, N, pos, E, x)
  <2>1. pos[x] \in Int
    BY <1>0
  <2>2. \A s \in Sd : Kid(L, Y, N, pos, E, x, s)
    BY DEF Shape
  <2> QED BY <2>1, <2>2, KidSides
<1>7. P[node] \in Int /\ RightKid(L2, Y2, N2, P, F, node) /\ LeftKid(L2, Y2, N2, P, F, node)
  BY <1>1, <1>3, <1>5 DEF RightKid, LeftKid, Sd
<1>8. ASSUME NEW x \in N PROVE P[x] \in Int /\ RightKid(L2, Y2, N2, P, F, x)
  <2> DEFINE c == L[x][1]
  <2>0. P[x] \in Int /\ P[x] = Shifted(pos[x], at) /\ F[1][x] = Shifted(E[1][x], pp) /\ pos[x] \in 1..n
    BY <1>3, <1>0, <1>1 DEF Shifted
  <2>1. CASE x = h /\ side = 1
    <3>1. L2[x][1] = node /\ E[1][x] = pos[x]
      BY <2>1, <1>5, <1>6, <1>0 DEF RightKid
    <3>2. F[1][x] = pp + 1 /\ P[x] = pp /\ at = pp + 1
      BY <3>1, <2>1, <2>0, <1>1, <1>0 DEF Shifted
    <3> QED BY <3>1, <3>2, <2>0, <2>1, <1>5, <1>3 DEF RightKid
  <2>2. CASE ~(x = h /\ side = 1)
    <3>1. L2[x][1] = c
      BY <2>2, <1>5 DEF Sd
    <3>2. pos[x] = pp => x = h
      BY <1>0 DEF Ranks
    <3>3. pos[x] = pp => at = pp
      BY <3>2, <2>2, <1>1
    <3>4. CASE c = -1
      <4>1. E[1][x] = pos[x]
        BY <3>4, <1>6, <1>0 DEF RightKid
      <4>2. F[1][x] = P[x]
        BY <4>1, <2>0, <3>3, <1>1, <1>0 DEF Shifted
      <4> QED BY <3>1, <3>4, <4>2, <2>0 DEF RightKid
    <3>5. CASE c # -1
      <4>1. c \in N /\ L[c][0] = x /\ Y[c] = 1 /\ E[1][c] = E[1][x] /\ E[-1][c] = pos[x] + 1
        BY <3>5, <1>6 DEF RightKid
      <4>2. F[1][c] = F[1][x] /\ F[-1][c] = Shifted(pos[x] + 1, pp + 1)
        BY <4>1, <1>3
      <4>3. F[-1][c] = P[x] + 1
        BY <4>2, <2>0, <3>3, <1>1, <1>0 DEF Shifted
      <4> HIDE DEF c
      <4> QED BY <3>1, <4>1, <4>2, <4>3, <2>0, <1>5 DEF RightKid
    <3> QED BY <3>4, <3>5
  <2> QED BY <2>1, <2>2
<1>9. ASSUME NEW x \in N PROVE LeftKid(L2, Y2, N2, P, F, x)
  <2> DEFINE c == L[x][-1]
  <2>0. P[x] \in Int /\ P[x] = Shifted(pos[x], at) /\ F[-1][x] = Shifted(E[-1][x], pp+1) /\ pos[x] \in 1..n
    BY <1>3, <1>0, <1>1 DEF Shifted
  <2>00. side # 1 => side = -1
    BY DEF Sd
  <2>1. CASE x = h /\ side # 1
    <3>1. L2[x][-1] = node /\ E[-1][x] = pos[x]
      BY <2>00, <2>1, <1>5, <1>6, <1>0 DEF LeftKid
    <3>2. F[-1][x] = pp /\ P[x] = pp + 1 /\ at = pp
      BY <3>1, <2>1, <2>0, <1>1, <1>0 DEF Shifted
    <3>3. P[x] - 1 = pp
      BY <3>2, <1>0
    <3> QED BY <3>1, <3>2, <3>3, <2>0, <2>00, <2>1, <1>5, <1>3, ZenonT(40) DEF LeftKid
  <2>2. CASE ~(x = h /\ side # 1)
    <3>1. L2[x][-1] = c
      BY <2>2, <1>5 DEF Sd
    <3>2. pos[x] = pp => x = h
      BY <1>0 DEF Ranks
    <3>3. pos[x] = pp => at = pp + 1
      BY <3>2, <2>2, <1>1
    <3>4. CASE c = -1
      <4>1. E[-1][x] = pos[x]
        BY <3>4, <1>6, <1>0 DEF LeftKid
      <4>2. F[-1][x] = P[x]
        BY <4>1, <2>0, <3>3, <1>1, <1>0 DEF Shifted
      <4> QED BY <3>1, <3>4, <4>2, <2>0 DEF LeftKid
    <3>5. CASE c # -1
      <4>1. c \in N /\ L[c][0] = x /\ Y[c] = -1 /\ E[-1][c] = E[-1][x] /\ E[1][c] = pos[x] - 1
        BY <3>5, <1>6 DEF LeftKid
      <4>2. F[-1][c] = F[-1][x] /\ F[1][c] = Shifted(pos[x] - 1, pp)
        BY <4>1, <1>3
      <4>3. F[1][c] = P[x] - 1
        BY <4>2, <2>0, <3>3, <1>1, <1>0 DEF Shifted
      <4> HIDE DEF c
      <4> QED BY <3>1, <4>1, <4>2, <4>3, <2>0, <1>5 DEF LeftKid
    <3> QED BY <3>4, <3>5
  <2> QED BY <2>1, <2>2
<1>10. \A x \in N2, s \in Sd : Kid(L2, Y2, N2, P, F, x, s)
  <2> SUFFICES ASSUME NEW x \in N2 PROVE \A s \in Sd : Kid(L2, Y2, N2, P, F, x, s)
    OBVIOUS
  <2>1. P[x] \in Int /\ RightKid(L2, Y2, N2, P, F, x) /\ LeftKid(L2, Y2, N2, P, F, x)
    BY <1>7, <1>8, <1>9
  <2> QED BY <2>1, KidSides
<1>11. \A x \in N2 : Above(L2, Y2, N2, x)
  <2>1. ASSUME NEW x \in N PROVE Above(L2, Y2, N2, x)
    <3>1. /\ Y[x] \in Sd /\ L[x][0] \in N \cup {PoolSize} /\ L[L[x][0]][Y[x]] = x
          /\ L[x][0] = PoolSize => Y[x] = 1
      BY DEF Shape, Above
    <3>2. L2[L[x][0]][Y[x]] = x
      <4>1. ~(L[x][0] = h /\ Y[x] = side)
        BY <3>1, <1>0
      <4> QED BY <4>1, <3>1, <1>5
    <3> QED BY <3>1, <3>2, <1>5 DEF Above
  <2>2. Above(L2, Y2, N2, node)
    BY <1>5, <1>0 DEF Above
  <2> QED BY <2>1, <2>2
<1>12. Rooted(L2, Y2, N2, n+1, F)
  <2> DEFINE r == L[PoolSize][1]
  <2>1. n # 0 /\ n+1 # 0 /\ n+1 \in Nat
    BY <1>0
  <2>2. L[PoolSize][-1] = -1 /\ r \in N /\ L[r][0] = PoolSize /\ Y[r] = 1 /\ E[-1][r] = 1 /\ E[1][r] = n
    BY <2>1 DEF Shape, Rooted
  <2>3. F[-1][r] = 1 /\ F[1][r] = n + 1
    BY <2>2, <1>3, <1>0 DEF Shifted
  <2>4. L2[PoolSize][-1] = -1 /\ L2[PoolSize][1] = r
    BY <2>2, <1>5 DEF Sd
  <2>5. L2[r][0] = PoolSize /\ Y2[r] = 1
    BY <2>2, <1>5
  <2> HIDE DEF r
  <2> QED BY <2>1, <2>2, <2>3, <2>4, <2>5 DEF Rooted
<1>13. Shape(L2, Y2, N2, n+1, P, F)
  BY <1>2, <1>10, <1>11, <1>12 DEF Shape
<1> QED BY <1>13 DEF at, P, F

-----------------------------------------------------------------------------
(* Sound trees. *)

(* The first place in the order, or the last, seen from side s. *)
First(n, s) == IF s = 1 THEN n ELSE 1

(* The head and the tail of a tree are its first and last nodes          *)
(* (avl_head, avl_tail).                                                 *)
Ends(T, N, pos) ==
    \A s \in Sd : IF N = {} THEN T.end[s] = -1
                  ELSE T.end[s] \in N /\ pos[T.end[s]] = First(T.count, s)

(* What is not in the tree has no links. *)
Clean(T, N) ==
    \A x \in Slots : /\ T.bal[x] \in -1..2
                     /\ x \notin N /\ x # PoolSize => \A d \in Links : T.link[x][d] = -1

(* A tree as the code means it: the nodes N, linked in the order pos,    *)
(* balanced, with head and tail.                                         *)
Sound(T, N, pos) ==
    /\ T \in Trees
    /\ \E E : Shape(T.link, T.type, N, T.count, pos, E)
    /\ \E b : AvlTree(T, N, b)
    /\ Ends(T, N, pos)
    /\ Clean(T, N)

(* A shape depends on the links of its nodes only. *)
LEMMA ShapeOn ==
  ASSUME NEW L, NEW Y, NEW N, NEW n, NEW pos, NEW E, Shape(L, Y, N, n, pos, E),
         NEW L2, NEW Y2, \A x \in N \cup {PoolSize}, d \in Links : L2[x][d] = L[x][d],
         \A x \in N : Y2[x] = Y[x]
  PROVE  Shape(L2, Y2, N, n, pos, E)
<1>0. Sd \subseteq Links /\ -1 \in Links /\ 1 \in Links /\ 0 \in Links
  BY DEF Sd, Links
<1>1. Ranks(N, n, pos, E)
  BY DEF Shape
<1>2. \A h \in N, s \in Sd : Kid(L2, Y2, N, pos, E, h, s)
  <2> SUFFICES ASSUME NEW h \in N, NEW s \in Sd PROVE Kid(L2, Y2, N, pos, E, h, s)
    OBVIOUS
  <2>1. L2[h][s] = L[h][s] /\ Kid(L, Y, N, pos, E, h, s)
    BY <1>0 DEF Shape
  <2> QED BY <2>1, <1>0 DEF Kid, Below
<1>3. \A h \in N : Above(L2, Y2, N, h)
  <2> SUFFICES ASSUME NEW h \in N PROVE Above(L2, Y2, N, h)
    OBVIOUS
  <2>1. L2[h][0] = L[h][0] /\ Y2[h] = Y[h] /\ Above(L, Y, N, h)
    BY <1>0 DEF Shape
  <2> QED BY <2>1, <1>0 DEF Above
<1>4. Rooted(L2, Y2, N, n, E)
  <2>1. Rooted(L, Y, N, n, E) /\ L2[PoolSize][1] = L[PoolSize][1] /\ L2[PoolSize][-1] = L[PoolSize][-1]
    BY <1>0 DEF Shape
  <2> QED BY <2>1, <1>0 DEF Rooted
<1> QED BY <1>1, <1>2, <1>3, <1>4 DEF Shape

(* So does balance. *)
LEMMA AvlOn ==
  ASSUME NEW T, NEW N, NEW b, AvlTree(T, N, b), PoolSize \notin N, NEW A, A.height = T.height,
         \A x \in N \cup {PoolSize}, d \in Sd : A.link[x][d] = T.link[x][d],
         \A x \in N : A.bal[x] = T.bal[x]
  PROVE  AvlTree(A, N, b)
<1>0. -1 \in Sd /\ 1 \in Sd
  BY DEF Sd
<1>1. A.link[PoolSize][1] = T.link[PoolSize][1]
  BY <1>0
<1>2. Hole(T, N, b, PoolSize, 1, b[T.link[PoolSize][1]])
  BY DEF AvlTree
<1>3. \A x \in N : Even(A.link, A.bal, b, x)
  <2> SUFFICES ASSUME NEW x \in N PROVE Even(A.link, A.bal, b, x)
    OBVIOUS
  <2>1. Even(T.link, T.bal, b, x)
    BY <1>2 DEF Hole
  <2> QED BY <2>1, <1>0 DEF Even
<1>4. Hole(A, N, b, PoolSize, 1, b[T.link[PoolSize][1]])
  BY <1>2, <1>3, <1>1 DEF Hole
<1> QED BY <1>4, <1>1 DEF AvlTree

(* A climb which has settled leaves a sound tree, given the ends. *)
LEMMA SettledSound ==
  ASSUME NEW T \in Trees, NEW N, NEW pos, NEW A, Settled(A, T, N, T.count, pos),
         Ends(T, N, pos), \A x \in Slots : x \notin N => T.bal[x] \in -1..2 /\
           (x # PoolSize => \A d \in Links : T.link[x][d] = -1)
  PROVE  Sound(A, N, pos)
<1>1. /\ A \in Trees /\ A.end = T.end /\ A.count = T.count /\ Outside(A, T, N)
      /\ \E E : Shape(A.link, A.type, N, A.count, pos, E)
      /\ \E b : AvlTree(A, N, b)
  BY DEF Settled
<1>2. PICK b : AvlTree(A, N, b)
  BY <1>1
<1>3. PoolSize \notin N
  BY <1>1, Children
<1>4. \A x \in N : A.bal[x] \in -1..2
  <2> SUFFICES ASSUME NEW x \in N PROVE A.bal[x] \in -1..2
    OBVIOUS
  <2>1. A.bal[x] \in -1..1
    BY <1>2, <1>3 DEF AvlTree, Hole, Even
  <2> QED BY <2>1
<1>5. Clean(A, N)
  BY <1>1, <1>4 DEF Clean, Outside
<1>6. Ends(A, N, pos)
  BY <1>1 DEF Ends
<1> QED BY <1>1, <1>5, <1>6 DEF Sound

(* What a sound tree is made of. *)
LEMMA SoundFacts ==
  ASSUME NEW T, NEW N, NEW pos, Sound(T, N, pos)
  PROVE  /\ T \in Trees /\ T.count \in Nat /\ T.count <= PoolSize
         /\ N \in SUBSET Pg /\ -1 \notin N /\ PoolSize \notin N
         /\ IsFiniteSet(N) /\ Cardinality(N) = T.count
         /\ pos \in [N -> 1..T.count]
         /\ \A g, h \in N : pos[g] = pos[h] => g = h
         /\ \A i \in 1..T.count : \E h \in N : pos[h] = i
         /\ (N = {} <=> T.count = 0)
         /\ T.height \in Nat /\ T.height <= MaxHeight /\ T.height <= T.count
         /\ \A x \in N, d \in Sd : T.link[x][d] \in N \cup {-1}
<1>1. PICK E : Shape(T.link, T.type, N, T.count, pos, E)
  BY DEF Sound
<1>2. PICK b : AvlTree(T, N, b)
  BY DEF Sound
<1>3. Ranks(N, T.count, pos, E) /\ T \in Trees
  BY <1>1 DEF Shape, Sound
<1>4. /\ IsFiniteSet(N) /\ Cardinality(N) = T.count /\ T.count <= PoolSize
  BY <1>3, HowMany
<1>5. T.height \in Nat /\ T.height <= MaxHeight /\ T.height <= T.count
  BY <1>1, <1>2, <1>3, LowEnough
<1>6. N = {} <=> T.count = 0
  <2>1. ASSUME N = {}, T.count # 0 PROVE FALSE
    <3>1. 1 \in 1..T.count
      BY <1>3, <2>1 DEF Ranks
    <3> QED BY <3>1, <1>3, <2>1 DEF Ranks
  <2>2. ASSUME N # {}, T.count = 0 PROVE FALSE
    BY <2>2, <1>3 DEF Ranks
  <2> QED BY <2>1, <2>2
<1>7. N \in SUBSET Pg /\ -1 \notin N /\ PoolSize \notin N /\ \A x \in N, d \in Sd : T.link[x][d] \in N \cup {-1}
  BY <1>1, Children
<1> QED BY <1>3, <1>4, <1>5, <1>6, <1>7 DEF Ranks

(* The node of avlh_init(). *)
Fresh(T, node) == [T EXCEPT !.bal[node] = 0, !.type[node] = 0]

(* avlh_init() of a node which is not in the tree leaves it sound. *)
LEMMA Readied ==
  ASSUME NEW T, NEW N, NEW pos, Sound(T, N, pos), NEW node \in Pg, node \notin N,
         NEW A, A = Pool!InitNode(T, node)
  PROVE  Sound(A, N, pos) /\ A.bal[node] = 0 /\ A.link = T.link /\ A.end = T.end /\ A.count = T.count
<1>0. T \in Trees /\ PoolSize \notin N /\ node \in Slots /\ N \in SUBSET Pg /\ \A x \in N : x \in Slots /\ x # node
  BY SoundFacts, PageFacts
<1> DEFINE B == [T.bal EXCEPT ![node] = 0]
           Y == [T.type EXCEPT ![node] = 0]
<1>1. /\ B \in [Slots -> Int] /\ \A x \in Slots : B[x] = IF x = node THEN 0 ELSE T.bal[x]
      /\ Y \in [Slots -> Links] /\ \A x \in Slots : Y[x] = IF x = node THEN 0 ELSE T.type[x]
  BY <1>0, Fields DEF Links
<1>2. A = [T EXCEPT !.bal = B, !.type = Y]
  BY DEF Pool!InitNode, Pool!Up
<1> HIDE DEF B, Y
<1>3. /\ A \in Trees /\ A.link = T.link /\ A.end = T.end /\ A.count = T.count /\ A.height = T.height
      /\ A.bal = B /\ A.type = Y
  BY <1>0, <1>1, <1>2 DEF Trees
<1>4. \E E : Shape(A.link, A.type, N, A.count, pos, E)
  <2>1. PICK E : Shape(T.link, T.type, N, T.count, pos, E)
    BY DEF Sound
  <2>2. \A x \in N : A.type[x] = T.type[x]
    BY <1>0, <1>1, <1>3
  <2>3. Shape(A.link, A.type, N, A.count, pos, E)
    BY <2>1, <2>2, <1>3, ShapeOn
  <2> QED BY <2>3
<1>5. \E b : AvlTree(A, N, b)
  <2>1. PICK b : AvlTree(T, N, b)
    BY DEF Sound
  <2>2. \A x \in N : A.bal[x] = T.bal[x]
    BY <1>0, <1>1, <1>3
  <2>3. AvlTree(A, N, b)
    BY <2>1, <2>2, <1>3, <1>0, AvlOn
  <2> QED BY <2>3
<1>6. Ends(A, N, pos)
  BY <1>3 DEF Sound, Ends
<1>7. Clean(A, N)
  <2>1. Clean(T, N)
    BY DEF Sound
  <2>2. 0 \in -1..2
    OBVIOUS
  <2> QED BY <2>1, <2>2, <1>1, <1>3 DEF Clean
<1> QED BY <1>0, <1>1, <1>3, <1>4, <1>5, <1>6, <1>7 DEF Sound

-----------------------------------------------------------------------------
(* Inserting a node. *)

(* The end moves with its node. *)
NewEnd(T, side, parent, node) == [T.end EXCEPT ![side] = IF @ = parent THEN node ELSE @]

(* The steps of avl_insert_inner(): the number of nodes, ... *)
Counted(T, k) == [T EXCEPT !.count = @ + k]

(* only the number changes; ... *)
LEMMA CountedTree ==
  ASSUME NEW T \in Trees, NEW k \in Int
  PROVE  /\ Counted(T, k) \in Trees /\ Counted(T, k).count = T.count + k
         /\ Counted(T, k).link = T.link /\ Counted(T, k).type = T.type
         /\ Counted(T, k).bal = T.bal /\ Counted(T, k).end = T.end
         /\ Counted(T, k).height = T.height
BY DEF Counted, Trees

(* the first node of a tree, ... *)
Begun(T, e) == [T EXCEPT !.end = e, !.height = @ + 1]

(* only ends and height change; ... *)
LEMMA BegunTree ==
  ASSUME NEW T \in Trees, NEW e \in [Sd -> Some]
  PROVE  /\ Begun(T, e) \in Trees /\ Begun(T, e).count = T.count
         /\ Begun(T, e).link = T.link /\ Begun(T, e).type = T.type
         /\ Begun(T, e).bal = T.bal /\ Begun(T, e).end = e
         /\ Begun(T, e).height = T.height + 1
<1> DEFINE g == T.height + 1
<1>1. g \in Int
  BY Fields
<1>2. Begun(T, e) = [T EXCEPT !.end = e, !.height = g]
  BY DEF Begun
<1> HIDE DEF g
<1>3. /\ Begun(T, e) \in Trees /\ Begun(T, e).count = T.count
      /\ Begun(T, e).link = T.link /\ Begun(T, e).type = T.type
      /\ Begun(T, e).bal = T.bal /\ Begun(T, e).end = e
      /\ Begun(T, e).height = g
  BY <1>1, <1>2 DEF Trees
<1> QED BY <1>3 DEF g

(* new ends, ... *)
Ended(T, e) == [T EXCEPT !.end = e]

(* only the ends change; ... *)
LEMMA EndedTree ==
  ASSUME NEW T \in Trees, NEW e \in [Sd -> Some]
  PROVE  /\ Ended(T, e) \in Trees /\ Ended(T, e).count = T.count
         /\ Ended(T, e).link = T.link /\ Ended(T, e).type = T.type
         /\ Ended(T, e).bal = T.bal /\ Ended(T, e).end = e /\ Ended(T, e).height = T.height
BY DEF Trees, Ended

(* and the new child of a node. *)
Extended(T, h, side, node) ==
    [T EXCEPT !.end[side] = IF @ = h THEN node ELSE @, !.bal[h] = @ + side]

(* The last step is made of the others. *)
LEMMA BelowTree ==
  ASSUME NEW T \in Trees, NEW h \in Slots, NEW side \in Sd, NEW node \in Some
  PROVE  Extended(T, h, side, node)
           = Leaned(Ended(T, NewEnd(T, side, h, node)), h, side)
<1> DEFINE e == NewEnd(T, side, h, node)
<1>1. Leaned(Ended(T, e), h, side) = [T EXCEPT !.end = e, !.bal[h] = @ + side]
  <2> HIDE DEF e
  <2> QED BY DEF Leaned, Ended, Trees
<1>2. Extended(T, h, side, node)
        = [T EXCEPT !.end = e, !.bal[h] = @ + side]
  BY DEF NewEnd, Trees, Extended
<1> HIDE DEF e
<1> QED BY <1>1, <1>2 DEF e

(* avl_insert_inner() below a node keeps a tree sound, with the new node *)
(* at its place in the order.                                            *)
LEMMA InsertedBelow ==
  ASSUME NEW T, NEW N, NEW pos, Sound(T, N, pos),
         NEW node \in Pg, node \notin N, T.bal[node] = 0,
         NEW h \in N, NEW side \in Sd, T.link[h][side] = -1,
         NEW A, A = Pool!InsertInner(T, h, node, side)
  PROVE  Sound(A, N \cup {node}, PosWith(pos, N, node, Place(pos[h], side)))
<1> DEFINE n == T.count
           N2 == N \cup {node}
           P == PosWith(pos, N, node, Place(pos[h], side))
           T0 == Pool!Adopt(T, h, side, node)
           T1 == Ended(Counted(T0, 1), NewEnd(T, side, h, node))
           T2 == Leaned(T1, h, side)
<1>0. /\ T \in Trees /\ n \in Nat /\ N \in SUBSET Pg /\ -1 \notin N /\ PoolSize \notin N
      /\ pos \in [N -> 1..n] /\ (\A g, f \in N : pos[g] = pos[f] => g = f)
      /\ n # 0 /\ N # {} /\ T.height <= MaxHeight
      /\ \A x \in N, d \in Sd : T.link[x][d] \in N \cup {-1}
  BY SoundFacts
<1>01. /\ h \in Slots /\ h # -1 /\ node # -1 /\ node # h /\ node \in -1..(PoolSize-1) /\ node # PoolSize
       /\ node \in Slots /\ node \in Some /\ h \in -1..(PoolSize - 1)
       /\ side \in Links /\ side \in Int /\ side # 0 /\ -side \in Sd /\ side # -side
       /\ \A x \in N2 : x \in Slots
  BY <1>0, PageFacts, SideFacts
<1>1. PICK E : Shape(T.link, T.type, N, n, pos, E)
  BY DEF Sound
<1>2. PICK b : AvlTree(T, N, b)
  BY DEF Sound
<1>3. Relinked(T0, T, h, side, node)
  BY <1>0, <1>01, Adopted
<1>4. /\ T0 \in Trees /\ T0.bal = T.bal /\ T0.end = T.end /\ T0.count = T.count /\ T0.height = T.height
      /\ \A x \in Slots, d \in Links :
           T0.link[x][d] = IF x = h /\ d = side THEN node ELSE IF x = node /\ d = 0 THEN h ELSE T.link[x][d]
      /\ \A x \in Slots : T0.type[x] = IF x = node THEN side ELSE T.type[x]
  BY <1>3 DEF Relinked
<1>5. /\ NewEnd(T, side, h, node) \in [Sd -> Some]
      /\ \A s \in Sd : NewEnd(T, side, h, node)[s] = IF s = side /\ T.end[s] = h THEN node ELSE T.end[s]
  BY <1>0, <1>01, Fields DEF NewEnd
<1> HIDE DEF T0
<1>60. /\ Counted(T0, 1) \in Trees /\ Counted(T0, 1).link = T0.link /\ Counted(T0, 1).type = T0.type
       /\ Counted(T0, 1).bal = T.bal /\ Counted(T0, 1).end = T.end
       /\ Counted(T0, 1).count = n + 1 /\ Counted(T0, 1).height = T.height
  <2>1. T0 \in Trees /\ 1 \in Int
    BY <1>4
  <2>2. /\ Counted(T0, 1) \in Trees /\ Counted(T0, 1).count = T0.count + 1
        /\ Counted(T0, 1).link = T0.link /\ Counted(T0, 1).type = T0.type
        /\ Counted(T0, 1).bal = T0.bal /\ Counted(T0, 1).end = T0.end
        /\ Counted(T0, 1).height = T0.height
    BY <2>1, CountedTree
  <2> QED BY <2>2, <1>4
<1>6. A = Pool!Climb(T2, h, 1)
  <2> DEFINE C == Counted(T0, 1)
  <2>1. A = Pool!Climb(Extended(C, h, side, node), h, 1)
    BY <1>01 DEF Pool!InsertInner, Counted, T0, Extended
  <2>2. C \in Trees /\ NewEnd(C, side, h, node) = NewEnd(T, side, h, node)
    BY <1>60 DEF NewEnd
  <2> HIDE DEF C
  <2>3. Extended(C, h, side, node)
          = Leaned(Ended(C, NewEnd(T, side, h, node)), h, side)
    BY <2>2, <1>01, BelowTree
  <2> QED BY <2>1, <2>3 DEF C
<1>7. /\ T1 \in Trees /\ T1.link = T0.link /\ T1.type = T0.type /\ T1.bal = T.bal
      /\ T1.end = NewEnd(T, side, h, node) /\ T1.count = n + 1 /\ T1.height = T.height
  <2> DEFINE C == Counted(T0, 1)
             e == NewEnd(T, side, h, node)
  <2>1. /\ C \in Trees /\ C.link = T0.link /\ C.type = T0.type /\ C.bal = T.bal
        /\ C.count = n + 1 /\ C.height = T.height /\ e \in [Sd -> Some]
    BY <1>60, <1>5
  <2> HIDE DEF C, e
  <2>2. /\ Ended(C, e) \in Trees /\ Ended(C, e).link = C.link /\ Ended(C, e).type = C.type
        /\ Ended(C, e).bal = C.bal /\ Ended(C, e).end = e /\ Ended(C, e).count = C.count
        /\ Ended(C, e).height = C.height
    BY <2>1, EndedTree
  <2> QED BY <2>1, <2>2 DEF C, e
<1> HIDE DEF T1
<1>8. Attached(T1.link, T1.type, T.link, T.type, h, side, node)
  <2>1. T1.link \in LinkType /\ T1.type \in SideType
    BY <1>7, Fields DEF LinkType, SideType
  <2> QED BY <2>1, <1>4, <1>7 DEF Attached
<1>9. \A d \in Links : T.link[node][d] = -1
  BY <1>01 DEF Sound, Clean
<1>10. \E E2 : Shape(T1.link, T1.type, N2, n + 1, P, E2)
  <2>1. T.link \in LinkType /\ T.type \in SideType
    BY <1>0, Fields DEF LinkType, SideType
  <2>2. \A d \in Sd : T.link[node][d] = -1
    BY <1>9 DEF Sd, Links
  <2>3. Shape(T1.link, T1.type, N2, n + 1, P, EdgesWith(E, N, node, pos[h], Place(pos[h], side)))
    BY <2>1, <2>2, <1>8, <1>1, AttachedShape
  <2> HIDE DEF P, N2
  <2> QED BY <2>3
<1>11. PICK E2 : Shape(T1.link, T1.type, N2, n + 1, P, E2)
  BY <1>10
<1> DEFINE b2 == [x \in N2 \cup {-1} |-> IF x = node THEN 1 ELSE b[x]]
<1>12. /\ b \in [N \cup {-1} -> Nat] /\ b[-1] = 0
       /\ \A x \in N : Even(T.link, T.bal, b, x)
       /\ T.height = b[T.link[PoolSize][1]]
       /\ \A x \in N, d \in Sd : b[T.link[x][d]] \in Nat
  <2>1. Hole(T, N, b, PoolSize, 1, b[T.link[PoolSize][1]])
    BY <1>2 DEF AvlTree
  <2> QED BY <2>1, <1>0 DEF Hole
<1>13. /\ b2 \in [N2 \cup {-1} -> Nat] /\ b2[-1] = 0 /\ b2[node] = 1
       /\ \A x \in N \cup {-1} : b2[x] = b[x]
  BY <1>12, <1>01
<1>14. /\ \A d \in Sd : T1.link[node][d] = -1
       /\ T1.link[h][side] = node /\ T1.link[h][-side] = T.link[h][-side]
       /\ \A x \in N, d \in Sd : x # h => T1.link[x][d] = T.link[x][d]
       /\ \A d \in Sd : T1.link[PoolSize][d] = T.link[PoolSize][d]
       /\ \A d \in Links : T1.link[h][0] = T.link[h][0]
  <2>1. PoolSize \in Slots /\ 0 \in Links
    BY PoolHasPages DEF Slots, Links
  <2>2. PoolSize # h /\ \A d \in Sd : d \in Links /\ d # 0
    BY <1>0, SideFacts
  <2> QED BY <1>4, <1>7, <1>9, <1>01, <2>1, <2>2
<1> HIDE DEF b2
<1>15. Hole(T1, N2, b2, h, side, 0)
  <2>1. ASSUME NEW x \in N, x # h PROVE Even(T1.link, T1.bal, b2, x)
    <3>1. \A d \in Sd : b2[T1.link[x][d]] = b[T.link[x][d]]
      BY <2>1, <1>14, <1>13, <1>0
    <3>2. Even(T.link, T.bal, b, x) /\ b2[x] = b[x]
      BY <1>12, <1>13
    <3> QED BY <3>1, <3>2, <1>7 DEF Even, Sd
  <2>2. Even(T1.link, T1.bal, b2, node)
    BY <1>7, <1>13, <1>14 DEF Even, Sd, Higher
  <2>3. EvenBut(T1.link, T1.bal, b2, h, side, 0)
    <3> DEFINE y == b[T.link[h][-side]]
    <3>1. y \in Nat /\ b2[T1.link[h][-side]] = y /\ b[T.link[h][side]] = 0
      BY <1>14, <1>13, <1>12, <1>0, <1>01
    <3>2. /\ b[h] = 1 + Higher(0, y) /\ T.bal[h] = (IF side = 1 THEN 0 - y ELSE y - 0) /\ T.bal[h] \in -1..1
      <4>1. Even(T.link, T.bal, b, h) /\ b[T.link[h][side]] \in Nat /\ b[T.link[h][-side]] \in Nat
        BY <1>12, <1>01
      <4> HIDE DEF y
      <4>2. /\ b[h] = 1 + Higher(b[T.link[h][side]], b[T.link[h][-side]])
            /\ T.bal[h] = IF side = 1 THEN b[T.link[h][side]] - b[T.link[h][-side]]
                          ELSE b[T.link[h][-side]] - b[T.link[h][side]]
            /\ T.bal[h] \in -1..1
        BY <4>1, SideEven
      <4> QED BY <4>2, <3>1 DEF y
    <3>3. b2[h] = b[h] /\ T1.bal = T.bal
      BY <1>13, <1>7
    <3> HIDE DEF y
    <3> QED BY <3>1, <3>2, <3>3 DEF EvenBut
  <2>4. T1.height = b2[T1.link[PoolSize][1]]
    <3>1. T.link[PoolSize][1] \in N \cup {-1}
      BY <1>1, Children
    <3> QED BY <3>1, <1>7, <1>12, <1>13, <1>14 DEF Sd
  <2>5. PoolSize # h /\ h \in N2
    BY <1>0
  <2> QED BY <2>1, <2>2, <2>3, <2>4, <2>5, <1>13 DEF Hole
<1>16. T1.bal[h] # side
  <2>1. EvenBut(T1.link, T1.bal, b2, h, side, 0) /\ b2[T1.link[h][-side]] \in Nat
    <3>1. T.link[h][-side] \in N \cup {-1}
      BY <1>0, <1>01
    <3> QED BY <3>1, <1>15, <1>13, <1>14 DEF Hole
  <2>2. T1.bal[h] = IF side = 1 THEN 0 - b2[T1.link[h][-side]] ELSE b2[T1.link[h][-side]]
    BY <2>1 DEF EvenBut
  <2>3. side # 1 => side = -1
    BY DEF Sd
  <2> QED BY <2>1, <2>2, <2>3
<1>17. Climbed(T2, h, T1, N2, n+1, P, T1.link[h][0], T1.type[h], b2[h], 1)
  <2>1. b2[T1.link[h][side]] = 0 + 1
    BY <1>14, <1>13
  <2>2. h \in N2
    OBVIOUS
  <2>3. 1 \in {-1, 1}
    OBVIOUS
  <2> HIDE DEF N2, P, T2
  <2>4. T2 = Leaned(T1, h, side)
    BY DEF T2
  <2> QED BY <2>1, <2>2, <2>3, <2>4, <1>7, <1>11, <1>15, <1>16, LeanChanged
<1>18. /\ T2 \in Trees /\ T2.end = T1.end /\ T2.count = n + 1 /\ T2.height = T.height /\ Outside(T2, T1, N2)
       /\ T2.link[h][0] = T1.link[h][0] /\ T2.type[h] = T1.type[h]
       /\ \E E3 : Shape(T2.link, T2.type, N2, n+1, P, E3)
       /\ \E b3 : Hole(T2, N2, b3, T1.link[h][0], T1.type[h], b2[h]) /\ b3[h] = b2[h] + Change(1, T2.bal[h])
  BY <1>17, <1>7 DEF Climbed
<1> HIDE DEF P, T2, N2
<1>19. Settled(A, T2, N2, n + 1, P)
  <2>1. Above(T2.link, T2.type, N2, h)
    BY <1>18 DEF Shape, N2
  <2>2. b2[h] >= 1 /\ b2[h] \in Nat
    <3>1. EvenBut(T1.link, T1.bal, b2, h, side, 0) /\ b2[T1.link[h][-side]] \in Nat
      <4>1. T.link[h][-side] \in N \cup {-1}
        BY <1>0, <1>01
      <4> QED BY <4>1, <1>15, <1>13, <1>14 DEF Hole, N2
    <3>2. b2[h] = 1 + Higher(0, b2[T1.link[h][-side]])
      BY <3>1 DEF EvenBut
    <3> QED BY <3>1, <3>2 DEF Higher
  <2>3. PICK b3 : Hole(T2, N2, b3, T1.link[h][0], T1.type[h], b2[h]) /\ b3[h] = b2[h] + Change(1, T2.bal[h])
    BY <1>18
  <2>4. Loose(T2, h, T2.link[h][0], T2.type[h], N2, 1, 0, b3, b2[h])
    BY <1>18, <2>1, <2>2, <2>3 DEF Loose, Above
  <2>5. Climbing(At(h, T2), 0, T2, N2, n+1, P, 1)
    <3>1. h # PoolSize /\ Outside(T2, T2, N2)
      BY <1>0 DEF Outside
    <3> QED BY <3>1, <2>1, <2>4, <1>18, <1>01 DEF Climbing, Above, At
  <2>6. 1 \in {-1, 1}
    OBVIOUS
  <2>7. T2 \in Trees /\ T2.height <= MaxHeight
    BY <1>18, <1>0
  <2>8. Settled(Pool!Climb(T2, h, 1), T2, N2, n + 1, P)
    BY <2>5, <2>6, <2>7, ClimbSettles
  <2> QED BY <2>8, <1>6
<1>20. Ends(T2, N2, P)
  <2> DEFINE pp == pos[h]
             at == Place(pp, side)
  <2>0. N2 # {} /\ Ends(T, N, pos) /\ pp \in 1..n
    BY <1>0 DEF Sound, N2
  <2>1. P[node] = at /\ node \in N2 /\ \A x \in N : x \in N2 /\ P[x] = Shifted(pos[x], at)
    BY DEF P, N2, PosWith
  <2> SUFFICES ASSUME NEW s \in Sd PROVE T2.end[s] \in N2 /\ P[T2.end[s]] = First(n+1, s)
    BY <2>0, <1>18 DEF Ends
  <2>2. T2.end[s] = IF s = side /\ T.end[s] = h THEN node ELSE T.end[s]
    BY <1>18, <1>7, <1>5
  <2>3. T.end[s] \in N /\ pos[T.end[s]] = First(n, s)
    BY <2>0, <1>0 DEF Ends
  <2>4. CASE s = side /\ T.end[s] = h
    <3>1. at = First(n+1, s)
      BY <2>4, <2>3 DEF First, Place
    <3> QED BY <3>1, <2>4, <2>2, <2>1
  <2>5. CASE ~(s = side /\ T.end[s] = h)
    <3> DEFINE e == T.end[s]
               v == pos[e]
    <3>1. v = pp => e = h
      BY <2>3, <1>0
    <3>2. v = First(n, s) /\ v \in 1..n
      BY <2>3, <1>0
    <3>3. s = 1 => v = n /\ (side = 1 => v # pp)
      BY <3>1, <3>2, <2>5 DEF First
    <3>4. s # 1 => v = 1 /\ (side # 1 => v # pp)
      <4>1. s # 1 /\ side # 1 => s = side
        BY DEF Sd
      <4> QED BY <4>1, <3>1, <3>2, <2>5 DEF First
    <3>5. Shifted(v, at) = First(n+1, s)
      <4> HIDE DEF v, pp
      <4> QED BY <3>2, <3>3, <3>4, <2>0, <1>0 DEF Shifted, Place, First
    <3> QED BY <3>5, <2>5, <2>2, <2>1, <2>3
  <2> QED BY <2>4, <2>5
<1>21. \A x \in Slots : x \notin N2 => T2.bal[x] \in -1..2 /\
           (x # PoolSize => \A d \in Links : T2.link[x][d] = -1)
  <2> SUFFICES ASSUME NEW x \in Slots, x \notin N2
               PROVE T2.bal[x] \in -1..2 /\ (x # PoolSize => \A d \in Links : T2.link[x][d] = -1)
    OBVIOUS
  <2>1. x # h /\ x # node /\ x \notin N
    BY DEF N2
  <2>2. T2.bal[x] = T.bal[x] /\ (x # PoolSize => \A d \in Links : T2.link[x][d] = T1.link[x][d])
    BY <1>18, <1>7 DEF Outside
  <2>3. \A d \in Links : T1.link[x][d] = T.link[x][d]
    BY <2>1, <1>4, <1>7
  <2> QED BY <2>1, <2>2, <2>3 DEF Sound, Clean
<1>22. Sound(A, N2, P)
  BY <1>18, <1>19, <1>20, <1>21, SettledSound
<1> QED BY <1>22 DEF P, N2

(* avl_insert_inner() makes a sound tree of the first node. *)
LEMMA InsertedFirst ==
  ASSUME NEW T, NEW pos, Sound(T, {}, pos),
         NEW node \in Pg, T.bal[node] = 0,
         NEW A, A = Pool!InsertInner(T, -1, node, 1)
  PROVE  Sound(A, {node}, PosWith(pos, {}, node, 1))
<1> DEFINE T0 == Pool!Adopt(T, PoolSize, 1, node)
           e == [s \in Sd |-> node]
           P == PosWith(pos, {}, node, 1)
           N2 == {node}
<1>0. T \in Trees /\ T.count = 0 /\ T.height \in Int
  BY SoundFacts
<1>01. /\ node \in Slots /\ node # -1 /\ node # PoolSize /\ node \in -1..(PoolSize-1) /\ node \in Some
       /\ PoolSize \in Slots /\ PoolSize # -1 /\ 1 \in Links /\ 0 \in Links /\ 1 \in Sd /\ -1 \in Links
  BY PageFacts, PoolHasPages DEF Slots, Links, Sd
<1>1. PICK E : Shape(T.link, T.type, {}, 0, pos, E)
  BY <1>0 DEF Sound
<1>2. PICK b : AvlTree(T, {}, b)
  BY DEF Sound
<1>3. Relinked(T0, T, PoolSize, 1, node)
  BY <1>0, <1>01, Adopted
<1>4. /\ T0 \in Trees /\ T0.bal = T.bal /\ T0.end = T.end /\ T0.count = T.count /\ T0.height = T.height
      /\ \A x \in Slots, d \in Links :
           T0.link[x][d] = IF x = PoolSize /\ d = 1 THEN node ELSE IF x = node /\ d = 0 THEN PoolSize ELSE T.link[x][d]
      /\ \A x \in Slots : T0.type[x] = IF x = node THEN 1 ELSE T.type[x]
  BY <1>3 DEF Relinked
<1>5. A = Begun(Counted(T0, 1), e)
  BY DEF Pool!InsertInner, Pool!Sides, Pool!Left, Pool!Right, Sd, Counted, Begun
<1> HIDE DEF T0
<1>6. /\ A \in Trees /\ A.link = T0.link /\ A.type = T0.type /\ A.bal = T.bal
      /\ A.end = e /\ A.count = 1 /\ A.height = T.height + 1
  <2> DEFINE C == Counted(T0, 1)
  <2>1. e \in [Sd -> Some]
    BY <1>01
  <2>2. /\ C \in Trees /\ C.link = T0.link /\ C.type = T0.type /\ C.bal = T.bal
        /\ C.count = 1 /\ C.height = T.height
    <3>1. T0 \in Trees /\ 1 \in Int
      BY <1>4
    <3>2. /\ Counted(T0, 1) \in Trees /\ Counted(T0, 1).count = T0.count + 1
          /\ Counted(T0, 1).link = T0.link /\ Counted(T0, 1).type = T0.type
          /\ Counted(T0, 1).bal = T0.bal /\ Counted(T0, 1).height = T0.height
      BY <3>1, CountedTree
    <3>3. T0.count + 1 = 1
      BY <1>4, <1>0
    <3> QED BY <3>2, <3>3, <1>4
  <2> HIDE DEF e, C
  <2>3. A = Begun(C, e)
    BY <1>5 DEF C
  <2> QED BY <2>1, <2>2, <2>3, BegunTree
<1>7. \A d \in Links : T.link[node][d] = -1
  BY <1>01 DEF Sound, Clean
<1>8. T.link[PoolSize][1] = -1 /\ T.link[PoolSize][-1] = -1
  BY <1>1 DEF Shape, Rooted
<1>9. /\ A.link[PoolSize][1] = node /\ A.link[PoolSize][-1] = -1
      /\ A.link[node][0] = PoolSize /\ A.link[node][1] = -1 /\ A.link[node][-1] = -1
      /\ A.type[node] = 1
  BY <1>4, <1>6, <1>7, <1>8, <1>01
<1> DEFINE F == [s \in Sd |-> [x \in N2 |-> 1]]
<1>10. P \in [N2 -> 1..1] /\ P[node] = 1
  BY DEF PosWith
<1>11. Shape(A.link, A.type, N2, 1, P, F)
  <2>0. F[1][node] = 1 /\ F[-1][node] = 1 /\ F \in [Sd -> [N2 -> 1..1]]
    BY DEF Sd
  <2> HIDE DEF F, P
  <2>1. Ranks(N2, 1, P, F)
    BY <2>0, <1>10 DEF Ranks
  <2>2. \A s \in Sd : Kid(A.link, A.type, N2, P, F, node, s)
    <3>1. RightKid(A.link, A.type, N2, P, F, node) /\ LeftKid(A.link, A.type, N2, P, F, node) /\ P[node] \in Int
      BY <2>0, <1>9, <1>10 DEF RightKid, LeftKid
    <3> QED BY <3>1, KidSides
  <2>3. Above(A.link, A.type, N2, node)
    BY <1>9, <1>01 DEF Above
  <2>4. Rooted(A.link, A.type, N2, 1, F)
    BY <2>0, <1>9, <1>01 DEF Rooted
  <2> QED BY <2>1, <2>2, <2>3, <2>4 DEF Shape
<1> DEFINE b2 == [x \in N2 \cup {-1} |-> IF x = node THEN 1 ELSE 0]
<1>12. AvlTree(A, N2, b2)
  <2>1. b2 \in [N2 \cup {-1} -> Nat] /\ b2[-1] = 0 /\ b2[node] = 1
    BY <1>01
  <2>2. T.height = 0
    BY <1>2, <1>8 DEF AvlTree, Hole
  <2> HIDE DEF b2
  <2>3. Even(A.link, A.bal, b2, node)
    BY <2>1, <1>6, <1>9 DEF Even, Higher
  <2> QED BY <2>1, <2>2, <2>3, <1>6, <1>9, <1>01 DEF AvlTree, Hole
<1>13. Ends(A, N2, P)
  <2>1. \A s \in Sd : A.end[s] = node
    BY <1>6
  <2> HIDE DEF P
  <2> QED BY <2>1, <1>6, <1>10 DEF Ends, First
<1>14. Clean(A, N2)
  <2>1. \A x \in Slots : A.bal[x] \in -1..2
    BY <1>6 DEF Sound, Clean
  <2>2. \A x \in Slots, d \in Links : x # node /\ x # PoolSize => A.link[x][d] = T.link[x][d]
    BY <1>4, <1>6
  <2> QED BY <2>1, <2>2 DEF Sound, Clean
<1>15. \E E2 : Shape(A.link, A.type, N2, A.count, P, E2)
  BY <1>11, <1>6
<1> HIDE DEF b2, P, N2
<1>16. Sound(A, N2, P)
  BY <1>6, <1>12, <1>13, <1>14, <1>15 DEF Sound
<1> QED BY <1>16 DEF N2, P

-----------------------------------------------------------------------------
(* Deletion. *)

(* Positions and subtrees once the node at position q has gone. *)
Earlier(v, q) == IF v > q THEN v - 1 ELSE v
PosWithout(pos, N, node) == [x \in N \ {node} |-> Earlier(pos[x], pos[node])]
EdgesWithout(E, N, node, q) ==
    [s \in Sd |-> [x \in N \ {node} |->
        IF s = 1 THEN Earlier(E[1][x], q - 1) ELSE Earlier(E[-1][x], q)]]

(* Node h has lost its child on side s. *)
Detached(L2, L, h, s) ==
    /\ L2 \in LinkType
    /\ \A x \in Slots, d \in Links : L2[x][d] = IF x = h /\ d = s THEN -1 ELSE L[x][d]

(* Shifted places stay different. *)
LEMMA EarlierInjective ==
  ASSUME NEW q \in Int, NEW v \in Int, NEW w \in Int, v # q, w # q, Earlier(v, q) = Earlier(w, q)
  PROVE  v = w
BY DEF Earlier

(* Numbering the nodes again when one leaves. *)
LEMMA RanksWithout ==
  ASSUME NEW N, NEW n, NEW pos, NEW E, Ranks(N, n, pos, E), NEW node \in N
  PROVE  Ranks(N \ {node}, n-1, PosWithout(pos, N, node), EdgesWithout(E, N, node, pos[node]))
<1> DEFINE N2 == N \ {node}
           q == pos[node]
           P == PosWithout(pos, N, node)
           F == EdgesWithout(E, N, node, q)
<1>0. /\ N \in SUBSET Pg /\ n \in Nat /\ pos \in [N -> 1..n] /\ E \in [Sd -> [N -> 1..n]]
      /\ \A h \in N : E[-1][h] <= pos[h] /\ pos[h] <= E[1][h]
      /\ \A g, h \in N : pos[g] = pos[h] => g = h
      /\ \A i \in 1..n : \E h \in N : pos[h] = i
      /\ N2 \in SUBSET Pg
  BY DEF Ranks
<1>01. q \in 1..n /\ n-1 \in Nat
  BY <1>0
<1>1. \A x \in N2 : P[x] = Earlier(pos[x], q)
  BY DEF PosWithout
<1>2. \A x \in N2 : F[1][x] = Earlier(E[1][x], q - 1) /\ F[-1][x] = Earlier(E[-1][x], q)
  BY DEF EdgesWithout, Sd
<1>3. \A x \in N2 : /\ pos[x] \in 1..n /\ E[1][x] \in 1..n /\ E[-1][x] \in 1..n
                    /\ E[-1][x] <= pos[x] /\ pos[x] <= E[1][x] /\ pos[x] # q
  BY <1>0 DEF Sd
<1>4. ASSUME NEW x \in N2
      PROVE  /\ Earlier(pos[x], q) \in 1..n-1 /\ Earlier(E[1][x], q - 1) \in 1..n-1
             /\ Earlier(E[-1][x], q) \in 1..n-1
             /\ Earlier(E[-1][x], q) <= Earlier(pos[x], q)
             /\ Earlier(pos[x], q) <= Earlier(E[1][x], q - 1)
  <2> DEFINE e == E[-1][x]
             p == pos[x]
             f == E[1][x]
  <2>1. e \in 1..n /\ p \in 1..n /\ f \in 1..n /\ e <= p /\ p <= f /\ p # q
    BY <1>3
  <2>2. /\ Earlier(p, q) \in 1..n-1 /\ Earlier(f, q - 1) \in 1..n-1 /\ Earlier(e, q) \in 1..n-1
        /\ Earlier(e, q) <= Earlier(p, q) /\ Earlier(p, q) <= Earlier(f, q - 1)
    <3> HIDE DEF e, p, f, q
    <3> QED BY <2>1, <1>0, <1>01 DEF Earlier
  <2> QED BY <2>2
<1>5. P \in [N2 -> 1..n-1]
  BY <1>4 DEF PosWithout
<1>6. F \in [Sd -> [N2 -> 1..n-1]]
  BY <1>4 DEF EdgesWithout
<1> HIDE DEF P, F, q
<1>7. \A x \in N2 : F[-1][x] <= P[x] /\ P[x] <= F[1][x]
  BY <1>4, <1>1, <1>2
<1>8. \A g, h \in N2 : P[g] = P[h] => g = h
  <2> SUFFICES ASSUME NEW g \in N2, NEW h \in N2, P[g] = P[h] PROVE g = h
    OBVIOUS
  <2>1. /\ Earlier(pos[g], q) = Earlier(pos[h], q) /\ pos[g] \in Int /\ pos[h] \in Int /\ q \in Int
        /\ pos[g] # q /\ pos[h] # q
    BY <1>1, <1>3, <1>01
  <2>2. pos[g] = pos[h]
    BY <2>1, EarlierInjective
  <2> QED BY <2>2, <1>0
<1>9. ASSUME NEW i \in 1..n-1 PROVE \E h \in N2 : P[h] = i
  <2>1. PICK j \in 1..n : j # q /\ Earlier(j, q) = i
    <3>1. CASE i < q
      <4>1. i \in 1..n /\ i # q /\ Earlier(i, q) = i
        BY <3>1, <1>0, <1>01 DEF Earlier
      <4> QED BY <4>1
    <3>2. CASE ~(i < q)
      <4>1. i+1 \in 1..n /\ i+1 # q /\ Earlier(i+1, q) = i
        BY <3>2, <1>0, <1>01 DEF Earlier
      <4> QED BY <4>1
    <3> QED BY <3>1, <3>2
  <2>2. PICK h \in N : pos[h] = j
    BY <2>1, <1>0
  <2>3. h \in N2
    BY <2>1, <2>2 DEF q
  <2> QED BY <2>1, <2>2, <2>3, <1>1
<1> HIDE DEF N2
<1>10. Ranks(N2, n-1, P, F)
  BY <1>0, <1>01, <1>5, <1>6, <1>7, <1>8, <1>9 DEF Ranks
<1> QED BY <1>10 DEF N2, P, F, q

(* Unlinking a leaf (avl_delete_leaf) leaves a tree of the other nodes. *)
LEMMA DetachedShape ==
  ASSUME NEW L \in LinkType, NEW Y \in SideType, NEW N, NEW n, NEW pos, NEW E, Shape(L, Y, N, n, pos, E),
         NEW h \in N, NEW side \in Sd, NEW node, node = L[h][side], node # -1,
         \A d \in Sd : L[node][d] = -1,
         NEW L2, Detached(L2, L, h, side)
  PROVE  /\ Shape(L2, Y, N \ {node}, n-1, PosWithout(pos, N, node), EdgesWithout(E, N, node, pos[node]))
         /\ node \in N /\ h # node /\ n-1 \in Nat \ {0}
<1> DEFINE N2 == N \ {node}
           q == pos[node]
           P == PosWithout(pos, N, node)
           F == EdgesWithout(E, N, node, q)
<1>0. /\ Ranks(N, n, pos, E) /\ N \in SUBSET Pg /\ n \in Nat /\ -1 \notin N /\ PoolSize \notin N
      /\ PoolSize \in Slots /\ -1 \in Links /\ 1 \in Links /\ 0 \in Links /\ side # 0
      /\ \A x \in N : x \in Slots /\ x # -1 /\ x # PoolSize
      /\ \A x \in N : /\ pos[x] \in 1..n /\ E[1][x] \in 1..n /\ E[-1][x] \in 1..n
                      /\ E[-1][x] <= pos[x] /\ pos[x] <= E[1][x]
      /\ \A x, y \in N : pos[x] = pos[y] => x = y
  <2>1. Ranks(N, n, pos, E)
    BY DEF Shape
  <2>2. \A x \in N : x \in Slots /\ x # -1 /\ x # PoolSize
    BY <2>1, PageFacts DEF Ranks
  <2> QED BY <2>1, <2>2, Children, PoolHasPages, SideFacts DEF Ranks, Sd, Links, Slots
<1>1. Below(L, Y, N, pos, E, h, side)
  BY DEF Shape, Kid
<1>2. node \in N /\ L[node][0] = h /\ Y[node] = side /\ h # node
  <2>1. node \in N /\ L[node][0] = h /\ Y[node] = side
    BY <1>1 DEF Below
  <2>2. L[h][side] # h
    BY Around
  <2> QED BY <2>1, <2>2
<1>3. ASSUME NEW x \in N
      PROVE  RightKid(L, Y, N, pos, E, x) /\ LeftKid(L, Y, N, pos, E, x)
  <2>1. pos[x] \in Int
    BY <1>0
  <2>2. \A s \in Sd : Kid(L, Y, N, pos, E, x, s)
    BY DEF Shape
  <2> QED BY <2>1, <2>2, KidSides
<1>4. q \in 1..n /\ E[1][node] = q /\ E[-1][node] = q
  BY <1>0, <1>2, <1>3 DEF RightKid, LeftKid, Sd
<1>5. Ranks(N2, n-1, P, F)
  BY <1>0, <1>2, RanksWithout
<1>6. /\ \A x \in N2 : P[x] = Earlier(pos[x], q)
      /\ \A x \in N2 : F[1][x] = Earlier(E[1][x], q - 1) /\ F[-1][x] = Earlier(E[-1][x], q)
  BY DEF PosWithout, EdgesWithout, Sd
<1>61. \A x \in N2 : pos[x] # q
  BY <1>0, <1>2
<1> HIDE DEF P, F, q
<1>7. /\ \A x \in N, d \in Sd : L2[x][d] = IF x = h /\ d = side THEN -1 ELSE L[x][d]
      /\ \A x \in N : L2[x][0] = L[x][0]
      /\ \A d \in Sd : L2[PoolSize][d] = L[PoolSize][d]
  BY <1>0, SideFacts DEF Detached
<1>8. ASSUME NEW x \in N2 PROVE P[x] \in Int /\ RightKid(L2, Y, N2, P, F, x)
  <2> DEFINE c == L[x][1]
  <2>0. P[x] \in Int /\ P[x] = Earlier(pos[x], q) /\ F[1][x] = Earlier(E[1][x], q - 1) /\ pos[x] \in 1..n /\ pos[x] # q
    BY <1>6, <1>61, <1>0, <1>4 DEF Earlier
  <2>1. CASE x = h /\ side = 1
    <3>1. L2[x][1] = -1
      BY <2>1, <1>7 DEF Sd
    <3>2. E[1][node] = E[1][x] /\ E[-1][node] = pos[x] + 1
      BY <2>1, <1>3, <1>0, <1>2 DEF RightKid
    <3>3. F[1][x] = P[x]
      BY <3>2, <2>0, <1>4 DEF Earlier
    <3> QED BY <3>1, <3>3, <2>0 DEF RightKid
  <2>2. CASE ~(x = h /\ side = 1)
    <3>1. L2[x][1] = c
      BY <2>2, <1>7 DEF Sd
    <3>4. CASE c = -1
      <4>1. E[1][x] = pos[x]
        BY <3>4, <1>3, <1>0 DEF RightKid
      <4>2. F[1][x] = P[x]
        BY <4>1, <2>0, <1>4 DEF Earlier
      <4> QED BY <3>1, <3>4, <4>2, <2>0 DEF RightKid
    <3>5. CASE c # -1
      <4>1. c \in N /\ L[c][0] = x /\ Y[c] = 1 /\ E[1][c] = E[1][x] /\ E[-1][c] = pos[x] + 1
        BY <3>5, <1>3 DEF RightKid
      <4>2. c \in N2
        BY <4>1, <2>2, <1>2
      <4>3. F[1][c] = F[1][x] /\ F[-1][c] = Earlier(pos[x] + 1, q)
        BY <4>1, <4>2, <1>6
      <4>4. F[-1][c] = P[x] + 1
        BY <4>3, <2>0, <1>4 DEF Earlier
      <4> HIDE DEF c
      <4> QED BY <3>1, <4>1, <4>2, <4>3, <4>4, <2>0, <1>7 DEF RightKid
    <3> QED BY <3>4, <3>5
  <2> QED BY <2>1, <2>2
<1>9. ASSUME NEW x \in N2 PROVE LeftKid(L2, Y, N2, P, F, x)
  <2> DEFINE c == L[x][-1]
  <2>0. P[x] \in Int /\ P[x] = Earlier(pos[x], q) /\ F[-1][x] = Earlier(E[-1][x], q) /\ pos[x] \in 1..n /\ pos[x] # q
    BY <1>6, <1>61, <1>0, <1>4 DEF Earlier
  <2>00. side # 1 => side = -1
    BY DEF Sd
  <2>1. CASE x = h /\ side # 1
    <3>1. L2[x][-1] = -1
      BY <2>1, <2>00, <1>7 DEF Sd
    <3>2. E[-1][node] = E[-1][x] /\ E[1][node] = pos[x] - 1
      BY <2>1, <2>00, <1>3, <1>0, <1>2 DEF LeftKid
    <3>3. F[-1][x] = P[x]
      BY <3>2, <2>0, <1>4 DEF Earlier
    <3> QED BY <3>1, <3>3, <2>0 DEF LeftKid
  <2>2. CASE ~(x = h /\ side # 1)
    <3>1. L2[x][-1] = c
      BY <2>2, <1>7 DEF Sd
    <3>4. CASE c = -1
      <4>1. E[-1][x] = pos[x]
        BY <3>4, <1>3, <1>0 DEF LeftKid
      <4>2. F[-1][x] = P[x]
        BY <4>1, <2>0
      <4> QED BY <3>1, <3>4, <4>2, <2>0 DEF LeftKid
    <3>5. CASE c # -1
      <4>1. c \in N /\ L[c][0] = x /\ Y[c] = -1 /\ E[-1][c] = E[-1][x] /\ E[1][c] = pos[x] - 1
        BY <3>5, <1>3 DEF LeftKid
      <4>2. c \in N2
        BY <4>1, <2>2, <1>2
      <4>3. F[-1][c] = F[-1][x] /\ F[1][c] = Earlier(pos[x] - 1, q - 1)
        BY <4>1, <4>2, <1>6
      <4>4. F[1][c] = P[x] - 1
        BY <4>3, <2>0, <1>4 DEF Earlier
      <4> HIDE DEF c
      <4> QED BY <3>1, <4>1, <4>2, <4>3, <4>4, <2>0, <1>7 DEF LeftKid
    <3> QED BY <3>4, <3>5
  <2> QED BY <2>1, <2>2
<1>10. \A x \in N2, s \in Sd : Kid(L2, Y, N2, P, F, x, s)
  <2> SUFFICES ASSUME NEW x \in N2 PROVE \A s \in Sd : Kid(L2, Y, N2, P, F, x, s)
    OBVIOUS
  <2>1. P[x] \in Int /\ RightKid(L2, Y, N2, P, F, x) /\ LeftKid(L2, Y, N2, P, F, x)
    BY <1>8, <1>9
  <2> QED BY <2>1, KidSides
<1>11. ASSUME NEW x \in N2 PROVE Above(L2, Y, N2, x)
  <2>1. /\ Y[x] \in Sd /\ L[x][0] \in N \cup {PoolSize} /\ L[L[x][0]][Y[x]] = x
        /\ L[x][0] = PoolSize => Y[x] = 1
    BY DEF Shape, Above
  <2>2. L[x][0] # node /\ ~(L[x][0] = h /\ Y[x] = side)
    BY <2>1, <1>0
  <2>3. L2[L[x][0]][Y[x]] = x
    BY <2>1, <2>2, <1>7
  <2> QED BY <2>1, <2>2, <2>3, <1>7 DEF Above
<1>12. n-1 # 0 /\ n-1 \in Nat
  <2>1. pos[h] # pos[node] /\ pos[h] \in 1..n /\ pos[node] \in 1..n
    BY <1>0, <1>2
  <2> QED BY <2>1, <1>0
<1>13. Rooted(L2, Y, N2, n-1, F)
  <2> DEFINE r == L[PoolSize][1]
  <2>1. n # 0
    BY <1>0, <1>4
  <2>2. L[PoolSize][-1] = -1 /\ r \in N /\ L[r][0] = PoolSize /\ Y[r] = 1 /\ E[-1][r] = 1 /\ E[1][r] = n
    BY <2>1 DEF Shape, Rooted
  <2>3. r \in N2
    BY <2>2, <1>2, <1>0
  <2>4. F[-1][r] = 1 /\ F[1][r] = n - 1
    BY <2>2, <2>3, <1>6, <1>4, <1>0 DEF Earlier
  <2>5. L2[PoolSize][-1] = -1 /\ L2[PoolSize][1] = r
    BY <2>2, <1>7 DEF Sd
  <2>6. L2[r][0] = PoolSize
    BY <2>2, <1>7
  <2> HIDE DEF r
  <2> QED BY <1>12, <2>2, <2>3, <2>4, <2>5, <2>6 DEF Rooted
<1>14. Shape(L2, Y, N2, n-1, P, F)
  BY <1>5, <1>10, <1>11, <1>13 DEF Shape
<1> QED BY <1>14, <1>2, <1>12 DEF P, F, q

-----------------------------------------------------------------------------
(* Replacing a node. *)

(* Another name for a node. *)
Re(x, old, new) == IF x = old THEN new ELSE x

(* The links are the same, but for the name of one node. *)
Renamed(L2, Y2, L, Y, N, old, new) ==
    /\ \A x \in N, d \in Links : L2[Re(x, old, new)][d] = Re(L[x][d], old, new)
    /\ \A x \in N : Y2[Re(x, old, new)] = Y[x]
    /\ \A d \in Sd : L2[PoolSize][d] = Re(L[PoolSize][d], old, new)

(* The nodes, when new has come in the place of old. *)
Others(N, old, new) == (N \ {old}) \cup {new}

(* Their places. *)
PosRenamed(pos, N, old, new) ==
    [x \in Others(N, old, new) |-> IF x = new THEN pos[old] ELSE pos[x]]

(* Their subtrees. *)
EdgesRenamed(E, N, old, new) == [s \in Sd |-> PosRenamed(E[s], N, old, new)]

(* Each node has one name before and after. *)
LEMMA Naming ==
  ASSUME NEW N, NEW old \in N, NEW new, new \notin N
  PROVE  /\ \A x \in N : Re(x, old, new) \in Others(N, old, new)
         /\ \A y \in Others(N, old, new) : \E x \in N : y = Re(x, old, new)
         /\ \A pos : \A x \in N : PosRenamed(pos, N, old, new)[Re(x, old, new)] = pos[x]
         /\ \A x, y \in N : Re(x, old, new) = Re(y, old, new) => x = y
         /\ \A x \in N : x # old => Re(x, old, new) = x
         /\ Re(old, old, new) = new
<1>1. \A y \in Others(N, old, new) : \E x \in N : y = Re(x, old, new)
  BY DEF Re, Others
<1>2. \A x \in N : Re(x, old, new) \in Others(N, old, new)
  BY DEF Re, Others
<1>3. ASSUME NEW pos, NEW x \in N PROVE PosRenamed(pos, N, old, new)[Re(x, old, new)] = pos[x]
  BY DEF Re, Others, PosRenamed
<1> QED BY <1>1, <1>2, <1>3 DEF Re

(* A tree stays a tree when one of its nodes is renamed. *)
LEMMA RenamedShape ==
  ASSUME NEW L, NEW Y, NEW N, NEW n, NEW pos, NEW E, Shape(L, Y, N, n, pos, E),
         NEW old \in N, NEW new \in Pg, new \notin N,
         NEW L2, NEW Y2, Renamed(L2, Y2, L, Y, N, old, new)
  PROVE  Shape(L2, Y2, Others(N, old, new), n, PosRenamed(pos, N, old, new),
               EdgesRenamed(E, N, old, new))
<1> DEFINE re(x) == Re(x, old, new)
           N2 == Others(N, old, new)
           P == PosRenamed(pos, N, old, new)
           F == EdgesRenamed(E, N, old, new)
<1>0. /\ Ranks(N, n, pos, E) /\ N \in SUBSET Pg /\ n \in Nat /\ -1 \notin N /\ PoolSize \notin N
      /\ -1 \in Links /\ 1 \in Links /\ 0 \in Links /\ Sd \subseteq Links
      /\ pos \in [N -> 1..n] /\ E \in [Sd -> [N -> 1..n]] /\ 1 \in Sd /\ -1 \in Sd
  BY Children DEF Shape, Ranks, Sd, Links
<1>1. re(-1) = -1 /\ re(PoolSize) = PoolSize
  BY <1>0 DEF Re
<1>2. /\ \A x \in N : re(x) \in N2
      /\ \A y \in N2 : \E x \in N : y = re(x)
      /\ \A x \in N : P[re(x)] = pos[x]
      /\ \A s \in Sd, x \in N : F[s][re(x)] = E[s][x]
      /\ \A x, y \in N : re(x) = re(y) => x = y
      /\ N2 \in SUBSET Pg
  <2>1. /\ \A x \in N : re(x) \in N2
        /\ \A y \in N2 : \E x \in N : y = re(x)
        /\ \A f : \A x \in N : PosRenamed(f, N, old, new)[re(x)] = f[x]
        /\ \A x, y \in N : re(x) = re(y) => x = y
    BY Naming
  <2>2. N2 \in SUBSET Pg
    BY <1>0 DEF Others
  <2>3. \A s \in Sd : F[s] = PosRenamed(E[s], N, old, new)
    BY DEF EdgesRenamed
  <2> HIDE DEF re, N2, F
  <2> QED BY <2>1, <2>2, <2>3
<1>3. P \in [N2 -> 1..n] /\ F \in [Sd -> [N2 -> 1..n]]
  <2>1. ASSUME NEW f \in [N -> 1..n] PROVE PosRenamed(f, N, old, new) \in [N2 -> 1..n]
    BY DEF PosRenamed, Others
  <2>2. F = [s \in Sd |-> PosRenamed(E[s], N, old, new)]
    BY DEF EdgesRenamed
  <2>3. \A s \in Sd : E[s] \in [N -> 1..n]
    BY <1>0
  <2> HIDE DEF F, N2
  <2> QED BY <2>1, <2>2, <2>3, <1>0
<1>4. /\ \A x \in N, d \in Links : L2[re(x)][d] = re(L[x][d])
      /\ \A x \in N : Y2[re(x)] = Y[x]
      /\ \A d \in Sd : L2[PoolSize][d] = re(L[PoolSize][d])
  BY DEF Renamed
<1> HIDE DEF re, N2, P, F
<1>5. Ranks(N2, n, P, F)
  <2>1. \A y \in N2 : F[-1][y] <= P[y] /\ P[y] <= F[1][y]
    BY <1>0, <1>2 DEF Ranks
  <2>2. \A g, h \in N2 : P[g] = P[h] => g = h
    BY <1>0, <1>2 DEF Ranks
  <2>3. \A i \in 1..n : \E h \in N2 : P[h] = i
    BY <1>0, <1>2, ZenonT(40) DEF Ranks
  <2> QED BY <1>0, <1>2, <1>3, <2>1, <2>2, <2>3 DEF Ranks
<1>6. ASSUME NEW y \in N2, NEW s \in Sd PROVE Kid(L2, Y2, N2, P, F, y, s)
  <2>1. PICK x \in N : y = re(x)
    BY <1>2
  <2>2. L2[y][s] = re(L[x][s]) /\ P[y] = pos[x] /\ F[s][y] = E[s][x]
    BY <2>1, <1>2, <1>4, <1>0
  <2>3. Kid(L, Y, N, pos, E, x, s)
    BY DEF Shape
  <2>4. CASE L[x][s] = -1 /\ E[s][x] = pos[x]
    BY <2>2, <2>4, <1>1 DEF Kid
  <2>5. CASE Below(L, Y, N, pos, E, x, s)
    <3> DEFINE c == L[x][s]
    <3>1. /\ c \in N /\ L[c][0] = x /\ Y[c] = s
          /\ E[s][c] = E[s][x] /\ E[-s][c] = pos[x] + s /\ -s \in Sd
      BY <2>5, SideFacts DEF Below
    <3> HIDE DEF c
    <3>2. /\ re(c) \in N2 /\ L2[re(c)][0] = re(x) /\ Y2[re(c)] = s
          /\ F[s][re(c)] = E[s][c] /\ F[-s][re(c)] = E[-s][c]
      BY <3>1, <1>2, <1>4, <1>0
    <3>3. L2[y][s] = re(c)
      BY <2>2 DEF c
    <3> QED BY <3>1, <3>2, <3>3, <2>1, <2>2 DEF Kid, Below
  <2> QED BY <2>3, <2>4, <2>5 DEF Kid
<1>7. ASSUME NEW y \in N2 PROVE Above(L2, Y2, N2, y)
  <2>1. PICK x \in N : y = re(x)
    BY <1>2
  <2>2. /\ Y[x] \in Sd /\ L[x][0] \in N \cup {PoolSize} /\ L[L[x][0]][Y[x]] = x
        /\ L[x][0] = PoolSize => Y[x] = 1
    BY DEF Shape, Above
  <2>3. L2[y][0] = re(L[x][0]) /\ Y2[y] = Y[x]
    BY <2>1, <1>4, <1>0
  <2>4. CASE L[x][0] = PoolSize
    <3>1. L2[PoolSize][1] = re(x)
      BY <2>2, <2>4, <1>4, <1>0
    <3> QED BY <3>1, <2>1, <2>2, <2>3, <2>4, <1>1, <1>0 DEF Above
  <2>5. CASE L[x][0] \in N
    <3>1. re(L[x][0]) \in N2 /\ L2[re(L[x][0])][Y[x]] = re(x)
      BY <2>2, <2>5, <1>4, <1>2, <1>0
    <3>2. PoolSize \notin N2
      BY <1>2, PageFacts
    <3> QED BY <3>1, <3>2, <2>1, <2>2, <2>3 DEF Above
  <2> QED BY <2>2, <2>4, <2>5
<1>8. Rooted(L2, Y2, N2, n, F)
  <2>1. n # 0
    BY <1>0
  <2>2. /\ L[PoolSize][-1] = -1 /\ L[PoolSize][1] \in N
        /\ L[L[PoolSize][1]][0] = PoolSize /\ Y[L[PoolSize][1]] = 1
        /\ E[-1][L[PoolSize][1]] = 1 /\ E[1][L[PoolSize][1]] = n
    BY <2>1 DEF Shape, Rooted
  <2>3. L2[PoolSize][-1] = -1 /\ L2[PoolSize][1] = re(L[PoolSize][1])
    BY <2>2, <1>4, <1>1, <1>0
  <2> QED BY <2>1, <2>2, <2>3, <1>1, <1>2, <1>4, <1>0 DEF Rooted
<1>9. Shape(L2, Y2, N2, n, P, F)
  BY <1>5, <1>6, <1>7, <1>8 DEF Shape
<1> QED BY <1>9 DEF N2, P, F

(* Node new has taken over the links of old. *)
Taken(A, T, N, old, new) ==
    /\ A \in Trees /\ A.bal = T.bal /\ A.end = T.end /\ A.count = T.count /\ A.height = T.height
    /\ Renamed(A.link, A.type, T.link, T.type, N, old, new)
    /\ \A x \in Slots, d \in Links :
          x \notin N /\ x # new /\ x # PoolSize => A.link[x][d] = T.link[x][d]

(* avlh_replace() is a renaming: the parent, both children and the sides *)
(* follow.                                                               *)
LEMMA TakenOver ==
  ASSUME NEW T \in Trees, NEW N, NEW n, NEW pos, NEW E, Shape(T.link, T.type, N, n, pos, E),
         NEW old \in N, NEW new \in Pg, new \notin N,
         NEW A, A = Pool!TakeOver(T, old, new)
  PROVE  Taken(A, T, N, old, new)
<1> DEFINE L == T.link
           p == L[old][0]
           s == T.type[old]
           lc == L[old][-1]
           rc == L[old][1]
           T1 == Pool!Adopt(T, p, s, new)
           T2 == Pool!Adopt(T1, new, -1, lc)
           re(x) == Re(x, old, new)
<1>0. /\ N \in SUBSET Pg /\ -1 \notin N /\ PoolSize \notin N /\ PoolSize \in Slots
      /\ -1 \in Links /\ 1 \in Links /\ 0 \in Links /\ Sd \subseteq Links /\ 1 \in Sd /\ -1 \in Sd
      /\ \A x \in N : x \in Slots /\ x # -1 /\ x # PoolSize /\ x \in -1..(PoolSize-1)
      /\ new \in Slots /\ new # -1 /\ new # PoolSize /\ new # old /\ new \in -1..(PoolSize-1)
      /\ -1 \in -1..(PoolSize-1) /\ -1 \notin Slots /\ 0 \notin Sd
  <2>1. N \in SUBSET Pg /\ -1 \notin N /\ PoolSize \notin N
    BY Children
  <2>2. \A x \in N : x \in Slots /\ x # -1 /\ x # PoolSize /\ x \in -1..(PoolSize-1)
    BY <2>1, PageFacts
  <2>3. new \in Slots /\ new # -1 /\ new # PoolSize /\ new \in -1..(PoolSize-1)
    BY PageFacts
  <2> QED BY <2>1, <2>2, <2>3, PoolHasPages DEF Slots, Links, Sd
<1>1. /\ \A x \in N, d \in Sd : L[x][d] = -1 \/ (L[x][d] \in N /\ L[L[x][d]][0] = x /\ T.type[L[x][d]] = d)
      /\ \A x \in N : /\ T.type[x] \in Sd /\ L[x][0] \in N \cup {PoolSize} /\ L[L[x][0]][T.type[x]] = x
                      /\ L[x][0] = PoolSize => T.type[x] = 1
      /\ L[PoolSize][-1] = -1
      /\ L[PoolSize][1] \in N => L[L[PoolSize][1]][0] = PoolSize
  <2>1. \A x \in N, d \in Sd : Kid(T.link, T.type, N, pos, E, x, d)
    BY DEF Shape
  <2>2. \A x \in N : Above(T.link, T.type, N, x)
    BY DEF Shape
  <2>3. Rooted(T.link, T.type, N, n, E)
    BY DEF Shape
  <2>4. L[PoolSize][1] \in N => L[L[PoolSize][1]][0] = PoolSize
    BY <2>3, <1>0 DEF Rooted
  <2> QED BY <2>1, <2>2, <2>3, <2>4 DEF Kid, Below, Above, Rooted
<1>2. /\ p \in N \cup {PoolSize} /\ s \in Sd /\ (p = PoolSize => s = 1) /\ L[p][s] = old
      /\ lc \in N \cup {-1} /\ rc \in N \cup {-1} /\ p \in Slots /\ p # new /\ lc # new /\ rc # new
      /\ lc \in -1..(PoolSize-1) /\ rc \in -1..(PoolSize-1)
  <2>1. /\ p \in N \cup {PoolSize} /\ s \in Sd /\ (p = PoolSize => s = 1) /\ L[p][s] = old
    BY <1>1
  <2>2. lc \in N \cup {-1} /\ rc \in N \cup {-1}
    BY <1>1, <1>0
  <2> HIDE DEF p, s, lc, rc
  <2> QED BY <2>1, <2>2, <1>0
<1>3. \A x \in N, d \in Links : L[x][d] = x => FALSE
  <2> SUFFICES ASSUME NEW x \in N, NEW d \in Sd, L[x][d] = x PROVE FALSE
    <3>1. \A x \in N : L[x][0] = x => L[x][T.type[x]] = x /\ T.type[x] \in Sd
      BY <1>1
    <3>2. \A d \in Links : d \in Sd \/ d = 0
      BY DEF Sd, Links
    <3> QED BY <3>1, <3>2
  <2> QED BY <1>0, Around
<1>4. A = Pool!Adopt(T2, new, 1, rc)
  BY DEF Pool!TakeOver, Pool!Parent, Pool!Child, Pool!Left, Pool!Right, Pool!Up
<1>5. Relinked(T1, T, p, s, new)
  <2> HIDE DEF p, s
  <2> QED BY <1>2, <1>0, Adopted
<1> HIDE DEF T1
<1>6. Relinked(T2, T1, new, -1, lc)
  <2>1. T1 \in Trees
    BY <1>5 DEF Relinked
  <2> HIDE DEF lc
  <2> QED BY <2>1, <1>2, <1>0, Adopted
<1> HIDE DEF T2
<1>7. Relinked(A, T2, new, 1, rc)
  <2>1. T2 \in Trees
    BY <1>6 DEF Relinked
  <2> HIDE DEF rc
  <2> QED BY <2>1, <1>2, <1>0, <1>4, Adopted
<1>8. /\ A \in Trees /\ A.bal = T.bal /\ A.end = T.end /\ A.count = T.count /\ A.height = T.height
  BY <1>5, <1>6, <1>7 DEF Relinked
<1>9. \A x \in Slots, d \in Links :
         A.link[x][d] = IF x = new /\ d = 1 THEN rc
                        ELSE IF x = rc /\ d = 0 THEN new
                        ELSE IF x = new /\ d = -1 THEN lc
                        ELSE IF x = lc /\ d = 0 THEN new
                        ELSE IF x = p /\ d = s THEN new
                        ELSE IF x = new /\ d = 0 THEN p
                        ELSE L[x][d]
  <2> HIDE DEF p, s, lc, rc
  <2> QED BY <1>5, <1>6, <1>7 DEF Relinked
<1>10. \A x \in Slots : A.type[x] = IF x = rc THEN 1 ELSE IF x = lc THEN -1
                                    ELSE IF x = new THEN s ELSE T.type[x]
  <2> HIDE DEF p, s, lc, rc
  <2> QED BY <1>5, <1>6, <1>7 DEF Relinked
<1>11. ASSUME NEW x \in N, NEW d \in Links PROVE A.link[re(x)][d] = re(L[x][d])
  <2>1. CASE x = old
    <3>1. L[old][d] # old
      BY <1>3
    <3>2. d = 1 \/ d = -1 \/ d = 0
      BY DEF Links
    <3>3. A.link[new][d] = L[old][d]
      <4>1. A.link[new][1] = rc
        BY <1>9, <1>0
      <4>2. A.link[new][-1] = lc
        BY <1>9, <1>0, <1>2
      <4>3. A.link[new][0] = p
        BY <1>9, <1>0, <1>2
      <4> QED BY <3>2, <4>1, <4>2, <4>3
    <3> QED BY <2>1, <3>1, <3>3 DEF Re
  <2>2. CASE x # old
    <3>1. x \in Slots /\ x # new /\ re(x) = x
      BY <2>2, <1>0 DEF Re
    <3>2. CASE d = 0
      <4>1. L[x][0] = old => x = rc \/ x = lc
        <5>1. \A t \in Sd : t = 1 \/ t = -1
          BY DEF Sd
        <5> QED BY <5>1, <1>1
      <4>2. x = rc \/ x = lc => L[x][0] = old
        BY <1>1, <1>0
      <4>3. ~(x = p /\ d = s)
        BY <3>2, <1>2, <1>0
      <4> HIDE DEF p, s, lc, rc
      <4> QED BY <4>1, <4>2, <4>3, <3>1, <3>2, <1>9 DEF Re
    <3>3. CASE d # 0
      <4>1. d \in Sd
        BY <3>3 DEF Sd, Links
      <4>2. L[x][d] = old => x = p /\ d = s
        BY <4>1, <1>1, <1>0
      <4>3. x = p /\ d = s => L[x][d] = old
        BY <1>2
      <4> HIDE DEF p, s, lc, rc
      <4> QED BY <4>2, <4>3, <3>1, <3>3, <1>9 DEF Re
    <3> QED BY <3>2, <3>3
  <2> QED BY <2>1, <2>2
<1>12. ASSUME NEW x \in N PROVE A.type[re(x)] = T.type[x]
  <2>1. CASE x = old
    BY <2>1, <1>10, <1>0, <1>2 DEF Re
  <2>2. CASE x # old
    <3>1. (x = rc => T.type[x] = 1) /\ (x = lc => T.type[x] = -1)
      BY <1>1, <1>0
    <3>2. x \in Slots /\ x # new /\ re(x) = x
      BY <2>2, <1>0 DEF Re
    <3> HIDE DEF p, s, lc, rc
    <3> QED BY <3>1, <3>2, <1>10
  <2> QED BY <2>1, <2>2
<1>13. ASSUME NEW d \in Sd PROVE A.link[PoolSize][d] = re(L[PoolSize][d])
  <2>1. PoolSize # rc /\ PoolSize # lc /\ PoolSize # new /\ PoolSize \in Slots /\ d \in Links
    BY <1>0, <1>2
  <2>2. A.link[PoolSize][d] = IF PoolSize = p /\ d = s THEN new ELSE L[PoolSize][d]
    <3> HIDE DEF p, s, lc, rc
    <3> QED BY <2>1, <1>9
  <2>3. d = 1 \/ d = -1
    BY DEF Sd
  <2>4. PoolSize = p /\ d = s <=> L[PoolSize][d] = old
    <3>1. CASE d = 1
      BY <3>1, <1>1, <1>2, <1>0
    <3>2. CASE d # 1
      <4>1. L[PoolSize][d] = -1 /\ ~(PoolSize = p /\ d = s)
        BY <3>2, <2>3, <1>1, <1>2
      <4> QED BY <4>1, <1>0
    <3> QED BY <3>1, <3>2
  <2> HIDE DEF p, s, lc, rc
  <2> QED BY <2>2, <2>4 DEF Re
<1>14. ASSUME NEW x \in Slots, NEW d \in Links, x \notin N, x # new, x # PoolSize
       PROVE A.link[x][d] = T.link[x][d]
  <2>1. x # rc /\ x # lc /\ x # p
    <3>1. x # -1
      BY <1>0
    <3> QED BY <1>14, <3>1, <1>2
  <2> HIDE DEF p, s, lc, rc
  <2> QED BY <2>1, <1>14, <1>9
<1>15. Renamed(A.link, A.type, T.link, T.type, N, old, new)
  BY <1>11, <1>12, <1>13 DEF Renamed
<1> HIDE DEF L
<1> QED BY <1>8, <1>14, <1>15 DEF Taken

-----------------------------------------------------------------------------
(* Trees with a node missing. *)

(* A tree, but for the links of a node which has just left it or will    *)
(* come.                                                                 *)
Lax(T, N, pos, x) ==
    /\ T \in Trees
    /\ \E E : Shape(T.link, T.type, N, T.count, pos, E)
    /\ \E b : AvlTree(T, N, b)
    /\ Ends(T, N, pos)
    /\ Clean(T, N \cup {x})

(* A sound tree is one. *)
LEMMA SoundLax ==
  ASSUME NEW T, NEW N, NEW pos, Sound(T, N, pos), NEW x
  PROVE  Lax(T, N, pos, x)
BY DEF Sound, Lax, Clean

(* A climb which has settled leaves one. *)
LEMMA SettledLax ==
  ASSUME NEW T \in Trees, NEW N, NEW pos, NEW A, Settled(A, T, N, T.count, pos), NEW y,
         Ends(T, N, pos), \A x \in Slots : x \notin N => T.bal[x] \in -1..2 /\
           (x # PoolSize /\ x # y => \A d \in Links : T.link[x][d] = -1)
  PROVE  Lax(A, N, pos, y)
<1>1. /\ A \in Trees /\ A.end = T.end /\ A.count = T.count /\ Outside(A, T, N)
      /\ \E E : Shape(A.link, A.type, N, A.count, pos, E)
      /\ \E b : AvlTree(A, N, b)
  BY DEF Settled
<1>2. PICK b : AvlTree(A, N, b)
  BY <1>1
<1>3. PoolSize \notin N
  BY <1>1, Children
<1>4. \A x \in N : A.bal[x] \in -1..2
  <2> SUFFICES ASSUME NEW x \in N PROVE A.bal[x] \in -1..2
    OBVIOUS
  <2>1. A.bal[x] \in -1..1
    BY <1>2, <1>3 DEF AvlTree, Hole, Even
  <2> QED BY <2>1
<1>5. Clean(A, N \cup {y})
  BY <1>1, <1>4 DEF Clean, Outside
<1>6. Ends(A, N, pos)
  BY <1>1 DEF Ends
<1> QED BY <1>1, <1>5, <1>6 DEF Lax

(* One node less. *)
Uncounted(T) == [T EXCEPT !.count = @ - 1]

(* Only the number changes. *)
LEMMA UncountedTree ==
  ASSUME NEW T \in Trees
  PROVE  /\ Uncounted(T) \in Trees /\ Uncounted(T).count = T.count - 1
         /\ Uncounted(T).link = T.link /\ Uncounted(T).type = T.type
         /\ Uncounted(T).bal = T.bal /\ Uncounted(T).end = T.end
         /\ Uncounted(T).height = T.height
BY DEF Uncounted, Trees

(* Moving an end changes that end only. *)
LEMMA MovedEnd ==
  ASSUME NEW T \in Trees, NEW s \in Sd, NEW old, NEW new \in Some
  PROVE  /\ Pool!MoveEnd(T, s, old, new) = Ended(T, NewEnd(T, s, old, new))
         /\ NewEnd(T, s, old, new) \in [Sd -> Some]
         /\ \A d \in Sd : NewEnd(T, s, old, new)[d] =
              IF d = s /\ T.end[s] = old THEN new ELSE T.end[d]
<1>1. NewEnd(T, s, old, new) \in [Sd -> Some]
  BY Fields DEF NewEnd
<1>2. \A d \in Sd : NewEnd(T, s, old, new)[d] = IF d = s /\ T.end[s] = old THEN new ELSE T.end[d]
  BY Fields DEF NewEnd
<1>3. Pool!MoveEnd(T, s, old, new) = Ended(T, NewEnd(T, s, old, new))
  BY DEF Pool!MoveEnd, Ended, NewEnd
<1> QED BY <1>1, <1>2, <1>3

(* The end of a tree passes to the neighbour of a node which leaves      *)
(* (avl_delete_leaf, avl_delete_1child).                                 *)
LEMMA EndsWithout ==
  ASSUME NEW T, NEW N, NEW pos, NEW n, n = T.count, Ends(T, N, pos), n \in Nat,
         pos \in [N -> 1..n], \A x, y \in N : pos[x] = pos[y] => x = y,
         NEW node \in N, NEW heir \in N, NEW d \in Sd, pos[heir] = pos[node] + d,
         NEW A, A.count = n - 1,
         \A s \in Sd : A.end[s] = IF s = -d /\ T.end[s] = node THEN heir ELSE T.end[s]
  PROVE  Ends(A, N \ {node}, PosWithout(pos, N, node))
<1> DEFINE N2 == N \ {node}
           P == PosWithout(pos, N, node)
           q == pos[node]
<1>1. \A x \in N2 : P[x] = Earlier(pos[x], q)
  BY DEF PosWithout
<1>2. q \in 1..n /\ q + d \in 1..n /\ heir \in N2 /\ d # 0 /\ -d \in Sd
  BY SideFacts
<1> HIDE DEF P, q
<1>3. ASSUME NEW s \in Sd PROVE A.end[s] \in N2 /\ P[A.end[s]] = First(n-1, s)
  <2> DEFINE e == T.end[s]
  <2>1. e \in N /\ pos[e] = First(n, s)
    BY DEF Ends
  <2>2. CASE e = node
    <3>1. q = First(n, s)
      BY <2>1, <2>2 DEF q
    <3>2. s = -d
      <4>1. CASE d = 1
        <5>1. s # 1
          BY <3>1, <1>2, <4>1 DEF First
        <5>2. s = -1
          BY <5>1 DEF Sd
        <5> QED BY <5>2, <4>1
      <4>2. CASE d # 1
        <5>1. -d = 1 /\ d = -1
          BY <4>2, Flip DEF Sd
        <5>2. s = 1
          BY <3>1, <1>2, <5>1 DEF First
        <5> QED BY <5>1, <5>2
      <4> QED BY <4>1, <4>2
    <3>3. A.end[s] = heir /\ P[heir] = Earlier(q + d, q)
      BY <3>2, <2>2, <1>1, <1>2 DEF q
    <3>4. Earlier(q + d, q) = First(n-1, s)
      <4>1. CASE d = 1
        <5>1. s # 1
          BY <4>1, <3>2
        <5> QED BY <5>1, <4>1, <3>1, <1>2 DEF Earlier, First
      <4>2. CASE d # 1
        <5>1. -d = 1 /\ d = -1
          BY <4>2, Flip DEF Sd
        <5>2. s = 1
          BY <5>1, <3>2
        <5>3. q + d = n - 1
          BY <5>1, <5>2, <3>1, <1>2 DEF First
        <5> QED BY <5>2, <5>3, <3>1, <1>2 DEF Earlier, First
      <4> QED BY <4>1, <4>2
    <3> QED BY <3>3, <3>4, <1>2
  <2>3. CASE e # node
    <3>1. A.end[s] = e /\ e \in N2 /\ P[e] = Earlier(pos[e], q)
      BY <2>1, <2>3, <1>1
    <3>2. First(n, s) # q
      BY <2>1, <2>3 DEF q
    <3>3. Earlier(First(n, s), q) = First(n-1, s)
      BY <3>2, <1>2 DEF Earlier, First
    <3> QED BY <3>1, <3>3, <2>1
  <2> QED BY <2>2, <2>3
<1>4. N2 # {}
  BY <1>2
<1>5. Ends(A, N2, P)
  BY <1>3, <1>4 DEF Ends
<1> QED BY <1>5 DEF P

(* Two nodes next to each other. *)
Neighbours(N, n, pos, node, new, d) ==
    /\ n \in Nat /\ pos \in [N -> 1..n] /\ \A x, y \in N : pos[x] = pos[y] => x = y
    /\ node \in N /\ new \in N /\ d \in Sd /\ pos[new] = pos[node] + d

(* The positions are those of a tree without node also when its          *)
(* neighbour goes first and then takes the place of the node.            *)
Swappable(N, pos, node, new) ==
    /\ Others(N \ {new}, node, new) = N \ {node}
    /\ PosRenamed(PosWithout(pos, N, new), N \ {new}, node, new) = PosWithout(pos, N, node)

(* Neighbours are swappable, as avl_delete_2children() takes for         *)
(* granted.                                                              *)
LEMMA SamePlaces ==
  ASSUME NEW N, NEW n, NEW pos, NEW node, NEW new, NEW d, Neighbours(N, n, pos, node, new, d)
  PROVE  Swappable(N, pos, node, new)
<1> USE DEF Neighbours
<1> DEFINE P == PosWithout(pos, N, new)
<1>0. node # new /\ pos[node] \in 1..n /\ pos[new] \in 1..n
  BY SideFacts
<1>1. Others(N \ {new}, node, new) = N \ {node}
  BY <1>0 DEF Others
<1>2. \A x \in N \ {new} : P[x] = Earlier(pos[x], pos[new])
  BY DEF PosWithout
<1>3. ASSUME NEW x \in N \ {node}
      PROVE  (IF x = new THEN P[node] ELSE P[x]) = Earlier(pos[x], pos[node])
  <2>1. CASE x = new
    <3>1. P[node] = Earlier(pos[node], pos[node] + d)
      BY <1>0, <1>2
    <3>2. Earlier(pos[node], pos[node] + d) = Earlier(pos[node] + d, pos[node])
      BY <1>0 DEF Earlier, Sd
    <3> QED BY <2>1, <3>1, <3>2
  <2>2. CASE x # new
    <3>1. P[x] = Earlier(pos[x], pos[node] + d) /\ pos[x] # pos[node] /\ pos[x] # pos[node] + d
          /\ pos[x] \in 1..n
      BY <2>2, <1>2
    <3>2. Earlier(pos[x], pos[node] + d) = Earlier(pos[x], pos[node])
      BY <3>1, <1>0 DEF Earlier, Sd
    <3> QED BY <2>2, <3>1, <3>2
  <2> QED BY <2>1, <2>2
<1>4. PosRenamed(P, N \ {new}, node, new) = [x \in N \ {node} |-> IF x = new THEN P[node] ELSE P[x]]
  BY <1>1 DEF PosRenamed
<1> HIDE DEF P
<1>5. PosRenamed(P, N \ {new}, node, new) = PosWithout(pos, N, node)
  BY <1>3, <1>4 DEF PosWithout
<1> QED BY <1>1, <1>5 DEF P, Swappable

(* A level which was even is so but for the side where a node is         *)
(* missing.                                                              *)
LEMMA EvenMissing ==
  ASSUME NEW L, NEW B, NEW b, NEW x, NEW d \in Sd, Even(L, B, b, x),
         b[L[x][d]] \in Nat, b[L[x][-d]] \in Nat,
         NEW L2, NEW b2, b2[x] = b[x], b2[L2[x][-d]] = b[L[x][-d]]
  PROVE  EvenBut(L2, B, b2, x, d, b[L[x][d]])
<1>1. /\ b[x] = 1 + Higher(b[L[x][d]], b[L[x][-d]])
      /\ B[x] = IF d = 1 THEN b[L[x][d]] - b[L[x][-d]] ELSE b[L[x][-d]] - b[L[x][d]]
      /\ B[x] \in -1..1
  BY SideEven
<1> QED BY <1>1 DEF EvenBut

(* A is the tree T without node; new, if any, has come in its place. *)
Shortened(A, T, N, b, node, new, p, s) ==
    /\ p = T.link[node][0] /\ s = T.type[node] /\ p # new
    /\ new \in (N \ {node}) \cup {-1}
    /\ A \in Trees /\ A.bal = T.bal /\ A.height = T.height
    /\ \A x \in (N \ {node}) \cup {PoolSize}, d \in Sd :
          ~(x = p /\ d = s) /\ x # new => A.link[x][d] = T.link[x][d]
    /\ new # -1 => Even(A.link, A.bal, b, new) /\ \A d \in Sd : A.link[new][d] = -1

(* The levels where a node is missing are even but for its place. *)
LEMMA HoleWithout ==
  ASSUME NEW T \in Trees, NEW N, NEW n, NEW pos, NEW E, Shape(T.link, T.type, N, n, pos, E),
         NEW b, AvlTree(T, N, b), NEW node \in N, NEW new, NEW p, NEW s,
         NEW A, Shortened(A, T, N, b, node, new, p, s),
         NEW b2, b2 = [x \in (N \ {node}) \cup {-1} |-> b[x]]
  PROVE  Hole(A, N \ {node}, b2, p, s, b[node])
<1> DEFINE N2 == N \ {node}
           L == T.link
<1>0. /\ N \in SUBSET Pg /\ -1 \notin N /\ PoolSize \notin N /\ 1 \in Sd /\ -1 \in Sd
      /\ \A x \in N, d \in Sd : L[x][d] \in N \cup {-1}
      /\ L[PoolSize][1] \in N \cup {-1} /\ new # PoolSize
  <2>1. new \in N \cup {-1}
    BY DEF Shortened
  <2> QED BY <2>1, Children, PoolHasPages DEF Sd
<1>01. /\ A.bal = T.bal /\ A.height = T.height
       /\ \A x \in N2 \cup {PoolSize}, d \in Sd :
            ~(x = p /\ d = s) /\ x # new => A.link[x][d] = L[x][d]
       /\ new # -1 => Even(A.link, A.bal, b, new) /\ \A d \in Sd : A.link[new][d] = -1
       /\ p = L[node][0] /\ s = T.type[node] /\ p # new
  BY DEF Shortened
<1>1. /\ b \in [N \cup {-1} -> Nat] /\ b[-1] = 0 /\ T.height = b[L[PoolSize][1]]
      /\ \A x \in N : Even(L, T.bal, b, x)
  <2>1. Hole(T, N, b, PoolSize, 1, b[T.link[PoolSize][1]])
    BY DEF AvlTree
  <2> QED BY <2>1, <1>0 DEF Hole
<1>2. /\ p \in N \cup {PoolSize} /\ s \in Sd /\ (p = PoolSize => s = 1) /\ L[p][s] = node /\ -s \in Sd /\ s # -s
  BY <1>01, SideFacts DEF Shape, Above
<1>3. ASSUME NEW x \in N, NEW d \in Sd, L[x][d] = node PROVE x = p /\ d = s
  <2>1. Kid(T.link, T.type, N, pos, E, x, d)
    BY DEF Shape
  <2> QED BY <2>1, <1>3, <1>0, <1>01 DEF Kid, Below
<1>4. L[PoolSize][1] = node => p = PoolSize
  BY <1>0, <1>01 DEF Shape, Rooted
<1>5. p # node
  <2>1. CASE p = PoolSize
    BY <2>1, <1>0
  <2>2. CASE p \in N /\ p = node
    <3>1. L[p][s] = p /\ L[p][s] # -1
      BY <2>2, <1>2, <1>0
    <3> QED BY <3>1, <2>2, <1>2, Around
  <2> QED BY <2>1, <2>2, <1>2
<1>6. /\ b2 \in [N2 \cup {-1} -> Nat] /\ b2[-1] = 0 /\ b[node] \in Nat
      /\ \A x \in N2 \cup {-1} : b2[x] = b[x]
  BY <1>1
<1>7. ASSUME NEW x \in N2, x # p PROVE Even(A.link, A.bal, b2, x)
  <2>1. CASE x = new
    <3>1. Even(A.link, A.bal, b, new) /\ \A d \in Sd : A.link[new][d] = -1
      BY <2>1, <1>0, <1>01
    <3> QED BY <2>1, <3>1, <1>6, <1>0 DEF Even
  <2>2. CASE x # new
    <3>1. \A d \in Sd : A.link[x][d] = L[x][d] /\ L[x][d] \in N2 \cup {-1}
      BY <2>2, <1>7, <1>3, <1>0, <1>01
    <3>2. Even(L, T.bal, b, x)
      BY <1>1
    <3> QED BY <3>1, <3>2, <1>6, <1>0, <1>01 DEF Even
  <2> QED BY <2>1, <2>2
<1>8. ASSUME p \in N2 PROVE EvenBut(A.link, A.bal, b2, p, s, b[node])
  <2>1. A.link[p][-s] = L[p][-s] /\ L[p][-s] \in N2 \cup {-1}
    BY <1>8, <1>2, <1>3, <1>0, <1>01
  <2>2. b[L[p][s]] = b[node] /\ b[L[p][-s]] \in Nat /\ b[L[p][s]] \in Nat
    BY <2>1, <1>2, <1>1
  <2>4. b2[p] = b[p] /\ b2[A.link[p][-s]] = b[L[p][-s]] /\ Even(L, T.bal, b, p)
    BY <2>1, <1>6, <1>8, <1>1
  <2>5. EvenBut(A.link, T.bal, b2, p, s, b[L[p][s]])
    BY <2>2, <2>4, <1>2, EvenMissing
  <2> QED BY <2>2, <2>5, <1>01
<1>9. A.height = IF p = PoolSize THEN b[node] ELSE b2[A.link[PoolSize][1]]
  <2>1. CASE p = PoolSize
    BY <2>1, <1>1, <1>2, <1>01
  <2>2. CASE p # PoolSize
    <3>1. A.link[PoolSize][1] = L[PoolSize][1] /\ L[PoolSize][1] \in N2 \cup {-1}
      BY <2>2, <1>4, <1>0, <1>01
    <3> QED BY <3>1, <2>2, <1>1, <1>6, <1>01
  <2> QED BY <2>1, <2>2
<1> QED BY <1>6, <1>7, <1>8, <1>9 DEF Hole

(* A subtree has become one level lower. *)
Falls(v, w) == w >= 1 /\ v = w - 1

(* Where the climb of a deletion starts. *)
LEMMA FirstLoose ==
  ASSUME NEW A \in Trees, NEW N, NEW m, NEW pos, \E E : Shape(A.link, A.type, N, m, pos, E),
         NEW b, NEW w, NEW p, NEW s, Hole(A, N, b, p, s, w),
         NEW x \in Slots, x # PoolSize, A.bal[x] = 0, A.link[x][0] = p, A.type[x] = s,
         p \in N \cup {PoolSize}, s \in Sd, p = PoolSize => s = 1,
         Falls(b[A.link[p][s]], w)
  PROVE  Climbing(At(x, A), 0, A, N, m, pos, -1)
<1>1. Change(-1, A.bal[x]) = -1 /\ -1 # 1
  BY DEF Change
<1>2. w \in Nat
  BY DEF Hole
<1>3. Loose(A, x, p, s, N, -1, 0, b, w)
  <2>1. b[A.link[p][s]] = w + Change(-1, A.bal[x])
    BY <1>1, <1>2 DEF Falls
  <2>2. 0 + 1 <= w
    BY <1>2 DEF Falls
  <2> QED BY <2>1, <2>2, <1>1, <1>2 DEF Loose
<1>4. Outside(A, A, N)
  BY DEF Outside
<1> QED BY <1>3, <1>4 DEF Climbing, At

(* The height of a node tells whether it has children. *)
LeafFacts(T, b, x) ==
    /\ b[x] \in Nat /\ b[x] >= 1 /\ b[-1] = 0 /\ Even(T.link, T.bal, b, x)
    /\ \A d \in Sd : b[T.link[x][d]] \in Nat
    /\ (\A d \in Sd : T.link[x][d] = -1) => b[x] = 1 /\ T.bal[x] = 0
    /\ b[x] = 1 => \A d \in Sd : T.link[x][d] = -1

(* It does in an AVL tree. *)
LEMMA Leaves ==
  ASSUME NEW T \in Trees, NEW N, NEW n, NEW pos, NEW E, Shape(T.link, T.type, N, n, pos, E),
         NEW b, AvlTree(T, N, b), NEW x \in N
  PROVE  LeafFacts(T, b, x)
<1>0. /\ -1 \notin N /\ PoolSize \notin N /\ 1 \in Sd /\ -1 \in Sd
      /\ \A y \in N, d \in Sd : T.link[y][d] \in N \cup {-1}
  BY Children DEF Sd
<1>1. /\ b \in [N \cup {-1} -> Nat] /\ b[-1] = 0
      /\ \A y \in N : Even(T.link, T.bal, b, y)
  <2>1. Hole(T, N, b, PoolSize, 1, b[T.link[PoolSize][1]])
    BY DEF AvlTree
  <2> QED BY <2>1, <1>0 DEF Hole
<1>2. \A y \in N, d \in Sd : b[T.link[y][d]] \in Nat
  BY <1>0, <1>1
<1>3. \A y \in N : b[y] \in Nat /\ b[y] >= 1
  <2> SUFFICES ASSUME NEW y \in N PROVE b[y] \in Nat /\ b[y] >= 1
    OBVIOUS
  <2>1. b[T.link[y][-1]] \in Nat /\ b[T.link[y][1]] \in Nat
    BY <1>0, <1>2
  <2>2. b[y] = 1 + Higher(b[T.link[y][-1]], b[T.link[y][1]])
    BY <1>1 DEF Even
  <2> QED BY <2>1, <2>2 DEF Higher
<1>4. (\A d \in Sd : T.link[x][d] = -1) => b[x] = 1 /\ T.bal[x] = 0
  <2> SUFFICES ASSUME \A d \in Sd : T.link[x][d] = -1 PROVE b[x] = 1 /\ T.bal[x] = 0
    OBVIOUS
  <2>1. T.link[x][-1] = -1 /\ T.link[x][1] = -1
    BY <1>0
  <2> QED BY <2>1, <1>1 DEF Even, Higher
<1>5. b[x] = 1 => \A d \in Sd : T.link[x][d] = -1
  <2> SUFFICES ASSUME b[x] = 1, NEW d \in Sd, T.link[x][d] # -1 PROVE FALSE
    OBVIOUS
  <2>1. b[T.link[x][d]] >= 1 /\ b[T.link[x][d]] \in Nat
    BY <1>0, <1>3
  <2>2. b[T.link[x][-1]] \in Nat /\ b[T.link[x][1]] \in Nat
    BY <1>0, <1>2
  <2>3. b[x] = 1 + Higher(b[T.link[x][-1]], b[T.link[x][1]])
    BY <1>1 DEF Even
  <2>4. d = 1 \/ d = -1
    BY DEF Sd
  <2> QED BY <2>1, <2>2, <2>3, <2>4 DEF Higher
<1> QED BY <1>1, <1>2, <1>3, <1>4, <1>5 DEF LeafFacts

-----------------------------------------------------------------------------
(* Deleting a node. *)

(* avl_delete_leaf() leaves a sound tree of the other nodes, in their    *)
(* order.                                                                *)
LEMMA DeletedLeaf ==
  ASSUME NEW T, NEW N, NEW pos, Sound(T, N, pos), NEW node \in N,
         \A d \in Sd : T.link[node][d] = -1, T.count # 1,
         NEW A, A = Pool!DeleteLeaf(Uncounted(T), node)
  PROVE  Lax(A, N \ {node}, PosWithout(pos, N, node), node)
<1> DEFINE n == T.count
           N2 == N \ {node}
           P == PosWithout(pos, N, node)
           T0 == Uncounted(T)
           h == T.link[node][0]
           side == T.type[node]
           T1 == Pool!Adopt(T0, h, side, -1)
           e == NewEnd(T1, side, node, h)
           T2 == Ended(T1, e)
<1>0. /\ T \in Trees /\ n \in Nat /\ N \in SUBSET Pg /\ -1 \notin N /\ PoolSize \notin N
      /\ pos \in [N -> 1..n] /\ (\A g, f \in N : pos[g] = pos[f] => g = f)
      /\ n # 0 /\ N # {} /\ T.height <= MaxHeight
  BY SoundFacts
<1>1. PICK E : Shape(T.link, T.type, N, n, pos, E)
  BY DEF Sound
<1>2. PICK b : AvlTree(T, N, b)
  BY DEF Sound
<1>3. \A x \in N : x \in Slots /\ x \in Some /\ x # -1 /\ x # PoolSize
  BY <1>0, PageFacts
<1>4. h \in N /\ side \in Sd /\ T.link[h][side] = node /\ h # node /\ side \in Links /\ side # 0 /\ -side \in Sd
      /\ -(-side) = side
  <2>1. /\ side \in Sd /\ h \in N \cup {PoolSize} /\ T.link[h][side] = node
        /\ (h = PoolSize => side = 1)
    BY <1>1 DEF Shape, Above
  <2>2. h # PoolSize
    <3> SUFFICES ASSUME h = PoolSize PROVE FALSE
      OBVIOUS
    <3>1. T.link[PoolSize][1] = node
      BY <2>1
    <3>2. E[-1][node] = 1 /\ E[1][node] = n
      BY <3>1, <1>1, <1>0 DEF Shape, Rooted
    <3>3. \A s \in Sd : Kid(T.link, T.type, N, pos, E, node, s)
      BY <1>1 DEF Shape
    <3>4. E[-1][node] = pos[node] /\ E[1][node] = pos[node]
      <4>1. \A s \in Sd : E[s][node] = pos[node]
        BY <3>3, <1>0 DEF Kid, Below
      <4> QED BY <4>1 DEF Sd
    <3> QED BY <3>2, <3>4
  <2>3. h # node
    BY <2>1, <1>3
  <2> QED BY <2>1, <2>2, <2>3, SideFacts
<1>5. pos[node] = pos[h] + side
  <2>1. Below(T.link, T.type, N, pos, E, h, side)
    BY <1>1, <1>4, <1>3 DEF Shape, Kid
  <2>2. E[-side][node] = pos[h] + side
    BY <2>1, <1>4 DEF Below
  <2>3. Kid(T.link, T.type, N, pos, E, node, -side)
    BY <1>1, <1>4 DEF Shape
  <2>4. E[-side][node] = pos[node]
    BY <2>3, <1>4, <1>0 DEF Kid, Below
  <2> QED BY <2>2, <2>4
<1>6. /\ T0 \in Trees /\ T0.count = n - 1 /\ T0.link = T.link /\ T0.type = T.type
      /\ T0.bal = T.bal /\ T0.end = T.end /\ T0.height = T.height
  BY <1>0, UncountedTree
<1> HIDE DEF T0
<1>7. Relinked(T1, T0, h, side, -1)
  <2>1. h \in Slots /\ -1 \in -1..(PoolSize-1) /\ -1 # h
    BY <1>3, <1>4, PoolHasPages
  <2> HIDE DEF h, side
  <2> QED BY <2>1, <1>4, <1>6, Adopted
<1> HIDE DEF T1
<1>8. /\ T1 \in Trees /\ T1.bal = T.bal /\ T1.end = T.end /\ T1.count = n - 1 /\ T1.height = T.height
      /\ \A x \in Slots, d \in Links : T1.link[x][d] = IF x = h /\ d = side THEN -1 ELSE T.link[x][d]
      /\ \A x \in Slots : T1.type[x] = T.type[x]
  <2>1. \A x \in Slots : x # -1
    BY DEF Slots
  <2> HIDE DEF h, side
  <2> QED BY <2>1, <1>6, <1>7 DEF Relinked
<1>9. /\ T2 \in Trees /\ T2.bal = T.bal /\ T2.count = n - 1 /\ T2.height = T.height
      /\ T2.link = T1.link /\ T2.type = T1.type /\ T2.end = e
      /\ \A d \in Sd : e[d] = IF d = side /\ T.end[side] = node THEN h ELSE T.end[d]
  <2>1. /\ e \in [Sd -> Some]
        /\ \A d \in Sd : e[d] = IF d = side /\ T.end[side] = node THEN h ELSE T.end[d]
    <3>1. h \in Some
      BY <1>3, <1>4
    <3> HIDE DEF h, side
    <3> QED BY <3>1, <1>4, <1>8, MovedEnd
  <2> HIDE DEF e
  <2>2. /\ Ended(T1, e) \in Trees /\ Ended(T1, e).count = T1.count
        /\ Ended(T1, e).link = T1.link /\ Ended(T1, e).type = T1.type
        /\ Ended(T1, e).bal = T1.bal /\ Ended(T1, e).end = e /\ Ended(T1, e).height = T1.height
    BY <2>1, <1>8, EndedTree
  <2> QED BY <2>1, <2>2, <1>8
<1>10. A = Pool!Climb(T2, node, -1)
  <2>1. Pool!Parent(T0, node) = h /\ T0.type[node] = side
    BY <1>6 DEF Pool!Parent, Pool!Up
  <2>2. A = Pool!Climb(Pool!MoveEnd(Pool!Adopt(T0, h, side, -1), side, node, h), node, -1)
    BY <2>1 DEF Pool!DeleteLeaf, T0, Pool!Adopt
  <2>3. Pool!MoveEnd(T1, side, node, h) = Ended(T1, e)
    <3>1. h \in Some
      BY <1>3, <1>4
    <3> HIDE DEF h, side
    <3> QED BY <3>1, <1>4, <1>8, MovedEnd
  <2> QED BY <2>2, <2>3 DEF T1
<1>11. Shape(T2.link, T2.type, N2, n-1, P, EdgesWithout(E, N, node, pos[node])) /\ n-1 \in Nat \ {0}
  <2> DEFINE L2 == T2.link
             Y2 == T2.type
             E2 == EdgesWithout(E, N, node, pos[node])
  <2>1. T.link \in LinkType /\ T.type \in SideType /\ L2 \in LinkType
    BY <1>0, <1>9, Fields DEF LinkType, SideType
  <2>2. Detached(L2, T.link, h, side)
    BY <2>1, <1>8, <1>9 DEF Detached
  <2>3. Shape(L2, T.type, N2, n-1, P, E2)
    <3>1. h \in N /\ side \in Sd /\ node = T.link[h][side] /\ node # -1
          /\ \A d \in Sd : T.link[node][d] = -1
      BY <1>3, <1>4
    <3> HIDE DEF h, side, L2, n
    <3>2. Shape(L2, T.type, N2, n-1, P, E2)
      BY <2>1, <2>2, <3>1, <1>1, DetachedShape, ZenonT(40)
    <3> QED BY <3>2
  <2>4. \A x \in N2 : Y2[x] = T.type[x]
    BY <1>8, <1>9, <1>3
  <2> HIDE DEF L2, Y2, E2, P, N2
  <2>5. Shape(L2, Y2, N2, n-1, P, E2)
    BY <2>3, <2>4, ShapeOn
  <2>6. n-1 \in Nat \ {0}
    BY <1>0
  <2> QED BY <2>5, <2>6 DEF L2, Y2, E2
<1> DEFINE b2 == [x \in N2 \cup {-1} |-> b[x]]
<1>12. b[node] = 1 /\ T.bal[node] = 0 /\ b[-1] = 0
  <2>1. T \in Trees /\ Shape(T.link, T.type, N, n, pos, E) /\ AvlTree(T, N, b)
    BY <1>0, <1>1, <1>2
  <2>2. LeafFacts(T, b, node)
    BY <2>1, Leaves
  <2> QED BY <2>2 DEF LeafFacts
<1>13. /\ T2.link[h][side] = -1
       /\ \A x \in N2 \cup {PoolSize}, d \in Sd : ~(x = h /\ d = side) => T2.link[x][d] = T.link[x][d]
       /\ T2.link[node][0] = h /\ T2.type[node] = side
  <2>1. PoolSize \in Slots /\ 0 \in Links /\ 0 # side /\ \A d \in Sd : d \in Links
    BY PoolHasPages, <1>4, SideFacts DEF Slots, Links
  <2> HIDE DEF h, side
  <2>2. T2.link[node][0] = T.link[node][0] /\ T2.type[node] = T.type[node]
    BY <2>1, <1>8, <1>9, <1>3
  <2> QED BY <2>1, <2>2, <1>8, <1>9, <1>3, <1>4 DEF h, side
<1>14. Shortened(T2, T, N, b, node, -1, h, side)
  <2>1. h # -1
    BY <1>3, <1>4
  <2> QED BY <2>1, <1>9, <1>13 DEF Shortened
<1> HIDE DEF T2
<1>15. Hole(T2, N2, b2, h, side, 1)
  <2>1. Hole(T2, N2, b2, h, side, b[node])
    <3> HIDE DEF h, side
    <3> QED BY <1>14, <1>0, <1>1, <1>2, HoleWithout
  <2> QED BY <2>1, <1>12
<1>16. Climbing(At(node, T2), 0, T2, N2, n-1, P, -1)
  <2>1. b2[T2.link[h][side]] = 0
    BY <1>13, <1>12
  <2>2. \E E2 : Shape(T2.link, T2.type, N2, n-1, P, E2)
    BY <1>11
  <2>3. T2 \in Trees /\ node \in Slots /\ node # PoolSize /\ T2.bal[node] = 0
        /\ h \in N2 \cup {PoolSize} /\ (h = PoolSize => side = 1) /\ 1 >= 1 /\ 1 - 1 = 0
    BY <1>9, <1>12, <1>3, <1>4, <1>0
  <2>4. T2.link[node][0] = h /\ T2.type[node] = side /\ side \in Sd
    BY <1>13, <1>4
  <2> DEFINE m == n - 1
  <2>5. Falls(b2[T2.link[h][side]], 1)
    <3>1. Falls(0, 1)
      BY DEF Falls
    <3> QED BY <2>1, <3>1, Zenon
  <2> HIDE DEF h, side, P, N2, b2, m
  <2>6. Climbing(At(node, T2), 0, T2, N2, m, P, -1)
    BY <2>5, <2>2, <2>3, <2>4, <1>15, FirstLoose DEF m
  <2> QED BY <2>6 DEF m
<1>17. Settled(A, T2, N2, n-1, P)
  <2>1. -1 \in {-1, 1} /\ T2 \in Trees /\ T2.height <= MaxHeight
    BY <1>9, <1>0
  <2> HIDE DEF N2, P
  <2>2. Settled(Pool!Climb(T2, node, -1), T2, N2, n-1, P)
    BY <2>1, <1>16, ClimbSettles
  <2> QED BY <2>2, <1>10
<1>18. Ends(T2, N2, P)
  <2>1. Ends(T, N, pos)
    BY DEF Sound
  <2>2. pos[h] = pos[node] + (-side)
    <3>1. pos[h] \in Int /\ pos[node] \in Int /\ side \in Int
      BY <1>0, <1>4, SideFacts
    <3>2. pos[node] = pos[h] + side
      BY <1>5
    <3> HIDE DEF h, side
    <3> QED BY <3>1, <3>2
  <2> DEFINE d == -side
  <2>3. d \in Sd /\ -d = side
    BY <1>4
  <2>4. pos[h] = pos[node] + d
    BY <2>2
  <2> HIDE DEF d
  <2>5. \A s \in Sd : T2.end[s] = IF s = -d /\ T.end[s] = node THEN h ELSE T.end[s]
    BY <2>3, <1>9
  <2>6. T2.count = n - 1
    BY <1>9
  <2> HIDE DEF h, side
  <2> QED BY <2>1, <2>3, <2>4, <2>5, <2>6, <1>0, <1>4, EndsWithout
<1>19. \A x \in Slots : x \notin N2 => T2.bal[x] \in -1..2 /\
           (x # PoolSize /\ x # node => \A d \in Links : T2.link[x][d] = -1)
  <2> SUFFICES ASSUME NEW x \in Slots, x \notin N2
               PROVE  T2.bal[x] \in -1..2 /\ (x # PoolSize /\ x # node => \A d \in Links : T2.link[x][d] = -1)
    OBVIOUS
  <2>1. T2.bal[x] \in -1..2
    BY <1>9 DEF Sound, Clean
  <2>2. ASSUME x # PoolSize, x # node, NEW d \in Links PROVE T2.link[x][d] = -1
    <3>1. x # h /\ x \notin N
      BY <2>2, <1>4
    <3>2. T.link[x][d] = -1
      BY <3>1, <2>2 DEF Sound, Clean
    <3> HIDE DEF h, side
    <3> QED BY <3>1, <3>2, <1>8, <1>9
  <2> QED BY <2>1, <2>2
<1> HIDE DEF P, N2
<1>20. Lax(A, N2, P, node)
  <2>1. T2 \in Trees /\ Settled(A, T2, N2, T2.count, P)
    BY <1>9, <1>17
  <2> QED BY <2>1, <1>18, <1>19, SettledLax
<1> QED BY <1>20 DEF P, N2

(* avlh_replace(), as an equation. *)
LEMMA TakenAs ==
  ASSUME NEW T \in Trees, NEW N, NEW n, NEW pos, \E E : Shape(T.link, T.type, N, n, pos, E),
         NEW old \in N, NEW new \in Pg, new \notin N
  PROVE  Taken(Pool!TakeOver(T, old, new), T, N, old, new)
<1>1. PICK E : Shape(T.link, T.type, N, n, pos, E)
  OBVIOUS
<1> DEFINE A == Pool!TakeOver(T, old, new)
<1>2. A = Pool!TakeOver(T, old, new)
  OBVIOUS
<1> HIDE DEF A
<1>3. Taken(A, T, N, old, new)
  BY <1>1, <1>2, TakenOver
<1> QED BY <1>3 DEF A

(* avl_delete_1child() leaves a sound tree of the other nodes: the only  *)
(* child of a node is a leaf.                                            *)
LEMMA DeletedOneChild ==
  ASSUME NEW T, NEW N, NEW pos, Sound(T, N, pos), NEW node \in N, NEW dir \in Sd,
         T.link[node][-dir] = -1, T.link[node][dir] # -1,
         NEW A, A = Pool!DeleteOneChild(Uncounted(T), node, dir)
  PROVE  Lax(A, N \ {node}, PosWithout(pos, N, node), node)
<1> DEFINE n == T.count
           N2 == N \ {node}
           P == PosWithout(pos, N, node)
           T0 == Uncounted(T)
           new == T.link[node][dir]
           p == T.link[node][0]
           s == T.type[node]
           T1 == Pool!Adopt(T0, node, dir, -1)
           T2 == Pool!TakeOver(T1, node, new)
           e == NewEnd(T2, -dir, node, new)
           T3 == Ended(T2, e)
<1>0. /\ T \in Trees /\ n \in Nat /\ N \in SUBSET Pg /\ -1 \notin N /\ PoolSize \notin N
      /\ pos \in [N -> 1..n] /\ (\A g, f \in N : pos[g] = pos[f] => g = f)
      /\ n # 0 /\ N # {} /\ T.height <= MaxHeight /\ \A x \in N, d \in Sd : T.link[x][d] \in N \cup {-1}
  BY SoundFacts
<1>1. PICK E : Shape(T.link, T.type, N, n, pos, E)
  BY DEF Sound
<1>2. PICK b : AvlTree(T, N, b)
  BY DEF Sound
<1>3. /\ \A x \in N : x \in Slots /\ x \in Some /\ x # -1 /\ x # PoolSize /\ x \in Pg
      /\ dir \in Links /\ dir # 0 /\ -dir \in Sd /\ -(-dir) = dir /\ dir \in Int
      /\ \A d \in Sd : d = dir \/ d = -dir
      /\ \A d \in Sd : d \in Links /\ d # 0
      /\ PoolSize \in Slots /\ 0 \in Links
  <2>1. \A d \in Sd : d = dir \/ d = -dir
    <3>1. CASE dir = 1
      BY <3>1 DEF Sd
    <3>2. CASE dir # 1
      <4>1. -dir = 1 /\ dir = -1
        BY <3>2, Flip DEF Sd
      <4> QED BY <4>1 DEF Sd
    <3> QED BY <3>1, <3>2
  <2> QED BY <2>1, <1>0, PageFacts, SideFacts, PoolHasPages DEF Slots, Links
<1>4. new \in N /\ new # node /\ new # -1
  <2>1. new \in N /\ new # -1
    BY <1>0
  <2>2. T.link[node][dir] # node
    BY <1>1, <1>0, Around
  <2> QED BY <2>1, <2>2
<1>5. /\ p \in N \cup {PoolSize} /\ s \in Sd /\ (p = PoolSize => s = 1) /\ T.link[p][s] = node
      /\ p # node /\ p # new
  <2>1. p \in N \cup {PoolSize} /\ s \in Sd /\ (p = PoolSize => s = 1) /\ T.link[p][s] = node
    BY <1>1 DEF Shape, Above
  <2>2. T.link[node][0] # node /\ T.link[node][0] # T.link[node][dir]
    BY <1>1, <1>0, Around
  <2> QED BY <2>1, <2>2
<1>6. /\ LeafFacts(T, b, node) /\ LeafFacts(T, b, new)
  <2>1. T \in Trees /\ Shape(T.link, T.type, N, n, pos, E) /\ AvlTree(T, N, b)
    BY <1>0, <1>1, <1>2
  <2> HIDE DEF new
  <2> QED BY <2>1, <1>4, Leaves
<1>7. b[new] = 1 /\ b[node] = 2
  <2>1. EvenBut(T.link, T.bal, b, node, dir, b[new])
    <3>1. Even(T.link, T.bal, b, node) /\ b[T.link[node][dir]] \in Nat /\ b[T.link[node][-dir]] \in Nat
      BY <1>6, <1>3 DEF LeafFacts
    <3> QED BY <3>1, EvenMissing
  <2>2. b[T.link[node][-dir]] = 0
    BY <1>6 DEF LeafFacts
  <2>3. b[new] \in Nat /\ b[new] >= 1
    BY <1>6 DEF LeafFacts
  <2>4. b[node] = 1 + Higher(b[new], 0) /\ T.bal[node] = (IF dir = 1 THEN b[new] - 0 ELSE 0 - b[new])
        /\ T.bal[node] \in -1..1
    BY <2>1, <2>2 DEF EvenBut
  <2> HIDE DEF new
  <2> QED BY <2>3, <2>4 DEF Higher
<1>8. T.bal[new] = 0 /\ \A d \in Sd : T.link[new][d] = -1
  <2>1. \A d \in Sd : T.link[new][d] = -1
    BY <1>6, <1>7 DEF LeafFacts
  <2> HIDE DEF new
  <2> QED BY <2>1, <1>6 DEF LeafFacts
<1>9. pos[new] = pos[node] + dir
  <2>1. Below(T.link, T.type, N, pos, E, node, dir)
    BY <1>1, <1>4 DEF Shape, Kid
  <2>2. E[-dir][new] = pos[node] + dir
    BY <2>1 DEF Below
  <2>3. Kid(T.link, T.type, N, pos, E, new, -dir)
    BY <1>1, <1>3, <1>4 DEF Shape
  <2>4. E[-dir][new] = pos[new]
    BY <2>3, <1>8, <1>3, <1>0, Zenon DEF Kid, Below
  <2> QED BY <2>2, <2>4
<1>10. /\ T0 \in Trees /\ T0.count = n - 1 /\ T0.link = T.link /\ T0.type = T.type
       /\ T0.bal = T.bal /\ T0.end = T.end /\ T0.height = T.height
  BY <1>0, UncountedTree
<1> HIDE DEF T0
<1>11. Relinked(T1, T0, node, dir, -1)
  <2>1. node \in Slots /\ -1 \in -1..(PoolSize-1) /\ -1 # node
    BY <1>3, PoolHasPages
  <2> QED BY <2>1, <1>10, Adopted
<1>12. A = Pool!Climb(Pool!MoveEnd(T2, -dir, node, new), new, -1)
  <2>1. Pool!Child(T0, node, dir) = new /\ Pool!Child(T0, new, dir) = -1
    BY <1>8, <1>10 DEF Pool!Child
  <2> HIDE DEF new
  <2> QED BY <2>1 DEF Pool!DeleteOneChild, T0, Pool!Adopt, Pool!Opp
<1> HIDE DEF T1
<1>13. /\ T1 \in Trees /\ T1.bal = T.bal /\ T1.end = T.end /\ T1.count = n - 1 /\ T1.height = T.height
       /\ \A x \in Slots, d \in Links : T1.link[x][d] = IF x = node /\ d = dir THEN -1 ELSE T.link[x][d]
       /\ \A x \in Slots : T1.type[x] = T.type[x]
  <2>1. \A x \in Slots : x # -1
    BY DEF Slots
  <2> QED BY <2>1, <1>10, <1>11 DEF Relinked
<1> DEFINE N1 == N \ {new}
           P1 == PosWithout(pos, N, new)
           E1 == EdgesWithout(E, N, new, pos[new])
<1>14. Shape(T1.link, T1.type, N1, n-1, P1, E1)
  <2> DEFINE L1 == T1.link
             Y1 == T1.type
  <2>1. T.link \in LinkType /\ T.type \in SideType /\ L1 \in LinkType
    BY <1>0, <1>13, Fields DEF LinkType, SideType
  <2>2. Detached(L1, T.link, node, dir)
    BY <2>1, <1>13 DEF Detached
  <2>3. Shape(L1, T.type, N1, n-1, P1, E1)
    <3>1. new = T.link[node][dir] /\ new # -1 /\ \A d \in Sd : T.link[new][d] = -1
      BY <1>4, <1>8
    <3> HIDE DEF new, L1
    <3> QED BY <2>1, <2>2, <3>1, <1>1, DetachedShape
  <2>4. \A x \in N1 : Y1[x] = T.type[x]
    BY <1>13, <1>3
  <2> HIDE DEF L1, Y1, E1, P1, N1
  <2>5. Shape(L1, Y1, N1, n-1, P1, E1)
    BY <2>3, <2>4, ShapeOn
  <2> QED BY <2>5 DEF L1, Y1
<1>15. /\ T2 \in Trees /\ T2.bal = T.bal /\ T2.end = T.end /\ T2.count = n - 1 /\ T2.height = T.height
       /\ Renamed(T2.link, T2.type, T1.link, T1.type, N1, node, new)
       /\ \A x \in Slots, d \in Links :
            x \notin N1 /\ x # new /\ x # PoolSize => T2.link[x][d] = T1.link[x][d]
  <2>1. node \in N1 /\ new \notin N1 /\ new \in Pg
    BY <1>3, <1>4
  <2> DEFINE m == n - 1
  <2>3. \E E2 : Shape(T1.link, T1.type, N1, m, P1, E2)
    BY <1>14
  <2> HIDE DEF new, N1, P1, E1, m
  <2>4. Taken(Pool!TakeOver(T1, node, new), T1, N1, node, new)
    BY <2>1, <2>3, <1>13, TakenAs
  <2>5. Taken(T2, T1, N1, node, new)
    BY <2>4 DEF T2
  <2> HIDE DEF T2
  <2> QED BY <2>5, <1>13 DEF Taken
<1>16. \E E2 : Shape(T2.link, T2.type, N2, n-1, P, E2)
  <2>1. node \in N1 /\ new \notin N1 /\ new \in Pg
    BY <1>3, <1>4
  <2> DEFINE m == n - 1
             E2 == EdgesRenamed(E1, N1, node, new)
             L1 == T1.link
             Y1 == T1.type
             L2 == T2.link
             Y2 == T2.type
  <2>2. Shape(L1, Y1, N1, m, P1, E1) /\ Renamed(L2, Y2, L1, Y1, N1, node, new)
    BY <1>14, <1>15
  <2>3. Shape(L2, Y2, Others(N1, node, new), m, PosRenamed(P1, N1, node, new), E2)
    <3> HIDE DEF new, N1, P1, E1, L1, Y1, L2, Y2, m
    <3> QED BY <2>1, <2>2, RenamedShape
  <2>4. Others(N1, node, new) = N2 /\ PosRenamed(P1, N1, node, new) = P
    <3>1. new \in N /\ pos[new] = pos[node] + dir /\ dir \in Sd
      BY <1>4, <1>9
    <3> HIDE DEF new, n
    <3>2. Neighbours(N, n, pos, node, new, dir)
      BY <1>0, <3>1 DEF Neighbours
    <3>3. Swappable(N, pos, node, new)
      BY <3>2, SamePlaces
    <3> QED BY <3>3 DEF Swappable
  <2> HIDE DEF N2, P, E2
  <2> QED BY <2>3, <2>4
<1> HIDE DEF T2
<1>17. /\ T3 \in Trees /\ T3.bal = T.bal /\ T3.count = n - 1 /\ T3.height = T.height
       /\ T3.link = T2.link /\ T3.type = T2.type /\ T3.end = e
       /\ \A d \in Sd : e[d] = IF d = -dir /\ T.end[-dir] = node THEN new ELSE T.end[d]
       /\ Pool!MoveEnd(T2, -dir, node, new) = T3
  <2> DEFINE d1 == -dir
             f == NewEnd(T2, d1, node, new)
  <2>0. d1 \in Sd /\ new \in Some
    BY <1>3, <1>4
  <2>1. /\ f \in [Sd -> Some]
        /\ \A d \in Sd : f[d] = IF d = d1 /\ T.end[d1] = node THEN new ELSE T.end[d]
        /\ Pool!MoveEnd(T2, d1, node, new) = Ended(T2, f)
    <3> HIDE DEF new, d1
    <3> QED BY <2>0, <1>15, MovedEnd
  <2>3. e = f
    OBVIOUS
  <2> HIDE DEF f, e
  <2>2. /\ Ended(T2, f) \in Trees /\ Ended(T2, f).count = T2.count
        /\ Ended(T2, f).link = T2.link /\ Ended(T2, f).type = T2.type
        /\ Ended(T2, f).bal = T2.bal /\ Ended(T2, f).end = f /\ Ended(T2, f).height = T2.height
    BY <2>1, <1>15, EndedTree
  <2> QED BY <2>1, <2>2, <2>3, <1>15
<1>18. A = Pool!Climb(T3, new, -1)
  BY <1>12, <1>17
<1> HIDE DEF e, T3
<1>19. /\ \A x \in N1, d \in Links : T3.link[Re(x, node, new)][d] = Re(T1.link[x][d], node, new)
       /\ T3.type[new] = s
       /\ \A d \in Sd : T3.link[PoolSize][d] = Re(T1.link[PoolSize][d], node, new)
  <2>1. T2.type[Re(node, node, new)] = T1.type[node] /\ Re(node, node, new) = new
    BY <1>15, <1>4 DEF Renamed, Re
  <2> QED BY <2>1, <1>13, <1>15, <1>17, <1>3 DEF Renamed
<1>20. /\ \A d \in Sd : T3.link[new][d] = -1
       /\ T3.link[new][0] = p
       /\ \A x \in N2 \cup {PoolSize}, d \in Sd : ~(x = p /\ d = s) /\ x # new => T3.link[x][d] = T.link[x][d]
       /\ T3.link[p][s] = new
  <2>1. \A d \in Links : T3.link[new][d] = Re(T1.link[node][d], node, new)
    BY <1>19, <1>4 DEF Re
  <2>2. \A d \in Sd : T1.link[node][d] = -1
    BY <1>13, <1>3
  <2>3. T1.link[node][0] = p
    BY <1>13, <1>3
  <2>4. \A x \in N2 \cup {PoolSize}, d \in Sd : x # new => T3.link[x][d] = Re(T.link[x][d], node, new)
    <3>1. \A x \in N2 \cup {PoolSize}, d \in Sd : T1.link[x][d] = T.link[x][d]
      BY <1>13, <1>3, <1>0
    <3>2. \A x \in N2 : x # new => T3.link[x] = T3.link[Re(x, node, new)] /\ x \in N1
      BY DEF Re
    <3> HIDE DEF new
    <3> QED BY <3>1, <3>2, <1>19, <1>3
  <2>5. \A x \in N \cup {PoolSize}, d \in Sd : T.link[x][d] = node => x = p /\ d = s
    <3> SUFFICES ASSUME NEW x \in N \cup {PoolSize}, NEW d \in Sd, T.link[x][d] = node PROVE x = p /\ d = s
      OBVIOUS
    <3>1. CASE x \in N
      <4>1. Kid(T.link, T.type, N, pos, E, x, d)
        BY <3>1, <1>1 DEF Shape
      <4> QED BY <4>1, <1>3 DEF Kid, Below
    <3>2. CASE x = PoolSize
      <4>1. T.link[PoolSize][-1] = -1 /\ T.link[T.link[PoolSize][1]][0] = PoolSize /\ T.type[T.link[PoolSize][1]] = 1
        BY <1>0, <1>1 DEF Shape, Rooted
      <4>2. d = 1
        BY <3>2, <4>1, <1>3 DEF Sd
      <4> QED BY <3>2, <4>1, <4>2
    <3> QED BY <3>1, <3>2
  <2>6. p \in N2 \cup {PoolSize} /\ p # new
    BY <1>5
  <2> HIDE DEF new, p, s
  <2>7. \A d \in Sd : T3.link[new][d] = -1
    BY <2>1, <2>2, <1>3 DEF Re
  <2>8. T3.link[new][0] = p
    BY <2>1, <2>3, <1>3, <1>5 DEF Re
  <2>9. T3.link[p][s] = new
    BY <2>4, <2>6, <1>5 DEF Re
  <2>10. ASSUME NEW x \in N2 \cup {PoolSize}, NEW d \in Sd, ~(x = p /\ d = s), x # new
         PROVE  T3.link[x][d] = T.link[x][d]
    BY <2>4, <2>5, <2>10 DEF Re
  <2> QED BY <2>7, <2>8, <2>9, <2>10
<1> DEFINE b2 == [x \in N2 \cup {-1} |-> b[x]]
<1>21. Shortened(T3, T, N, b, node, new, p, s)
  <2>1. Even(T3.link, T3.bal, b, new)
    <3>1. T3.link[new][1] = -1 /\ T3.link[new][-1] = -1
      BY <1>20 DEF Sd
    <3>2. b[-1] = 0 /\ T3.bal[new] = 0
      BY <1>6, <1>8, <1>17 DEF LeafFacts
    <3> HIDE DEF new
    <3> QED BY <3>1, <3>2, <1>7 DEF Even, Higher
  <2>2. new \in N2 \cup {-1}
    BY <1>4
  <2> HIDE DEF new
  <2> QED BY <2>1, <2>2, <1>5, <1>17, <1>20 DEF Shortened
<1>22. Hole(T3, N2, b2, p, s, 2)
  <2>1. Hole(T3, N2, b2, p, s, b[node])
    <3> HIDE DEF p, s, new
    <3> QED BY <1>21, <1>0, <1>1, <1>2, HoleWithout
  <2> QED BY <2>1, <1>7
<1>23. Climbing(At(new, T3), 0, T3, N2, n-1, P, -1)
  <2>1. b2[T3.link[p][s]] = 1
    BY <1>20, <1>4, <1>7
  <2>2. \E E2 : Shape(T3.link, T3.type, N2, n-1, P, E2)
    BY <1>16, <1>17
  <2>3. T3 \in Trees /\ new \in Slots /\ new # PoolSize /\ T3.bal[new] = 0
        /\ p \in N2 \cup {PoolSize} /\ (p = PoolSize => s = 1)
    BY <1>17, <1>8, <1>3, <1>4, <1>5
  <2>4. T3.link[new][0] = p /\ T3.type[new] = s /\ s \in Sd
    BY <1>19, <1>20, <1>5
  <2> DEFINE m == n - 1
  <2>5. Falls(b2[T3.link[p][s]], 2)
    <3>1. Falls(1, 2)
      BY DEF Falls
    <3> QED BY <2>1, <3>1, Zenon
  <2> HIDE DEF p, s, P, N2, b2, m, new
  <2>6. Climbing(At(new, T3), 0, T3, N2, m, P, -1)
    BY <2>5, <2>2, <2>3, <2>4, <1>22, FirstLoose DEF m
  <2> QED BY <2>6 DEF m
<1>24. Settled(A, T3, N2, n-1, P)
  <2>1. -1 \in {-1, 1} /\ T3 \in Trees /\ T3.height <= MaxHeight
    BY <1>17, <1>0
  <2> HIDE DEF N2, P, new
  <2>2. Settled(Pool!Climb(T3, new, -1), T3, N2, n-1, P)
    BY <2>1, <1>23, ClimbSettles
  <2> QED BY <2>2, <1>18
<1>25. Ends(T3, N2, P)
  <2>1. Ends(T, N, pos)
    BY DEF Sound
  <2>2. \A x \in Sd : T3.end[x] = IF x = -dir /\ T.end[x] = node THEN new ELSE T.end[x]
    BY <1>17
  <2>3. T3.count = n - 1
    BY <1>17
  <2> HIDE DEF new
  <2> QED BY <2>1, <2>2, <2>3, <1>0, <1>4, <1>9, EndsWithout
<1>26. \A x \in Slots : x \notin N2 => T3.bal[x] \in -1..2 /\
           (x # PoolSize /\ x # node => \A d \in Links : T3.link[x][d] = -1)
  <2> SUFFICES ASSUME NEW x \in Slots, x \notin N2
               PROVE  T3.bal[x] \in -1..2 /\ (x # PoolSize /\ x # node => \A d \in Links : T3.link[x][d] = -1)
    OBVIOUS
  <2>1. T3.bal[x] \in -1..2
    BY <1>17 DEF Sound, Clean
  <2>2. ASSUME x # PoolSize, x # node, NEW d \in Links PROVE T3.link[x][d] = -1
    <3>1. x # new /\ x \notin N
      BY <2>2, <1>4
    <3>2. T.link[x][d] = -1
      BY <3>1, <2>2 DEF Sound, Clean
    <3> HIDE DEF new
    <3> QED BY <2>2, <3>1, <3>2, <1>13, <1>15, <1>17
  <2> QED BY <2>1, <2>2
<1> HIDE DEF P, N2
<1>27. Lax(A, N2, P, node)
  <2>1. T3 \in Trees /\ Settled(A, T3, N2, T3.count, P)
    BY <1>17, <1>24
  <2> QED BY <2>1, <1>25, <1>26, SettledLax
<1> QED BY <1>27 DEF P, N2

(* The tree without its only node. *)
Emptied(T) ==
    [T EXCEPT !.link[PoolSize][1] = -1, !.end = [s \in Sd |-> -1], !.height = @ - 1]

(* What this changes. *)
LEMMA EmptiedTree ==
  ASSUME NEW T \in Trees
  PROVE  /\ Emptied(T) \in Trees /\ Emptied(T).count = T.count
         /\ Emptied(T).type = T.type /\ Emptied(T).bal = T.bal
         /\ \A s \in Sd : Emptied(T).end[s] = -1
         /\ Emptied(T).height = T.height - 1
         /\ \A x \in Slots, d \in Links :
              Emptied(T).link[x][d] = IF x = PoolSize /\ d = 1 THEN -1 ELSE T.link[x][d]
<1> DEFINE L == [T.link EXCEPT ![PoolSize] = [@ EXCEPT ![1] = -1]]
           e == [s \in Sd |-> -1]
<1>1. PoolSize \in Slots /\ 1 \in Links /\ -1 \in Some
  BY PoolHasPages DEF Slots, Links, Some
<1>2. /\ L \in [Slots -> [Links -> Some]] /\ e \in [Sd -> Some] /\ \A s \in Sd : e[s] = -1
      /\ \A x \in Slots, d \in Links : L[x][d] = IF x = PoolSize /\ d = 1 THEN -1 ELSE T.link[x][d]
  BY <1>1, Fields
<1>3. Emptied(T) = [T EXCEPT !.link = L, !.end = e, !.height = @ - 1]
  BY DEF Emptied
<1> HIDE DEF L, e
<1> DEFINE k == T.height - 1
<1>4. k \in Int
  BY Fields
<1>5. Emptied(T) = [T EXCEPT !.link = L, !.end = e, !.height = k]
  BY <1>3
<1> HIDE DEF k
<1>6. /\ Emptied(T) \in Trees /\ Emptied(T).count = T.count
      /\ Emptied(T).type = T.type /\ Emptied(T).bal = T.bal
      /\ Emptied(T).end = e /\ Emptied(T).height = k /\ Emptied(T).link = L
  BY <1>2, <1>4, <1>5 DEF Trees
<1> QED BY <1>2, <1>6 DEF k

(* A node alone in its tree is alone. *)
LEMMA OnlyOne ==
  ASSUME NEW N, NEW pos, pos \in [N -> 1..1], \A g, h \in N : pos[g] = pos[h] => g = h,
         NEW node \in N
  PROVE  N \ {node} = {}
<1>1. \A g \in N : g = node
  <2>1. \A g \in N : pos[g] = 1
    OBVIOUS
  <2> QED BY <2>1
<1> QED BY <1>1

(* Deleting the last node (avl_delete) leaves an empty tree, ends and    *)
(* height included.                                                      *)
LEMMA DeletedLast ==
  ASSUME NEW T, NEW N, NEW pos, Sound(T, N, pos), NEW node \in N, T.count = 1,
         NEW A, A = Emptied(Uncounted(T))
  PROVE  Lax(A, N \ {node}, PosWithout(pos, N, node), node)
<1> DEFINE N2 == N \ {node}
           P == PosWithout(pos, N, node)
           T0 == Uncounted(T)
<1>0. /\ T \in Trees /\ N \in SUBSET Pg /\ -1 \notin N /\ PoolSize \notin N
      /\ pos \in [N -> 1..1] /\ (\A g, f \in N : pos[g] = pos[f] => g = f)
      /\ T.height \in Nat /\ T.height <= 1
  BY SoundFacts
<1>1. PICK E : Shape(T.link, T.type, N, 1, pos, E)
  BY DEF Sound
<1>2. PICK b : AvlTree(T, N, b)
  BY DEF Sound
<1>3. N2 = {}
  BY <1>0, OnlyOne
<1>4. /\ T0 \in Trees /\ T0.count = 0 /\ T0.link = T.link /\ T0.type = T.type
      /\ T0.bal = T.bal /\ T0.end = T.end /\ T0.height = T.height
  <2>1. /\ T0 \in Trees /\ T0.count = T.count - 1 /\ T0.link = T.link /\ T0.type = T.type
        /\ T0.bal = T.bal /\ T0.end = T.end /\ T0.height = T.height
    BY <1>0, UncountedTree
  <2>2. T.count - 1 = 0
    OBVIOUS
  <2> QED BY <2>1, <2>2
<1>5. T.link[PoolSize][-1] = -1 /\ T.link[PoolSize][1] \in N
  BY <1>1 DEF Shape, Rooted
<1>6. T.height = 1
  <2>1. T.height = b[T.link[PoolSize][1]]
    BY <1>2 DEF AvlTree, Hole
  <2>2. LeafFacts(T, b, T.link[PoolSize][1])
    <3> DEFINE x == T.link[PoolSize][1]
    <3>1. x \in N
      BY <1>5
    <3> HIDE DEF x
    <3>2. LeafFacts(T, b, x)
      BY <3>1, <1>0, <1>1, <1>2, Leaves
    <3> QED BY <3>2 DEF x
  <2>3. b[T.link[PoolSize][1]] \in Nat /\ b[T.link[PoolSize][1]] >= 1
    BY <2>2 DEF LeafFacts
  <2> QED BY <2>1, <2>3, <1>0
<1> HIDE DEF T0
<1>7. /\ A \in Trees /\ A.count = 0 /\ A.type = T.type /\ A.bal = T.bal
      /\ \A s \in Sd : A.end[s] = -1
      /\ \A x \in Slots, d \in Links : A.link[x][d] = IF x = PoolSize /\ d = 1 THEN -1 ELSE T.link[x][d]
  BY <1>4, EmptiedTree DEF T0
<1>8. A.height = 0
  <2>1. A.height = T0.height - 1
    BY <1>4, EmptiedTree DEF T0
  <2> QED BY <2>1, <1>4, <1>6
<1>9. A.link[PoolSize][-1] = -1 /\ A.link[PoolSize][1] = -1
  <2>1. PoolSize \in Slots /\ 1 \in Links /\ -1 \in Links
    BY PoolHasPages DEF Slots, Links
  <2> QED BY <2>1, <1>5, <1>7
<1> DEFINE F == [s \in Sd |-> [x \in N2 |-> 1]]
<1>10. Shape(A.link, A.type, N2, 0, P, F)
  <2>1. P \in [N2 -> 1..0]
    BY <1>3 DEF PosWithout
  <2>2. F \in [Sd -> [N2 -> 1..0]]
    BY <1>3
  <2> HIDE DEF F, P
  <2>3. Ranks(N2, 0, P, F)
    BY <2>1, <2>2, <1>3 DEF Ranks
  <2>4. Rooted(A.link, A.type, N2, 0, F)
    BY <1>9 DEF Rooted
  <2> QED BY <2>3, <2>4, <1>3 DEF Shape
<1> DEFINE b2 == [x \in N2 \cup {-1} |-> 0]
<1>11. AvlTree(A, N2, b2)
  <2>1. b2 \in [N2 \cup {-1} -> Nat] /\ b2[-1] = 0
    OBVIOUS
  <2> HIDE DEF b2
  <2>2. PoolSize \notin N2
    BY <1>3
  <2> QED BY <2>1, <2>2, <1>3, <1>8, <1>9 DEF AvlTree, Hole
<1>12. Ends(A, N2, P)
  BY <1>3, <1>7 DEF Ends
<1>13. Clean(A, N2 \cup {node})
  <2>1. \A x \in Slots : A.bal[x] \in -1..2
    BY <1>7 DEF Sound, Clean
  <2>2. \A x \in Slots, d \in Links : x # PoolSize => A.link[x][d] = T.link[x][d]
    BY <1>7
  <2>3. \A x \in Slots, d \in Links : x \notin N /\ x # PoolSize => T.link[x][d] = -1
    BY DEF Sound, Clean
  <2>4. N2 \cup {node} = N
    OBVIOUS
  <2> HIDE DEF N2
  <2> QED BY <2>1, <2>2, <2>3, <2>4 DEF Clean
<1>14. \E E2 : Shape(A.link, A.type, N2, A.count, P, E2)
  BY <1>10, <1>7
<1> HIDE DEF b2, P, N2
<1>15. Lax(A, N2, P, node)
  BY <1>7, <1>11, <1>12, <1>13, <1>14 DEF Lax
<1> QED BY <1>15 DEF N2, P

(* avl_delete() of a node with one child at most leaves a sound tree of  *)
(* the others.                                                           *)
LEMMA DeletedOuter ==
  ASSUME NEW T, NEW N, NEW pos, Sound(T, N, pos), NEW node \in N,
         T.link[node][-1] = -1 \/ T.link[node][1] = -1,
         NEW A, A = Pool!DeleteOuter(T, node)
  PROVE  Lax(A, N \ {node}, PosWithout(pos, N, node), node)
<1> DEFINE T0 == Uncounted(T)
<1>0. T \in Trees /\ T.count \in Nat /\ -1 \notin N
  BY SoundFacts
<1>1. T0.count = T.count - 1 /\ T0.link = T.link
  BY <1>0, UncountedTree
<1>2. A = IF T0.count = 0 THEN Emptied(T0)
          ELSE IF T.link[node][-1] = -1 /\ T.link[node][1] = -1 THEN Pool!DeleteLeaf(T0, node)
          ELSE Pool!DeleteOneChild(T0, node, IF T.link[node][-1] = -1 THEN 1 ELSE -1)
  BY DEF Pool!DeleteOuter, Uncounted, Emptied, Pool!Child, Pool!Left, Pool!Right, Pool!Sides, Sd
<1>3. CASE T.count = 1
  <2>1. T0.count = 0
    BY <1>1, <1>3
  <2>2. A = Emptied(T0)
    BY <1>2, <2>1
  <2> QED BY <2>2, <1>3, DeletedLast
<1>4. CASE T.count # 1 /\ T.link[node][-1] = -1 /\ T.link[node][1] = -1
  <2>1. T0.count # 0
    BY <1>0, <1>1, <1>4
  <2>2. A = Pool!DeleteLeaf(T0, node)
    BY <1>2, <2>1, <1>4
  <2>3. \A d \in Sd : T.link[node][d] = -1
    BY <1>4 DEF Sd
  <2> QED BY <2>2, <2>3, <1>4, DeletedLeaf
<1>5. CASE T.count # 1 /\ ~(T.link[node][-1] = -1 /\ T.link[node][1] = -1)
  <2>1. T0.count # 0
    BY <1>0, <1>1, <1>5
  <2>2. PICK dir \in Sd : dir = IF T.link[node][-1] = -1 THEN 1 ELSE -1
    BY DEF Sd
  <2>3. A = Pool!DeleteOneChild(T0, node, dir)
    BY <1>2, <2>1, <2>2, <1>5
  <2>4. T.link[node][dir] # -1 /\ T.link[node][-dir] = -1
    <3>1. CASE T.link[node][-1] = -1
      BY <3>1, <2>2, <1>5
    <3>2. CASE T.link[node][-1] # -1
      <4>1. dir # 1 /\ dir = -1
        BY <3>2, <2>2
      <4>2. -dir = 1
        BY <4>1, Flip
      <4> QED BY <3>2, <4>1, <4>2
    <3> QED BY <3>1, <3>2
  <2> HIDE DEF T0
  <2> QED BY <2>3, <2>4, DeletedOneChild DEF T0
<1> QED BY <1>3, <1>4, <1>5

-----------------------------------------------------------------------------
(* Nodes in the place of others. *)

(* No links. *)
Blank == [d \in Links |-> -1]

(* Overwriting the memory of a page which has left the tree changes its  *)
(* entries only.                                                         *)
LEMMA ForgottenTree ==
  ASSUME NEW T \in Trees, NEW x \in Slots
  PROVE  /\ Pool!Forgotten(T, x) \in Trees /\ Pool!Forgotten(T, x).count = T.count
         /\ Pool!Forgotten(T, x).end = T.end /\ Pool!Forgotten(T, x).height = T.height
         /\ \A y \in Slots : /\ Pool!Forgotten(T, x).bal[y] = IF y = x THEN 2 ELSE T.bal[y]
                             /\ Pool!Forgotten(T, x).type[y] = IF y = x THEN 0 ELSE T.type[y]
         /\ \A y \in Slots, d \in Links :
              Pool!Forgotten(T, x).link[y][d] = IF y = x THEN -1 ELSE T.link[y][d]
<1> DEFINE L == [T.link EXCEPT ![x] = Blank]
           Y == [T.type EXCEPT ![x] = 0]
           B == [T.bal EXCEPT ![x] = 2]
           A == Pool!Forgotten(T, x)
<1>1. Blank \in [Links -> Some] /\ (\A d \in Links : Blank[d] = -1) /\ 0 \in Links
  BY PoolHasPages DEF Blank, Some, Links
<1>2. A = [T EXCEPT !.link = L, !.type = Y, !.bal = B]
  <2>1. Pool!NoLinks = Blank
    BY DEF Pool!NoLinks, Blank, Links, Pool!Left, Pool!Up, Pool!Right
  <2> HIDE DEF Blank
  <2> QED BY <2>1 DEF Pool!Forgotten, Pool!Up, Pool!Junk
<1> HIDE DEF Blank
<1>3. /\ L \in [Slots -> [Links -> Some]] /\ Y \in [Slots -> Links] /\ B \in [Slots -> Int]
      /\ \A y \in Slots, d \in Links : L[y][d] = IF y = x THEN -1 ELSE T.link[y][d]
      /\ \A y \in Slots : B[y] = (IF y = x THEN 2 ELSE T.bal[y]) /\ Y[y] = IF y = x THEN 0 ELSE T.type[y]
  BY <1>1, Fields
<1> HIDE DEF L, Y, B, A
<1>4. /\ A \in Trees /\ A.link = L /\ A.type = Y /\ A.bal = B
      /\ A.count = T.count /\ A.end = T.end /\ A.height = T.height
  BY <1>2, <1>3 DEF Trees
<1> QED BY <1>3, <1>4 DEF A

(* The tree which has forgotten the node which left it is sound. *)
LEMMA ForgottenSound ==
  ASSUME NEW T, NEW N, NEW pos, NEW x \in Pg, x \notin N, Lax(T, N, pos, x),
         NEW A, A = Pool!Forgotten(T, x)
  PROVE  Sound(A, N, pos)
<1>0. x \in Slots /\ x # PoolSize
  BY PageFacts
<1>1. PICK E : Shape(T.link, T.type, N, T.count, pos, E)
  BY DEF Lax
<1>2. PICK b : AvlTree(T, N, b)
  BY DEF Lax
<1>3. N \in SUBSET Pg /\ -1 \notin N /\ PoolSize \notin N
  BY <1>1, Children
<1>4. /\ A \in Trees /\ A.count = T.count /\ A.end = T.end /\ A.height = T.height
      /\ \A y \in Slots : /\ A.bal[y] = IF y = x THEN 2 ELSE T.bal[y]
                          /\ A.type[y] = IF y = x THEN 0 ELSE T.type[y]
      /\ \A y \in Slots, d \in Links : A.link[y][d] = IF y = x THEN -1 ELSE T.link[y][d]
  BY <1>0, ForgottenTree DEF Lax
<1>5. /\ \A y \in N \cup {PoolSize}, d \in Links : A.link[y][d] = T.link[y][d]
      /\ \A y \in N : A.type[y] = T.type[y] /\ A.bal[y] = T.bal[y]
  <2>1. \A y \in N \cup {PoolSize} : y \in Slots /\ y # x
    BY <1>0, <1>3, PageFacts, PoolHasPages DEF Slots
  <2> QED BY <2>1, <1>4
<1>6. \E E2 : Shape(A.link, A.type, N, A.count, pos, E2)
  <2> DEFINE L2 == A.link
             Y2 == A.type
  <2>1. /\ \A y \in N \cup {PoolSize}, d \in Links : L2[y][d] = T.link[y][d]
        /\ \A y \in N : Y2[y] = T.type[y]
    BY <1>5
  <2> HIDE DEF L2, Y2
  <2>2. Shape(L2, Y2, N, T.count, pos, E)
    BY <2>1, <1>1, ShapeOn
  <2> QED BY <2>2, <1>4 DEF L2, Y2
<1>7. AvlTree(A, N, b)
  <2>1. \A y \in N \cup {PoolSize}, d \in Sd : A.link[y][d] = T.link[y][d]
    BY <1>5, SideFacts
  <2> QED BY <2>1, <1>2, <1>3, <1>4, <1>5, AvlOn
<1>8. Ends(A, N, pos)
  BY <1>4 DEF Lax, Ends
<1>9. Clean(A, N)
  BY <1>4 DEF Lax, Clean
<1> QED BY <1>4, <1>6, <1>7, <1>8, <1>9 DEF Sound

(* Node new is in T's place of old, balance and ends included. *)
InPlace(A, T, N, old, new) ==
    /\ A \in Trees /\ A.count = T.count /\ A.height = T.height
    /\ Renamed(A.link, A.type, T.link, T.type, N, old, new)
    /\ \A x \in Slots, d \in Links :
          x \notin N /\ x # new /\ x # PoolSize => A.link[x][d] = T.link[x][d]
    /\ \A x \in Slots : A.bal[x] = IF x = new THEN T.bal[old] ELSE T.bal[x]
    /\ \A d \in Sd : A.end[d] = Re(T.end[d], old, new)

(* Then the tree is as balanced as before, ... *)
LEMMA RenamedAvl ==
  ASSUME NEW T, NEW A, NEW N, NEW old, NEW new, InPlace(A, T, N, old, new),
         NEW b, AvlTree(T, N, b), N \in SUBSET Pg, PoolSize \notin N, -1 \notin N,
         \A x \in N, d \in Sd : T.link[x][d] \in N \cup {-1},
         T.link[PoolSize][1] \in N \cup {-1},
         old \in N, new \in Pg, new \notin N
  PROVE  \E b2 : AvlTree(A, Others(N, old, new), b2)
<1> DEFINE M == Others(N, old, new)
           b2 == [y \in M \cup {-1} |-> IF y = new THEN b[old] ELSE b[y]]
<1>0. new # -1 /\ new # PoolSize /\ new \in Slots /\ \A x \in N : x \in Slots /\ x # -1
  BY PageFacts
<1>1. b \in [N \cup {-1} -> Nat] /\ b[-1] = 0 /\ T.height = b[T.link[PoolSize][1]]
      /\ \A x \in N : Even(T.link, T.bal, b, x)
  BY DEF AvlTree, Hole
<1>2. b2 \in [M \cup {-1} -> Nat] /\ b2[-1] = 0
  BY <1>0, <1>1 DEF Others
<1>3. \A c \in N \cup {-1} : b2[Re(c, old, new)] = b[c]
  BY <1>0, <1>1 DEF Others, Re
<1>4. -1 \in Links /\ 1 \in Links /\ -1 \in Sd /\ 1 \in Sd
  BY DEF Links, Sd
<1> HIDE DEF b2
<1>5. ASSUME NEW x \in N PROVE Even(A.link, A.bal, b2, Re(x, old, new))
  <2> DEFINE y == Re(x, old, new)
             l == T.link[x][-1]
             r == T.link[x][1]
  <2>1. A.link[y][-1] = Re(l, old, new) /\ A.link[y][1] = Re(r, old, new)
    BY <1>4 DEF InPlace, Renamed
  <2>2. A.bal[y] = T.bal[x]
    <3>1. \A z \in Slots : A.bal[z] = IF z = new THEN T.bal[old] ELSE T.bal[z]
      BY DEF InPlace
    <3> QED BY <3>1, <1>0 DEF Re
  <2>3. b2[y] = b[x] /\ b2[Re(l, old, new)] = b[l] /\ b2[Re(r, old, new)] = b[r]
    BY <1>3, <1>4
  <2>4. Even(T.link, T.bal, b, x)
    BY <1>1
  <2> HIDE DEF y
  <2>5. Even(A.link, A.bal, b2, y)
    BY <2>1, <2>2, <2>3, <2>4 DEF Even
  <2> QED BY <2>5 DEF y
<1>6. \A y \in M : Even(A.link, A.bal, b2, y)
  BY <1>5, Naming
<1>7. A.height = b2[A.link[PoolSize][1]] /\ b2[A.link[PoolSize][1]] \in Nat
  <2>1. A.link[PoolSize][1] = Re(T.link[PoolSize][1], old, new) /\ A.height = T.height
    BY <1>4 DEF InPlace, Renamed
  <2>2. b[T.link[PoolSize][1]] \in Nat
    BY <1>1
  <2> QED BY <2>1, <2>2, <1>1, <1>3
<1>8. PoolSize \notin M
  BY <1>0 DEF Others
<1> HIDE DEF M
<1>9. AvlTree(A, M, b2)
  BY <1>2, <1>6, <1>7, <1>8 DEF AvlTree, Hole
<1> QED BY <1>9 DEF M

(* and it is a tree. *)
LEMMA RenamedLax ==
  ASSUME NEW T, NEW N, NEW pos, NEW old \in N, NEW new \in Pg, new \notin N, Lax(T, N, pos, new),
         NEW A, InPlace(A, T, N, old, new)
  PROVE  Lax(A, Others(N, old, new), PosRenamed(pos, N, old, new), old)
<1> DEFINE M == Others(N, old, new)
           P == PosRenamed(pos, N, old, new)
<1>1. PICK E : Shape(T.link, T.type, N, T.count, pos, E)
  BY DEF Lax
<1>2. PICK b : AvlTree(T, N, b)
  BY DEF Lax
<1>3. /\ N \in SUBSET Pg /\ -1 \notin N /\ PoolSize \notin N
      /\ \A x \in N, d \in Sd : T.link[x][d] \in N \cup {-1}
      /\ T.link[PoolSize][1] \in N \cup {-1}
  BY <1>1, Children
<1>4. \E E2 : Shape(A.link, A.type, M, A.count, P, E2)
  <2> DEFINE E2 == EdgesRenamed(E, N, old, new)
             L2 == A.link
             Y2 == A.type
             L == T.link
             Y == T.type
             n == T.count
  <2>1. Renamed(L2, Y2, L, Y, N, old, new) /\ Shape(L, Y, N, n, pos, E)
    BY <1>1 DEF InPlace
  <2> HIDE DEF L2, Y2, L, Y, n
  <2>2. Shape(L2, Y2, M, n, P, E2)
    BY <2>1, RenamedShape
  <2> HIDE DEF M, P, E2
  <2>3. A.count = n
    BY DEF InPlace, n
  <2> QED BY <2>2, <2>3 DEF L2, Y2
<1>5. \E b2 : AvlTree(A, M, b2)
  BY <1>2, <1>3, RenamedAvl
<1>6. Ends(A, M, P)
  <2>1. ASSUME NEW s \in Sd PROVE A.end[s] \in M /\ P[A.end[s]] = First(A.count, s)
    <3> DEFINE x == T.end[s]
    <3>1. x \in N /\ pos[x] = First(T.count, s)
      BY DEF Lax, Ends
    <3>2. A.end[s] = Re(x, old, new) /\ A.count = T.count
      BY DEF InPlace
    <3> HIDE DEF x
    <3>3. Re(x, old, new) \in M /\ P[Re(x, old, new)] = pos[x]
      BY <3>1, Naming
    <3> QED BY <3>1, <3>2, <3>3
  <2> QED BY <2>1 DEF Ends, Others
<1>7. Clean(A, M \cup {old})
  <2>1. M \cup {old} = N \cup {new}
    BY DEF Others
  <2>2. old \in Slots
    BY <1>3, PageFacts
  <2> HIDE DEF M
  <2> QED BY <2>1, <2>2 DEF Lax, Clean, InPlace
<1>8. A \in Trees
  BY DEF InPlace
<1> HIDE DEF M, P
<1>9. Lax(A, M, P, old)
  BY <1>4, <1>5, <1>6, <1>7, <1>8 DEF Lax
<1> QED BY <1>9 DEF M, P

(* A new balance for a node. *)
Rebal(T, x, v) == [T EXCEPT !.bal[x] = v]

(* Nothing else changes. *)
LEMMA RebalTree ==
  ASSUME NEW T \in Trees, NEW x \in Slots, NEW v \in Int
  PROVE  /\ Rebal(T, x, v) \in Trees /\ Rebal(T, x, v).count = T.count
         /\ Rebal(T, x, v).link = T.link /\ Rebal(T, x, v).type = T.type
         /\ Rebal(T, x, v).end = T.end /\ Rebal(T, x, v).height = T.height
         /\ \A y \in Slots : Rebal(T, x, v).bal[y] = IF y = x THEN v ELSE T.bal[y]
<1> DEFINE B == [T.bal EXCEPT ![x] = v]
<1>1. B \in [Slots -> Int] /\ \A y \in Slots : B[y] = IF y = x THEN v ELSE T.bal[y]
  BY Fields
<1>2. Rebal(T, x, v) = [T EXCEPT !.bal = B]
  BY DEF Rebal
<1> HIDE DEF B
<1> QED BY <1>1, <1>2 DEF Trees

(* Taking over and moving ends puts a node in the place of another. *)
LEMMA PlaceTaken ==
  ASSUME NEW T \in Trees, NEW N, NEW old \in N, NEW new \in Pg, new \notin N, old \in Slots,
         NEW Z, Taken(Z, T, N, old, new), NEW V, V = Rebal(Z, new, T.bal[old]),
         NEW e \in [Sd -> Some], \A d \in Sd : e[d] = Re(T.end[d], old, new)
  PROVE  InPlace(Ended(V, e), T, N, old, new)
<1>0. new \in Slots /\ T.bal[old] \in Int
  BY PageFacts, Fields
<1>1. Z \in Trees /\ Z.bal = T.bal /\ Z.end = T.end /\ Z.count = T.count /\ Z.height = T.height
  BY DEF Taken
<1>2. /\ V \in Trees /\ V.count = T.count /\ V.link = Z.link /\ V.type = Z.type /\ V.height = T.height
      /\ \A y \in Slots : V.bal[y] = IF y = new THEN T.bal[old] ELSE T.bal[y]
  BY <1>0, <1>1, RebalTree
<1>3. /\ Ended(V, e) \in Trees /\ Ended(V, e).count = V.count
      /\ Ended(V, e).link = V.link /\ Ended(V, e).type = V.type
      /\ Ended(V, e).bal = V.bal /\ Ended(V, e).end = e /\ Ended(V, e).height = V.height
  BY <1>2, EndedTree
<1> QED BY <1>2, <1>3 DEF Taken, InPlace

(* avl_replace() keeps a tree sound, the new node at the place of the    *)
(* old one.                                                              *)
LEMMA Replacement ==
  ASSUME NEW T, NEW N, NEW pos, Sound(T, N, pos), NEW old \in N, NEW new \in Pg, new \notin N,
         NEW A, A = Pool!Replace(T, old, new)
  PROVE  Sound(A, Others(N, old, new), PosRenamed(pos, N, old, new))
<1> DEFINE Z == Pool!TakeOver(T, old, new)
           V == Rebal(Z, new, T.bal[old])
           V1 == Pool!MoveEnd(V, -1, old, new)
           V2 == Pool!MoveEnd(V1, 1, old, new)
<1>0. /\ T \in Trees /\ N \in SUBSET Pg /\ old \in Pg /\ old \in Slots /\ new \in Slots /\ new \in Some
      /\ 1 \in Sd /\ -1 \in Sd
  BY SoundFacts, PageFacts DEF Sd
<1>1. Taken(Z, T, N, old, new)
  BY <1>0, TakenAs DEF Sound
<1>2. A = Pool!Forgotten(V2, old)
  BY DEF Pool!Replace, Rebal, Pool!Left, Pool!Right
<1> HIDE DEF Z
<1>3. V \in Trees /\ V.end = T.end
  <2>1. Z \in Trees /\ Z.end = T.end /\ T.bal[old] \in Int
    BY <1>0, <1>1, Fields DEF Taken
  <2> DEFINE v == T.bal[old]
  <2> HIDE DEF v
  <2>2. v \in Int
    BY <2>1 DEF v
  <2>3. Rebal(Z, new, v) \in Trees
    BY <2>1, <2>2, <1>0, RebalTree
  <2>4. Rebal(Z, new, v).end = Z.end
    BY <2>1 DEF Rebal, Trees
  <2> QED BY <2>1, <2>3, <2>4 DEF v, V
<1> HIDE DEF V
<1> DEFINE e1 == NewEnd(V, -1, old, new)
           e2 == NewEnd(V1, 1, old, new)
<1>4. V1 = Ended(V, e1) /\ e1 \in [Sd -> Some]
      /\ \A d \in Sd : e1[d] = IF d = -1 /\ T.end[-1] = old THEN new ELSE T.end[d]
  BY <1>0, <1>3, MovedEnd
<1> HIDE DEF V1, e1
<1>5. V1 \in Trees /\ V1.end = e1
  BY <1>3, <1>4, EndedTree
<1>6. V2 = Ended(V1, e2) /\ e2 \in [Sd -> Some]
      /\ \A d \in Sd : e2[d] = IF d = 1 /\ V1.end[1] = old THEN new ELSE V1.end[d]
  BY <1>0, <1>5, MovedEnd
<1> HIDE DEF V2, e2
<1>7. V2 = Ended(V, e2)
  BY <1>4, <1>6 DEF Ended
<1>8. \A d \in Sd : e2[d] = Re(T.end[d], old, new)
  <2>1. e2[1] = Re(T.end[1], old, new)
    BY <1>0, <1>4, <1>5, <1>6 DEF Re
  <2>2. e2[-1] = Re(T.end[-1], old, new)
    BY <1>0, <1>4, <1>5, <1>6 DEF Re
  <2> QED BY <2>1, <2>2 DEF Sd
<1>9. InPlace(V2, T, N, old, new)
  <2>1. InPlace(Ended(V, e2), T, N, old, new)
    BY <1>0, <1>1, <1>6, <1>8, PlaceTaken DEF V
  <2> QED BY <2>1, <1>7
<1>10. Lax(V2, Others(N, old, new), PosRenamed(pos, N, old, new), old)
  BY <1>9, SoundLax, RenamedLax
<1>11. old \notin Others(N, old, new)
  BY DEF Others
<1> QED BY <1>0, <1>2, <1>10, <1>11, ForgottenSound

(* A tree whose node at position q has gone. *)
Moved(N, pos, q, M, T1, P1) ==
    /\ q \in Int /\ M \in SUBSET N /\ \A x \in N : pos[x] \in Int
    /\ Ends(T1, M, P1) /\ P1 \in [M -> 1..T1.count] /\ T1.count \in Int
    /\ \A x \in M : P1[x] = Earlier(pos[x], q) /\ pos[x] # q

(* The end on the other side of a node is not this node, so that         *)
(* avl_delete_2children() may move one end only.                         *)
LEMMA NotTheEnd ==
  ASSUME NEW N, NEW pos, NEW q, NEW M, NEW T1, NEW P1, Moved(N, pos, q, M, T1, P1),
         NEW node \in M, NEW other \in M, NEW dir \in Sd,
         IF dir = 1 THEN pos[other] < pos[node] ELSE pos[other] > pos[node]
  PROVE  T1.end[-dir] # node
<1> USE DEF Moved
<1> SUFFICES ASSUME T1.end[-dir] = node PROVE FALSE
  OBVIOUS
<1>1. P1[node] = First(T1.count, -dir)
  BY SideFacts DEF Ends
<1>2. P1[other] \in 1..T1.count /\ P1[node] \in 1..T1.count
  OBVIOUS
<1>3. CASE dir = 1
  <2>1. First(T1.count, -dir) = 1
    BY <1>3 DEF First
  <2>2. P1[other] < P1[node]
    BY <1>3 DEF Earlier
  <2> QED BY <1>1, <1>2, <2>1, <2>2
<1>4. CASE dir # 1
  <2>1. First(T1.count, -dir) = T1.count
    BY <1>4, Flip DEF First
  <2>2. P1[other] > P1[node]
    BY <1>4 DEF Earlier
  <2> QED BY <1>1, <1>2, <2>1, <2>2
<1> QED BY <1>3, <1>4

(* The child of a node on a side is on that side of it. *)
LEMMA ChildSide ==
  ASSUME NEW L, NEW Y, NEW N, NEW n, NEW pos, NEW E, Shape(L, Y, N, n, pos, E),
         NEW h \in N, NEW s \in Sd, L[h][s] # -1
  PROVE  /\ L[h][s] \in N /\ E[-s][L[h][s]] = pos[h] + s /\ E[s][L[h][s]] = E[s][h]
         /\ IF s = 1 THEN pos[L[h][s]] > pos[h] ELSE pos[L[h][s]] < pos[h]
<1> DEFINE c == L[h][s]
<1>0. Ranks(N, n, pos, E)
  BY DEF Shape
<1>1. Below(L, Y, N, pos, E, h, s)
  BY DEF Shape, Kid
<1>2. c \in N /\ E[-s][c] = pos[h] + s /\ E[s][c] = E[s][h]
  BY <1>1 DEF Below
<1> HIDE DEF c
<1>3. pos[c] \in 1..n /\ E[-1][c] <= pos[c] /\ pos[c] <= E[1][c] /\ E[-1][c] \in 1..n /\ E[1][c] \in 1..n
      /\ pos[h] \in 1..n
  BY <1>0, <1>2 DEF Ranks, Sd
<1>4. CASE s = 1
  <2>1. E[-1][c] = pos[h] + 1
    BY <1>2, <1>4
  <2> QED BY <2>1, <1>0, <1>2, <1>3, <1>4 DEF c, Ranks
<1>5. CASE s # 1
  <2>1. E[1][c] = pos[h] - 1
    <3>1. -s = 1 /\ s = -1
      BY <1>5, Flip DEF Sd
    <3> QED BY <3>1, <1>2
  <2> QED BY <2>1, <1>0, <1>2, <1>3, <1>5 DEF c, Ranks
<1> QED BY <1>4, <1>5

(* The neighbour which takes the place of a node with two children. *)
Heir(T, N, pos, node, dir, new) ==
    /\ T.link[node][-1] # -1 /\ T.link[node][1] # -1
    /\ new \in N /\ dir \in Sd /\ pos[new] = pos[node] + dir /\ T.link[new][-dir] = -1

(* avl_delete_2children() leaves a sound tree of the other nodes: the    *)
(* neighbour goes first, then takes the place of the node.               *)
LEMMA DeletedInner ==
  ASSUME NEW T, NEW N, NEW pos, Sound(T, N, pos), NEW node \in N,
         NEW dir, NEW new, Heir(T, N, pos, node, dir, new),
         NEW T1, T1 = Pool!DeleteOuter(T, new),
         NEW Z, Z = Pool!TakeOver(T1, node, new),
         NEW V, V = Rebal(Z, new, T1.bal[node]),
         NEW A, A = Pool!Forgotten(Pool!MoveEnd(V, dir, node, new), node)
  PROVE  Sound(A, N \ {node}, PosWithout(pos, N, node))
<1> DEFINE n == T.count
           N1 == N \ {new}
           P1 == PosWithout(pos, N, new)
           V2 == Pool!MoveEnd(V, dir, node, new)
           e == NewEnd(V, dir, node, new)
<1>0. /\ T \in Trees /\ n \in Nat /\ N \in SUBSET Pg
      /\ pos \in [N -> 1..n] /\ (\A g, f \in N : pos[g] = pos[f] => g = f)
      /\ -1 \notin N /\ dir \in Sd /\ new \in N /\ new \in Pg /\ node \in Pg
      /\ node \in Slots /\ new \in Slots /\ new \in Some
      /\ pos[new] = pos[node] + dir /\ T.link[node][-dir] # -1
  <2>1. T.link[node][-dir] # -1
    BY SideFacts DEF Heir, Sd
  <2> QED BY <2>1, SoundFacts, PageFacts DEF Heir
<1>1. new # node
  BY <1>0, SideFacts
<1>2. Lax(T1, N1, P1, new)
  <2>1. T.link[new][-1] = -1 \/ T.link[new][1] = -1
    <3>1. T.link[new][-dir] = -1 /\ -dir \in Sd
      BY SideFacts DEF Heir
    <3> QED BY <3>1 DEF Sd
  <2> QED BY <2>1, <1>0, DeletedOuter
<1>3. PICK E1 : Shape(T1.link, T1.type, N1, T1.count, P1, E1)
  BY <1>2 DEF Lax
<1>4. node \in N1 /\ new \notin N1
  BY <1>1
<1>5. T1 \in Trees
  BY <1>2 DEF Lax
<1>6. T1.end[-dir] # node
  <2>1. PICK E : Shape(T.link, T.type, N, n, pos, E)
    BY DEF Sound
  <2> DEFINE other == T.link[node][-dir]
             d == -dir
  <2>2. other \in N /\ IF d = 1 THEN pos[other] > pos[node] ELSE pos[other] < pos[node]
    <3>1. d \in Sd /\ T.link[node][d] # -1
      BY <1>0, SideFacts
    <3> HIDE DEF d
    <3>2. T.link[node][d] \in N /\ IF d = 1 THEN pos[T.link[node][d]] > pos[node] ELSE pos[T.link[node][d]] < pos[node]
      BY <3>1, <2>1, ChildSide
    <3> QED BY <3>2 DEF d
  <2>3. IF dir = 1 THEN pos[other] < pos[node] ELSE pos[other] > pos[node]
    <3>1. dir = 1 => d # 1
      BY <1>0 DEF Sd
    <3>2. dir # 1 => d = 1
      BY <1>0, Flip
    <3> QED BY <2>2, <3>1, <3>2
  <2>4. other # new
    BY <2>3, <1>0 DEF Sd
  <2>5. other \in N1
    BY <2>2, <2>4
  <2>6. P1 \in [N1 -> 1..T1.count] /\ T1.count \in Int
    BY <1>3 DEF Shape, Ranks
  <2>7. Ends(T1, N1, P1)
    BY <1>2 DEF Lax
  <2>8. \A x \in N1 : P1[x] = Earlier(pos[x], pos[new]) /\ pos[x] # pos[new]
    BY <1>0 DEF PosWithout
  <2>9. pos[new] \in Int /\ (\A x \in N : pos[x] \in Int) /\ N1 \in SUBSET N
    BY <1>0
  <2> HIDE DEF other, d, N1, P1
  <2>10. Moved(N, pos, pos[new], N1, T1, P1)
    BY <2>6, <2>7, <2>8, <2>9 DEF Moved
  <2> QED BY <2>3, <2>5, <2>10, <1>0, <1>4, NotTheEnd
<1>7. Taken(Z, T1, N1, node, new)
  <2>1. \E E : Shape(T1.link, T1.type, N1, T1.count, P1, E)
    BY <1>3
  <2> HIDE DEF N1, P1
  <2>2. Taken(Pool!TakeOver(T1, node, new), T1, N1, node, new)
    BY <2>1, <1>0, <1>4, <1>5, TakenAs
  <2> QED BY <2>2
<1> HIDE DEF N1, P1
<1>8. V \in Trees /\ V.end = T1.end
  <2>1. Z \in Trees /\ Z.end = T1.end /\ T1.bal[node] \in Int
    BY <1>0, <1>5, <1>7, Fields DEF Taken
  <2> DEFINE v == T1.bal[node]
  <2> HIDE DEF v
  <2>2. v \in Int
    BY <2>1 DEF v
  <2>3. Rebal(Z, new, v) \in Trees
    BY <2>1, <2>2, <1>0, RebalTree
  <2>4. Rebal(Z, new, v).end = Z.end
    BY <2>1 DEF Rebal, Trees
  <2> QED BY <2>1, <2>3, <2>4 DEF v
<1>9. V2 = Ended(V, e) /\ e \in [Sd -> Some]
      /\ \A d \in Sd : e[d] = IF d = dir /\ V.end[dir] = node THEN new ELSE V.end[d]
  BY <1>0, <1>8, MovedEnd
<1> HIDE DEF e, V2
<1>10. \A d \in Sd : e[d] = Re(T1.end[d], node, new)
  <2>1. \A d \in Sd : d = dir \/ d = -dir
    <3>1. CASE dir = 1
      BY <3>1 DEF Sd
    <3>2. CASE dir # 1
      <4>1. -dir = 1 /\ dir = -1
        BY <3>2, <1>0, Flip DEF Sd
      <4> QED BY <4>1 DEF Sd
    <3> QED BY <3>1, <3>2
  <2> QED BY <2>1, <1>6, <1>8, <1>9 DEF Re
<1>11. InPlace(V2, T1, N1, node, new)
  <2>1. InPlace(Ended(V, e), T1, N1, node, new)
    BY <1>0, <1>4, <1>5, <1>7, <1>9, <1>10, PlaceTaken
  <2> QED BY <2>1, <1>9
<1>12. Lax(V2, Others(N1, node, new), PosRenamed(P1, N1, node, new), node)
  BY <1>0, <1>2, <1>4, <1>11, RenamedLax
<1>13. Others(N1, node, new) = N \ {node} /\ PosRenamed(P1, N1, node, new) = PosWithout(pos, N, node)
  <2> HIDE DEF n
  <2>1. Neighbours(N, n, pos, node, new, dir)
    BY <1>0 DEF Neighbours
  <2>2. Swappable(N, pos, node, new)
    BY <2>1, SamePlaces
  <2> QED BY <2>2 DEF Swappable, N1, P1
<1>14. Lax(V2, N \ {node}, PosWithout(pos, N, node), node)
  BY <1>12, <1>13
<1>15. A = Pool!Forgotten(V2, node) /\ node \notin N \ {node}
  BY DEF V2
<1> QED BY <1>0, <1>14, <1>15, ForgottenSound

-----------------------------------------------------------------------------
(* Walks along links. *)

(* A step comes closer to an end, or is at it. *)
Approaches(S, next, m) ==
    /\ m \in [S -> Nat]
    /\ \A x \in S : next[x] \in S /\ (next[x] = x \/ m[next[x]] < m[x])

(* A walk which comes closer to its end at every step has ended after    *)
(* MaxHeight steps: no loop of the code is cut short by the bound.       *)
LEMMA WalkStops ==
  ASSUME NEW S, NEW next, NEW m, Approaches(S, next, m), NEW h \in S, m[h] <= MaxHeight
  PROVE  Pool!Walk(next, h) \in S /\ next[Pool!Walk(next, h)] = Pool!Walk(next, h)
<1>0. MaxHeight \in Nat /\ Pool!Depth = 0..MaxHeight
  BY PoolAssumption DEF Pool!RangeTreesConstants, Pool!AvlConstants, Pool!Depth
<1> DEFINE at[k \in Pool!Depth] == IF k = 0 THEN h ELSE next[at[k-1]]
           step == [x \in S |-> next[x]]
<1>1. step \in [S -> S]
  BY DEF Approaches
<1>2. PICK f : Iterates(f, S, h, step, MaxHeight)
  <2> HIDE DEF step
  <2> QED BY <1>0, <1>1, Loop
<1>3. f \in [0..MaxHeight -> S] /\ f[0] = h /\ \A k \in 1..MaxHeight : f[k] = step[f[k-1]]
  <2> HIDE DEF step
  <2> QED BY <1>2 DEF Iterates
<1>4. f = [k \in Pool!Depth |-> IF k = 0 THEN h ELSE next[f[k-1]]]
  <2>1. \A k \in 0..MaxHeight : k # 0 => f[k] = next[f[k-1]]
    <3> SUFFICES ASSUME NEW k \in 0..MaxHeight, k # 0 PROVE f[k] = next[f[k-1]]
      OBVIOUS
    <3>1. k \in 1..MaxHeight /\ k-1 \in 0..MaxHeight
      BY <1>0
    <3>2. f[k] = step[f[k-1]] /\ f[k-1] \in S
      BY <1>3, <3>1
    <3> QED BY <3>2
  <2> QED BY <2>1, <1>3, <1>0
<1>5. at = [k \in Pool!Depth |-> IF k = 0 THEN h ELSE next[at[k-1]]]
  <2>1. \E g : g = [k \in Pool!Depth |-> IF k = 0 THEN h ELSE next[g[k-1]]]
    BY <1>4
  <2> QED BY <2>1
<1>6. Pool!Walk(next, h) = at[MaxHeight]
  BY DEF Pool!Walk
<1> HIDE DEF at
<1> DEFINE G == {k \in Nat : k \in 0..MaxHeight =>
                   at[k] \in S /\ (next[at[k]] = at[k] \/ m[at[k]] + k <= MaxHeight)}
<1>7. 0 \in G
  <2>1. at[0] = h
    BY <1>5, <1>0
  <2> QED BY <2>1, <1>0 DEF Approaches
<1>8. \A k \in G : k + 1 \in G
  <2> SUFFICES ASSUME NEW k \in G, k + 1 \in 0..MaxHeight
               PROVE  at[k+1] \in S /\ (next[at[k+1]] = at[k+1] \/ m[at[k+1]] + (k+1) <= MaxHeight)
    OBVIOUS
  <2>1. k \in Nat /\ k \in 0..MaxHeight /\ k+1-1 = k /\ k+1 # 0 /\ k+1 \in 0..MaxHeight
    BY <1>0
  <2>2. at[k+1] = next[at[k]]
    BY <1>5, <1>0, <2>1
  <2>3. at[k] \in S /\ (next[at[k]] = at[k] \/ m[at[k]] + k <= MaxHeight)
    BY <2>1
  <2>4. at[k+1] \in S /\ (next[at[k]] = at[k] \/ m[at[k+1]] < m[at[k]])
        /\ m[at[k]] \in Nat /\ m[at[k+1]] \in Nat
    BY <2>2, <2>3 DEF Approaches
  <2>5. CASE next[at[k]] = at[k]
    BY <2>5, <2>2, <2>4
  <2>6. CASE next[at[k]] # at[k]
    BY <2>6, <2>3, <2>4, <2>1, <1>0
  <2> QED BY <2>5, <2>6
<1>9. MaxHeight \in G
  <2> HIDE DEF G
  <2>1. G = Nat
    BY <1>7, <1>8, SetInduction, G \subseteq Nat DEF G
  <2> QED BY <2>1, <1>0
<1> DEFINE r == at[MaxHeight]
<1>10. r \in S /\ (next[r] = r \/ m[r] + MaxHeight <= MaxHeight)
  BY <1>9, <1>0
<1> HIDE DEF r
<1>11. next[r] = r
  <2>1. m[r] \in Nat /\ m[next[r]] \in Nat /\ (next[r] = r \/ m[next[r]] < m[r])
    BY <1>10 DEF Approaches
  <2> QED BY <2>1, <1>10, <1>0
<1> QED BY <1>6, <1>10, <1>11 DEF r

(* The subtree of a child is lower. *)
LEMMA LowerChild ==
  ASSUME NEW T, NEW N, NEW n, NEW pos, NEW E, Shape(T.link, T.type, N, n, pos, E),
         NEW b, AvlTree(T, N, b), T \in Trees
  PROVE  /\ \A x \in N : b[x] \in 1..MaxHeight
         /\ \A x \in N, d \in Sd : T.link[x][d] # -1 =>
                T.link[x][d] \in N /\ b[T.link[x][d]] < b[x]
<1>1. /\ b \in [N \cup {-1} -> Nat] /\ (\A x \in N : Even(T.link, T.bal, b, x))
  <2>1. PoolSize \notin N
    BY Children
  <2> QED BY <2>1 DEF AvlTree, Hole
<1>2. \A x \in N, d \in Sd : T.link[x][d] = -1 \/ T.link[x][d] \in N
  BY Children
<1>3. \A y \in N : b[y] <= MaxHeight
  BY LowEnough
<1>4. ASSUME NEW x \in N
      PROVE  /\ b[x] \in Nat /\ b[x] >= 1
             /\ b[T.link[x][1]] < b[x] /\ b[T.link[x][-1]] < b[x]
  <2>1. b[T.link[x][1]] \in Nat /\ b[T.link[x][-1]] \in Nat /\ b[x] \in Nat
    BY <1>1, <1>2 DEF Sd
  <2>2. b[x] = 1 + Higher(b[T.link[x][-1]], b[T.link[x][1]])
    BY <1>1 DEF Even
  <2> QED BY <2>1, <2>2 DEF Higher
<1> QED BY <1>2, <1>3, <1>4, PoolConstants DEF Sd

-----------------------------------------------------------------------------
(* Searching. *)

(* On which side of each node a key lies, t being 0 at an equal one. *)
Key(t, N, pos) ==
    /\ t \in [Pg -> -1..1]
    /\ \A g, h \in N : pos[g] < pos[h] => t[g] >= t[h]

(* Node r is the last one before a key, or the first one after. *)
Splits(N, pos, t, r) ==
    \A g \in N : /\ t[r] = 1 => t[g] = IF pos[g] <= pos[r] THEN 1 ELSE -1
                 /\ t[r] = -1 => t[g] = IF pos[g] >= pos[r] THEN -1 ELSE 1

(* What DECLARE_AVL_SEARCH finds: an equal node, or the one below which  *)
(* the key belongs.                                                      *)
Found(T, N, pos, t, r) ==
    /\ r \in N
    /\ t[r] = 0 \/ (t[r] \in Sd /\ T.link[r][t[r]] = -1 /\ Splits(N, pos, t, r))

(* Where to go at each node, to dir at an equal one. *)
Towards(cmp, dir) == [h \in Pg |-> IF cmp[h] = 0 THEN dir ELSE cmp[h]]

(* The nodes outside the subtree of x are on the other sides of the key. *)
Encloses(E, N, pos, t, x) ==
    \A g \in N : /\ pos[g] < E[-1][x] => t[g] = 1
                 /\ pos[g] > E[1][x] => t[g] = -1

(* A step down. *)
Down(T, t) == [h \in Pg |-> IF t[h] = 0 \/ T.link[h][t[h]] = -1 THEN h ELSE T.link[h][t[h]]]

(* A step down keeps to the subtree where the key belongs. *)
LEMMA WentDown ==
  ASSUME NEW L, NEW Y, NEW N, NEW n, NEW pos, NEW E, Shape(L, Y, N, n, pos, E),
         NEW t, Key(t, N, pos), NEW x \in N, Encloses(E, N, pos, t, x),
         t[x] # 0, L[x][t[x]] # -1
  PROVE  Encloses(E, N, pos, t, L[x][t[x]])
<1> DEFINE s == t[x]
           c == L[x][s]
<1>0. Ranks(N, n, pos, E) /\ N \in SUBSET Pg
  BY DEF Shape, Ranks
<1>1. s \in Sd
  BY <1>0 DEF Key, Sd
<1> HIDE DEF s
<1>2. c \in N /\ E[-s][c] = pos[x] + s /\ E[s][c] = E[s][x]
  <2>1. L[x][s] # -1
    BY DEF s
  <2> QED BY <1>1, <2>1, ChildSide
<1> HIDE DEF c
<1>9. \A g, h \in N : pos[g] = pos[h] => g = h
  BY <1>0 DEF Ranks
<1>3. \A g \in N : pos[g] \in 1..n /\ E[1][g] \in 1..n /\ E[-1][g] \in 1..n /\ t[g] \in -1..1
  BY <1>0 DEF Ranks, Key, Sd
<1>4. CASE s = 1
  <2>1. E[-1][c] = pos[x] + 1 /\ E[1][c] = E[1][x]
    BY <1>2, <1>4
  <2>2. ASSUME NEW g \in N, pos[g] < E[-1][c] PROVE t[g] = 1
    <3>1. pos[g] <= pos[x]
      BY <2>1, <2>2, <1>3
    <3>2. g = x \/ pos[g] < pos[x]
      <4>1. pos[g] # pos[x] => pos[g] < pos[x]
        BY <3>1, <1>3
      <4> QED BY <4>1, <1>9
    <3>3. t[g] >= t[x] /\ t[x] = 1
      BY <3>2, <1>3, <1>4 DEF Key, s
    <3> QED BY <3>3, <1>3
  <2>3. ASSUME NEW g \in N, pos[g] > E[1][c] PROVE t[g] = -1
    BY <2>1, <2>3 DEF Encloses
  <2> QED BY <2>2, <2>3 DEF Encloses, c, s
<1>5. CASE s # 1
  <2>1. E[1][c] = pos[x] - 1 /\ E[-1][c] = E[-1][x] /\ s = -1
    <3>1. -s = 1 /\ s = -1
      BY <1>1, <1>5, Flip DEF Sd
    <3> QED BY <3>1, <1>2
  <2>2. ASSUME NEW g \in N, pos[g] > E[1][c] PROVE t[g] = -1
    <3>1. pos[g] >= pos[x]
      BY <2>1, <2>2, <1>3
    <3>2. g = x \/ pos[x] < pos[g]
      <4>1. pos[g] # pos[x] => pos[x] < pos[g]
        BY <3>1, <1>3
      <4> QED BY <4>1, <1>9
    <3>3. t[x] >= t[g] /\ t[x] = -1
      BY <3>2, <1>3, <2>1 DEF Key, s
    <3> QED BY <3>3, <1>3
  <2>3. ASSUME NEW g \in N, pos[g] < E[-1][c] PROVE t[g] = 1
    BY <2>1, <2>3 DEF Encloses
  <2> QED BY <2>2, <2>3 DEF Encloses, c, s
<1> QED BY <1>4, <1>5

(* Where no step is left, the node is next to the key. *)
LEMMA SplitsHere ==
  ASSUME NEW L, NEW Y, NEW N, NEW n, NEW pos, NEW E, Shape(L, Y, N, n, pos, E),
         NEW t, Key(t, N, pos), NEW x \in N, Encloses(E, N, pos, t, x),
         t[x] \in Sd, L[x][t[x]] = -1
  PROVE  Splits(N, pos, t, x)
<1>0. Ranks(N, n, pos, E) /\ N \in SUBSET Pg
  BY DEF Shape, Ranks
<1>1. E[t[x]][x] = pos[x]
  BY <1>0, PageFacts DEF Shape, Kid, Below
<1>9. \A g, h \in N : pos[g] = pos[h] => g = h
  BY <1>0 DEF Ranks
<1>3. \A g \in N : pos[g] \in 1..n /\ E[1][g] \in 1..n /\ E[-1][g] \in 1..n /\ t[g] \in -1..1
  BY <1>0 DEF Ranks, Key, Sd
<1>4. ASSUME NEW g \in N, t[x] = 1 PROVE t[g] = IF pos[g] <= pos[x] THEN 1 ELSE -1
  <2>1. CASE pos[g] <= pos[x]
    <3>1. g = x \/ pos[g] < pos[x]
      <4>1. pos[g] # pos[x] => pos[g] < pos[x]
        BY <2>1, <1>3
      <4> QED BY <4>1, <1>9
    <3>2. t[g] >= t[x]
      BY <3>1, <1>3 DEF Key
    <3> QED BY <3>2, <1>3, <1>4, <2>1
  <2>2. CASE ~(pos[g] <= pos[x])
    <3>1. pos[g] > E[1][x]
      BY <1>1, <1>3, <1>4, <2>2
    <3> QED BY <3>1, <2>2 DEF Encloses
  <2> QED BY <2>1, <2>2
<1>5. ASSUME NEW g \in N, t[x] = -1 PROVE t[g] = IF pos[g] >= pos[x] THEN -1 ELSE 1
  <2>1. CASE pos[g] >= pos[x]
    <3>1. g = x \/ pos[x] < pos[g]
      <4>1. pos[g] # pos[x] => pos[x] < pos[g]
        BY <2>1, <1>3
      <4> QED BY <4>1, <1>9
    <3>2. t[x] >= t[g]
      BY <3>1, <1>3 DEF Key
    <3> QED BY <3>2, <1>3, <1>5, <2>1
  <2>2. CASE ~(pos[g] >= pos[x])
    <3>1. pos[g] < E[-1][x]
      BY <1>1, <1>3, <1>5, <2>2
    <3> QED BY <3>1, <2>2 DEF Encloses
  <2> QED BY <2>1, <2>2
<1> QED BY <1>4, <1>5 DEF Splits

(* Going down from the top ends next to the key. *)
LEMMA WalkedDown ==
  ASSUME NEW T, NEW N, NEW pos, Sound(T, N, pos), N # {}, NEW t, Key(t, N, pos)
  PROVE  Found(T, N, pos, t, Pool!Walk(Down(T, t), T.link[PoolSize][1]))
<1> DEFINE n == T.count
           top == T.link[PoolSize][1]
<1>0. T \in Trees /\ N \in SUBSET Pg /\ -1 \notin N /\ n # 0 /\ n \in Nat /\ T.height <= MaxHeight
  BY SoundFacts
<1>1. PICK E : Shape(T.link, T.type, N, n, pos, E)
  BY DEF Sound
<1>2. PICK b : AvlTree(T, N, b)
  BY DEF Sound
<1> DEFINE S == {x \in N : Encloses(E, N, pos, t, x)}
           m == [x \in S |-> b[x]]
           next == Down(T, t)
<1>3. top \in S
  <2>1. top \in N /\ E[-1][top] = 1 /\ E[1][top] = n
    BY <1>0, <1>1 DEF Shape, Rooted
  <2>2. \A g \in N : pos[g] \in 1..n
    BY <1>1 DEF Shape, Ranks
  <2> HIDE DEF top, n
  <2>3. Encloses(E, N, pos, t, top)
    <3>1. \A g \in N : ~(pos[g] < 1) /\ ~(pos[g] > n)
      BY <2>2, <1>0
    <3> QED BY <2>1, <3>1 DEF Encloses
  <2> QED BY <2>1, <2>3
<1>4. /\ \A x \in N : b[x] \in 1..MaxHeight
      /\ \A x \in N, d \in Sd : T.link[x][d] # -1 => T.link[x][d] \in N /\ b[T.link[x][d]] < b[x]
  BY <1>0, <1>1, <1>2, LowerChild
<1>5. ASSUME NEW x \in S
      PROVE  /\ next[x] \in S /\ (next[x] = x \/ b[next[x]] < b[x])
             /\ next[x] = x => t[x] = 0 \/ (t[x] \in Sd /\ T.link[x][t[x]] = -1)
  <2>1. x \in Pg /\ x \in N /\ Encloses(E, N, pos, t, x) /\ t[x] \in -1..1
    BY <1>0 DEF Key
  <2>2. next[x] = IF t[x] = 0 \/ T.link[x][t[x]] = -1 THEN x ELSE T.link[x][t[x]]
    BY <2>1 DEF Down
  <2>3. t[x] = 0 \/ t[x] \in Sd
    BY <2>1 DEF Sd
  <2> HIDE DEF next
  <2>4. CASE t[x] = 0 \/ T.link[x][t[x]] = -1
    BY <2>2, <2>3, <2>4
  <2>5. CASE ~(t[x] = 0 \/ T.link[x][t[x]] = -1)
    <3>1. Encloses(E, N, pos, t, T.link[x][t[x]])
      BY <2>1, <2>5, <1>1, WentDown
    <3>2. T.link[x][t[x]] \in N /\ b[T.link[x][t[x]]] < b[x] /\ b[T.link[x][t[x]]] \in Nat /\ b[x] \in Nat
      BY <1>4, <2>1, <2>3, <2>5
    <3>3. next[x] # x
      BY <3>2, <2>2, <2>5
    <3> QED BY <3>1, <3>2, <3>3, <2>2, <2>5
  <2> QED BY <2>4, <2>5
<1> HIDE DEF next
<1>6. Approaches(S, next, m)
  <2>1. \A x \in S : x \in N
    OBVIOUS
  <2>2. m \in [S -> Nat] /\ \A x \in S : m[x] = b[x]
    BY <1>4, <2>1
  <2> HIDE DEF m, S
  <2> QED BY <1>5, <2>2 DEF Approaches
<1>7. m[top] <= MaxHeight
  <2>1. top \in N /\ b[top] \in 1..MaxHeight /\ m[top] = b[top]
    BY <1>3, <1>4
  <2> HIDE DEF m, top
  <2> QED BY <2>1, <1>0, PoolConstants
<1> DEFINE r == Pool!Walk(next, top)
<1>8. r \in S /\ next[r] = r
  <2> HIDE DEF S, m, top
  <2> QED BY <1>3, <1>6, <1>7, WalkStops
<1>9. r \in N /\ Encloses(E, N, pos, t, r) /\ (t[r] = 0 \/ (t[r] \in Sd /\ T.link[r][t[r]] = -1))
  <2> HIDE DEF r
  <2> QED BY <1>5, <1>8
<1> HIDE DEF r
<1>10. Found(T, N, pos, t, r)
  <2>1. t[r] \in Sd /\ T.link[r][t[r]] = -1 => Splits(N, pos, t, r)
    BY <1>1, <1>9, SplitsHere
  <2> QED BY <2>1, <1>9 DEF Found
<1> QED BY <1>10 DEF r, next

(* DECLARE_AVL_SEARCH finds an equal node or the one next to the key. *)
LEMMA Searched ==
  ASSUME NEW T, NEW N, NEW pos, Sound(T, N, pos), NEW cmp, NEW dir,
         NEW t, t = Towards(cmp, dir), Key(t, N, pos),
         NEW R, R = Pool!Search(T, cmp, dir)
  PROVE  /\ N = {} => R = [holder |-> -1, delta |-> 1]
         /\ N # {} => R = [holder |-> R.holder, delta |-> cmp[R.holder]]
         /\ N # {} => Found(T, N, pos, t, R.holder)
<1> DEFINE toward(h) == IF cmp[h] = 0 THEN dir ELSE cmp[h]
           down == [h \in Pg |-> IF toward(h) = 0 \/ T.link[h][toward(h)] = -1 THEN h
                                 ELSE T.link[h][toward(h)]]
           found == Pool!Walk(down, T.link[PoolSize][1])
<1>1. R = IF T.link[PoolSize][1] = -1 THEN [holder |-> -1, delta |-> 1]
          ELSE [holder |-> found, delta |-> cmp[found]]
  BY DEF Pool!Search, Pool!Top, Pool!Child, Pool!Right, Pg
<1>2. down = Down(T, t)
  BY DEF Down, Towards
<1>3. N = {} <=> T.link[PoolSize][1] = -1
  <2>1. PICK E : Shape(T.link, T.type, N, T.count, pos, E)
    BY DEF Sound
  <2>2. -1 \notin N /\ (N = {} <=> T.count = 0)
    BY SoundFacts
  <2> QED BY <2>1, <2>2 DEF Shape, Rooted
<1> HIDE DEF down
<1>4. N # {} => Found(T, N, pos, t, found)
  BY <1>2, WalkedDown
<1> HIDE DEF found
<1> QED BY <1>1, <1>3, <1>4

-----------------------------------------------------------------------------
(* Going through a tree. *)

(* The next node on side dir is next in the order, or there is none. *)
InorderIs(T, N, pos, h, dir, r) ==
    /\ IF pos[h] = First(T.count, dir) THEN r = -1 ELSE r \in N /\ pos[r] = pos[h] + dir
    /\ T.link[h][dir] # -1 => r \in N /\ pos[r] = pos[h] + dir /\ T.link[r][-dir] = -1

(* A step down along one side. *)
Edge(T, d) == [g \in Pg |-> IF T.link[g][d] = -1 THEN g ELSE T.link[g][d]]

(* Going down along one side ends at the edge of the subtree. *)
LEMMA WalkedEdge ==
  ASSUME NEW T, NEW N, NEW pos, Sound(T, N, pos),
         NEW E, Shape(T.link, T.type, N, T.count, pos, E), NEW d \in Sd, NEW x0 \in N,
         NEW r, r = Pool!Walk(Edge(T, d), x0)
  PROVE  r \in N /\ E[d][r] = E[d][x0] /\ T.link[r][d] = -1 /\ pos[r] = E[d][r]
<1>0. T \in Trees /\ N \in SUBSET Pg /\ -1 \notin N /\ T.height <= MaxHeight
  BY SoundFacts
<1>2. PICK b : AvlTree(T, N, b)
  BY DEF Sound
<1> DEFINE S == {x \in N : E[d][x] = E[d][x0]}
           m == [x \in S |-> b[x]]
           next == Edge(T, d)
<1>3. x0 \in S
  OBVIOUS
<1>4. /\ \A x \in N : b[x] \in 1..MaxHeight
      /\ \A x \in N, s \in Sd : T.link[x][s] # -1 => T.link[x][s] \in N /\ b[T.link[x][s]] < b[x]
  BY <1>0, <1>2, LowerChild
<1>5. ASSUME NEW x \in S
      PROVE  /\ next[x] \in S /\ (next[x] = x \/ b[next[x]] < b[x])
             /\ next[x] = x => T.link[x][d] = -1
  <2>1. x \in Pg /\ x \in N /\ E[d][x] = E[d][x0]
    BY <1>0
  <2>2. next[x] = IF T.link[x][d] = -1 THEN x ELSE T.link[x][d]
    BY <2>1 DEF Edge
  <2> HIDE DEF next
  <2>4. CASE T.link[x][d] = -1
    BY <2>2, <2>4
  <2>5. CASE T.link[x][d] # -1
    <3>1. E[d][T.link[x][d]] = E[d][x]
      BY <2>1, <2>5, ChildSide
    <3>2. T.link[x][d] \in N /\ b[T.link[x][d]] < b[x] /\ b[T.link[x][d]] \in Nat /\ b[x] \in Nat
      BY <1>4, <2>1, <2>5
    <3>3. next[x] # x
      BY <3>2, <2>2, <2>5
    <3> QED BY <2>1, <3>1, <3>2, <3>3, <2>2, <2>5
  <2> QED BY <2>4, <2>5
<1> HIDE DEF next
<1>6. Approaches(S, next, m)
  <2>2. m \in [S -> Nat] /\ \A x \in S : m[x] = b[x]
    BY <1>4
  <2> HIDE DEF m, S
  <2> QED BY <1>5, <2>2 DEF Approaches
<1>7. m[x0] <= MaxHeight
  <2>1. b[x0] \in 1..MaxHeight /\ m[x0] = b[x0]
    BY <1>4
  <2> HIDE DEF m
  <2> QED BY <2>1, PoolConstants
<1>8. r \in S /\ next[r] = r
  <2> HIDE DEF S, m
  <2> QED BY <1>3, <1>6, <1>7, WalkStops DEF next
<1>9. T.link[r][d] = -1 /\ r \in N /\ E[d][r] = E[d][x0]
  BY <1>5, <1>8
<1>10. pos[r] = E[d][r]
  <2>1. Kid(T.link, T.type, N, pos, E, r, d)
    BY <1>9 DEF Shape
  <2> QED BY <2>1, <1>0, <1>9 DEF Kid, Below
<1> QED BY <1>9, <1>10

(* A step up while coming from one side. *)
UpOne(T, dir) ==
   [g \in Pg \cup {PoolSize} |-> IF g = PoolSize \/ T.type[g] # dir THEN g ELSE T.link[g][0]]

(* The nodes passed upwards have the same edge. *)
Passed(T, N, E, e, dir, x) ==
    /\ x \in N \cup {PoolSize}
    /\ IF x = PoolSize THEN dir = 1 /\ e = T.count ELSE E[dir][x] = e

(* A step keeps it. *)
LEMMA WentUp ==
  ASSUME NEW T, NEW N, NEW pos, NEW E, Shape(T.link, T.type, N, T.count, pos, E),
         NEW dir \in Sd, NEW e, NEW x \in N, Passed(T, N, E, e, dir, x), T.type[x] = dir
  PROVE  Passed(T, N, E, e, dir, T.link[x][0])
<1> DEFINE p == T.link[x][0]
<1>1. p \in N \cup {PoolSize} /\ T.link[p][dir] = x /\ (p = PoolSize => dir = 1)
  BY DEF Shape, Above
<1>2. PoolSize \notin N /\ -1 \notin N
  BY Children
<1>3. E[dir][x] = e
  BY <1>2 DEF Passed
<1> HIDE DEF p
<1>4. CASE p = PoolSize
  BY <1>1, <1>2, <1>3, <1>4 DEF Passed, Shape, Rooted, p
<1>5. CASE p # PoolSize
  <2>1. p \in N /\ T.link[p][dir] # -1
    BY <1>1, <1>2, <1>5
  <2>2. E[dir][T.link[p][dir]] = E[dir][p]
    BY <2>1, ChildSide
  <2> QED BY <2>1, <2>2, <1>1, <1>3, <1>5 DEF Passed, p
<1> QED BY <1>4, <1>5

(* Going up while coming from one side ends where the edge is no longer  *)
(* the same.                                                             *)
LEMMA WalkedUp ==
  ASSUME NEW T, NEW N, NEW pos, Sound(T, N, pos),
         NEW E, Shape(T.link, T.type, N, T.count, pos, E), NEW dir \in Sd, NEW h \in N,
         NEW r, r = Pool!Walk(UpOne(T, dir), h)
  PROVE  Passed(T, N, E, E[dir][h], dir, r) /\ (r # PoolSize => T.type[r] # dir)
<1>0. T \in Trees /\ N \in SUBSET Pg /\ -1 \notin N /\ PoolSize \notin N /\ T.height <= MaxHeight
  BY SoundFacts
<1>2. PICK b : AvlTree(T, N, b)
  BY DEF Sound
<1> DEFINE e == E[dir][h]
           S == {x \in N \cup {PoolSize} : Passed(T, N, E, e, dir, x)}
           m == [x \in S |-> IF x = PoolSize THEN 0 ELSE MaxHeight + 1 - b[x]]
           next == UpOne(T, dir)
<1>3. h \in S
  BY <1>0 DEF Passed
<1>4. /\ \A x \in N : b[x] \in 1..MaxHeight
      /\ \A x \in N, s \in Sd : T.link[x][s] # -1 => T.link[x][s] \in N /\ b[T.link[x][s]] < b[x]
  BY <1>0, <1>2, LowerChild
<1>5. ASSUME NEW x \in S
      PROVE  /\ next[x] \in S
             /\ next[x] = x \/ (x # PoolSize /\ next[x] = PoolSize)
                \/ (x # PoolSize /\ next[x] \in N /\ b[x] < b[next[x]])
             /\ next[x] = x /\ x # PoolSize => T.type[x] # dir
  <2>1. x \in Pg \cup {PoolSize} /\ x \in N \cup {PoolSize} /\ Passed(T, N, E, e, dir, x)
    BY <1>0
  <2>2. next[x] = IF x = PoolSize \/ T.type[x] # dir THEN x ELSE T.link[x][0]
    BY <2>1 DEF UpOne
  <2> HIDE DEF next
  <2>4. CASE x = PoolSize \/ T.type[x] # dir
    BY <2>2, <2>4
  <2>5. CASE x # PoolSize /\ T.type[x] = dir
    <3> DEFINE p == T.link[x][0]
    <3>1. x \in N
      BY <2>1, <2>5
    <3>2. Passed(T, N, E, e, dir, p)
      <4> HIDE DEF e
      <4> QED BY <2>1, <2>5, <3>1, WentUp
    <3>3. p \in N \cup {PoolSize} /\ T.link[p][dir] = x
      BY <3>1, <2>5 DEF Shape, Above
    <3>4. p \in N => b[x] < b[p] /\ b[p] \in Nat /\ b[x] \in Nat
      <4>1. p \in N => T.link[p][dir] # -1
        BY <3>3, <3>1, <1>0
      <4> HIDE DEF p
      <4> QED BY <4>1, <3>1, <3>3, <1>4
    <3>5. next[x] = p
      BY <2>2, <2>5
    <3> HIDE DEF p
    <3>6. p # x
      BY <3>3, <3>4, <2>5
    <3> QED BY <3>2, <3>3, <3>4, <3>5, <3>6, <2>5
  <2> QED BY <2>4, <2>5
<1> HIDE DEF next
<1>6. Approaches(S, next, m)
  <2>1. MaxHeight \in Nat /\ \A x \in S : x # PoolSize => x \in N
    BY PoolConstants
  <2>2. m \in [S -> Nat]
    BY <1>4, <2>1
  <2>3. \A x \in S : /\ x = PoolSize => m[x] = 0
                     /\ x # PoolSize => m[x] = MaxHeight + 1 - b[x] /\ m[x] > 0
    BY <1>4, <2>1
  <2> HIDE DEF m, S
  <2>4. ASSUME NEW x \in S PROVE next[x] \in S /\ (next[x] = x \/ m[next[x]] < m[x])
    <3>1. next[x] \in S
      BY <1>5
    <3>2. CASE next[x] = x
      BY <3>1, <3>2
    <3>3. CASE x # PoolSize /\ next[x] = PoolSize
      BY <3>1, <3>3, <2>3
    <3>4. CASE x # PoolSize /\ next[x] \in N /\ b[x] < b[next[x]]
      <4>1. next[x] # PoolSize /\ b[x] \in Nat /\ b[next[x]] \in Nat
        BY <3>4, <1>0, <1>4, <2>1
      <4>2. m[x] = MaxHeight + 1 - b[x] /\ m[next[x]] = MaxHeight + 1 - b[next[x]]
        BY <3>1, <3>4, <4>1, <2>3
      <4> QED BY <3>1, <3>4, <4>1, <4>2, <2>1
    <3> QED BY <3>2, <3>3, <3>4, <1>5
  <2> QED BY <2>2, <2>4 DEF Approaches
<1>7. m[h] <= MaxHeight
  <2>1. b[h] \in 1..MaxHeight /\ m[h] = MaxHeight + 1 - b[h]
    BY <1>3, <1>4, <1>0
  <2> HIDE DEF m
  <2> QED BY <2>1, PoolConstants
<1>8. r \in S /\ next[r] = r
  <2> HIDE DEF S, m
  <2> QED BY <1>3, <1>6, <1>7, WalkStops DEF next
<1> QED BY <1>5, <1>8

-----------------------------------------------------------------------------
(* Deleting any node. *)

(* avl_inorder() finds the next node on a side, or that there is none. *)
LEMMA InorderFound ==
  ASSUME NEW T, NEW N, NEW pos, Sound(T, N, pos), NEW h \in N, NEW dir \in Sd,
         NEW r, r = Pool!Inorder(T, h, dir)
  PROVE  InorderIs(T, N, pos, h, dir, r)
<1> DEFINE n == T.count
           down == Pool!Walk(Edge(T, -dir), T.link[h][dir])
           last == Pool!Walk(UpOne(T, dir), h)
<1>0. /\ N \in SUBSET Pg /\ -1 \notin N /\ PoolSize \notin N /\ n \in Nat /\ pos \in [N -> 1..n]
      /\ dir \in Int /\ -dir \in Sd /\ dir # 0
  BY SoundFacts, SideFacts
<1>1. PICK E : Shape(T.link, T.type, N, n, pos, E)
  BY DEF Sound
<1>2. r = IF T.link[h][dir] # -1 THEN down
          ELSE IF last = PoolSize \/ T.link[last][0] = PoolSize THEN -1 ELSE T.link[last][0]
  BY DEF Pool!Inorder, Pool!Child, Pool!Parent, Pool!Opp, Pool!Up, Edge, UpOne, Pg
<1>3. CASE T.link[h][dir] # -1
  <2> DEFINE c == T.link[h][dir]
             d == -dir
  <2>1. c \in N /\ E[d][c] = pos[h] + dir
    BY <1>1, <1>3, ChildSide
  <2>2. r = Pool!Walk(Edge(T, d), c) /\ d \in Sd
    BY <1>0, <1>2, <1>3
  <2> HIDE DEF c, d
  <2>3. r \in N /\ E[d][r] = E[d][c] /\ T.link[r][d] = -1 /\ pos[r] = E[d][r]
    BY <1>1, <2>1, <2>2, WalkedEdge
  <2>4. r \in N /\ pos[r] = pos[h] + dir /\ T.link[r][-dir] = -1
    BY <2>1, <2>3 DEF d
  <2>5. pos[h] # First(n, dir)
    <3>1. pos[r] \in 1..n /\ pos[h] \in 1..n
      BY <1>0, <2>4
    <3> QED BY <3>1, <2>4, <1>0 DEF First, Sd
  <2> QED BY <2>4, <2>5 DEF InorderIs
<1>4. CASE T.link[h][dir] = -1
  <2>1. Passed(T, N, E, E[dir][h], dir, last) /\ (last # PoolSize => T.type[last] # dir)
    <3> HIDE DEF last
    <3> QED BY <1>1, WalkedUp DEF last
  <2>2. E[dir][h] = pos[h]
    BY <1>0, <1>1, <1>4 DEF Shape, Kid, Below
  <2>3. r = IF last = PoolSize \/ T.link[last][0] = PoolSize THEN -1 ELSE T.link[last][0]
    BY <1>2, <1>4
  <2> DEFINE p == T.link[last][0]
             d == -dir
  <2> HIDE DEF last
  <2>4. CASE last = PoolSize
    BY <2>1, <2>2, <2>3, <2>4, <1>4 DEF Passed, InorderIs, First
  <2>5. CASE last # PoolSize
    <3>1. last \in N /\ E[dir][last] = pos[h] /\ T.type[last] # dir
      BY <2>1, <2>2, <2>5 DEF Passed
    <3>2. T.type[last] \in Sd /\ p \in N \cup {PoolSize} /\ T.link[p][T.type[last]] = last
          /\ (p = PoolSize => T.type[last] = 1)
      BY <1>1, <3>1 DEF Shape, Above
    <3>3. T.type[last] = d
      <4>1. CASE dir = 1
        BY <4>1, <3>1, <3>2 DEF Sd
      <4>2. CASE dir # 1
        <5>1. d = 1 /\ dir = -1
          BY <4>2, Flip DEF Sd
        <5> QED BY <5>1, <3>1, <3>2 DEF Sd
      <4> QED BY <4>1, <4>2
    <3>4. CASE p = PoolSize
      <4>1. d = 1 /\ r = -1
        BY <2>3, <2>5, <3>2, <3>3, <3>4
      <4>2. dir = -1
        BY <4>1 DEF Sd
      <4>3. T.link[PoolSize][1] = last
        BY <3>2, <3>4
      <4> HIDE DEF p, d
      <4>4. E[-1][last] = 1
        BY <4>3, <3>1, <1>0, <1>1 DEF Shape, Rooted
      <4>5. pos[h] = First(n, dir)
        BY <4>2, <4>4, <3>1 DEF First
      <4> QED BY <4>1, <4>5, <1>4 DEF InorderIs
    <3>5. CASE p # PoolSize
      <4>1. p \in N /\ T.link[p][d] = last /\ T.link[p][d] # -1 /\ d \in Sd
        BY <3>1, <3>2, <3>3, <3>5, <1>0
      <4>2. r = p
        BY <2>3, <2>5, <3>5
      <4> HIDE DEF p
      <4>3. E[dir][last] = pos[p] + d
        <5>1. -d = dir
          BY SideFacts
        <5> HIDE DEF d
        <5>2. E[-d][T.link[p][d]] = pos[p] + d
          BY <4>1, <1>1, ChildSide
        <5> QED BY <5>1, <5>2, <4>1
      <4>4. pos[p] \in 1..n /\ pos[h] \in 1..n
        BY <4>1, <1>0
      <4>5. pos[p] = pos[h] + dir
        BY <4>3, <4>4, <3>1, <1>0
      <4>6. pos[h] # First(n, dir)
        BY <4>4, <4>5, <1>0 DEF First, Sd
      <4> QED BY <4>1, <4>2, <4>5, <4>6, <1>4 DEF InorderIs
    <3> QED BY <3>4, <3>5
  <2> QED BY <2>4, <2>5
<1> QED BY <1>3, <1>4

(* The node itself, else the nearest one on side dir, else none. *)
NearestIs(N, pos, cmp, dir, r) ==
    \/ r = -1 /\ \A g \in N : cmp[g] = dir
    \/ r \in N /\ cmp[r] = 0
    \/ /\ r \in N /\ cmp[r] = -dir
       /\ \A g \in N : cmp[g] = IF (IF dir = 1 THEN pos[g] < pos[r] ELSE pos[g] > pos[r]) THEN dir ELSE -dir

(* avl_search_nearest() finds it. *)
LEMMA NearestFound ==
  ASSUME NEW T, NEW N, NEW pos, Sound(T, N, pos), NEW dir \in Sd,
         NEW cmp, Key(cmp, N, pos), NEW r, r = Pool!Nearest(T, cmp, dir)
  PROVE  NearestIs(N, pos, cmp, dir, r)
<1> DEFINE R == Pool!Search(T, cmp, 0)
           x == R.holder
           n == T.count
<1>0. /\ N \in SUBSET Pg /\ -1 \notin N /\ n \in Nat /\ pos \in [N -> 1..n]
      /\ (\A g, f \in N : pos[g] = pos[f] => g = f)
  BY SoundFacts
<1>1. Towards(cmp, 0) = cmp
  BY DEF Towards, Key
<1>2. /\ N = {} => R = [holder |-> -1, delta |-> 1]
      /\ N # {} => R = [holder |-> x, delta |-> cmp[x]]
      /\ N # {} => Found(T, N, pos, cmp, x)
  <2> DEFINE t == Towards(cmp, 0)
  <2>1. Key(t, N, pos)
    BY <1>1
  <2> HIDE DEF t
  <2>2. /\ N = {} => R = [holder |-> -1, delta |-> 1]
        /\ N # {} => R = [holder |-> R.holder, delta |-> cmp[R.holder]]
        /\ N # {} => Found(T, N, pos, t, R.holder)
    BY <2>1, Searched DEF t
  <2> QED BY <2>2, <1>1 DEF t
<1>3. r = IF R.holder = -1 \/ R.delta # dir THEN R.holder ELSE Pool!Inorder(T, R.holder, dir)
  BY DEF Pool!Nearest
<1> HIDE DEF R
<1>4. CASE N = {}
  BY <1>2, <1>3, <1>4 DEF NearestIs
<1>5. CASE N # {}
  <2>1. R.delta = cmp[x] /\ x \in N /\ x # -1 /\ Found(T, N, pos, cmp, x)
    BY <1>0, <1>2, <1>5 DEF Found
  <2> HIDE DEF x
  <2>2. r = IF cmp[x] # dir THEN x ELSE Pool!Inorder(T, x, dir)
    BY <1>3, <2>1 DEF x
  <2>3. CASE cmp[x] = 0
    BY <2>1, <2>2, <2>3 DEF NearestIs, Sd
  <2>4. cmp[x] # 0 => cmp[x] \in Sd /\ Splits(N, pos, cmp, x)
    BY <2>1 DEF Found
  <2>5. \A g \in N : pos[g] \in 1..n /\ pos[x] \in 1..n
    BY <1>0, <2>1
  <2>6. CASE cmp[x] # 0 /\ cmp[x] # dir
    <3>1. r = x
      BY <2>2, <2>6
    <3>2. CASE dir = 1
      <4>1. cmp[x] = -1
        BY <2>4, <2>6, <3>2 DEF Sd
      <4>2. \A g \in N : cmp[g] = IF pos[g] < pos[x] THEN 1 ELSE -1
        <5>1. \A g \in N : cmp[g] = IF pos[g] >= pos[x] THEN -1 ELSE 1
          BY <2>4, <2>6, <4>1 DEF Splits
        <5> QED BY <5>1, <2>5
      <4> QED BY <2>1, <3>1, <3>2, <4>1, <4>2 DEF NearestIs
    <3>3. CASE dir # 1
      <4>1. cmp[x] = 1 /\ dir = -1 /\ -dir = 1
        BY <2>4, <2>6, <3>3, Flip DEF Sd
      <4>2. \A g \in N : cmp[g] = IF pos[g] > pos[x] THEN -1 ELSE 1
        <5>1. \A g \in N : cmp[g] = IF pos[g] <= pos[x] THEN 1 ELSE -1
          BY <2>4, <2>6, <4>1 DEF Splits
        <5> QED BY <5>1, <2>5
      <4>3. \A g \in N : cmp[g] = IF pos[g] > pos[x] THEN dir ELSE -dir
        BY <4>1, <4>2
      <4>4. cmp[x] = -dir
        BY <4>1
      <4> QED BY <2>1, <3>1, <3>3, <4>3, <4>4 DEF NearestIs
    <3> QED BY <3>2, <3>3
  <2>7. CASE cmp[x] = dir
    <3>0. cmp[x] # 0 /\ dir # 0
      BY <2>7 DEF Sd
    <3>1. InorderIs(T, N, pos, x, dir, r)
      BY <2>1, <2>2, <2>7, InorderFound
    <3>2. CASE dir = 1
      <4>1. \A g \in N : cmp[g] = IF pos[g] <= pos[x] THEN 1 ELSE -1
        BY <2>4, <2>7, <3>0, <3>2 DEF Splits
      <4>2. CASE pos[x] = n
        <5>1. r = -1
          BY <3>1, <3>2, <4>2 DEF InorderIs, First
        <5>2. \A g \in N : cmp[g] = 1
          BY <4>1, <4>2, <2>5
        <5> QED BY <5>1, <5>2, <3>2 DEF NearestIs
      <4>3. CASE pos[x] # n
        <5>1. r \in N /\ pos[r] = pos[x] + 1
          BY <3>1, <3>2, <4>3 DEF InorderIs, First
        <5>2. \A g \in N : cmp[g] = IF pos[g] < pos[r] THEN 1 ELSE -1
          BY <4>1, <5>1, <2>5
        <5>3. cmp[r] = -1
          BY <5>1, <4>1, <2>5
        <5> QED BY <5>1, <5>2, <5>3, <3>2 DEF NearestIs
      <4> QED BY <4>2, <4>3
    <3>3. CASE dir # 1
      <4>0. dir = -1 /\ -dir = 1
        BY <3>3, Flip DEF Sd
      <4>1. \A g \in N : cmp[g] = IF pos[g] >= pos[x] THEN -1 ELSE 1
        BY <2>4, <2>7, <3>0, <4>0 DEF Splits
      <4>2. CASE pos[x] = 1
        <5>1. r = -1
          BY <3>1, <3>3, <4>2 DEF InorderIs, First
        <5>2. \A g \in N : cmp[g] = dir
          BY <4>0, <4>1, <4>2, <2>5
        <5> QED BY <5>1, <5>2 DEF NearestIs
      <4>3. CASE pos[x] # 1
        <5>1. r \in N /\ pos[r] = pos[x] - 1
          <6>1. r \in N /\ pos[r] = pos[x] + dir
            BY <3>1, <3>3, <4>3 DEF InorderIs, First
          <6> QED BY <6>1, <4>0
        <5>2. \A g \in N : cmp[g] = IF pos[g] > pos[r] THEN -1 ELSE 1
          BY <4>1, <5>1, <2>5
        <5>3. cmp[r] = 1
          BY <5>1, <4>1, <2>5
        <5>4. (\A g \in N : cmp[g] = IF pos[g] > pos[r] THEN dir ELSE -dir) /\ cmp[r] = -dir
          BY <5>2, <5>3, <4>0
        <5> QED BY <5>1, <5>4, <3>3 DEF NearestIs
      <4> QED BY <4>2, <4>3
    <3> QED BY <3>2, <3>3
  <2> QED BY <2>3, <2>6, <2>7
<1> QED BY <1>4, <1>5

(* avl_delete() of any node leaves a sound tree of the other nodes, in   *)
(* their order.                                                          *)
LEMMA Deleted ==
  ASSUME NEW T, NEW N, NEW pos, Sound(T, N, pos), NEW node \in N,
         NEW A, A = Pool!Delete(T, node)
  PROVE  Sound(A, N \ {node}, PosWithout(pos, N, node))
<1>0. T \in Trees /\ N \in SUBSET Pg /\ node \in Pg /\ PoolSize \notin N
  BY SoundFacts
<1>1. CASE T.link[node][-1] = -1 \/ T.link[node][1] = -1
  <2> DEFINE D == Pool!DeleteOuter(T, node)
  <2>1. A = Pool!Forgotten(D, node)
    BY <1>1 DEF Pool!Delete, Pool!Child, Pool!Left, Pool!Right
  <2>2. Lax(D, N \ {node}, PosWithout(pos, N, node), node)
    BY <1>1, DeletedOuter
  <2> HIDE DEF D
  <2> QED BY <2>1, <2>2, <1>0, node \notin N \ {node}, ForgottenSound
<1>2. CASE ~(T.link[node][-1] = -1 \/ T.link[node][1] = -1)
  <2> DEFINE dir == IF T.bal[node] = 0 THEN 1 ELSE T.bal[node]
             new == Pool!Inorder(T, node, dir)
             T1 == Pool!DeleteOuter(T, new)
             Z == Pool!TakeOver(T1, node, new)
             V == Rebal(Z, new, T1.bal[node])
  <2>1. A = Pool!Forgotten(Pool!MoveEnd(V, dir, node, new), node)
    BY <1>2 DEF Pool!Delete, Pool!Child, Pool!Left, Pool!Right, Rebal
  <2>2. dir \in Sd
    <3>1. T.bal[node] \in -1..1
      BY <1>0 DEF Sound, AvlTree, Hole, Even
    <3> QED BY <3>1 DEF Sd
  <2> HIDE DEF dir
  <2>3. InorderIs(T, N, pos, node, dir, new)
    BY <2>2, InorderFound
  <2> HIDE DEF new
  <2>4. T.link[node][dir] # -1
    BY <1>2, <2>2 DEF Sd
  <2>5. Heir(T, N, pos, node, dir, new)
    BY <1>2, <2>2, <2>3, <2>4 DEF Heir, InorderIs
  <2> HIDE DEF T1, Z, V
  <2> QED BY <2>1, <2>5, DeletedInner DEF T1, Z, V
<1> QED BY <1>1, <1>2

-----------------------------------------------------------------------------
(* Inserting by key. *)

(* A node has come where its key belongs. *)
Came(A, N, pos, t, node, at) ==
    /\ Sound(A, N \cup {node}, PosWith(pos, N, node, at))
    /\ at \in 1..Cardinality(N)+1
    /\ \A g \in N : t[g] = IF pos[g] < at THEN 1 ELSE -1

(* Searching, then inserting where the search ended, does that. *)
LEMMA InsertedFound ==
  ASSUME NEW T, NEW N, NEW pos, Sound(T, N, pos), NEW node \in Pg, node \notin N, T.bal[node] = 0,
         NEW cmp, NEW dir, NEW t, t = Towards(cmp, dir), Key(t, N, pos), \A g \in N : t[g] # 0,
         NEW A, A = LET s == Pool!Search(T, cmp, dir)
                    IN Pool!InsertInner(T, s.holder, node, IF s.delta = 0 THEN dir ELSE s.delta)
  PROVE  \E at : Came(A, N, pos, t, node, at)
<1> DEFINE R == Pool!Search(T, cmp, dir)
           r == R.holder
           n == T.count
<1>0. /\ N \in SUBSET Pg /\ n \in Nat /\ pos \in [N -> 1..n] /\ Cardinality(N) = n
  BY SoundFacts
<1>1. /\ N = {} => R = [holder |-> -1, delta |-> 1]
      /\ N # {} => R = [holder |-> R.holder, delta |-> cmp[R.holder]]
      /\ N # {} => Found(T, N, pos, t, R.holder)
  BY Searched
<1>2. A = Pool!InsertInner(T, r, node, IF R.delta = 0 THEN dir ELSE R.delta)
  OBVIOUS
<1> HIDE DEF R
<1>3. CASE N = {}
  <2>1. A = Pool!InsertInner(T, -1, node, 1)
    BY <1>1, <1>2, <1>3
  <2>2. Sound(A, {node}, PosWith(pos, {}, node, 1))
    BY <2>1, <1>3, InsertedFirst
  <2>3. N \cup {node} = {node} /\ 1 \in 1..Cardinality(N)+1
    BY <1>0, <1>3
  <2>4. Came(A, N, pos, t, node, 1)
    BY <2>2, <2>3, <1>3 DEF Came
  <2> QED BY <2>4
<1>4. CASE N # {}
  <2>1. r \in N /\ t[r] # 0 /\ t[r] \in Sd /\ T.link[r][t[r]] = -1 /\ Splits(N, pos, t, r)
    BY <1>1, <1>4 DEF Found
  <2> DEFINE side == t[r]
             at == Place(pos[r], side)
  <2>2. side = IF R.delta = 0 THEN dir ELSE R.delta
    <3>1. R.delta = cmp[r] /\ r \in Pg
      BY <1>0, <1>1, <1>4, <2>1
    <3> HIDE DEF r
    <3> QED BY <3>1 DEF Towards
  <2>3. A = Pool!InsertInner(T, r, node, side)
    BY <1>2, <2>2
  <2>4. \A g \in N : pos[g] \in 1..n /\ pos[r] \in 1..n
    BY <1>0, <2>1
  <2> HIDE DEF r
  <2>5. \A g \in N : t[g] = IF pos[g] < at THEN 1 ELSE -1
    <3>1. CASE side = 1
      <4>1. at = pos[r] + 1
        BY <3>1 DEF Place
      <4>2. \A g \in N : t[g] = IF pos[g] <= pos[r] THEN 1 ELSE -1
        BY <2>1, <3>1 DEF Splits
      <4> HIDE DEF at
      <4> QED BY <4>1, <4>2, <2>4
    <3>2. CASE side = -1
      <4>1. at = pos[r]
        BY <3>2 DEF Place
      <4>2. \A g \in N : t[g] = IF pos[g] >= pos[r] THEN -1 ELSE 1
        BY <2>1, <3>2 DEF Splits
      <4> HIDE DEF at
      <4> QED BY <4>1, <4>2, <2>4
    <3> QED BY <3>1, <3>2, <2>1 DEF Sd
  <2>6. at \in 1..n+1
    BY <1>0, <2>1, <2>4 DEF Place
  <2> HIDE DEF side
  <2>7. Sound(A, N \cup {node}, PosWith(pos, N, node, Place(pos[r], side)))
    <3>1. side \in Sd /\ T.link[r][side] = -1
      BY <2>1 DEF side
    <3> QED BY <3>1, <2>1, <2>3, InsertedBelow
  <2> HIDE DEF at, n
  <2>8. Came(A, N, pos, t, node, at)
    BY <1>0, <2>5, <2>6, <2>7 DEF Came, at
  <2> QED BY <2>8
<1> QED BY <1>3, <1>4

(* avl_insert(): between two others (the tree of addresses). *)
LEMMA Inserted ==
  ASSUME NEW T, NEW N, NEW pos, Sound(T, N, pos), NEW node \in Pg, node \notin N, T.bal[node] = 0,
         NEW cmp, Key(cmp, N, pos), \A g \in N : cmp[g] # 0, NEW A, A = Pool!Insert(T, node, cmp)
  PROVE  \E at : Came(A, N, pos, cmp, node, at)
<1> DEFINE s == Pool!Search(T, cmp, 0)
<1>1. Towards(cmp, 0) = cmp
  BY DEF Towards, Key
<1>2. s.delta = IF s.delta = 0 THEN 0 ELSE s.delta
  OBVIOUS
<1>3. A = Pool!InsertInner(T, s.holder, node, IF s.delta = 0 THEN 0 ELSE s.delta)
  BY <1>2 DEF Pool!Insert
<1> HIDE DEF s
<1> QED BY <1>1, <1>3, InsertedFound DEF s

(* avl_insert_back(): after those of the same key (the tree of sizes). *)
LEMMA InsertedBack ==
  ASSUME NEW T, NEW N, NEW pos, Sound(T, N, pos), NEW node \in Pg, node \notin N, T.bal[node] = 0,
         NEW cmp, NEW t, t = Towards(cmp, 1), Key(t, N, pos), \A g \in N : t[g] # 0,
         NEW A, A = Pool!InsertBack(T, node, cmp)
  PROVE  \E at : Came(A, N, pos, t, node, at)
<1> DEFINE s == Pool!Search(T, cmp, 1)
<1>3. A = Pool!InsertInner(T, s.holder, node, IF s.delta = 0 THEN 1 ELSE s.delta)
  BY DEF Pool!InsertBack, Pool!Right
<1> HIDE DEF s
<1> QED BY <1>3, InsertedFound DEF s

(* avl_prepend(): before all others. *)
LEMMA Prepended ==
  ASSUME NEW T, NEW N, NEW pos, Sound(T, N, pos), NEW node \in Pg, node \notin N, T.bal[node] = 0,
         NEW A, A = Pool!Prepend(T, node)
  PROVE  Sound(A, N \cup {node}, PosWith(pos, N, node, 1))
<1> DEFINE e == T.end[-1]
           n == T.count
<1>0. /\ N \in SUBSET Pg /\ n \in Nat /\ pos \in [N -> 1..n] /\ -1 \notin N /\ -1 \in Sd
  BY SoundFacts DEF Sd
<1>1. A = Pool!InsertInner(T, e, node, IF e = -1 THEN 1 ELSE -1)
  BY DEF Pool!Prepend, Pool!Left, Pool!Right
<1>2. CASE N = {}
  <2>1. e = -1
    BY <1>0, <1>2 DEF Sound, Ends
  <2>2. A = Pool!InsertInner(T, -1, node, 1)
    BY <1>1, <2>1
  <2>3. Sound(A, {node}, PosWith(pos, {}, node, 1))
    BY <2>2, <1>2, InsertedFirst
  <2> QED BY <2>3, <1>2
<1>3. CASE N # {}
  <2>1. e \in N /\ pos[e] = 1
    BY <1>0, <1>3 DEF Sound, Ends, First
  <2>2. A = Pool!InsertInner(T, e, node, -1)
    BY <1>0, <1>1, <2>1
  <2> HIDE DEF e
  <2>3. T.link[e][-1] = -1
    <3>1. PICK E : Shape(T.link, T.type, N, n, pos, E)
      BY DEF Sound
    <3>2. ASSUME T.link[e][-1] # -1 PROVE FALSE
      <4>1. T.link[e][-1] \in N /\ pos[T.link[e][-1]] < pos[e]
        BY <1>0, <2>1, <3>1, <3>2, ChildSide
      <4> QED BY <4>1, <2>1, <1>0
    <3> QED BY <3>2
  <2>4. Place(pos[e], -1) = 1
    BY <2>1 DEF Place
  <2>5. Sound(A, N \cup {node}, PosWith(pos, N, node, Place(pos[e], -1)))
    BY <1>0, <2>1, <2>2, <2>3, InsertedBelow
  <2> QED BY <2>4, <2>5
<1> QED BY <1>2, <1>3

-----------------------------------------------------------------------------
(* The two trees of the pool. *)

(* The order of the tree of sizes. *)
Sorted(sz, N, pos) == \A g, h \in N : pos[g] < pos[h] => sz[g] <= sz[h]

(* The order of the tree of addresses. *)
Ascending(N, pos) == \A g, h \in N : g < h => pos[g] < pos[h]

(* A sound tree of the ranges at N in the order of their sizes sz, ... *)
BySizes(T, N, sz) == \E pos : Sound(T, N, pos) /\ Sorted(sz, N, pos)

(* and one in the order of their addresses. *)
ByAddrs(T, N) == \E pos : Sound(T, N, pos) /\ Ascending(N, pos)

(* avl_delete() from the tree of sizes. *)
LEMMA SizeDeleted ==
  ASSUME NEW T, NEW N, NEW sz, BySizes(T, N, sz), NEW node \in N
  PROVE  BySizes(Pool!Delete(T, node), N \ {node}, sz)
<1>1. PICK pos : Sound(T, N, pos) /\ Sorted(sz, N, pos)
  BY DEF BySizes
<1> DEFINE P == PosWithout(pos, N, node)
<1>2. Sound(Pool!Delete(T, node), N \ {node}, P)
  BY <1>1, Deleted
<1>3. \A g \in N : pos[g] \in Int
  BY <1>1, SoundFacts
<1>4. Sorted(sz, N \ {node}, P)
  <2> SUFFICES ASSUME NEW g \in N \ {node}, NEW h \in N \ {node}, P[g] < P[h] PROVE sz[g] <= sz[h]
    BY DEF Sorted
  <2>1. P[g] = Earlier(pos[g], pos[node]) /\ P[h] = Earlier(pos[h], pos[node])
    BY DEF PosWithout
  <2>2. pos[g] < pos[h]
    BY <2>1, <1>3 DEF Earlier
  <2> QED BY <2>2, <1>1 DEF Sorted
<1> QED BY <1>2, <1>4 DEF BySizes

(* avl_delete() from the tree of addresses. *)
LEMMA AddrDeleted ==
  ASSUME NEW T, NEW N, ByAddrs(T, N), NEW node \in N
  PROVE  ByAddrs(Pool!Delete(T, node), N \ {node})
<1>1. PICK pos : Sound(T, N, pos) /\ Ascending(N, pos)
  BY DEF ByAddrs
<1> DEFINE P == PosWithout(pos, N, node)
<1>2. Sound(Pool!Delete(T, node), N \ {node}, P)
  BY <1>1, Deleted
<1>3. \A g \in N : pos[g] \in Int /\ \A h \in N : pos[g] = pos[h] => g = h
  BY <1>1, SoundFacts
<1>4. Ascending(N \ {node}, P)
  <2> SUFFICES ASSUME NEW g \in N \ {node}, NEW h \in N \ {node}, g < h PROVE P[g] < P[h]
    BY DEF Ascending
  <2>1. P[g] = Earlier(pos[g], pos[node]) /\ P[h] = Earlier(pos[h], pos[node])
    BY DEF PosWithout
  <2>2. pos[g] < pos[h]
    BY <1>1 DEF Ascending
  <2>3. pos[g] # pos[node] /\ pos[h] # pos[node] /\ pos[node] \in Int
    BY <1>3
  <2> HIDE DEF P
  <2> QED BY <2>1, <2>2, <2>3, <1>3 DEF Earlier
<1> QED BY <1>2, <1>4 DEF ByAddrs

(* Indexing a range by its size (avlh_init and avl_insert_back in        *)
(* reserve_page_range and release_page_range).                           *)
LEMMA SizeIndexed ==
  ASSUME NEW T, NEW N, BySizes(T, N, size), NEW node \in Pg, node \notin N, NEW n \in Nat,
         \A g \in N : size[g] \in Nat,
         NEW sz, sz[node] = n, \A g \in N : sz[g] = size[g]
  PROVE  BySizes(Pool!IndexSize(T, node, n), N \cup {node}, sz)
<1>1. PICK pos : Sound(T, N, pos) /\ Sorted(size, N, pos)
  BY DEF BySizes
<1>0. N \in SUBSET Pg /\ \A g \in N : pos[g] \in Int
  BY <1>1, SoundFacts
<1> DEFINE T0 == Pool!InitNode(T, node)
           cmp == Pool!BySize(n)
           t == Towards(cmp, 1)
           A == Pool!IndexSize(T, node, n)
<1>2. Sound(T0, N, pos) /\ T0.bal[node] = 0
  BY <1>1, Readied
<1>3. cmp \in [Pg -> -1..1]
  BY DEF Pool!BySize, Pool!Sign, Pg
<1>4. \A g \in Pg : cmp[g] = IF n > size[g] THEN 1 ELSE IF n < size[g] THEN -1 ELSE 0
  BY DEF Pool!BySize, Pool!Sign, Pg
<1>5. A = Pool!InsertBack(T0, node, cmp)
  BY DEF Pool!IndexSize
<1> HIDE DEF T0, cmp, A
<1>6. t \in [Pg -> -1..1] /\ \A g \in N : t[g] = IF size[g] <= n THEN 1 ELSE -1
  <2>1. t \in [Pg -> -1..1] /\ \A g \in Pg : t[g] = IF cmp[g] = 0 THEN 1 ELSE cmp[g]
    BY <1>3 DEF Towards
  <2> HIDE DEF t
  <2> QED BY <2>1, <1>0, <1>4
<1> HIDE DEF t
<1>7. Key(t, N, pos)
  <2>1. ASSUME NEW g \in N, NEW h \in N, pos[g] < pos[h] PROVE t[g] >= t[h]
    <3>1. size[g] <= size[h]
      BY <1>1, <2>1 DEF Sorted
    <3> QED BY <3>1, <1>6
  <2> QED BY <2>1, <1>6 DEF Key
<1>8. \A g \in N : t[g] # 0
  BY <1>6
<1>9. PICK at : Came(A, N, pos, t, node, at)
  BY <1>2, <1>5, <1>7, <1>8, InsertedBack DEF t
<1>10. at \in Int /\ \A g \in N : t[g] = IF pos[g] < at THEN 1 ELSE -1
  BY <1>9 DEF Came
<1> DEFINE P == PosWith(pos, N, node, at)
<1>11. Sorted(sz, N \cup {node}, P)
  <2>1. P[node] = at /\ \A g \in N : P[g] = IF pos[g] >= at THEN pos[g] + 1 ELSE pos[g]
    BY DEF PosWith, Shifted
  <2> HIDE DEF P
  <2>2. \A g \in N : (size[g] <= n => pos[g] < at) /\ (~(size[g] <= n) => pos[g] >= at)
    BY <1>0, <1>6, <1>10
  <2> SUFFICES ASSUME NEW g \in N \cup {node}, NEW h \in N \cup {node}, P[g] < P[h]
               PROVE  sz[g] <= sz[h]
    BY DEF Sorted
  <2>3. CASE g \in N /\ h \in N
    <3>1. pos[g] < pos[h]
      BY <2>1, <2>3, <1>0, <1>10
    <3>2. size[g] <= size[h]
      BY <3>1, <2>3, <1>1 DEF Sorted
    <3> QED BY <3>2, <2>3
  <2>4. CASE g = node /\ h \in N
    BY <2>1, <2>2, <2>4, <1>0, <1>10
  <2>5. CASE g \in N /\ h = node
    BY <2>1, <2>2, <2>5, <1>0, <1>10
  <2>6. CASE g = node /\ h = node
    BY <2>6
  <2> QED BY <2>3, <2>4, <2>5, <2>6
<1> QED BY <1>9, <1>11 DEF Came, BySizes, A

(* avl_insert() of a freed range into the tree of addresses. *)
LEMMA AddrInserted ==
  ASSUME NEW T, NEW N, ByAddrs(T, N), NEW node \in Pg, node \notin N,
         NEW A, A = Pool!Insert(Pool!InitNode(T, node), node, Pool!ByAddr(node))
  PROVE  ByAddrs(A, N \cup {node})
<1>1. PICK pos : Sound(T, N, pos) /\ Ascending(N, pos)
  BY DEF ByAddrs
<1>0. /\ N \in SUBSET Pg /\ (\A g \in N : pos[g] \in Int /\ g \in Int /\ g # node) /\ node \in Int
      /\ \A g, h \in N : pos[g] = pos[h] => g = h
  BY <1>1, SoundFacts, PageFacts
<1> DEFINE T0 == Pool!InitNode(T, node)
           cmp == Pool!ByAddr(node)
<1>2. Sound(T0, N, pos) /\ T0.bal[node] = 0
  BY <1>1, Readied
<1>3. cmp \in [Pg -> -1..1] /\ \A g \in N : cmp[g] = IF g < node THEN 1 ELSE -1
  <2>1. cmp \in [Pg -> -1..1] /\ \A g \in Pg : cmp[g] = IF node > g THEN 1 ELSE IF node < g THEN -1 ELSE 0
    BY DEF Pool!ByAddr, Pool!Sign, Pg
  <2> HIDE DEF cmp
  <2> QED BY <2>1, <1>0
<1> HIDE DEF T0, cmp
<1>4. Key(cmp, N, pos)
  <2>1. ASSUME NEW g \in N, NEW h \in N, pos[g] < pos[h] PROVE cmp[g] >= cmp[h]
    <3>1. ~(h < g)
      BY <2>1, <1>0, <1>1 DEF Ascending
    <3> QED BY <3>1, <1>0, <1>3
  <2> QED BY <2>1, <1>3 DEF Key
<1>5. PICK at : Came(A, N, pos, cmp, node, at)
  <2>1. A = Pool!Insert(T0, node, cmp) /\ \A g \in N : cmp[g] # 0
    BY <1>3 DEF T0, cmp
  <2> QED BY <2>1, <1>2, <1>4, Inserted
<1>6. at \in Int /\ \A g \in N : cmp[g] = IF pos[g] < at THEN 1 ELSE -1
  BY <1>5 DEF Came
<1> DEFINE P == PosWith(pos, N, node, at)
<1>7. Ascending(N \cup {node}, P)
  <2>1. P[node] = at /\ \A g \in N : P[g] = IF pos[g] >= at THEN pos[g] + 1 ELSE pos[g]
    BY DEF PosWith, Shifted
  <2> HIDE DEF P
  <2>2. \A g \in N : (g < node => pos[g] < at) /\ (~(g < node) => pos[g] >= at)
    BY <1>0, <1>3, <1>6
  <2> SUFFICES ASSUME NEW g \in N \cup {node}, NEW h \in N \cup {node}, g < h PROVE P[g] < P[h]
    BY DEF Ascending
  <2>3. CASE g \in N /\ h \in N
    <3>1. pos[g] < pos[h]
      BY <2>3, <1>1 DEF Ascending
    <3> QED BY <3>1, <2>1, <2>3, <1>0, <1>6
  <2>4. CASE g = node /\ h \in N
    BY <2>1, <2>2, <2>4, <1>0, <1>6
  <2>5. CASE g \in N /\ h = node
    BY <2>1, <2>2, <2>5, <1>0, <1>6
  <2> QED BY <2>3, <2>4, <2>5, <1>0
<1> QED BY <1>5, <1>7 DEF Came, ByAddrs

(* avl_prepend() of a freed range, in front of all others. *)
LEMMA AddrPrepended ==
  ASSUME NEW T, NEW N, ByAddrs(T, N), NEW node \in Pg, \A g \in N : node < g,
         NEW A, A = Pool!Prepend(Pool!InitNode(T, node), node)
  PROVE  ByAddrs(A, N \cup {node})
<1>1. PICK pos : Sound(T, N, pos) /\ Ascending(N, pos)
  BY DEF ByAddrs
<1>0. /\ N \in SUBSET Pg /\ (\A g \in N : pos[g] \in Nat \ {0} /\ g \in Int) /\ node \in Int /\ node \notin N
  BY <1>1, SoundFacts, PageFacts
<1> DEFINE T0 == Pool!InitNode(T, node)
<1>2. Sound(T0, N, pos) /\ T0.bal[node] = 0
  BY <1>0, <1>1, Readied
<1> HIDE DEF T0
<1> DEFINE P == PosWith(pos, N, node, 1)
<1>3. Sound(A, N \cup {node}, P)
  BY <1>0, <1>2, Prepended DEF T0
<1>4. Ascending(N \cup {node}, P)
  <2>1. P[node] = 1 /\ \A g \in N : P[g] = pos[g] + 1
    BY <1>0 DEF PosWith, Shifted
  <2> HIDE DEF P
  <2> SUFFICES ASSUME NEW g \in N \cup {node}, NEW h \in N \cup {node}, g < h PROVE P[g] < P[h]
    BY DEF Ascending
  <2>3. CASE g \in N /\ h \in N
    <3>1. pos[g] < pos[h]
      BY <2>3, <1>1 DEF Ascending
    <3> QED BY <3>1, <2>1, <2>3, <1>0
  <2>4. CASE g = node /\ h \in N
    BY <2>1, <2>4, <1>0
  <2> QED BY <2>3, <2>4, <1>0
<1> QED BY <1>3, <1>4 DEF ByAddrs

(* avl_replace() in the tree of addresses: the freed pages touch the     *)
(* range behind them, whose node moves to their first page.              *)
LEMMA AddrReplaced ==
  ASSUME NEW T, NEW N, ByAddrs(T, N), NEW old \in N, NEW new \in Pg, new \notin N,
         \A g \in N : g # old => (g < new <=> g < old),
         NEW A, A = Pool!Replace(T, old, new)
  PROVE  ByAddrs(A, (N \ {old}) \cup {new})
<1>1. PICK pos : Sound(T, N, pos) /\ Ascending(N, pos)
  BY DEF ByAddrs
<1>0. N \in SUBSET Pg /\ new \in Int /\ \A g \in N : g \in Int /\ pos[g] \in Int
  BY <1>1, SoundFacts, PageFacts
<1> DEFINE M == Others(N, old, new)
           P == PosRenamed(pos, N, old, new)
<1>2. Sound(A, M, P)
  BY <1>1, Replacement
<1>3. Ascending(M, P)
  <2>1. P[new] = pos[old] /\ \A g \in N \ {old} : P[g] = pos[g]
    BY DEF PosRenamed, Others
  <2>2. M = (N \ {old}) \cup {new}
    BY DEF Others
  <2> HIDE DEF P, M
  <2> SUFFICES ASSUME NEW g \in M, NEW h \in M, g < h PROVE P[g] < P[h]
    BY DEF Ascending
  <2>3. CASE g # new /\ h # new
    BY <2>1, <2>2, <2>3, <1>1 DEF Ascending
  <2>4. CASE g = new /\ h # new
    <3>1. h \in N /\ h # old
      BY <2>2, <2>4
    <3>2. old < h
      <4>1. new < h /\ h \in Int /\ old \in Int
        BY <2>4, <3>1, <1>0
      <4>2. ~(h < new) /\ h # old /\ (h < new <=> h < old)
        BY <4>1, <3>1, <1>0
      <4> QED BY <4>1, <4>2
    <3> QED BY <3>1, <3>2, <2>1, <2>4, <1>1 DEF Ascending
  <2>5. CASE g # new /\ h = new
    <3>1. g \in N /\ g # old /\ g < old
      BY <2>2, <2>5, <1>0
    <3> QED BY <3>1, <2>1, <2>5, <1>1 DEF Ascending
  <2> QED BY <2>3, <2>4, <2>5, <1>0
<1> QED BY <1>2, <1>3 DEF ByAddrs, Others

(* The range l is the last one before a page, or there is none. *)
LeftOf(N, pg, l) == IF l = -1 THEN \A g \in N : pg < g
                    ELSE l \in N /\ l < pg /\ \A g \in N : g <= l \/ pg < g

(* The range r is the first one after a page, or there is none. *)
RightOf(N, pg, r) == IF r = -1 THEN \A g \in N : g < pg
                     ELSE r \in N /\ pg < r /\ \A g \in N : g < pg \/ r <= g

(* avl_search_nearest() by address finds the ranges around a page. *)
LEMMA AddrNearest ==
  ASSUME NEW T, NEW N, ByAddrs(T, N), NEW pg \in Pg, pg \notin N
  PROVE  /\ LeftOf(N, pg, Pool!Nearest(T, Pool!ByAddr(pg), -1))
         /\ RightOf(N, pg, Pool!Nearest(T, Pool!ByAddr(pg), 1))
<1>1. PICK pos : Sound(T, N, pos) /\ Ascending(N, pos)
  BY DEF ByAddrs
<1>0. /\ N \in SUBSET Pg /\ (\A g \in N : pos[g] \in Int /\ g \in Int /\ g # pg /\ g # -1) /\ pg \in Int
      /\ (\A g, h \in N : pos[g] = pos[h] => g = h)
      /\ 1 \in Sd /\ -1 \in Sd
  BY <1>1, SoundFacts, PageFacts DEF Sd
<1> DEFINE cmp == Pool!ByAddr(pg)
<1>3. cmp \in [Pg -> -1..1] /\ \A g \in N : cmp[g] = IF g < pg THEN 1 ELSE -1
  <2>1. cmp \in [Pg -> -1..1] /\ \A g \in Pg : cmp[g] = IF pg > g THEN 1 ELSE IF pg < g THEN -1 ELSE 0
    BY DEF Pool!ByAddr, Pool!Sign, Pg
  <2> HIDE DEF cmp
  <2> QED BY <2>1, <1>0
<1> HIDE DEF cmp
<1>4. Key(cmp, N, pos)
  <2>1. ASSUME NEW g \in N, NEW h \in N, pos[g] < pos[h] PROVE cmp[g] >= cmp[h]
    <3>1. ~(h < g)
      BY <2>1, <1>0, <1>1 DEF Ascending
    <3> QED BY <3>1, <1>0, <1>3
  <2> QED BY <2>1, <1>3 DEF Key
<1>5. \A g, h \in N : pos[g] < pos[h] <=> g < h
  BY <1>0, <1>1 DEF Ascending
<1> DEFINE l == Pool!Nearest(T, cmp, -1)
           r == Pool!Nearest(T, cmp, 1)
<1>6. NearestIs(N, pos, cmp, -1, l) /\ NearestIs(N, pos, cmp, 1, r)
  BY <1>0, <1>1, <1>4, NearestFound
<1> HIDE DEF l, r
<1>7. LeftOf(N, pg, l)
  <2>1. CASE l = -1
    <3>1. \A g \in N : cmp[g] = -1
      BY <1>6, <2>1, <1>0 DEF NearestIs
    <3> QED BY <3>1, <2>1, <1>3, <1>0 DEF LeftOf
  <2>2. CASE l # -1
    <3>1. l \in N /\ cmp[l] # 0
      BY <1>6, <2>2, <1>3 DEF NearestIs
    <3>2. cmp[l] = 1 /\ \A g \in N : cmp[g] = IF pos[g] > pos[l] THEN -1 ELSE 1
      BY <1>6, <2>2, <3>1 DEF NearestIs
    <3>3. \A g \in N : IF l < g THEN pg < g ELSE g < pg
      BY <3>1, <3>2, <1>0, <1>3, <1>5
    <3>4. l < pg
      BY <3>1, <3>2, <1>3, <1>0
    <3>5. \A g \in N : g <= l \/ pg < g
      BY <3>1, <3>3, <1>0
    <3> QED BY <2>2, <3>1, <3>4, <3>5 DEF LeftOf
  <2> QED BY <2>1, <2>2
<1>8. RightOf(N, pg, r)
  <2>1. CASE r = -1
    <3>1. \A g \in N : cmp[g] = 1
      BY <1>6, <2>1, <1>0 DEF NearestIs
    <3> QED BY <3>1, <2>1, <1>3, <1>0 DEF RightOf
  <2>2. CASE r # -1
    <3>1. r \in N /\ cmp[r] # 0
      BY <1>6, <2>2, <1>3 DEF NearestIs
    <3>2. cmp[r] = -1 /\ \A g \in N : cmp[g] = IF pos[g] < pos[r] THEN 1 ELSE -1
      BY <1>6, <2>2, <3>1 DEF NearestIs
    <3>3. \A g \in N : IF g < r THEN g < pg ELSE pg < g
      BY <3>1, <3>2, <1>0, <1>3, <1>5
    <3>4. pg < r
      BY <3>1, <3>2, <1>3, <1>0
    <3>5. \A g \in N : g < pg \/ r <= g
      BY <3>1, <3>3, <1>0
    <3> QED BY <2>2, <3>1, <3>4, <3>5 DEF RightOf
  <2> QED BY <2>1, <2>2
<1> QED BY <1>7, <1>8 DEF l, r, cmp

(* avl_next() of the range on the left is the one on the right. *)
LEMMA AddrNext ==
  ASSUME NEW T, NEW N, ByAddrs(T, N), NEW pg \in Pg, pg \notin N, NEW l \in N, LeftOf(N, pg, l)
  PROVE  RightOf(N, pg, Pool!Inorder(T, l, 1))
<1>1. PICK pos : Sound(T, N, pos) /\ Ascending(N, pos)
  BY DEF ByAddrs
<1> DEFINE n == T.count
<1>0. /\ N \in SUBSET Pg /\ n \in Nat /\ (\A g \in N : pos[g] \in 1..n /\ g \in Int /\ g # pg /\ g # -1) /\ pg \in Int
      /\ (\A g, h \in N : pos[g] = pos[h] => g = h)
      /\ 1 \in Sd
  BY <1>1, SoundFacts, PageFacts DEF Sd
<1> DEFINE r == Pool!Inorder(T, l, 1)
<1>2. IF pos[l] = n THEN r = -1 ELSE r \in N /\ pos[r] = pos[l] + 1
  <2>1. InorderIs(T, N, pos, l, 1, r)
    BY <1>0, <1>1, InorderFound
  <2> QED BY <2>1 DEF InorderIs, First
<1>3. l < pg /\ \A g \in N : g <= l \/ pg < g
  BY <1>0 DEF LeftOf
<1>5. \A g, h \in N : pos[g] < pos[h] <=> g < h
  BY <1>0, <1>1 DEF Ascending
<1> HIDE DEF r, n
<1>6. CASE pos[l] = n
  <2>1. \A g \in N : ~(pos[l] < pos[g])
    BY <1>0, <1>6
  <2>2. \A g \in N : ~(l < g)
    BY <2>1, <1>5
  <2>3. \A g \in N : g < pg
    BY <2>2, <1>0, <1>3
  <2> QED BY <2>3, <1>2, <1>6 DEF RightOf, r
<1>7. CASE pos[l] # n
  <2>1. r \in N /\ pos[r] = pos[l] + 1 /\ r # -1
    BY <1>0, <1>2, <1>7
  <2>2. l < r
    BY <2>1, <1>0, <1>5
  <2>3. pg < r
    BY <2>1, <2>2, <1>0, <1>3
  <2>4. ASSUME NEW g \in N PROVE g < pg \/ r <= g
    <3>1. pos[g] <= pos[l] \/ pos[r] <= pos[g]
      BY <2>1, <1>0
    <3>2. g <= l \/ r <= g
      BY <3>1, <2>1, <1>0, <1>5
    <3> QED BY <3>2, <1>0, <1>3
  <2> QED BY <2>1, <2>3, <2>4 DEF RightOf, r
<1> QED BY <1>6, <1>7

(* find_suitable_range(): the smallest range which is large enough. *)
LEMMA SizeNearest ==
  ASSUME NEW N, BySizes(size_tree, N, size), \A g \in N : size[g] \in Nat, NEW n \in Nat,
         NEW r, r = Pool!FindSuitable(n)
  PROVE  IF r = -1 THEN \A g \in N : size[g] < n
         ELSE r \in N /\ size[r] >= n /\ \A g \in N : size[g] >= n => size[g] >= size[r]
<1>1. PICK pos : Sound(size_tree, N, pos) /\ Sorted(size, N, pos)
  BY DEF BySizes
<1>0. /\ N \in SUBSET Pg /\ (\A g \in N : pos[g] \in Int /\ g # -1)
      /\ (\A g, h \in N : pos[g] = pos[h] => g = h)
      /\ 1 \in Sd
  BY <1>1, SoundFacts, PageFacts DEF Sd
<1> DEFINE cmp == Pool!BySize(n)
<1>2. r = Pool!Nearest(size_tree, cmp, 1)
  BY DEF Pool!FindSuitable, Pool!Right
<1>3. cmp \in [Pg -> -1..1] /\ \A g \in N : cmp[g] = IF n > size[g] THEN 1 ELSE IF n < size[g] THEN -1 ELSE 0
  <2>1. cmp \in [Pg -> -1..1] /\ \A g \in Pg : cmp[g] = IF n > size[g] THEN 1 ELSE IF n < size[g] THEN -1 ELSE 0
    BY DEF Pool!BySize, Pool!Sign, Pg
  <2> HIDE DEF cmp
  <2> QED BY <2>1, <1>0
<1> HIDE DEF cmp
<1>4. Key(cmp, N, pos)
  <2>1. ASSUME NEW g \in N, NEW h \in N, pos[g] < pos[h] PROVE cmp[g] >= cmp[h]
    <3>1. size[g] <= size[h]
      BY <2>1, <1>1 DEF Sorted
    <3> QED BY <3>1, <1>3
  <2> QED BY <2>1, <1>3 DEF Key
<1>5. NearestIs(N, pos, cmp, 1, r)
  BY <1>0, <1>1, <1>2, <1>4, NearestFound
<1>6. CASE r = -1
  <2>1. \A g \in N : cmp[g] = 1
    BY <1>0, <1>5, <1>6 DEF NearestIs
  <2> QED BY <2>1, <1>3, <1>6
<1>7. CASE r # -1
  <2>1. r \in N
    BY <1>5, <1>7 DEF NearestIs
  <2>2. CASE cmp[r] = 0
    BY <2>1, <2>2, <1>3, <1>7
  <2>3. CASE cmp[r] # 0
    <3>1. cmp[r] = -1 /\ \A g \in N : cmp[g] = IF pos[g] < pos[r] THEN 1 ELSE -1
      BY <1>5, <1>7, <2>3 DEF NearestIs
    <3>2. \A g \in N : size[g] >= n => g = r \/ pos[r] < pos[g]
      BY <3>1, <2>1, <1>0, <1>3
    <3>3. \A g \in N : size[g] >= n => size[g] >= size[r]
      BY <3>2, <2>1, <1>1 DEF Sorted
    <3> QED BY <3>1, <3>3, <2>1, <1>3, <1>7
  <2> QED BY <2>2, <2>3
<1> QED BY <1>6, <1>7

(* avl_init() makes a sound tree. *)
LEMMA EmptySound == Sound(Pool!EmptyTree, {}, [x \in {} |-> 0])
<1> DEFINE T == Pool!EmptyTree
           pos == [x \in {} |-> 0]
           E == [s \in Sd |-> [x \in {} |-> 0]]
           b == [x \in {-1} |-> 0]
<1>0. PoolSize \in Nat /\ PoolSize # -1
  BY PoolHasPages
<1>1. Pool!NoLinks = Blank /\ Slots = (0..PoolSize-1) \cup {PoolSize}
  <2>1. Pool!NoLinks = Blank
    BY DEF Pool!NoLinks, Blank, Links, Pool!Left, Pool!Up, Pool!Right
  <2>2. Slots = (0..PoolSize-1) \cup {PoolSize}
    BY <1>0 DEF Slots
  <2> QED BY <2>1, <2>2
<1>2. Blank \in [Links -> Some] /\ (\A d \in Links : Blank[d] = -1) /\ 0 \in Links /\ -1 \in Some
  BY PoolHasPages DEF Blank, Some, Links
<1> DEFINE L == [h \in Slots |-> Blank]
           Y == [h \in Slots |-> 0]
           B == [h \in Slots |-> IF h = PoolSize THEN 0 ELSE 2]
           e == [s \in Sd |-> -1]
<1> HIDE DEF Blank
<1>3. T = [link |-> L, type |-> Y, bal |-> B, end |-> e, count |-> 0, height |-> 0]
  BY <1>1 DEF Pool!EmptyTree, Pool!Up, Pool!Junk, Pool!Sides, Pool!Left, Pool!Right, Sd
<1>4. /\ L \in [Slots -> [Links -> Some]] /\ Y \in [Slots -> Links] /\ B \in [Slots -> Int] /\ e \in [Sd -> Some]
      /\ \A x \in Slots, d \in Links : L[x][d] = -1
      /\ \A x \in Slots : B[x] \in -1..2
      /\ \A s \in Sd : e[s] = -1
  BY <1>2
<1> HIDE DEF T, L, Y, B, e
<1>5. T \in Trees /\ T.link = L /\ T.type = Y /\ T.bal = B /\ T.end = e /\ T.count = 0 /\ T.height = 0
  BY <1>3, <1>4 DEF Trees
<1>6. L[PoolSize][-1] = -1 /\ L[PoolSize][1] = -1
  <2>1. PoolSize \in Slots /\ 1 \in Links /\ -1 \in Links
    BY PoolHasPages DEF Slots, Links
  <2> QED BY <2>1, <1>4
<1>7. Shape(L, Y, {}, 0, pos, E)
  <2>1. pos \in [{} -> 1..0] /\ E \in [Sd -> [{} -> 1..0]]
    OBVIOUS
  <2> HIDE DEF pos, E
  <2>2. Ranks({}, 0, pos, E)
    BY <2>1 DEF Ranks
  <2>3. Rooted(L, Y, {}, 0, E)
    BY <1>6 DEF Rooted
  <2> QED BY <2>2, <2>3 DEF Shape
<1>8. AvlTree(T, {}, b)
  <2>1. b \in [{} \cup {-1} -> Nat] /\ b[-1] = 0
    OBVIOUS
  <2> HIDE DEF b
  <2> QED BY <2>1, <1>5, <1>6 DEF AvlTree, Hole
<1>9. Ends(T, {}, pos)
  BY <1>4, <1>5 DEF Ends
<1>10. Clean(T, {})
  BY <1>4, <1>5 DEF Clean
<1> HIDE DEF pos, E, b
<1> QED BY <1>5, <1>7, <1>8, <1>9, <1>10 DEF Sound, T, pos

-----------------------------------------------------------------------------
(* Reserving pages. *)

(* The pages where free ranges start, by the sizes in their descriptors. *)
FreeStarts(sz) == {pg \in Pg : sz[pg] # 0}

(* Free ranges are disjoint, do not touch and lie in the extent. *)
GoodSizes(sz, N) ==
    /\ sz \in [Pg -> 0..PoolSize] /\ N = FreeStarts(sz)
    /\ \A g \in N : g + sz[g] <= PoolSize
    /\ \A g, h \in N : g < h => g + sz[g] < h

(* What is handed out is disjoint, from free ranges as well. *)
GoodBusy(bs, sz, N) ==
    /\ bs \subseteq [start : Pg, size : Requests]
    /\ \A x \in bs : x.start + x.size <= PoolSize
    /\ \A x \in bs, g \in N : x.start + x.size <= g \/ g + sz[g] <= x.start
    /\ \A x, y \in bs : x = y \/ x.start + x.size <= y.start \/ y.start + y.size <= x.start

(* The inductive invariant of the page pool: ranges are disjoint, and    *)
(* both trees are sound and index them in their orders.                  *)
PoolGood(sz, st, at, bs) ==
    /\ GoodSizes(sz, FreeStarts(sz)) /\ GoodBusy(bs, sz, FreeStarts(sz))
    /\ BySizes(st, FreeStarts(sz), sz) /\ ByAddrs(at, FreeStarts(sz))

(* The tree of sizes depends on the sizes of its ranges only. *)
LEMMA SameSizes ==
  ASSUME NEW T, NEW N, NEW sz, BySizes(T, N, sz), NEW sz2, \A g \in N : sz2[g] = sz[g]
  PROVE  BySizes(T, N, sz2)
BY DEF BySizes, Sorted

(* The pages are numbered from 0. *)
LEMMA PoolPages == Pool!Cardinality(Pg) = PoolSize /\ Pool!Pages = Pg /\ 0 \in Pg
<1>1. IsFiniteSet(0..PoolSize-1) /\ Cardinality(0..PoolSize-1) = PoolSize
  BY PoolHasPages, FS_Interval
<1>2. Pool!Cardinality(Pg) = Cardinality(Pg)
  BY DEF Pool!Cardinality, Cardinality
<1>3. 0 \in Pg
  BY PoolHasPages DEF Pg
<1>4. Pool!Pages = Pg
  BY DEF Pool!Pages, Pg
<1> QED BY <1>1, <1>2, <1>3, <1>4 DEF Pg

(* add_extent() makes one range of all pages. *)
LEMMA PoolBegins ==
  ASSUME Pool!Init
  PROVE  PoolGood(size, size_tree, addr_tree, busy) /\ FreeStarts(size) = {0} /\ size[0] = PoolSize
<1>1. /\ size = [pg \in Pg |-> IF pg = 0 THEN PoolSize ELSE 0]
      /\ size_tree = Pool!IndexSize(Pool!EmptyTree, 0, PoolSize)
      /\ addr_tree = Pool!Prepend(Pool!InitNode(Pool!EmptyTree, 0), 0)
      /\ busy = {}
  <2>1. Pool!Cardinality(Pool!Pages) = PoolSize /\ Pool!Pages = Pg
    BY PoolPages
  <2> QED BY <2>1 DEF Pool!Init
<1>2. /\ size \in [Pg -> 0..PoolSize] /\ size[0] = PoolSize /\ FreeStarts(size) = {0}
      /\ \A pg \in Pg : pg # 0 => size[pg] = 0
  BY <1>1, PoolPages, PoolHasPages DEF FreeStarts
<1>3. GoodSizes(size, {0})
  BY <1>2, PoolHasPages DEF GoodSizes
<1>4. GoodBusy(busy, size, {0})
  BY <1>1 DEF GoodBusy
<1>5. BySizes(size_tree, {0}, size)
  <2>1. BySizes(Pool!EmptyTree, {}, size)
    BY EmptySound DEF BySizes, Sorted
  <2>2. BySizes(Pool!IndexSize(Pool!EmptyTree, 0, PoolSize), {} \cup {0}, size)
    BY <2>1, <1>2, PoolPages, PoolHasPages, SizeIndexed
  <2>3. {} \cup {0} = {0}
    OBVIOUS
  <2> QED BY <2>2, <2>3, <1>1
<1>6. ByAddrs(addr_tree, {0})
  <2>1. ByAddrs(Pool!EmptyTree, {})
    BY EmptySound DEF ByAddrs, Ascending
  <2>2. ByAddrs(addr_tree, {} \cup {0})
    BY <2>1, <1>1, PoolPages, AddrPrepended
  <2>3. {} \cup {0} = {0}
    OBVIOUS
  <2> QED BY <2>2, <2>3
<1> QED BY <1>2, <1>3, <1>4, <1>5, <1>6 DEF PoolGood

(* What find_suitable_range() finds. *)
Fits(sz, new, n) ==
    /\ new \in FreeStarts(sz) /\ sz[new] >= n
    /\ \A g \in FreeStarts(sz) : sz[g] >= n => sz[g] >= sz[new]

(* The pages which reserve_page_range() leaves of a range. *)
Rest(sz, new, n) == sz[new] - n

(* The sizes after it. *)
Split(sz, new, n) == [sz EXCEPT ![new] = Rest(sz, new, n)]

(* reserve_page_range() keeps ranges disjoint and apart. *)
LEMMA ReservedSets ==
  ASSUME NEW sz, GoodSizes(sz, FreeStarts(sz)), NEW bs, GoodBusy(bs, sz, FreeStarts(sz)),
         NEW n \in Requests, NEW new, Fits(sz, new, n)
  PROVE  /\ GoodSizes(Split(sz, new, n), FreeStarts(Split(sz, new, n)))
         /\ GoodBusy(bs \cup {PageRange(new + Rest(sz, new, n), n)}, Split(sz, new, n),
                     FreeStarts(Split(sz, new, n)))
         /\ FreeStarts(Split(sz, new, n)) =
               IF Rest(sz, new, n) = 0 THEN FreeStarts(sz) \ {new} ELSE FreeStarts(sz)
<1> DEFINE N == FreeStarts(sz)
           rest == Rest(sz, new, n)
           sz2 == Split(sz, new, n)
           N2 == FreeStarts(sz2)
           x == PageRange(new + rest, n)
<1>0. /\ n \in Nat \ {0} /\ N \in SUBSET Pg /\ new \in N /\ new \in Pg /\ Pg \in SUBSET Int
      /\ sz \in [Pg -> 0..PoolSize] /\ sz[new] \in 0..PoolSize /\ sz[new] >= n
      /\ \A g \in N : sz[g] \in 1..PoolSize
  BY PoolConstants, PageFacts DEF GoodSizes, FreeStarts, Fits
<1>1. rest \in Nat /\ rest = sz[new] - n /\ rest < sz[new] /\ rest \in 0..PoolSize
  BY <1>0, PoolHasPages DEF Rest
<1>2. sz2 \in [Pg -> 0..PoolSize] /\ sz2[new] = rest /\ \A g \in Pg : g # new => sz2[g] = sz[g]
  BY <1>0, <1>1 DEF Split
<1>3. N2 = IF rest = 0 THEN N \ {new} ELSE N
  <2>1. \A g \in Pg : g \in N2 <=> sz2[g] # 0
    BY DEF FreeStarts
  <2>2. \A g \in Pg : g \in N <=> sz[g] # 0
    BY DEF FreeStarts
  <2>3. N2 \in SUBSET Pg
    BY DEF FreeStarts
  <2>4. sz[new] # 0
    BY <1>0
  <2> HIDE DEF N2, N, sz2, rest
  <2> QED BY <2>1, <2>2, <2>3, <2>4, <1>0, <1>2
<1>4. /\ N2 \in SUBSET N
      /\ \A g \in N2 : sz2[g] \in Nat /\ sz2[g] <= sz[g]
  BY <1>0, <1>1, <1>2, <1>3
<1>5. /\ \A g \in N : g + sz[g] <= PoolSize
      /\ \A g, h \in N : g < h => g + sz[g] < h
  BY DEF GoodSizes
<1>6. x.start = new + rest /\ x.size = n /\ new + rest \in Pg /\ x.start + x.size = new + sz[new]
  <2>1. x.start = new + rest /\ x.size = n
    BY DEF PageRange
  <2>2. new + sz[new] <= PoolSize /\ new >= 0
    BY <1>0, <1>5 DEF Pg
  <2>3. new \in Int /\ n \in Nat /\ sz[new] \in Int
    BY <1>0
  <2>4. new + rest \in 0..PoolSize-1 /\ (new + rest) + n = new + sz[new]
    <3> HIDE DEF rest, x
    <3> QED BY <2>2, <2>3, <1>0, <1>1, PoolHasPages
  <2> HIDE DEF rest, x
  <2> QED BY <2>1, <2>4 DEF Pg
<1>61. x \in [start : Pg, size : Requests]
  BY <1>6 DEF PageRange
<1> HIDE DEF sz2, N2, rest, x
<1>7. GoodSizes(sz2, N2)
  <2>1. \A g \in N2 : g + sz2[g] <= PoolSize
    BY <1>0, <1>4, <1>5, PoolHasPages
  <2>2. \A g, h \in N2 : g < h => g + sz2[g] < h
    BY <1>0, <1>4, <1>5
  <2> QED BY <2>1, <2>2, <1>2 DEF GoodSizes, N2
<1>8. GoodBusy(bs \cup {x}, sz2, N2)
  <2>1. \A y \in bs : /\ y.start \in Int /\ y.size \in Int /\ y.size > 0
                      /\ y.start + y.size <= PoolSize
                      /\ \A g \in N : y.start + y.size <= g \/ g + sz[g] <= y.start
    <3>1. \A y \in bs : y.start \in Pg /\ y.size \in Requests
      BY DEF GoodBusy
    <3>2. \A y \in bs : y.start \in Int /\ y.size \in Nat \ {0}
      BY <3>1, <1>0, PoolConstants
    <3>3. \A y \in bs : y.size \in Int /\ y.size > 0
      BY <3>2
    <3>4. \A y \in bs : y.start + y.size <= PoolSize
      BY DEF GoodBusy
    <3>5. \A y \in bs, g \in N : y.start + y.size <= g \/ g + sz[g] <= y.start
      BY DEF GoodBusy
    <3> QED BY <3>2, <3>3, <3>4, <3>5
  <2>2. \A y \in bs : y.start + y.size <= x.start \/ x.start + x.size <= y.start
    BY <2>1, <1>0, <1>1, <1>6
  <2>3. x.start + x.size <= PoolSize
    BY <1>0, <1>5, <1>6
  <2>4. \A g \in N2 : x.start + x.size <= g \/ g + sz2[g] <= x.start
    <3>1. new + sz[new] \in Int /\ \A g \in N2 : g \in Int /\ g \in N
      BY <1>0, <1>4
    <3>2. ASSUME NEW g \in N2, g # new PROVE x.start + x.size <= g \/ g + sz2[g] <= x.start
      <4>1. new < g => x.start + x.size <= g
        BY <3>1, <1>0, <1>5, <1>6
      <4>2. g < new => g + sz2[g] <= x.start
        BY <3>1, <3>2, <1>0, <1>1, <1>4, <1>5, <1>6
      <4> QED BY <3>1, <3>2, <4>1, <4>2, <1>0
    <3>3. new + sz2[new] <= x.start
      BY <1>0, <1>1, <1>2, <1>6
    <3> QED BY <3>2, <3>3
  <2>5. \A y \in bs, g \in N2 : y.start + y.size <= g \/ g + sz2[g] <= y.start
    <3> SUFFICES ASSUME NEW y \in bs, NEW g \in N2
                 PROVE  y.start + y.size <= g \/ g + sz2[g] <= y.start
      OBVIOUS
    <3>1. y.start + y.size <= g \/ g + sz[g] <= y.start
      BY <2>1, <1>4
    <3>2. g \in Int /\ sz2[g] \in Nat /\ sz2[g] <= sz[g] /\ sz[g] \in Nat
      BY <1>0, <1>4
    <3> QED BY <2>1, <3>1, <3>2
  <2>6. \A y, z \in bs : y = z \/ y.start + y.size <= z.start \/ z.start + z.size <= y.start
    BY DEF GoodBusy
  <2>7. bs \cup {x} \in SUBSET [start : Pg, size : Requests]
    BY <1>61 DEF GoodBusy
  <2> QED BY <2>1, <2>2, <2>3, <2>4, <2>5, <2>6, <2>7 DEF GoodBusy
<1> QED BY <1>3, <1>7, <1>8 DEF sz2, N2, x, rest

(* reserve_page_range() keeps the invariant. *)
LEMMA PoolReserves ==
  ASSUME PoolGood(size, size_tree, addr_tree, busy), NEW n \in Requests, Pool!Reserve(n)
  PROVE  \E new : /\ Fits(size, new, n) /\ size' = Split(size, new, n)
                  /\ busy' = busy \cup {PageRange(new + Rest(size, new, n), n)}
                  /\ PoolGood(size', size_tree', addr_tree', busy')
<1> DEFINE N == FreeStarts(size)
<1>0. n \in Nat /\ N \in SUBSET Pg /\ \A g \in N : size[g] \in Nat
  BY PoolConstants DEF PoolGood, GoodSizes, FreeStarts
<1>1. PICK new : /\ new = Pool!FindSuitable(n) /\ new # -1
                 /\ Pool!BecomePool(Pool!PoolWithout(new, size[new] - n))
                 /\ busy' = busy \cup {Pool!PageRange(new + size[new] - n, n)}
  BY DEF Pool!Reserve
<1>2. Fits(size, new, n)
  <2>1. new \in N /\ size[new] >= n /\ \A g \in N : size[g] >= n => size[g] >= size[new]
    <3>1. BySizes(size_tree, N, size)
      BY DEF PoolGood
    <3> HIDE DEF N
    <3> QED BY <3>1, <1>0, <1>1, SizeNearest
  <2> QED BY <2>1 DEF Fits
<1> DEFINE rest == Rest(size, new, n)
           sz2 == Split(size, new, n)
           others == Pool!Delete(size_tree, new)
<1>3. /\ GoodSizes(sz2, FreeStarts(sz2))
      /\ GoodBusy(busy \cup {PageRange(new + rest, n)}, sz2, FreeStarts(sz2))
      /\ FreeStarts(sz2) = IF rest = 0 THEN N \ {new} ELSE N
  BY <1>2, ReservedSets DEF PoolGood
<1>4. busy' = busy \cup {PageRange(new + rest, n)}
  <2>1. new \in Int /\ size[new] \in Int
    BY <1>0, <1>2, PageFacts DEF Fits
  <2>2. new + size[new] - n = new + rest
    BY <2>1, <1>0 DEF Rest
  <2> QED BY <1>1, <2>2 DEF Pool!PageRange, PageRange
<1>5. /\ size' = sz2
      /\ size_tree' = IF rest = 0 THEN others ELSE Pool!IndexSize(others, new, rest)
      /\ addr_tree' = IF rest = 0 THEN Pool!Delete(addr_tree, new) ELSE addr_tree
  BY <1>1 DEF Pool!BecomePool, Pool!PoolWithout, Pool!Pool, Split, Rest
<1>6. BySizes(others, N \ {new}, size) /\ new \in N /\ new \in Pg
  BY <1>0, <1>2, SizeDeleted DEF PoolGood, Fits
<1>7. \A g \in N \ {new} : sz2[g] = size[g]
  BY <1>0 DEF Split, PoolGood, GoodSizes
<1>8. rest \in Nat /\ sz2[new] = rest
  <2>1. size[new] \in Nat /\ size[new] >= n
    BY <1>0, <1>2 DEF Fits
  <2> QED BY <2>1, <1>0, <1>6 DEF Rest, Split, PoolGood, GoodSizes
<1> HIDE DEF rest, sz2, others
<1>9. BySizes(size_tree', FreeStarts(sz2), sz2)
  <2>1. CASE rest = 0
    <3>1. BySizes(others, N \ {new}, sz2)
      BY <1>6, <1>7, SameSizes
    <3> QED BY <2>1, <3>1, <1>3, <1>5
  <2>2. CASE rest # 0
    <3>1. BySizes(Pool!IndexSize(others, new, rest), (N \ {new}) \cup {new}, sz2)
      BY <1>0, <1>6, <1>7, <1>8, SizeIndexed
    <3>2. (N \ {new}) \cup {new} = N
      BY <1>6
    <3> QED BY <2>2, <3>1, <3>2, <1>3, <1>5
  <2> QED BY <2>1, <2>2
<1>10. ByAddrs(addr_tree', FreeStarts(sz2))
  <2>1. CASE rest = 0
    <3>1. ByAddrs(Pool!Delete(addr_tree, new), N \ {new})
      BY <1>6, AddrDeleted DEF PoolGood
    <3> QED BY <2>1, <3>1, <1>3, <1>5
  <2>2. CASE rest # 0
    BY <2>2, <1>3, <1>5 DEF PoolGood
  <2> QED BY <2>1, <2>2
<1>11. PoolGood(sz2, size_tree', addr_tree', busy')
  <2> HIDE DEF N
  <2> QED BY <1>3, <1>4, <1>9, <1>10 DEF PoolGood
<1> QED BY <1>2, <1>4, <1>5, <1>11 DEF rest, sz2

-----------------------------------------------------------------------------
(* Releasing pages. *)

(* The freed pages touch the range on their left, ... *)
Linkd(sz, l, pg) == l # -1 /\ l + sz[l] = pg

(* and the one on their right (Mergeable in release_page_range). *)
Mergd(r, pg, n) == r # -1 /\ pg + n = r

(* The range which the freed pages become. *)
Start(sz, l, pg) == IF Linkd(sz, l, pg) THEN l ELSE pg
Finish(sz, r, pg, n) == IF Mergd(r, pg, n) THEN r + sz[r] ELSE pg + n
JoinedSize(sz, l, r, pg, n) == Finish(sz, r, pg, n) - Start(sz, l, pg)
Joined(sz, l, r, pg, n) ==
    [h \in Pg |-> IF h = Start(sz, l, pg) THEN JoinedSize(sz, l, r, pg, n)
                  ELSE IF Mergd(r, pg, n) /\ h = r THEN 0 ELSE sz[h]]
JoinedPages(sz, l, r, pg, n) ==
    (IF Mergd(r, pg, n) THEN FreeStarts(sz) \ {r} ELSE FreeStarts(sz)) \cup {Start(sz, l, pg)}

(* Pages in use are about to be freed, l and r are around them. *)
Freed(sz, bs, b, l, r) ==
    /\ GoodSizes(sz, FreeStarts(sz)) /\ GoodBusy(bs, sz, FreeStarts(sz)) /\ b \in bs
    /\ LeftOf(FreeStarts(sz), b.start, l) /\ RightOf(FreeStarts(sz), b.start, r)

(* What is known of pages in use. *)
LEMMA BusyFacts ==
  ASSUME NEW sz, GoodSizes(sz, FreeStarts(sz)), NEW bs, GoodBusy(bs, sz, FreeStarts(sz)), NEW b \in bs
  PROVE  /\ b.start \in Pg /\ b.start \in Int /\ b.start >= 0 /\ b.size \in Nat /\ b.size > 0 /\ b.size \in Requests
         /\ b.start + b.size <= PoolSize /\ b.start \notin FreeStarts(sz)
         /\ b = PageRange(b.start, b.size)
         /\ \A g \in FreeStarts(sz) : /\ g \in Pg /\ g \in Int /\ g >= 0 /\ sz[g] \in Nat /\ sz[g] > 0 /\ g + sz[g] <= PoolSize
                                      /\ b.start + b.size <= g \/ g + sz[g] <= b.start
         /\ \A x \in bs \ {b} : b.start + b.size <= x.start \/ x.start + x.size <= b.start
<1> DEFINE N == FreeStarts(sz)
<1>1. b \in [start : Pg, size : Requests]
  BY DEF GoodBusy
<1>2. b.start \in Pg /\ b.size \in Requests /\ b = PageRange(b.start, b.size)
  BY <1>1 DEF PageRange
<1>3. \A g \in Pg : g \in Int /\ g >= 0
  BY PoolHasPages DEF Pg
<1>4. b.size \in Nat /\ b.size > 0
  <2>1. b.size \in Nat \ {0}
    BY <1>2, PoolConstants
  <2> QED BY <2>1
<1>5. \A g \in N : g \in Pg /\ sz[g] \in 0..PoolSize /\ sz[g] # 0
  BY DEF GoodSizes, FreeStarts
<1>6. \A g \in N : g \in Pg /\ g \in Int /\ g >= 0 /\ sz[g] \in Nat /\ sz[g] > 0
  BY <1>5, <1>3, PoolHasPages
<1>7. \A g \in N : g + sz[g] <= PoolSize
  BY DEF GoodSizes
<1>8. b.start + b.size <= PoolSize /\ \A g \in N : b.start + b.size <= g \/ g + sz[g] <= b.start
  BY DEF GoodBusy
<1>9. \A x \in bs \ {b} : b.start + b.size <= x.start \/ x.start + x.size <= b.start
  BY DEF GoodBusy
<1>10. b.start \notin N
  <2>1. b.start \in Int
    BY <1>2, <1>3
  <2> HIDE DEF N
  <2> QED BY <2>1, <1>4, <1>6, <1>8
<1> HIDE DEF N
<1> QED BY <1>2, <1>3, <1>4, <1>6, <1>7, <1>8, <1>9, <1>10 DEF N

(* Where the new range lies among those which stay free. *)
LEMMA FreedBounds ==
  ASSUME NEW sz, NEW bs, NEW b, NEW l, NEW r, Freed(sz, bs, b, l, r),
         NEW N, N = FreeStarts(sz), NEW s, s = Start(sz, l, b.start),
         NEW f, f = Finish(sz, r, b.start, b.size)
  PROVE  /\ s \in Pg /\ s \in Int /\ s >= 0 /\ f \in Int /\ s <= b.start /\ b.start + b.size <= f /\ f <= PoolSize
         /\ \A g \in N : g < s => g + sz[g] < s
         /\ \A g \in N : s < g /\ ~(Mergd(r, b.start, b.size) /\ g = r) => f < g
         /\ \A g \in N : g = s => Linkd(sz, l, b.start) /\ g = l
         /\ \A x \in bs \ {b} : x.start + x.size <= s \/ f <= x.start
         /\ Mergd(r, b.start, b.size) => s < r /\ r \in N
<1> DEFINE pg == b.start
           n == b.size
<1>1. /\ pg \in Pg /\ pg \in Int /\ pg >= 0 /\ n \in Nat /\ n > 0 /\ pg + n <= PoolSize /\ pg \notin N
      /\ \A g \in N : /\ g \in Pg /\ g \in Int /\ g >= 0 /\ sz[g] \in Nat /\ sz[g] > 0 /\ g + sz[g] <= PoolSize
                      /\ pg + n <= g \/ g + sz[g] <= pg
      /\ \A x \in bs \ {b} : pg + n <= x.start \/ x.start + x.size <= pg
  BY BusyFacts DEF Freed
<1>2. LeftOf(N, pg, l) /\ RightOf(N, pg, r)
  BY DEF Freed
<1>3. \A g, h \in N : g < h => g + sz[g] < h
  BY DEF Freed, GoodSizes
<1>4. \A x \in bs \ {b} : /\ x.start \in Int /\ x.size \in Int /\ x.size > 0
                          /\ \A g \in N : x.start + x.size <= g \/ g + sz[g] <= x.start
  BY BusyFacts DEF Freed
<1>5. /\ s = IF Linkd(sz, l, pg) THEN l ELSE pg
      /\ f = IF Mergd(r, pg, n) THEN r + sz[r] ELSE pg + n
  BY DEF Start, Finish
<1>6. /\ Linkd(sz, l, pg) => l \in N /\ l + sz[l] = pg /\ l < pg
      /\ Mergd(r, pg, n) => r \in N /\ r = pg + n /\ pg < r
  BY <1>2 DEF Linkd, Mergd, LeftOf, RightOf
<1> HIDE DEF pg, n
<1>7. s \in Pg /\ s \in Int /\ s >= 0 /\ s <= pg
  BY <1>1, <1>5, <1>6
<1>8. f \in Int /\ pg + n <= f /\ f <= PoolSize
  <2>1. CASE Mergd(r, pg, n)
    <3>1. r \in Int /\ sz[r] \in Nat /\ r + sz[r] <= PoolSize
      BY <2>1, <1>1, <1>6
    <3> QED BY <2>1, <3>1, <1>1, <1>5, <1>6
  <2>2. CASE ~Mergd(r, pg, n)
    BY <2>2, <1>1, <1>5
  <2> QED BY <2>1, <2>2
<1>9. ASSUME NEW g \in N, g < s PROVE g + sz[g] < s
  <2>1. CASE Linkd(sz, l, pg)
    BY <2>1, <1>3, <1>5, <1>6, <1>9
  <2>2. CASE ~Linkd(sz, l, pg)
    <3>1. s = pg /\ g < pg
      BY <2>2, <1>5, <1>9
    <3>2. l # -1 /\ l \in N /\ l < pg /\ g <= l
      BY <1>1, <1>2, <3>1 DEF LeftOf
    <3>3. l + sz[l] < pg
      <4>1. l + sz[l] # pg
        BY <2>2, <3>2 DEF Linkd
      <4>2. l \in Int /\ sz[l] \in Nat /\ (pg + n <= l \/ l + sz[l] <= pg)
        BY <1>1, <3>2
      <4> QED BY <4>1, <4>2, <3>2, <1>1
    <3>4. g # l => g + sz[g] < l
      BY <1>1, <1>3, <3>2
    <3>5. g \in Int /\ sz[g] \in Nat /\ l \in Int /\ sz[l] \in Nat
      BY <1>1, <3>2
    <3> QED BY <3>1, <3>2, <3>3, <3>4, <3>5, <1>1
  <2> QED BY <2>1, <2>2
<1>10. ASSUME NEW g \in N, s < g, ~(Mergd(r, pg, n) /\ g = r) PROVE f < g
  <2>1. pg < g
    <3>1. g \in Int /\ g # pg
      BY <1>1
    <3>2. CASE Linkd(sz, l, pg)
      <4>1. l # -1 /\ l = s
        BY <3>2, <1>5 DEF Linkd
      <4> QED BY <4>1, <1>2, <1>7, <1>10, <3>1 DEF LeftOf
    <3> QED BY <3>1, <3>2, <1>5, <1>10
  <2>2. r # -1 /\ r \in N /\ pg < r /\ r <= g
    BY <2>1, <1>1, <1>2 DEF RightOf
  <2>3. /\ g \in Int /\ sz[g] \in Nat /\ r \in Int /\ sz[r] \in Nat
        /\ pg + n <= r \/ r + sz[r] <= pg
    BY <1>1, <2>2
  <2>4. CASE Mergd(r, pg, n)
    <3>1. r < g
      BY <2>2, <2>3, <2>4, <1>10
    <3>2. r + sz[r] < g
      BY <1>3, <2>2, <3>1
    <3> QED BY <3>2, <2>4, <1>5
  <2>5. CASE ~Mergd(r, pg, n)
    <3>1. pg + n # r
      BY <2>2, <2>5 DEF Mergd
    <3>2. f = pg + n
      BY <2>5, <1>5
    <3> QED BY <2>2, <2>3, <3>1, <3>2, <1>1
  <2> QED BY <2>4, <2>5
<1>11. \A g \in N : g = s => Linkd(sz, l, pg) /\ g = l
  BY <1>1, <1>5
<1>12. ASSUME NEW x \in bs \ {b} PROVE x.start + x.size <= s \/ f <= x.start
  <2> DEFINE u == x.start
             w == x.size
  <2>1. u \in Int /\ w \in Int /\ w > 0 /\ (pg + n <= u \/ u + w <= pg)
    BY <1>1, <1>4
  <2>2. \A g \in N : u + w <= g \/ g + sz[g] <= u
    BY <1>4
  <2> HIDE DEF u, w
  <2>3. u + w <= pg => u + w <= s
    <3>1. CASE Linkd(sz, l, pg)
      <4>1. l \in N /\ l + sz[l] = pg /\ s = l
        BY <3>1, <1>5, <1>6
      <4>2. u + w <= l \/ pg <= u
        BY <4>1, <2>2
      <4> QED BY <4>1, <4>2, <2>1, <1>1
    <3> QED BY <3>1, <1>5
  <2>4. pg + n <= u => f <= u
    <3>1. CASE Mergd(r, pg, n)
      <4>1. r \in N /\ pg + n = r /\ f = r + sz[r]
        BY <3>1, <1>5, <1>6
      <4>2. u + w <= r \/ r + sz[r] <= u
        BY <4>1, <2>2
      <4> QED BY <4>1, <4>2, <2>1, <1>1, <1>8
    <3> QED BY <3>1, <1>5
  <2>5. u + w <= s \/ f <= u
    BY <2>1, <2>3, <2>4
  <2> QED BY <2>5 DEF u, w
<1>13. Mergd(r, pg, n) => s < r /\ r \in N
  BY <1>1, <1>6, <1>7
<1> QED BY <1>1, <1>7, <1>8, <1>9, <1>10, <1>11, <1>12, <1>13 DEF pg, n

(* What release_page_range() should make of sizes and ranges. *)
JoinedIs(sz, bs, b, l, r, sz2) ==
    /\ GoodSizes(sz2, FreeStarts(sz2)) /\ GoodBusy(bs \ {b}, sz2, FreeStarts(sz2))
    /\ FreeStarts(sz2) = JoinedPages(sz, l, r, b.start, b.size)
    /\ sz2[Start(sz, l, b.start)] = JoinedSize(sz, l, r, b.start, b.size)
    /\ JoinedSize(sz, l, r, b.start, b.size) \in Nat
    /\ \A g \in FreeStarts(sz2) \ {Start(sz, l, b.start)} : g \in FreeStarts(sz) /\ sz2[g] = sz[g]

(* It does: ranges stay disjoint and apart. *)
LEMMA JoinedSets ==
  ASSUME NEW sz, NEW bs, NEW b, NEW l, NEW r, Freed(sz, bs, b, l, r),
         NEW sz2, sz2 = Joined(sz, l, r, b.start, b.size)
  PROVE  JoinedIs(sz, bs, b, l, r, sz2)
<1> DEFINE N == FreeStarts(sz)
           N2 == FreeStarts(sz2)
           pg == b.start
           n == b.size
           s == Start(sz, l, pg)
           f == Finish(sz, r, pg, n)
           m == Mergd(r, pg, n)
<1>1. /\ s \in Pg /\ s \in Int /\ s >= 0 /\ f \in Int /\ s <= pg /\ pg + n <= f /\ f <= PoolSize
      /\ \A g \in N : g < s => g + sz[g] < s
      /\ \A g \in N : s < g /\ ~(m /\ g = r) => f < g
      /\ \A x \in bs \ {b} : x.start + x.size <= s \/ f <= x.start
      /\ m => s < r /\ r \in N
  BY FreedBounds
<1>2. /\ pg \in Int /\ n \in Nat /\ n > 0
      /\ \A g \in N : g \in Pg /\ g \in Int /\ sz[g] \in Nat /\ sz[g] > 0 /\ g + sz[g] <= PoolSize
  BY BusyFacts DEF Freed
<1>3. /\ sz2 = [h \in Pg |-> IF h = s THEN f - s ELSE IF m /\ h = r THEN 0 ELSE sz[h]]
      /\ JoinedSize(sz, l, r, pg, n) = f - s
      /\ JoinedPages(sz, l, r, pg, n) = (IF m THEN N \ {r} ELSE N) \cup {s}
  BY DEF Joined, JoinedSize, JoinedPages
<1>4. N = {g \in Pg : sz[g] # 0} /\ N2 = {g \in Pg : sz2[g] # 0} /\ sz \in [Pg -> 0..PoolSize]
  BY DEF FreeStarts, Freed, GoodSizes
<1>5. \A g, h \in N : g < h => g + sz[g] < h
  BY DEF Freed, GoodSizes
<1>6. \A x \in bs : /\ x \in [start : Pg, size : Requests] /\ x.start + x.size <= PoolSize
                    /\ \A g \in N : x.start + x.size <= g \/ g + sz[g] <= x.start
                    /\ \A y \in bs : x = y \/ x.start + x.size <= y.start \/ y.start + y.size <= x.start
  BY DEF Freed, GoodBusy
<1> HIDE DEF N, N2, pg, n, s, f, m
<1>7. f - s \in Nat /\ f - s > 0 /\ f - s \in 0..PoolSize
  BY <1>1, <1>2, PoolHasPages
<1>8. /\ sz2 \in [Pg -> 0..PoolSize] /\ sz2[s] = f - s
      /\ \A h \in Pg : h # s => sz2[h] = IF m /\ h = r THEN 0 ELSE sz[h]
  <2>1. 0 \in 0..PoolSize
    BY PoolHasPages
  <2> QED BY <2>1, <1>1, <1>3, <1>4, <1>7
<1>9. N2 = (IF m THEN N \ {r} ELSE N) \cup {s}
  <2>1. s \in N2
    BY <1>1, <1>4, <1>7, <1>8
  <2>2. ASSUME NEW h \in Pg, h # s PROVE h \in N2 <=> (h \in N /\ ~(m /\ h = r))
    BY <2>2, <1>4, <1>8
  <2>3. m => s # r
    BY <1>1, <1>2
  <2>4. N \in SUBSET Pg /\ N2 \in SUBSET Pg
    BY <1>4
  <2> QED BY <2>1, <2>2, <2>3, <2>4, <1>1
<1>10. \A g \in N2 \ {s} : g \in N /\ sz2[g] = sz[g] /\ ~(m /\ g = r)
  BY <1>2, <1>8, <1>9
<1>11. \A g \in N2 \ {s} : g \in Int /\ sz2[g] \in Nat /\ g + sz2[g] <= PoolSize
  BY <1>2, <1>10
<1>12. GoodSizes(sz2, N2)
  <2>1. s + (f - s) = f
    BY <1>1
  <2>2. \A g \in N2 : g + sz2[g] <= PoolSize
    BY <2>1, <1>1, <1>8, <1>11
  <2>3. ASSUME NEW g \in N2, NEW h \in N2, g < h PROVE g + sz2[g] < h
    <3>1. CASE g = s
      <4>1. h \in N2 \ {s}
        BY <3>1, <2>3, <1>1
      <4> QED BY <4>1, <3>1, <2>1, <2>3, <1>1, <1>8, <1>10
    <3>2. CASE g # s /\ h = s
      BY <3>2, <2>3, <1>1, <1>10
    <3>3. CASE g # s /\ h # s
      BY <3>3, <2>3, <1>5, <1>10
    <3> QED BY <3>1, <3>2, <3>3
  <2> QED BY <2>2, <2>3, <1>8 DEF GoodSizes, N2
<1>13. GoodBusy(bs \ {b}, sz2, N2)
  <2>1. ASSUME NEW x \in bs \ {b}, NEW g \in N2
        PROVE  x.start + x.size <= g \/ g + sz2[g] <= x.start
    <3>1. s + (f - s) = f
      BY <1>1
    <3>2. CASE g = s
      BY <3>1, <3>2, <1>1, <1>8
    <3>3. CASE g # s
      BY <3>3, <1>6, <1>10
    <3> QED BY <3>2, <3>3
  <2> QED BY <2>1, <1>6 DEF GoodBusy
<1> QED BY <1>3, <1>7, <1>8, <1>9, <1>10, <1>12, <1>13 DEF N, N2, pg, n, s, f, m, JoinedIs

(* The ranges which release_page_range() looks up around the freed       *)
(* pages.                                                                *)
LeftRange(pg) == Pool!Nearest(addr_tree, Pool!ByAddr(pg), -1)
RightRange(pg) ==
    IF Linkd(size, LeftRange(pg), pg) THEN Pool!Inorder(addr_tree, LeftRange(pg), 1)
    ELSE Pool!Nearest(addr_tree, Pool!ByAddr(pg), 1)

(* The tree of sizes without a range which is merged, if it is. *)
WithoutLeft(T, k, l) == IF k THEN Pool!Delete(T, l) ELSE T

(* The five ways to update the tree of addresses. *)
JoinedAddrs(T, k, m, l, r, s) ==
    IF m /\ k THEN Pool!Delete(T, r)
    ELSE IF m THEN Pool!Replace(T, r, s)
    ELSE IF k THEN T
    ELSE IF l # -1 THEN Pool!Insert(Pool!InitNode(T, s), s, Pool!ByAddr(s))
    ELSE Pool!Prepend(Pool!InitNode(T, s), s)

(* release_page_range(), in these words. *)
LEMMA ReleaseSteps ==
  ASSUME NEW pg, NEW n, Pool!BecomePool(Pool!PoolWith(pg, n)),
         NEW l, l = LeftRange(pg), NEW r, r = RightRange(pg),
         NEW k, k = Linkd(size, l, pg), NEW s, s = Start(size, l, pg),
         NEW m, m = Mergd(r, pg, n), NEW w, w = JoinedSize(size, l, r, pg, n),
         pg \in Int, n \in Int, k => l \in Int /\ size[l] \in Int,
         m => r \in Int /\ size[r] \in Int
  PROVE  /\ size' = Joined(size, l, r, pg, n)
         /\ size_tree' = Pool!IndexSize(WithoutLeft(WithoutLeft(size_tree, k, l), m, r), s, w)
         /\ addr_tree' = JoinedAddrs(addr_tree, k, m, l, r, s)
<1> DEFINE size1 == IF k THEN size[l] + n ELSE n
           m2 == r # -1 /\ s + size1 = r
           w2 == IF m2 THEN size1 + size[r] ELSE size1
<1>1. k \in BOOLEAN /\ m \in BOOLEAN
  BY DEF Linkd, Mergd
<1>2. s = IF k THEN l ELSE pg
  BY DEF Start
<1>3. s + size1 = pg + n /\ size1 \in Int /\ s \in Int
  <2>1. k => l + size[l] = pg
    BY DEF Linkd
  <2> QED BY <2>1, <1>1, <1>2
<1>4. m2 <=> m
  BY <1>3 DEF Mergd
<1>5. w2 = w
  <2>1. w = (IF m THEN r + size[r] ELSE pg + n) - s
    BY DEF JoinedSize, Finish, Start
  <2>2. m => r = pg + n
    BY Zenon DEF Mergd
  <2> HIDE DEF size1, m2
  <2> QED BY <2>1, <2>2, <1>1, <1>3, <1>4
<1>6. /\ size' = [h \in Pg |-> IF h = s THEN w2 ELSE IF m2 /\ h = r THEN 0 ELSE size[h]]
      /\ size_tree' = Pool!IndexSize(WithoutLeft(WithoutLeft(size_tree, k, l), m2, r), s, w2)
      /\ addr_tree' = JoinedAddrs(addr_tree, k, m2, l, r, s)
  BY PoolPages, <1>2, Zenon
  DEF Pool!BecomePool, Pool!PoolWith, Pool!Pool, Pool!Mergeable, Linkd, LeftRange, RightRange,
      WithoutLeft, JoinedAddrs, Pool!Left, Pool!Right
<1> HIDE DEF m2, w2
<1>7. m2 = m
  BY <1>1, <1>4, <1>6 DEF m2
<1> QED BY <1>5, <1>6, <1>7 DEF Joined

(* release_page_range() keeps the invariant, whichever neighbours the    *)
(* freed pages touch.                                                    *)
LEMMA PoolReleases ==
  ASSUME PoolGood(size, size_tree, addr_tree, busy), NEW b \in busy, Pool!Release(b)
  PROVE  \E l, r : /\ Freed(size, busy, b, l, r)
                   /\ size' = Joined(size, l, r, b.start, b.size)
                   /\ busy' = busy \ {b}
                   /\ PoolGood(size', size_tree', addr_tree', busy')
<1> DEFINE N == FreeStarts(size)
           pg == b.start
           n == b.size
           l == LeftRange(pg)
           r == RightRange(pg)
           k == Linkd(size, l, pg)
           m == Mergd(r, pg, n)
           s == Start(size, l, pg)
           w == JoinedSize(size, l, r, pg, n)
           T1 == WithoutLeft(size_tree, k, l)
           T2 == WithoutLeft(T1, m, r)
           N1 == IF k THEN N \ {l} ELSE N
           N2 == IF m THEN N1 \ {r} ELSE N1
           sz2 == Joined(size, l, r, pg, n)
<1>1. /\ GoodSizes(size, N) /\ GoodBusy(busy, size, N)
      /\ BySizes(size_tree, N, size) /\ ByAddrs(addr_tree, N)
  BY DEF PoolGood
<1>2. /\ pg \in Pg /\ pg \in Int /\ n \in Nat /\ pg \notin N
      /\ \A g \in N : g \in Pg /\ g \in Int /\ size[g] \in Nat /\ size[g] > 0
  BY <1>1, BusyFacts
<1>3. LeftOf(N, pg, l)
  <2> HIDE DEF N, pg
  <2> QED BY <1>1, <1>2, AddrNearest DEF LeftRange
<1>4. k => l \in N /\ l < pg
  BY <1>3 DEF Linkd, LeftOf
<1>5. RightOf(N, pg, r)
  <2>1. CASE k
    <3>1. r = Pool!Inorder(addr_tree, l, 1)
      BY <2>1 DEF RightRange
    <3> HIDE DEF N, pg, l, r, k
    <3> QED BY <2>1, <3>1, <1>1, <1>2, <1>3, <1>4, AddrNext
  <2>2. CASE ~k
    <3>1. r = Pool!Nearest(addr_tree, Pool!ByAddr(pg), 1)
      BY <2>2 DEF RightRange
    <3> HIDE DEF N, pg, l, r, k
    <3> QED BY <3>1, <1>1, <1>2, AddrNearest
  <2> QED BY <2>1, <2>2
<1>6. m => r \in N /\ pg < r /\ pg + n = r
  BY <1>5 DEF Mergd, RightOf
<1>7. Freed(size, busy, b, l, r)
  BY <1>1, <1>3, <1>5 DEF Freed
<1>8. Pool!BecomePool(Pool!PoolWith(pg, n)) /\ busy' = busy \ {b}
  BY DEF Pool!Release
<1>9. size' = sz2 /\ size_tree' = Pool!IndexSize(T2, s, w) /\ addr_tree' = JoinedAddrs(addr_tree, k, m, l, r, s)
  <2>1. pg \in Int /\ n \in Int /\ (k => l \in Int /\ size[l] \in Int) /\ (m => r \in Int /\ size[r] \in Int)
    <3>1. \A g \in N : g \in Int /\ size[g] \in Int
      BY <1>2
    <3>2. n \in Int
      BY <1>2
    <3> HIDE DEF N, pg, l, r, k, m, n
    <3> QED BY <3>1, <3>2, <1>2, <1>4, <1>6
  <2> HIDE DEF N, pg, l, r, k, m, n
  <2> QED BY <2>1, <1>8, ReleaseSteps DEF l, r, k, m
<1>10. /\ GoodSizes(sz2, FreeStarts(sz2)) /\ GoodBusy(busy \ {b}, sz2, FreeStarts(sz2))
       /\ FreeStarts(sz2) = JoinedPages(size, l, r, pg, n)
       /\ sz2[s] = w /\ w \in Nat
       /\ \A g \in FreeStarts(sz2) \ {s} : g \in N /\ sz2[g] = size[g]
  <2>1. sz2 = Joined(size, l, r, b.start, b.size)
    OBVIOUS
  <2> HIDE DEF l, r, sz2
  <2>2. JoinedIs(size, busy, b, l, r, sz2)
    BY <2>1, <1>7, JoinedSets
  <2> QED BY <2>2 DEF JoinedIs
<1>11. /\ FreeStarts(sz2) = (IF m THEN N \ {r} ELSE N) \cup {s}
       /\ s = IF k THEN l ELSE pg
  BY <1>10 DEF JoinedPages, Start
<1>12. m /\ k => r # l
  BY <1>2, <1>4, <1>6
<1>13. s \in Pg /\ (m => r # s) /\ s \notin N2 /\ N2 \cup {s} = FreeStarts(sz2) /\ N2 \in SUBSET N
  <2> HIDE DEF N, pg, l, r, k, m, n, s, sz2
  <2>1. s \in Pg /\ (m => r # s)
    BY <1>2, <1>4, <1>6, <1>11
  <2>2. s \notin N2 /\ N2 \in SUBSET N
    BY <1>2, <1>11
  <2>3. N2 \cup {s} = (IF m THEN N \ {r} ELSE N) \cup {s}
    BY <2>1, <1>4, <1>11
  <2> QED BY <2>1, <2>2, <2>3, <1>11
<1> DEFINE S2 == FreeStarts(sz2)
<1> HIDE DEF l, r, k, m, s, w, T1, T2, N1, N2, sz2, N, S2, pg, n
<1>14. BySizes(T2, N2, size)
  <2>1. BySizes(T1, N1, size)
    BY <1>1, <1>4, SizeDeleted DEF T1, N1, WithoutLeft
  <2>2. m => r \in N1
    BY <1>6, <1>12 DEF N1
  <2> QED BY <2>1, <2>2, SizeDeleted DEF T2, N2, WithoutLeft
<1>15. BySizes(size_tree', S2, sz2)
  <2>1. \A g \in N2 : size[g] \in Nat /\ sz2[g] = size[g]
    BY <1>2, <1>10, <1>13 DEF S2
  <2>2. BySizes(Pool!IndexSize(T2, s, w), N2 \cup {s}, sz2)
    BY <2>1, <1>10, <1>13, <1>14, SizeIndexed
  <2> QED BY <2>2, <1>9, <1>13 DEF S2
<1>16. ByAddrs(addr_tree', S2)
  <2>1. CASE m /\ k
    <3>1. addr_tree' = Pool!Delete(addr_tree, r) /\ S2 = N \ {r}
      BY <2>1, <1>4, <1>9, <1>11, <1>12 DEF JoinedAddrs, S2
    <3> QED BY <2>1, <3>1, <1>1, <1>6, AddrDeleted
  <2>2. CASE m /\ ~k
    <3>1. addr_tree' = Pool!Replace(addr_tree, r, pg) /\ S2 = (N \ {r}) \cup {pg}
      BY <2>2, <1>9, <1>11 DEF JoinedAddrs, S2
    <3>2. \A g \in N : g # r => (g < pg <=> g < r)
      <4>1. \A g \in N : g < pg \/ r <= g
        BY <2>2, <1>6, <1>5 DEF RightOf, Mergd
      <4>2. \A g \in N : g \in Int
        BY <1>2
      <4> QED BY <4>1, <4>2, <1>2, <1>6, <2>2
    <3> QED BY <2>2, <3>1, <3>2, <1>1, <1>2, <1>6, AddrReplaced
  <2>3. CASE ~m /\ k
    <3>1. addr_tree' = addr_tree /\ S2 = N
      BY <2>3, <1>4, <1>9, <1>11 DEF JoinedAddrs, S2
    <3> QED BY <3>1, <1>1
  <2>4. CASE ~m /\ ~k /\ l # -1
    <3>1. addr_tree' = Pool!Insert(Pool!InitNode(addr_tree, pg), pg, Pool!ByAddr(pg)) /\ S2 = N \cup {pg}
      BY <2>4, <1>9, <1>11 DEF JoinedAddrs, S2
    <3> QED BY <3>1, <1>1, <1>2, AddrInserted
  <2>5. CASE ~m /\ ~k /\ l = -1
    <3>1. addr_tree' = Pool!Prepend(Pool!InitNode(addr_tree, pg), pg) /\ S2 = N \cup {pg}
      BY <2>5, <1>9, <1>11 DEF JoinedAddrs, S2
    <3>2. \A g \in N : pg < g
      BY <2>5, <1>3 DEF LeftOf
    <3> QED BY <3>1, <3>2, <1>1, <1>2, AddrPrepended
  <2>6. k \in BOOLEAN /\ m \in BOOLEAN
    BY DEF k, m, Linkd, Mergd
  <2> QED BY <2>1, <2>2, <2>3, <2>4, <2>5, <2>6
<1>17. PoolGood(sz2, size_tree', addr_tree', busy')
  BY <1>8, <1>10, <1>15, <1>16 DEF PoolGood, S2
<1>18. Freed(size, busy, b, l, r) /\ size' = Joined(size, l, r, b.start, b.size)
  BY <1>7, <1>9 DEF pg, n, sz2
<1>19. PoolGood(size', size_tree', addr_tree', busy')
  BY <1>9, <1>17
<1> QED BY <1>8, <1>18, <1>19

-----------------------------------------------------------------------------
(* The ranges as a set. *)

(* The free ranges, as a set. *)
RangesOf(sz) == {PageRange(g, sz[g]) : g \in FreeStarts(sz)}

(* What a range is. *)
LEMMA RangeFields == \A a, c : PageRange(a, c).start = a /\ PageRange(a, c).size = c
BY DEF PageRange

(* To the set of ranges, reserve_page_range() splits the best one. *)
LEMMA ReservedRanges ==
  ASSUME NEW sz, GoodSizes(sz, FreeStarts(sz)), NEW n \in Requests, NEW new, Fits(sz, new, n),
         NEW sz2, sz2 = Split(sz, new, n)
  PROVE  \E f \in Suitable(RangesOf(sz), n) :
            /\ RangesOf(sz2) = Reserved(RangesOf(sz), f, n)
            /\ ReservedPage(f, n) = new + Rest(sz, new, n)
<1> DEFINE N == FreeStarts(sz)
           N2 == FreeStarts(sz2)
           f == PageRange(new, sz[new])
           R == RangesOf(sz)
           rest == Rest(sz, new, n)
<1>1. /\ N \in SUBSET Pg /\ new \in N /\ sz[new] >= n /\ n \in Int
      /\ \A g \in N : g \in Int /\ sz[g] \in Int
      /\ \A g \in N : sz[g] >= n => sz[g] >= sz[new]
  BY PoolConstants, PageFacts DEF GoodSizes, FreeStarts, Fits
<1>2. f.start = new /\ f.size = sz[new] /\ \A g : PageRange(g, sz[g]).start = g /\ PageRange(g, sz[g]).size = sz[g]
  BY RangeFields
<1>3. \A h \in R : \E g \in N : h = PageRange(g, sz[g])
  BY DEF RangesOf
<1>4. f \in R
  BY <1>1 DEF RangesOf
<1> HIDE DEF f, N
<1>5. f \in Suitable(R, n)
  <2>1. f.size >= n
    BY <1>1, <1>2
  <2>2. \A h \in R : h.size >= n => h.size >= f.size
    <3> SUFFICES ASSUME NEW h \in R, h.size >= n PROVE h.size >= f.size
      OBVIOUS
    <3>1. PICK g \in N : h = PageRange(g, sz[g])
      BY <1>3
    <3> QED BY <3>1, <1>1, <1>2
  <2> QED BY <2>1, <2>2, <1>4 DEF Suitable
<1>6. rest = sz[new] - n /\ (rest = 0 <=> sz[new] = n)
  <2>1. new \in N
    BY <1>1
  <2> QED BY <2>1, <1>1 DEF Rest
<1> HIDE DEF rest
<1>7. N2 = (IF rest = 0 THEN N \ {new} ELSE N) /\ sz2[new] = rest /\ \A g \in N \ {new} : sz2[g] = sz[g]
  <2>1. sz2 = [sz EXCEPT ![new] = rest] /\ sz \in [Pg -> 0..PoolSize]
    BY DEF Split, rest, GoodSizes
  <2>2. N = {g \in Pg : sz[g] # 0} /\ N2 = {g \in Pg : sz2[g] # 0}
    BY DEF FreeStarts, N
  <2> HIDE DEF N2
  <2>3. new \in Pg
    BY <1>1
  <2> QED BY <2>1, <2>2, <2>3, <1>1
<1>8. RangesOf(sz2) = Reserved(R, f, n)
  <2>1. R \ {f} = {PageRange(g, sz[g]) : g \in N \ {new}}
    <3>1. R = {PageRange(g, sz[g]) : g \in N}
      BY DEF RangesOf, N
    <3>2. \A g \in N : PageRange(g, sz[g]) = f <=> g = new
      BY <1>2 DEF f
    <3> HIDE DEF R
    <3> QED BY <3>1, <3>2
  <2>2. {PageRange(g, sz2[g]) : g \in N \ {new}} = {PageRange(g, sz[g]) : g \in N \ {new}}
    BY <1>7
  <2>3. RangesOf(sz2) = {PageRange(g, sz2[g]) : g \in N2}
    BY DEF RangesOf
  <2>4. Reserved(R, f, n) = (R \ {f}) \cup (IF rest = 0 THEN {} ELSE {PageRange(new, rest)})
    BY <1>2, <1>6 DEF Reserved
  <2>5. RangesOf(sz2) = {PageRange(g, sz2[g]) : g \in N \ {new}} \cup (IF rest = 0 THEN {} ELSE {PageRange(new, rest)})
    <3> HIDE DEF N2
    <3>1. CASE rest = 0
      BY <3>1, <2>3, <1>7
    <3>2. CASE rest # 0
      <4>1. N2 = (N \ {new}) \cup {new} /\ sz2[new] = rest
        BY <3>2, <1>1, <1>7
      <4> QED BY <4>1, <3>2, <2>3
    <3> QED BY <3>1, <3>2
  <2> QED BY <2>1, <2>2, <2>4, <2>5
<1>9. ReservedPage(f, n) = new + rest
  <2>1. new \in Int /\ sz[new] \in Int
    BY <1>1
  <2> QED BY <2>1, <1>1, <1>2, <1>6 DEF ReservedPage
<1> QED BY <1>5, <1>8, <1>9 DEF rest

(* The ranges which touch the freed pages are those looked up. *)
LEMMA Touching ==
  ASSUME NEW sz, NEW bs, NEW b, NEW l, NEW r, Freed(sz, bs, b, l, r), NEW g \in FreeStarts(sz)
  PROVE  /\ g + sz[g] = b.start <=> Linkd(sz, l, b.start) /\ g = l
         /\ g = b.start + b.size <=> Mergd(r, b.start, b.size) /\ g = r
<1> DEFINE N == FreeStarts(sz)
           pg == b.start
           n == b.size
<1>1. /\ pg \in Int /\ pg >= 0 /\ n \in Nat /\ n > 0 /\ pg \notin N
      /\ \A h \in N : h \in Int /\ h >= 0 /\ sz[h] \in Nat /\ sz[h] > 0 /\ (pg + n <= h \/ h + sz[h] <= pg)
  BY BusyFacts DEF Freed
<1>2. LeftOf(N, pg, l) /\ RightOf(N, pg, r)
  BY DEF Freed
<1>3. \A h, i \in N : h < i => h + sz[h] < i
  BY DEF Freed, GoodSizes
<1>4. g \in N
  OBVIOUS
<1> HIDE DEF N, pg, n
<1>5. g + sz[g] = pg <=> Linkd(sz, l, pg) /\ g = l
  <2>1. ASSUME g + sz[g] = pg PROVE Linkd(sz, l, pg) /\ g = l
    <3>1. g < pg
      BY <2>1, <1>1, <1>4
    <3>2. l \in N /\ l < pg /\ g <= l /\ l # -1
      BY <3>1, <1>1, <1>2, <1>4 DEF LeftOf
    <3>3. g = l
      <4>1. g < l => g + sz[g] < l
        BY <3>2, <1>3, <1>4
      <4>2. g \in Int /\ l \in Int
        BY <3>2, <1>1, <1>4
      <4> QED BY <4>1, <4>2, <3>2, <2>1, <1>1
    <3> QED BY <3>2, <3>3, <2>1 DEF Linkd
  <2> QED BY <2>1 DEF Linkd
<1>6. g = pg + n <=> Mergd(r, pg, n) /\ g = r
  <2>1. ASSUME g = pg + n PROVE Mergd(r, pg, n) /\ g = r
    <3>1. pg < g
      BY <2>1, <1>1
    <3>2. r \in N /\ pg < r /\ r <= g /\ r # -1
      BY <3>1, <1>1, <1>2, <1>4 DEF RightOf
    <3>3. g = r
      <4>1. r \in Int /\ sz[r] \in Nat /\ (pg + n <= r \/ r + sz[r] <= pg)
        BY <3>2, <1>1
      <4> QED BY <4>1, <3>2, <2>1, <1>1
    <3> QED BY <3>2, <3>3, <2>1 DEF Mergd
  <2> QED BY <2>1 DEF Mergd
<1> QED BY <1>5, <1>6 DEF pg, n

(* A member of a set of integers that is at or below all of them is the  *)
(* set's Smallest, the start of the range release_page_range leaves.     *)
LEMMA SmallestOf ==
  ASSUME NEW S \in SUBSET Int, NEW x \in S, \A k \in S : x <= k PROVE Smallest(S) = x
<1>1. \A y \in S : (\A k \in S : y <= k) => y = x
  OBVIOUS
<1>2. Smallest(S) \in S /\ \A k \in S : Smallest(S) <= k
  BY DEF Smallest
<1> QED BY <1>1, <1>2

(* A member of a set of integers that is at or above all of them is the  *)
(* set's Largest, the end of the range release_page_range leaves.        *)
LEMMA LargestOf ==
  ASSUME NEW S \in SUBSET Int, NEW x \in S, \A k \in S : x >= k PROVE Largest(S) = x
<1>1. \A y \in S : (\A k \in S : y >= k) => y = x
  OBVIOUS
<1>2. Largest(S) \in S /\ \A k \in S : Largest(S) >= k
  BY DEF Largest
<1> QED BY <1>1, <1>2

(* To the set of ranges, release_page_range() joins all which touch. *)
LEMMA ReleasedRanges ==
  ASSUME NEW sz, NEW bs, NEW b, NEW l, NEW r, Freed(sz, bs, b, l, r),
         NEW sz2, sz2 = Joined(sz, l, r, b.start, b.size)
  PROVE  RangesOf(sz2) = Released(RangesOf(sz), b.start, b.size)
<1> DEFINE N == FreeStarts(sz)
           N2 == FreeStarts(sz2)
           pg == b.start
           n == b.size
           s == Start(sz, l, pg)
           f == Finish(sz, r, pg, n)
           k == Linkd(sz, l, pg)
           m == Mergd(r, pg, n)
           R == RangesOf(sz)
           touching == {h \in R : h.start + h.size = pg \/ h.start = pg + n}
           lows == {pg} \cup {h.start : h \in touching}
           highs == {pg + n} \cup {h.start + h.size : h \in touching}
           Whole(g) == PageRange(g, sz[g])
<1>1. /\ s \in Int /\ f \in Int /\ s <= pg /\ pg + n <= f
      /\ \A g \in N : g = s => k /\ g = l
      /\ m => s < r /\ r \in N
  BY FreedBounds
<1>2. /\ pg \in Int /\ n \in Nat /\ n > 0
      /\ \A g \in N : g \in Int /\ sz[g] \in Nat /\ sz[g] > 0
  BY BusyFacts DEF Freed
<1>3. \A g \in N : (g + sz[g] = pg <=> k /\ g = l) /\ (g = pg + n <=> m /\ g = r)
  BY Touching
<1>4. k => l \in N /\ l + sz[l] = pg
  BY DEF Freed, LeftOf, Linkd
<1>5. m => r \in N /\ r = pg + n
  BY <1>1 DEF Mergd
<1>6. s = (IF k THEN l ELSE pg) /\ f = (IF m THEN r + sz[r] ELSE pg + n)
  BY DEF Start, Finish
<1>7. /\ N2 = (IF m THEN N \ {r} ELSE N) \cup {s} /\ sz2[s] = f - s
      /\ \A g \in N2 \ {s} : g \in N /\ sz2[g] = sz[g]
  <2>1. JoinedIs(sz, bs, b, l, r, sz2)
    BY JoinedSets
  <2> QED BY <2>1 DEF JoinedIs, JoinedPages, JoinedSize
<1>8. \A g : Whole(g).start = g /\ Whole(g).size = sz[g]
  BY RangeFields
<1>9. R = {Whole(g) : g \in N}
  BY DEF RangesOf
<1>10. RangesOf(sz2) = {PageRange(g, sz2[g]) : g \in N2}
  BY DEF RangesOf
<1>11. Released(R, pg, n) = (R \ touching) \cup {PageRange(Smallest(lows), Largest(highs) - Smallest(lows))}
  BY DEF Released
<1> HIDE DEF Whole, R, N, N2, pg, n, s, f, k, m
<1>12. touching = {Whole(g) : g \in {h \in N : (k /\ h = l) \/ (m /\ h = r)}}
  BY <1>3, <1>8, <1>9
<1>13. /\ \A x \in lows : x = pg \/ (k /\ x = l) \/ (m /\ x = r)
       /\ \A x \in highs : x = pg + n \/ (k /\ x = pg) \/ (m /\ x = r + sz[r])
  <2>1. \A h \in touching : \/ k /\ h.start = l /\ h.start + h.size = pg
                            \/ m /\ h.start = r /\ h.start + h.size = r + sz[r]
    BY <1>4, <1>8, <1>12
  <2> HIDE DEF touching
  <2> QED BY <2>1
<1>14. /\ k => l \in lows
       /\ m => r + sz[r] \in highs
  BY <1>4, <1>5, <1>8, <1>12
<1>15. pg \in lows /\ pg + n \in highs
  OBVIOUS
<1> HIDE DEF touching, lows, highs
<1>16. Smallest(lows) = s
  <2>1. lows \in SUBSET Int
    BY <1>2, <1>4, <1>5, <1>13
  <2>2. s \in lows
    BY <1>6, <1>14, <1>15
  <2>3. \A x \in lows : s <= x
    BY <1>1, <1>2, <1>5, <1>6, <1>13
  <2> QED BY <2>1, <2>2, <2>3, SmallestOf
<1>17. Largest(highs) = f
  <2>1. highs \in SUBSET Int
    <3>1. m => r + sz[r] \in Int
      BY <1>2, <1>5
    <3> QED BY <3>1, <1>2, <1>13
  <2>2. f \in highs
    BY <1>6, <1>14, <1>15
  <2>3. \A x \in highs : f >= x
    <3> SUFFICES ASSUME NEW x \in highs PROVE f >= x
      OBVIOUS
    <3>1. m => f = r + sz[r] /\ r + sz[r] \in Int
      BY <1>2, <1>5, <1>6
    <3>2. x = pg + n \/ x = pg \/ (m /\ x = r + sz[r])
      BY <1>13
    <3> QED BY <3>1, <3>2, <1>1, <1>2
  <2> QED BY <2>1, <2>2, <2>3, LargestOf
<1>18. R \ touching = {Whole(g) : g \in N2 \ {s}}
  <2>1. \A g \in N : g \in N2 \ {s} <=> ~((k /\ g = l) \/ (m /\ g = r))
    <3> SUFFICES ASSUME NEW g \in N PROVE g \in N2 \ {s} <=> ~((k /\ g = l) \/ (m /\ g = r))
      OBVIOUS
    <3>1. k /\ g = l => g = s
      BY <1>6
    <3>2. m /\ g = r => g # s /\ g \notin N2
      BY <1>1, <1>7
    <3>3. g = s => k /\ g = l
      BY <1>1
    <3>4. ~(m /\ g = r) => g \in N2
      BY <1>7
    <3> QED BY <3>1, <3>2, <3>3, <3>4
  <2>2. \A g, h : Whole(g) = Whole(h) => g = h
    BY <1>8
  <2>3. N2 \ {s} \in SUBSET N
    BY <1>7
  <2> QED BY <2>1, <2>2, <2>3, <1>9, <1>12
<1>19. RangesOf(sz2) = {Whole(g) : g \in N2 \ {s}} \cup {PageRange(s, f - s)}
  <2>1. \A g \in N2 \ {s} : PageRange(g, sz2[g]) = Whole(g)
    BY <1>7 DEF Whole
  <2>2. s \in N2
    BY <1>7
  <2> QED BY <2>1, <2>2, <1>7, <1>10
<1>20. RangesOf(sz2) = Released(R, pg, n)
  BY <1>11, <1>16, <1>17, <1>18, <1>19
<1> QED BY <1>20 DEF R, pg, n

-----------------------------------------------------------------------------
(* The trees, as the properties see them. *)

(* What a sound tree looks like to a loop over all its nodes. *)
Measured(T, N, b) ==
       /\ b \in [N \cup {-1} -> Nat] /\ b[-1] = 0 /\ N \in SUBSET Pg /\ -1 \notin N
       /\ T.link[PoolSize][1] \in N \cup {-1} /\ T.height = b[T.link[PoolSize][1]]
       /\ \A x \in Pg, d \in Sd : T.link[x][d] \in N \cup {-1}
       /\ \A x \in N : /\ b[x] \in 1..MaxHeight
                       /\ b[x] = 1 + Higher(b[T.link[x][-1]], b[T.link[x][1]])
                       /\ b[T.link[x][-1]] < b[x] /\ b[T.link[x][1]] < b[x]
                       /\ T.bal[x] = b[T.link[x][1]] - b[T.link[x][-1]] /\ T.bal[x] \in -1..1
                       /\ \/ x = T.link[PoolSize][1]
                          \/ \E y \in N, d \in Sd : T.link[y][d] = x

(* Every sound tree does. *)
LEMMA SoundGrown ==
  ASSUME NEW T, NEW N, NEW pos, Sound(T, N, pos) PROVE \E b : Measured(T, N, b)
<1>1. PICK E : Shape(T.link, T.type, N, T.count, pos, E)
  BY DEF Sound
<1>2. PICK b : AvlTree(T, N, b)
  BY DEF Sound
<1>3. T \in Trees /\ Clean(T, N)
  BY DEF Sound
<1>4. N \in SUBSET Pg /\ -1 \notin N /\ PoolSize \notin N
  BY <1>1, Children
<1>5. /\ T.link[PoolSize][1] \in N \cup {-1}
      /\ \A x \in N, d \in Sd : T.link[x][d] \in N \cup {-1}
  BY <1>1, Children
<1>6. \A x \in Pg, d \in Sd : T.link[x][d] \in N \cup {-1}
  <2>1. ASSUME NEW x \in Pg, x \notin N, NEW d \in Sd PROVE T.link[x][d] = -1
    <3>1. x \in Slots /\ x # PoolSize /\ d \in Links
      BY PageFacts, SideFacts
    <3> QED BY <3>1, <2>1, <1>3 DEF Clean
  <2> QED BY <2>1, <1>5
<1>7. /\ b \in [N \cup {-1} -> Nat] /\ b[-1] = 0 /\ T.height = b[T.link[PoolSize][1]]
      /\ \A x \in N : Even(T.link, T.bal, b, x)
  BY <1>2, <1>4 DEF AvlTree, Hole
<1>8. /\ \A x \in N : b[x] \in 1..MaxHeight
      /\ \A x \in N, d \in Sd : T.link[x][d] # -1 => b[T.link[x][d]] < b[x]
  BY <1>1, <1>2, <1>3, LowerChild
<1>9. \A x \in N, d \in Sd : b[T.link[x][d]] < b[x]
  <2> SUFFICES ASSUME NEW x \in N, NEW d \in Sd, T.link[x][d] = -1 PROVE b[T.link[x][d]] < b[x]
    BY <1>8
  <2> QED BY <1>7, <1>8, PoolConstants
<1>10. \A x \in N : x = T.link[PoolSize][1] \/ \E y \in N, d \in Sd : T.link[y][d] = x
  <2> SUFFICES ASSUME NEW x \in N
               PROVE  x = T.link[PoolSize][1] \/ \E y \in N, d \in Sd : T.link[y][d] = x
    OBVIOUS
  <2>1. Above(T.link, T.type, N, x)
    BY <1>1 DEF Shape
  <2> QED BY <2>1 DEF Above
<1>11. \A x \in N : /\ b[x] = 1 + Higher(b[T.link[x][-1]], b[T.link[x][1]])
                    /\ T.bal[x] = b[T.link[x][1]] - b[T.link[x][-1]] /\ T.bal[x] \in -1..1
                    /\ b[T.link[x][-1]] < b[x] /\ b[T.link[x][1]] < b[x]
  BY <1>7, <1>9 DEF Even, Sd
<1>12. Measured(T, N, b)
  BY <1>4, <1>5, <1>6, <1>7, <1>8, <1>10, <1>11 DEF Measured
<1> QED BY <1>12

(* The nodes of one more level. *)
Deeper(T, seen) == seen \cup {Pool!Child(T, h, s) : h \in seen \ {-1}, s \in Pool!Sides}

(* They are nodes of the tree. *)
LEMMA DeeperIn ==
  ASSUME NEW T, NEW N, NEW b, Measured(T, N, b), NEW seen \in SUBSET (N \cup {-1})
  PROVE  /\ Deeper(T, seen) \in SUBSET (N \cup {-1}) /\ seen \in SUBSET Deeper(T, seen)
         /\ \A y \in seen, d \in Sd : y # -1 => T.link[y][d] \in Deeper(T, seen)
BY DEF Deeper, Pool!Child, Pool!Sides, Pool!Left, Pool!Right, Sd, Measured

(* The nodes of a sound tree are those its links lead to from the top. *)
LEMMA TreeNodes ==
  ASSUME NEW T, NEW N, NEW pos, Sound(T, N, pos)
  PROVE  Pool!InTree(T) = N
<1>1. PICK b : Measured(T, N, b)
  BY SoundGrown
<1>0. MaxHeight \in Nat /\ Pool!Depth = 0..MaxHeight
  BY PoolConstants DEF Pool!Depth
<1> DEFINE top == T.link[PoolSize][1]
           S == SUBSET (N \cup {-1})
           next == [seen \in S |-> Deeper(T, seen)]
           level[k \in Pool!Depth] == IF k = 0 THEN {top} ELSE Deeper(T, level[k-1])
<1>2. {top} \in S /\ next \in [S -> S]
  <2>1. \A seen \in S : Deeper(T, seen) \in S
    BY <1>1, DeeperIn
  <2>2. top \in N \cup {-1}
    BY <1>1 DEF Measured
  <2> QED BY <2>1, <2>2
<1>3. PICK f : Iterates(f, S, {top}, next, MaxHeight)
  <2> HIDE DEF next, S
  <2> QED BY <1>0, <1>2, Loop
<1>4. f \in [0..MaxHeight -> S] /\ f[0] = {top} /\ \A k \in 1..MaxHeight : f[k] = next[f[k-1]]
  <2> HIDE DEF next, S
  <2> QED BY <1>3 DEF Iterates
<1>5. \A seen \in S : next[seen] = Deeper(T, seen)
  OBVIOUS
<1> HIDE DEF S, next
<1>6. f = [k \in Pool!Depth |-> IF k = 0 THEN {top} ELSE Deeper(T, f[k-1])]
  <2>1. \A k \in 0..MaxHeight : k # 0 => f[k] = Deeper(T, f[k-1])
    <3> SUFFICES ASSUME NEW k \in 0..MaxHeight, k # 0 PROVE f[k] = Deeper(T, f[k-1])
      OBVIOUS
    <3>1. k \in 1..MaxHeight /\ k-1 \in 0..MaxHeight
      BY <1>0
    <3> QED BY <3>1, <1>4, <1>5
  <2> QED BY <2>1, <1>4, <1>0
<1>7. level = [k \in Pool!Depth |-> IF k = 0 THEN {top} ELSE Deeper(T, level[k-1])]
  <2>1. \E g : g = [k \in Pool!Depth |-> IF k = 0 THEN {top} ELSE Deeper(T, g[k-1])]
    BY <1>6
  <2> QED BY <2>1
<1>70. \A k \in Nat : k+1 \in 0..MaxHeight => level[k+1] = Deeper(T, level[k])
  <2> SUFFICES ASSUME NEW k \in Nat, k+1 \in 0..MaxHeight PROVE level[k+1] = Deeper(T, level[k])
    OBVIOUS
  <2> DEFINE j == k+1
  <2>1. j-1 = k /\ j # 0 /\ j \in Pool!Depth
    BY <1>0
  <2> HIDE DEF level, j
  <2>2. level[j] = Deeper(T, level[j-1])
    BY <2>1, <1>7
  <2> QED BY <2>1, <2>2 DEF j
<1>8. Pool!InTree(T) = level[MaxHeight] \ {-1}
  BY DEF Pool!InTree, Deeper, Pool!Top, Pool!Right
<1> HIDE DEF level
<1> DEFINE G == {k \in Nat : k \in 0..MaxHeight =>
                   level[k] \in S /\ \A y \in N : b[top] - k <= b[y] => y \in level[k]}
<1>9. /\ top \in N \cup {-1} /\ b[top] \in Nat /\ b[top] <= MaxHeight /\ (N # {} => top \in N)
      /\ \A y \in N : b[y] \in Nat /\ b[y] > 0 /\ b[y] <= b[top] /\ (b[y] = b[top] => y = top)
  <2>1. /\ T.height <= MaxHeight /\ T.height \in Nat /\ T.height = b[top] /\ top \in N \cup {-1}
    BY <1>1, SoundFacts DEF Measured
  <2>2. \A y \in N : b[y] \in Nat /\ b[y] > 0
    BY <1>1, <1>0 DEF Measured
  <2>3. ASSUME NEW y \in N PROVE b[y] <= b[top]
    <3>1. N # {} /\ T.count # 0
      BY SoundFacts
    <3>2. \A x \in N : b[x] <= MaxHeight /\ b[x] \in Nat
      BY <1>1, <1>0 DEF Measured
    <3>3. \A x \in N : x = top \/ \E z \in N : b[x] < b[z]
      BY <1>1 DEF Measured, Sd
    <3> DEFINE J == {k \in Nat : \A x \in N : b[x] >= MaxHeight - k => b[x] <= b[top]}
    <3>4. 0 \in J
      <4> SUFFICES ASSUME NEW x \in N, b[x] >= MaxHeight - 0 PROVE b[x] <= b[top]
        OBVIOUS
      <4>1. b[x] = MaxHeight
        BY <3>2, <1>0
      <4>2. ~\E z \in N : b[x] < b[z]
        BY <3>2, <4>1, <1>0
      <4>3. x = top
        BY <3>3, <4>2
      <4> QED BY <4>3, <3>2
    <3>5. ASSUME NEW k \in J PROVE k + 1 \in J
      <4> SUFFICES ASSUME NEW x \in N, b[x] >= MaxHeight - (k+1) PROVE b[x] <= b[top]
        OBVIOUS
      <4>1. CASE x = top
        BY <4>1, <3>2
      <4>2. CASE x # top
        <5>1. PICK z \in N : b[x] < b[z]
          BY <4>2, <3>3
        <5>2. b[z] >= MaxHeight - k
          BY <5>1, <3>2, <1>0
        <5>3. b[z] <= b[top]
          BY <5>2
        <5> QED BY <5>1, <5>3, <3>2, <2>1
      <4> QED BY <4>1, <4>2
    <3>6. J = Nat
      <4> HIDE DEF J
      <4> QED BY <3>4, <3>5, SetInduction, J \subseteq Nat DEF J
    <3>7. MaxHeight \in J
      BY <3>6, <1>0
    <3> QED BY <3>2, <3>7, <1>0
  <2>4. ASSUME NEW y \in N, b[y] = b[top] PROVE y = top
    <3>1. \A z \in N : ~(b[y] < b[z])
      BY <2>1, <2>2, <2>3, <2>4
    <3> QED BY <3>1, <1>1 DEF Measured, Sd
  <2>5. ASSUME N # {} PROVE top \in N
    <3>1. PICK y \in N : TRUE
      BY <2>5
    <3>2. b[top] > 0
      BY <2>1, <2>2, <2>3
    <3>3. b[-1] = 0
      BY <1>1 DEF Measured
    <3> QED BY <2>1, <3>2, <3>3
  <2> QED BY <2>1, <2>2, <2>3, <2>4, <2>5
<1>10. 0 \in G
  <2>1. level[0] = {top}
    BY <1>7, <1>0
  <2>2. \A y \in N : b[top] - 0 <= b[y] => y = top
    BY <1>9
  <2> QED BY <2>1, <2>2, <1>2
<1>11. ASSUME NEW k \in G PROVE k + 1 \in G
  <2> SUFFICES ASSUME k + 1 \in 0..MaxHeight
               PROVE  level[k+1] \in S /\ \A y \in N : b[top] - (k+1) <= b[y] => y \in level[k+1]
    OBVIOUS
  <2>1. k \in Nat /\ k \in 0..MaxHeight /\ k+1-1 = k /\ k+1 # 0 /\ k+1 \in 0..MaxHeight
    BY <1>0
  <2>2. level[k+1] = Deeper(T, level[k])
    BY <1>70, <2>1
  <2>3. level[k] \in S /\ \A y \in N : b[top] - k <= b[y] => y \in level[k]
    BY <2>1
  <2>4. level[k] \in SUBSET (N \cup {-1})
    BY <2>3 DEF S
  <2>5. /\ level[k+1] \in SUBSET (N \cup {-1}) /\ level[k] \in SUBSET level[k+1]
        /\ \A y \in level[k], d \in Sd : y # -1 => T.link[y][d] \in level[k+1]
    BY <2>2, <2>4, <1>1, DeeperIn
  <2>6. ASSUME NEW y \in N, b[top] - (k+1) <= b[y] PROVE y \in level[k+1]
    <3>1. CASE y = top
      <4>1. b[top] - k <= b[y]
        BY <3>1, <1>9, <2>1
      <4> QED BY <4>1, <2>3, <2>5
    <3>2. CASE y # top
      <4>1. PICK z \in N, d \in Sd : T.link[z][d] = y
        BY <3>2, <1>1 DEF Measured
      <4>2. b[y] < b[z] /\ z # -1
        BY <4>1, <1>1 DEF Measured, Sd
      <4>3. b[top] - k <= b[z]
        BY <4>2, <2>6, <1>9, <2>1
      <4> QED BY <4>1, <4>2, <4>3, <2>3, <2>5
    <3> QED BY <3>1, <3>2
  <2> QED BY <2>5, <2>6 DEF S
<1>12. MaxHeight \in G
  <2> HIDE DEF G
  <2>1. G = Nat
    BY <1>10, <1>11, SetInduction, G \subseteq Nat DEF G
  <2> QED BY <2>1, <1>0
<1>13. level[MaxHeight] \in SUBSET (N \cup {-1}) /\ \A y \in N : y \in level[MaxHeight]
  <2>1. level[MaxHeight] \in S /\ \A y \in N : b[top] - MaxHeight <= b[y] => y \in level[MaxHeight]
    BY <1>12, <1>0
  <2>2. \A y \in N : b[top] - MaxHeight <= b[y]
    BY <1>9, <1>0
  <2> QED BY <2>1, <2>2 DEF S
<1> QED BY <1>8, <1>13, <1>1 DEF Measured

(* The heights of subtrees, one more level. *)
Taller(T, below) ==
    [h \in Pg \cup {-1} |->
       IF h = -1 THEN 0
       ELSE 1 + Higher(below[T.link[h][-1]], below[T.link[h][1]])]

(* The heights of the subtrees of a sound tree are those which its       *)
(* balances tell.                                                        *)
LEMMA TreeHeights ==
  ASSUME NEW T, NEW N, NEW b, Measured(T, N, b)
  PROVE  \A y \in N \cup {-1} : Pool!Height(T)[y] = b[y]
<1>0. MaxHeight \in Nat /\ Pool!Depth = 0..MaxHeight
  BY PoolConstants DEF Pool!Depth
<1> DEFINE S == [Pg \cup {-1} -> Int]
           first == [h \in Pg \cup {-1} |-> 0]
           next == [below \in S |-> Taller(T, below)]
           ht[k \in Pool!Depth] == IF k = 0 THEN first ELSE Taller(T, ht[k-1])
<1>1. \A x \in Pg, d \in Sd : T.link[x][d] \in Pg \cup {-1}
  BY DEF Measured
<1>2. first \in S /\ next \in [S -> S]
  <2>1. ASSUME NEW below \in S PROVE Taller(T, below) \in S
    <3>1. \A h \in Pg : below[T.link[h][-1]] \in Int /\ below[T.link[h][1]] \in Int
      BY <1>1 DEF Sd
    <3>2. \A h \in Pg : 1 + Higher(below[T.link[h][-1]], below[T.link[h][1]]) \in Int
      BY <3>1 DEF Higher
    <3> QED BY <3>2 DEF Taller
  <2> QED BY <2>1
<1>3. PICK f : Iterates(f, S, first, next, MaxHeight)
  <2> HIDE DEF next, S, first
  <2> QED BY <1>0, <1>2, Loop
<1>4. f \in [0..MaxHeight -> S] /\ f[0] = first /\ \A k \in 1..MaxHeight : f[k] = next[f[k-1]]
  <2> HIDE DEF next, S, first
  <2> QED BY <1>3 DEF Iterates
<1>5. \A below \in S : next[below] = Taller(T, below)
  OBVIOUS
<1> HIDE DEF S, next
<1>6. f = [k \in Pool!Depth |-> IF k = 0 THEN first ELSE Taller(T, f[k-1])]
  <2>1. \A k \in 0..MaxHeight : k # 0 => f[k] = Taller(T, f[k-1])
    <3> SUFFICES ASSUME NEW k \in 0..MaxHeight, k # 0 PROVE f[k] = Taller(T, f[k-1])
      OBVIOUS
    <3>1. k \in 1..MaxHeight /\ k-1 \in 0..MaxHeight
      BY <1>0
    <3> QED BY <3>1, <1>4, <1>5
  <2> HIDE DEF first
  <2> QED BY <2>1, <1>4, <1>0
<1>7. ht = [k \in Pool!Depth |-> IF k = 0 THEN first ELSE Taller(T, ht[k-1])]
  <2>1. \E g : g = [k \in Pool!Depth |-> IF k = 0 THEN first ELSE Taller(T, g[k-1])]
    BY <1>6
  <2> QED BY <2>1
<1>8. Pool!Height(T) = ht[MaxHeight]
  BY PoolPages DEF Pool!Height, Taller, Higher, Pool!Child, Pool!Left, Pool!Right, Pg, Pool!Pages
<1>9. first = [h \in Pg \cup {-1} |-> 0]
  OBVIOUS
<1> HIDE DEF ht, first
<1>70. \A k \in Nat : k+1 \in 0..MaxHeight => ht[k+1] = Taller(T, ht[k])
  <2> SUFFICES ASSUME NEW k \in Nat, k+1 \in 0..MaxHeight PROVE ht[k+1] = Taller(T, ht[k])
    OBVIOUS
  <2> DEFINE j == k+1
  <2>1. j-1 = k /\ j # 0 /\ j \in Pool!Depth
    BY <1>0
  <2> HIDE DEF j
  <2>2. ht[j] = Taller(T, ht[j-1])
    BY <2>1, <1>7
  <2> QED BY <2>1, <2>2 DEF j
<1>10. /\ b[-1] = 0 /\ N \in SUBSET Pg /\ -1 \notin N
       /\ \A x \in N : /\ b[x] \in 1..MaxHeight /\ b[x] \in Nat
                       /\ b[x] = 1 + Higher(b[T.link[x][-1]], b[T.link[x][1]])
                       /\ \A d \in Sd : T.link[x][d] \in N \cup {-1} /\ b[T.link[x][d]] < b[x] /\ b[T.link[x][d]] \in Nat
  BY <1>0 DEF Measured, Sd
<1> DEFINE G == {k \in Nat : k \in 0..MaxHeight => \A y \in N \cup {-1} : b[y] <= k => ht[k][y] = b[y]}
<1>11. 0 \in G
  <2>1. ht[0] = first
    BY <1>7, <1>0
  <2>2. \A y \in N \cup {-1} : b[y] <= 0 => y = -1
    BY <1>0, <1>10
  <2> QED BY <2>1, <2>2, <1>9, <1>10
<1>12. ASSUME NEW k \in G PROVE k + 1 \in G
  <2> SUFFICES ASSUME k + 1 \in 0..MaxHeight, NEW y \in N \cup {-1}, b[y] <= k + 1
               PROVE  ht[k+1][y] = b[y]
    OBVIOUS
  <2>1. k \in Nat /\ k \in 0..MaxHeight
    BY <1>0
  <2>2. ht[k+1] = Taller(T, ht[k])
    BY <1>70, <2>1
  <2>3. \A z \in N \cup {-1} : b[z] <= k => ht[k][z] = b[z]
    BY <2>1
  <2>4. CASE y = -1
    BY <2>2, <2>4, <1>10 DEF Taller
  <2>5. CASE y # -1
    <3>1. y \in N /\ y \in Pg
      BY <2>5, <1>10
    <3>2. ht[k+1][y] = 1 + Higher(ht[k][T.link[y][-1]], ht[k][T.link[y][1]])
      BY <2>2, <2>5, <3>1 DEF Taller
    <3>3. \A d \in Sd : ht[k][T.link[y][d]] = b[T.link[y][d]]
      <4> SUFFICES ASSUME NEW d \in Sd PROVE ht[k][T.link[y][d]] = b[T.link[y][d]]
        OBVIOUS
      <4>1. /\ T.link[y][d] \in N \cup {-1} /\ b[T.link[y][d]] < b[y]
            /\ b[T.link[y][d]] \in Nat /\ b[y] \in Nat
        BY <3>1, <1>10
      <4>2. b[T.link[y][d]] <= k
        BY <4>1, <2>1
      <4> QED BY <4>1, <4>2, <2>3
    <3>4. ht[k][T.link[y][-1]] = b[T.link[y][-1]] /\ ht[k][T.link[y][1]] = b[T.link[y][1]]
      BY <3>3 DEF Sd
    <3> QED BY <3>1, <3>2, <3>4, <1>10
  <2> QED BY <2>4, <2>5
<1>13. MaxHeight \in G
  <2> HIDE DEF G
  <2>1. G = Nat
    BY <1>11, <1>12, SetInduction, G \subseteq Nat DEF G
  <2> QED BY <2>1, <1>0
<1>14. \A y \in N \cup {-1} : b[y] <= MaxHeight
  BY <1>0, <1>10
<1> QED BY <1>8, <1>13, <1>14, <1>0

(* Links both ways agree in a sound tree, the number of nodes is right. *)
LEMMA SoundLinked ==
  ASSUME NEW T, NEW N, NEW pos, Sound(T, N, pos)
  PROVE  Pool!Linked(T)
<1>1. PICK E : Shape(T.link, T.type, N, T.count, pos, E)
  BY DEF Sound
<1>2. Pool!InTree(T) = N /\ T.count = Pool!Cardinality(N)
  <2>1. Pool!Cardinality(N) = Cardinality(N)
    BY DEF Pool!Cardinality, Cardinality
  <2> QED BY <2>1, TreeNodes, SoundFacts
<1>3. \A h \in N : T.link[T.link[h][0]][T.type[h]] = h
  BY <1>1 DEF Shape, Above
<1>4. \A h \in N, s \in Sd : T.link[h][s] # -1 => T.link[T.link[h][s]][0] = h /\ T.type[T.link[h][s]] = s
  BY <1>1 DEF Shape, Kid, Below
<1> QED BY <1>2, <1>3, <1>4
  DEF Pool!Linked, Pool!Parent, Pool!Child, Pool!Up, Pool!Sides, Pool!Left, Pool!Right, Sd

(* A sound tree is balanced, and its stored balances and height are the  *)
(* real ones.                                                            *)
LEMMA SoundBalanced ==
  ASSUME NEW T, NEW N, NEW pos, Sound(T, N, pos)
  PROVE  Pool!Balanced(T)
<1>1. PICK b : Measured(T, N, b)
  BY SoundGrown
<1> DEFINE ht == Pool!Height(T)
<1>2. \A y \in N \cup {-1} : ht[y] = b[y]
  BY <1>1, TreeHeights
<1> HIDE DEF ht
<1>3. T.height = ht[T.link[PoolSize][1]]
  BY <1>1, <1>2 DEF Measured
<1>4. \A h \in N : /\ T.bal[h] \in -1..1
                   /\ T.bal[h] = ht[T.link[h][1]] - ht[T.link[h][-1]]
  <2> SUFFICES ASSUME NEW h \in N
               PROVE  T.bal[h] \in -1..1 /\ T.bal[h] = ht[T.link[h][1]] - ht[T.link[h][-1]]
    OBVIOUS
  <2>1. h \in Pg /\ T.link[h][1] \in N \cup {-1} /\ T.link[h][-1] \in N \cup {-1}
    BY <1>1 DEF Measured, Sd
  <2> QED BY <2>1, <1>1, <1>2 DEF Measured
<1>5. Pool!InTree(T) = N
  BY TreeNodes
<1> QED BY <1>3, <1>4, <1>5 DEF ht, Pool!Balanced, Pool!Top, Pool!Child, Pool!Left, Pool!Right

(* Going through the nodes: from h to the next one and back. *)
Neighbour(T, N, pos, h, d, r) ==
    IF r = -1 THEN h = T.end[d]
    ELSE /\ r \in N /\ pos[r] = pos[h] + d
         /\ Pool!Inorder(T, r, -d) = h

(* avl_next() and avl_prev() are each other's inverse in a sound tree. *)
LEMMA SoundNeighbours ==
  ASSUME NEW T, NEW N, NEW pos, Sound(T, N, pos), NEW h \in N, NEW d \in Sd
  PROVE  Neighbour(T, N, pos, h, d, Pool!Inorder(T, h, d))
<1> DEFINE r == Pool!Inorder(T, h, d)
           q == Pool!Inorder(T, r, -d)
<1>1. /\ T.count \in Nat /\ -1 \notin N /\ \A g \in N : pos[g] \in 1..T.count
      /\ \A f, g \in N : pos[f] = pos[g] => f = g
  BY SoundFacts
<1>2. T.end[d] \in N /\ pos[T.end[d]] = First(T.count, d)
  BY DEF Sound, Ends
<1>3. IF pos[h] = First(T.count, d) THEN r = -1 ELSE r \in N /\ pos[r] = pos[h] + d
  BY InorderFound DEF InorderIs
<1> HIDE DEF r
<1>4. CASE pos[h] = First(T.count, d)
  BY <1>1, <1>2, <1>3, <1>4 DEF Neighbour, r
<1>5. CASE pos[h] # First(T.count, d)
  <2>1. r \in N /\ pos[r] = pos[h] + d /\ -d \in Sd
    BY <1>3, <1>5, SideFacts
  <2>2. IF pos[r] = First(T.count, -d) THEN q = -1 ELSE q \in N /\ pos[q] = pos[r] + (-d)
    BY <2>1, InorderFound DEF InorderIs
  <2> HIDE DEF q
  <2>3. pos[r] # First(T.count, -d) /\ pos[r] + (-d) = pos[h]
    <3>1. pos[h] \in 1..T.count /\ pos[r] \in 1..T.count
      BY <1>1, <2>1
    <3>2. CASE d = 1
      <4>1. -d = -1 /\ First(T.count, -d) = 1 /\ pos[r] = pos[h] + 1
        BY <3>2, <2>1 DEF First
      <4> QED BY <3>1, <4>1
    <3>3. CASE d # 1
      <4>1. -d = 1 /\ d + 1 = 0
        BY <3>3, Flip, SideFacts DEF Sd
      <4>2. First(T.count, -d) = T.count
        BY <4>1 DEF First
      <4>3. d \in Int
        BY SideFacts
      <4> QED BY <3>1, <4>1, <4>2, <4>3, <2>1, <1>1
    <3> QED BY <3>2, <3>3
  <2>4. q = h
    BY <2>2, <2>3, <1>1
  <2> QED BY <2>1, <2>4, <1>1 DEF Neighbour, q, r
<1> QED BY <1>4, <1>5

(* Both ends of a tree without nodes are none. *)
LEMMA SoundEnds ==
  ASSUME NEW T, NEW N, NEW pos, Sound(T, N, pos), T.link[PoolSize][1] = -1
  PROVE  T.end[-1] = -1 /\ T.end[1] = -1
<1>1. PICK E : Shape(T.link, T.type, N, T.count, pos, E)
  BY DEF Sound
<1>2. -1 \notin N /\ (T.count = 0 <=> N = {})
  BY SoundFacts
<1>3. N = {}
  BY <1>1, <1>2 DEF Shape, Rooted
<1> QED BY <1>3 DEF Sound, Ends, Sd

(* A sound tree is a tree. *)
LEMMA SoundType ==
  ASSUME NEW T, NEW N, NEW pos, Sound(T, N, pos)
  PROVE  T \in Pool!TreeType
<1>1. T \in Trees /\ Clean(T, N) /\ Ends(T, N, pos)
  BY DEF Sound
<1>2. T.count \in 0..PoolSize /\ T.height \in 0..PoolSize
  <2>1. T.count \in Nat /\ T.count <= PoolSize /\ T.height \in Nat /\ T.height <= T.count
    BY SoundFacts
  <2> QED BY <2>1, PoolHasPages
<1>3. \A x \in Slots : T.bal[x] \in -1..2
  BY <1>1 DEF Clean
<1>4. \A s \in Sd : T.end[s] \in Pg \cup {-1}
  BY <1>1, SoundFacts DEF Ends
<1>5. Pg \cup {PoolSize} = Slots /\ Pg \cup {PoolSize, -1} = Some
  BY PoolHasPages DEF Pg, Slots, Some
<1>6. /\ T.link \in [Slots -> [Links -> Some]] /\ T.type \in [Slots -> Links]
      /\ T.bal \in [Slots -> -1..2] /\ T.end \in [Sd -> Pg \cup {-1}]
  BY <1>1, <1>3, <1>4 DEF Trees
<1>7. T = [link |-> T.link, type |-> T.type, bal |-> T.bal, end |-> T.end,
           count |-> T.count, height |-> T.height]
  BY <1>1 DEF Trees
<1>8. -1..2 = -1..1 \cup {2}
  OBVIOUS
<1>9. Pool!TreeType = [link : [Slots -> [Links -> Some]], type : [Slots -> Links],
                       bal : [Slots -> -1..2], end : [Sd -> Pg \cup {-1}],
                       count : 0..PoolSize, height : 0..PoolSize]
  BY <1>5, <1>8, PoolPages
  DEF Pool!TreeType, Pool!Left, Pool!Up, Pool!Right, Pool!Sides, Pool!Junk, Links, Sd, Pg, Pool!Pages
<1> QED BY <1>2, <1>6, <1>7, <1>9

(* The invariant of the pool implies its type, ... *)
LEMMA GoodType == ASSUME PoolGood(size, size_tree, addr_tree, busy) PROVE Pool!TypeOK
<1>1. size_tree \in Pool!TreeType /\ addr_tree \in Pool!TreeType
  BY SoundType DEF PoolGood, BySizes, ByAddrs
<1>2. size \in [Pg -> 0..PoolSize] /\ busy \in SUBSET [start : Pg, size : Requests]
  BY DEF PoolGood, GoodSizes, GoodBusy
<1> QED BY <1>1, <1>2, PoolPages DEF Pool!TypeOK

(* that both trees are balanced, ... *)
LEMMA GoodBalanced ==
  ASSUME PoolGood(size, size_tree, addr_tree, busy) PROVE Pool!TreesAreBalanced
BY SoundLinked, SoundBalanced DEF PoolGood, BySizes, ByAddrs, Pool!TreesAreBalanced

(* and that they index the same ranges in their orders. *)
LEMMA GoodOrdered ==
  ASSUME PoolGood(size, size_tree, addr_tree, busy) PROVE Pool!TreesAreOrdered
<1> DEFINE N == FreeStarts(size)
<1>1. GoodSizes(size, N)
  BY DEF PoolGood
<1>2. PICK ps : Sound(size_tree, N, ps) /\ Sorted(size, N, ps)
  BY DEF PoolGood, BySizes
<1>3. PICK pa : Sound(addr_tree, N, pa) /\ Ascending(N, pa)
  BY DEF PoolGood, ByAddrs
<1> HIDE DEF N
<1>4. Pool!InTree(size_tree) = N /\ Pool!InTree(addr_tree) = N
  BY <1>2, <1>3, TreeNodes
<1>5. /\ \A h \in N, d \in Sd : Neighbour(size_tree, N, ps, h, d, Pool!Inorder(size_tree, h, d))
      /\ \A h \in N, d \in Sd : Neighbour(addr_tree, N, pa, h, d, Pool!Inorder(addr_tree, h, d))
  BY <1>2, <1>3, SoundNeighbours
<1>6. \A g, h \in N : ps[h] = ps[g] + 1 => size[g] <= size[h]
  <2>1. \A g \in N : ps[g] \in Int
    BY <1>2, SoundFacts
  <2>2. \A g, h \in N : ps[h] = ps[g] + 1 => ps[g] < ps[h]
    BY <2>1
  <2> QED BY <2>2, <1>2 DEF Sorted
<1>7. \A g, h \in N : pa[h] = pa[g] + 1 => g + size[g] < h
  <2>1. \A g \in N : pa[g] \in Int /\ g \in Int
    BY <1>3, SoundFacts, PageFacts
  <2>2. \A g, h \in N : pa[h] = pa[g] + 1 => g < h
    BY <2>1, <1>3 DEF Ascending
  <2> QED BY <2>2, <1>1 DEF GoodSizes
<1>8. \A T, ps2 : Neighbour(T, N, ps2, 0, 1, 0) \in BOOLEAN
  BY DEF Neighbour
<1>9. Pool!Ordered(addr_tree, LAMBDA g, h : g + size[g] < h)
  <2>1. \A h \in N :
          LET next == Pool!Inorder(addr_tree, h, 1)
              prev == Pool!Inorder(addr_tree, h, -1)
          IN /\ IF next = -1 THEN h = addr_tree.end[1]
                ELSE h + size[h] < next /\ Pool!Inorder(addr_tree, next, -1) = h
             /\ IF prev = -1 THEN h = addr_tree.end[-1] ELSE Pool!Inorder(addr_tree, prev, 1) = h
    BY <1>5, <1>7 DEF Neighbour, Sd
  <2>2. addr_tree.link[PoolSize][1] = -1 => addr_tree.end[-1] = -1 /\ addr_tree.end[1] = -1
    BY <1>3, SoundEnds
  <2> QED BY <2>1, <2>2, <1>4, Zenon DEF Pool!Ordered, Pool!Left, Pool!Right, Pool!Top
<1>10. Pool!Ordered(size_tree, LAMBDA g, h : size[g] <= size[h])
  <2>1. \A h \in N :
          LET next == Pool!Inorder(size_tree, h, 1)
              prev == Pool!Inorder(size_tree, h, -1)
          IN /\ IF next = -1 THEN h = size_tree.end[1]
                ELSE size[h] <= size[next] /\ Pool!Inorder(size_tree, next, -1) = h
             /\ IF prev = -1 THEN h = size_tree.end[-1] ELSE Pool!Inorder(size_tree, prev, 1) = h
    BY <1>5, <1>6 DEF Neighbour, Sd
  <2>2. size_tree.link[PoolSize][1] = -1 => size_tree.end[-1] = -1 /\ size_tree.end[1] = -1
    BY <1>2, SoundEnds
  <2> QED BY <2>1, <2>2, <1>4, Zenon DEF Pool!Ordered, Pool!Left, Pool!Right, Pool!Top
<1> QED BY <1>4, <1>9, <1>10, Zenon DEF Pool!TreesAreOrdered

-----------------------------------------------------------------------------
(* The properties of the pool. *)

(* The inductive invariant of the page pool. *)
PoolInv == PoolGood(size, size_tree, addr_tree, busy)

(* It holds once add_extent() is done, ... *)
LEMMA TreesStart == ASSUME MCInit PROVE PoolInv
<1>1. Pool!Init
  BY DEF MCInit
<1> QED BY <1>1, PoolBegins DEF PoolInv

(* every reserve_page_range() and release_page_range() keeps it, ... *)
LEMMA TreesStep == ASSUME PoolInv, [MCNext]_<<part, vars, pool>> PROVE PoolInv'
<1>1. ASSUME NEW n \in Requests, Pool!Reserve(n) PROVE PoolInv'
  BY <1>1, PoolReserves DEF PoolInv
<1>2. ASSUME NEW b \in busy, Pool!Release(b) PROVE PoolInv'
  BY <1>2, PoolReleases DEF PoolInv
<1>3. ASSUME UNCHANGED pool PROVE PoolInv'
  BY <1>3 DEF PoolInv, pool
<1> QED BY <1>1, <1>2, <1>3 DEF MCNext, Pool!Next

(* so it always holds. *)
LEMMA TreesInvariant == MCSpec => []PoolInv
<1>1. MCInit => PoolInv
  BY TreesStart
<1>2. PoolInv /\ [MCNext]_<<part, vars, pool>> => PoolInv'
  BY TreesStep
<1> QED BY <1>1, <1>2, PTL DEF MCSpec

(* However ranges are split and merged, both trees of the page pool stay *)
(* AVL trees with the right links, balances, heights and ends, and index *)
(* the same ranges in their orders (reserve_page_range,                  *)
(* release_page_range, and the tree operations which they call).         *)
THEOREM TreesStaySound == MCSpec => []PoolTreesAreSound
<1>1. PoolInv => PoolTreesAreSound
  <2> SUFFICES ASSUME PoolInv PROVE PoolTreesAreSound
    OBVIOUS
  <2>1. Pool!TypeOK /\ Pool!TreesAreBalanced /\ Pool!TreesAreOrdered
    BY GoodType, GoodBalanced, GoodOrdered DEF PoolInv
  <2> QED BY <2>1 DEF PoolTreesAreSound
<1> QED BY <1>1, TreesInvariant, PTL

(* The free ranges of RangeTrees are those of the sizes. *)
LEMMA FreeIs ==
  ASSUME NEW sz, NEW st, NEW at, NEW bs, PoolGood(sz, st, at, bs)
  PROVE  {Pool!PageRange(pg, sz[pg]) : pg \in Pool!InTree(at)} = RangesOf(sz)
<1>1. PICK pa : Sound(at, FreeStarts(sz), pa)
  BY DEF PoolGood, ByAddrs
<1>2. Pool!InTree(at) = FreeStarts(sz)
  BY <1>1, TreeNodes
<1> QED BY <1>2 DEF RangesOf, PageRange, Pool!PageRange

(* Module AbsRanges splits and merges ranges in the same way. *)
LEMMA SameRanges ==
  /\ \A R, f, n : Pool!Abs!Reserved(R, f, n) = Reserved(R, f, n)
  /\ \A R, n : Pool!Abs!Suitable(R, n) = Suitable(R, n)
  /\ \A f, n : Pool!Abs!ReservedPage(f, n) = ReservedPage(f, n)
  /\ \A R, pg, n : Pool!Abs!Released(R, pg, n) = Released(R, pg, n)
  /\ \A s, n : Pool!Abs!PageRange(s, n) = PageRange(s, n)
<1>1. \A R, f, n : Pool!Abs!Reserved(R, f, n) = Reserved(R, f, n)
  BY DEF Pool!Abs!Reserved, Reserved, Pool!Abs!PageRange, PageRange
<1>2. \A R, n : Pool!Abs!Suitable(R, n) = Suitable(R, n)
  BY DEF Pool!Abs!Suitable, Suitable
<1>3. \A f, n : Pool!Abs!ReservedPage(f, n) = ReservedPage(f, n)
  BY DEF Pool!Abs!ReservedPage, ReservedPage
<1>4. \A R, pg, n : Pool!Abs!Released(R, pg, n) = Released(R, pg, n)
  BY DEF Pool!Abs!Released, Released, Pool!Abs!PageRange, PageRange, Pool!Abs!Smallest, Smallest,
         Pool!Abs!Largest, Largest
<1>5. \A s, n : Pool!Abs!PageRange(s, n) = PageRange(s, n)
  BY DEF Pool!Abs!PageRange, PageRange
<1> QED BY <1>1, <1>2, <1>3, <1>4, <1>5

(* The page pool with its two trees implements the set of ranges which   *)
(* the heap works on: reserve_page_range() splits the smallest range     *)
(* which fits, release_page_range() merges with both neighbours.         *)
THEOREM TreesImplementRanges == MCSpec => PoolImplements
<1>0. PoolInv => Pool!FreeRanges = RangesOf(size)
  BY FreeIs DEF PoolInv, Pool!FreeRanges
<1>00. PoolInv' => Pool!FreeRanges' = RangesOf(size')
  BY FreeIs DEF PoolInv, Pool!FreeRanges
<1>1. MCInit => Pool!Abs!Init
  <2> SUFFICES ASSUME MCInit PROVE Pool!Abs!Init
    OBVIOUS
  <2>1. Pool!Init
    BY DEF MCInit
  <2>2. FreeStarts(size) = {0} /\ size[0] = PoolSize /\ busy = {}
    BY <2>1, PoolBegins DEF Pool!Init
  <2>3. Pool!FreeRanges = {PageRange(0, PoolSize)}
    <3>1. RangesOf(size) = {PageRange(0, PoolSize)}
      BY <2>2 DEF RangesOf
    <3> QED BY <3>1, <1>0, TreesStart
  <2>4. Pool!Cardinality(Pool!Pages) = PoolSize
    BY PoolPages
  <2> QED BY <2>2, <2>3, <2>4, SameRanges DEF Pool!Abs!Init
<1>2. PoolInv /\ PoolInv' /\ [MCNext]_<<part, vars, pool>> => [Pool!Abs!Next]_<<Pool!FreeRanges, busy>>
  <2> SUFFICES ASSUME PoolInv, PoolInv', [MCNext]_<<part, vars, pool>>
               PROVE  [Pool!Abs!Next]_<<Pool!FreeRanges, busy>>
    OBVIOUS
  <2> DEFINE R == RangesOf(size)
  <2>1. ASSUME NEW n \in Requests, Pool!Reserve(n) PROVE Pool!Abs!Reserve(n)
    <3>1. PICK new : /\ Fits(size, new, n) /\ size' = Split(size, new, n)
                     /\ busy' = busy \cup {PageRange(new + Rest(size, new, n), n)}
      BY <2>1, PoolReserves DEF PoolInv
    <3>2. GoodSizes(size, FreeStarts(size))
      BY DEF PoolInv, PoolGood
    <3>3. PICK f \in Suitable(R, n) : /\ RangesOf(size') = Reserved(R, f, n)
                                      /\ ReservedPage(f, n) = new + Rest(size, new, n)
      BY <3>1, <3>2, ReservedRanges
    <3> HIDE DEF R
    <3>4. Pool!FreeRanges' = Reserved(R, f, n) /\ Pool!FreeRanges = R
      BY <3>3, <1>0, <1>00 DEF R
    <3>5. busy' = busy \cup {PageRange(ReservedPage(f, n), n)}
      BY <3>1, <3>3
    <3> QED BY <3>3, <3>4, <3>5, SameRanges DEF Pool!Abs!Reserve
  <2>2. ASSUME NEW b \in busy, Pool!Release(b) PROVE Pool!Abs!Release(b)
    <3>1. PICK l, r : /\ Freed(size, busy, b, l, r)
                      /\ size' = Joined(size, l, r, b.start, b.size) /\ busy' = busy \ {b}
      BY <2>2, PoolReleases DEF PoolInv
    <3>2. RangesOf(size') = Released(R, b.start, b.size)
      BY <3>1, ReleasedRanges
    <3> HIDE DEF R
    <3>3. Pool!FreeRanges' = Released(R, b.start, b.size) /\ Pool!FreeRanges = R
      BY <3>2, <1>0, <1>00 DEF R
    <3> QED BY <3>1, <3>3, SameRanges DEF Pool!Abs!Release
  <2>3. ASSUME UNCHANGED pool PROVE UNCHANGED <<Pool!FreeRanges, busy>>
    <3>1. size' = size /\ busy' = busy
      BY <2>3 DEF pool
    <3> QED BY <3>1, <1>0, <1>00
  <2> QED BY <2>1, <2>2, <2>3 DEF MCNext, Pool!Next, Pool!Abs!Next
<1> QED BY <1>1, <1>2, TreesInvariant, PTL DEF MCSpec, PoolImplements, Pool!Implements, Pool!Abs!Spec
=============================================================================
