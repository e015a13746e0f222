----------------------------- MODULE HeapProofs -----------------------------
(***************************************************************************)
(* Proofs about the heap (module Heap), for extents, requests, sizes of    *)
(* blocks and page maps of any number or width: blocks are disjoint, no    *)
(* page leaks, and the heap keeps track of its blocks.                     *)
(*                                                                         *)
(* As in the runs, a program which uses small blocks does not extend the   *)
(* heap meanwhile (MixedUse is FALSE): bucket heads do not tell the extent *)
(* of their page, and run Heap_extended shows what follows.                *)
(***************************************************************************)
EXTENDS Heap, FiniteSetTheorems, TLAPS

-----------------------------------------------------------------------------
(* The inductive invariant *)

(* Free ranges lie in their extent, and never touch each other. *)
Apart(f, g) == f.start + f.size < g.start \/ g.start + g.size < f.start

GoodRanges(R) ==
    /\ R \subseteq [start : Pages, size : 1..PageCount]
    /\ \A f \in R : f.start + f.size <= PageCount
    /\ \A f, g \in R : f # g => Apart(f, g)

RangeInv ==
    \A e \in Extents :
        /\ GoodRanges(ranges[e])
        /\ e > extents => ranges[e] = {}

(* A page list is circular: its links are each other's inverse, and the    *)
(* pages which can be reached from any of them are all of them.            *)
Linked(m, S) ==
    \A pg \in S :
        /\ m[pg].next \in S /\ m[pg].prev \in S
        /\ m[m[pg].next].prev = pg /\ m[m[pg].prev].next = pg

Closed(m, T) == \A q \in T : m[q].next \in T

Circular(m, S) ==
    /\ Linked(m, S)
    /\ \A T \in SUBSET S : T # {} /\ Closed(m, T) => T = S

Heads(m, S, h) ==
    /\ Circular(m, S)
    /\ IF h = NoPage THEN S = {} ELSE h \in S

ListInv == \A b \in Buckets : Heads(pagemap[1], BucketPages(b), buckets[b])

(* The page entries of the blocks which the program owns. *)
Blocks(k) == {x \in live : x.kind = k}
BusyOf(b, pg) == {x.n : x \in {y \in live : y.kind = b /\ y.page = pg}}

EntryOK(x) ==
    /\ x \in [ext : 1..extents, page : Pages, kind : Kinds, n : Nat]
    /\ x.kind = "list" =>
         /\ x.n \in 1..MaxRange /\ x.page + x.n <= PageCount
         /\ pagemap[x.ext][x.page].type = "list" /\ pagemap[x.ext][x.page].size = x.n
    /\ x.kind # "list" =>
         /\ x.ext = 1 /\ x.n \in BlockMask(x.kind)
         /\ pagemap[1][x.page].type = x.kind
         /\ pagemap[1][x.page].map = Idle(x.kind) \cup BusyOf(x.kind, x.page)

EntryInv == \A x \in live : EntryOK(x)

(* used_size counts the blocks of each size, and the pages. *)
ListPages == UNION {{x.ext} \X PagesOf(x) : x \in Blocks("list")}

CountInv ==
    /\ IsFiniteSet(live)
    /\ \A b \in Buckets : used[b] = Cardinality(Blocks(b))
    /\ used["list"] = Cardinality(ListPages)

MemInv == RangeInv /\ BlocksAreDisjoint /\ NothingLeaks

IndInv == TypeOK /\ MemInv /\ EntryInv /\ ListInv /\ CountInv

-----------------------------------------------------------------------------
(* Extremes of sets of numbers *)

LEMMA LeastExists ==
  ASSUME NEW S \in SUBSET Nat, S # {}
  PROVE  \E n \in S : \A k \in S : n <= k
<1> DEFINE R == OpToRel(<, Nat)
<1>1. IsWellFoundedOn(R, Nat)
  BY NatLessThanWellFounded
<1>2. \A x, y \in Nat : y < x => <<y, x>> \in R
  BY DEF OpToRel
<1> HIDE DEF R
<1>3. PICK n \in S : \A k \in S : <<k, n>> \notin R
  BY <1>1, WFMin
<1>4. ASSUME NEW k \in S
      PROVE  n <= k
  <2>1. n \in Nat /\ k \in Nat
    OBVIOUS
  <2>2. ~ k < n
    BY <2>1, <1>2, <1>3
  <2> QED
    BY <2>1, <2>2
<1> QED
  BY <1>4

LEMMA SmallestIs ==
  ASSUME NEW S \in SUBSET Nat, S # {}
  PROVE  Smallest(S) \in S /\ \A k \in S : Smallest(S) <= k
BY LeastExists DEF Smallest

LEMMA LargestIs ==
  ASSUME NEW S \in SUBSET Nat, S # {}, NEW N \in Nat, \A k \in S : k <= N
  PROVE  Largest(S) \in S /\ \A k \in S : Largest(S) >= k
<1> DEFINE T == {N - k : k \in S}
<1>1. T \in SUBSET Nat /\ T # {}
  <2>1. \A k \in S : N - k \in Nat
    OBVIOUS
  <2> QED
    BY <2>1
<1>2. PICK d \in T : \A k \in T : d <= k
  BY <1>1, LeastExists
<1>3. PICK n \in S : d = N - n
  BY <1>2
<1>4. ASSUME NEW k \in S
      PROVE  n >= k
  <2>1. N - k \in T
    OBVIOUS
  <2>2. N - n <= N - k
    BY <2>1, <1>2, <1>3
  <2> QED
    BY <2>2
<1> QED
  BY <1>4 DEF Largest

-----------------------------------------------------------------------------
(* Free ranges *)

PagesIn(R) == UNION {RangePages(f) : f \in R}

LEMMA InPages ==
  ASSUME NEW R, NEW p
  PROVE  p \in PagesIn(R) <=> \E f \in R : p \in RangePages(f)
BY DEF PagesIn

(* A reservation takes its pages from one range, and leaves the others. *)
LEMMA ReservedSplits ==
  ASSUME NEW R, GoodRanges(R), NEW f \in R, NEW n \in Nat \ {0}, n <= f.size
  PROVE  LET pg == ReservedPage(f, n) IN
         /\ GoodRanges(Reserved(R, f, n))
         /\ pg \in Pages /\ pg + n <= PageCount
         /\ pg..(pg + n - 1) \subseteq PagesIn(R)
         /\ PagesIn(Reserved(R, f, n)) = PagesIn(R) \ (pg..(pg + n - 1))
<1> USE HeapAssumption
<1> DEFINE pg == ReservedPage(f, n)
           rest == PageRange(f.start, f.size - n)
           S == Reserved(R, f, n)
<1>1. /\ f.start \in Pages /\ f.size \in 1..PageCount /\ f.start + f.size <= PageCount
      /\ f.start \in Int /\ f.size \in Int
  BY DEF GoodRanges, Pages
<1>2. pg = f.start + f.size - n /\ pg \in Pages /\ pg + n <= PageCount
  BY <1>1 DEF ReservedPage, Pages
<1>3. ASSUME f.size # n
      PROVE  /\ rest \in [start : Pages, size : 1..PageCount]
             /\ rest.start = f.start /\ rest.size = f.size - n
             /\ S = (R \ {f}) \cup {rest}
  BY <1>1, <1>3 DEF PageRange, Pages, Reserved
<1>4. ASSUME f.size = n
      PROVE  S = R \ {f}
  BY <1>4 DEF Reserved
<1>5. GoodRanges(S)
  <2>1. CASE f.size = n
    BY <2>1, <1>4 DEF GoodRanges
  <2>2. CASE f.size # n
    <3>1. \A g \in R : g # f => Apart(rest, g) /\ Apart(g, rest)
      <4> TAKE g \in R
      <4>1. /\ g.start \in Int /\ g.size \in Int
            /\ g # f => Apart(f, g)
        BY DEF GoodRanges, Pages
      <4> QED
        BY <4>1, <1>1, <2>2, <1>3 DEF Apart
    <3> QED
      BY <3>1, <2>2, <1>1, <1>3 DEF GoodRanges, Pages
  <2> QED
    BY <2>1, <2>2
<1>6. ASSUME NEW p
      PROVE  p \in PagesIn(S) <=> p \in PagesIn(R) /\ p \notin pg..(pg + n - 1)
  <2>1. p \in RangePages(f) <=> p \in f.start..(f.start + f.size - 1)
    BY DEF RangePages
  <2>2. ASSUME NEW g \in R, g # f, p \in RangePages(g)
        PROVE  p \notin RangePages(f)
    BY <2>2, <1>1 DEF GoodRanges, Apart, RangePages, Pages
  <2>3. ASSUME f.size # n
        PROVE  p \in RangePages(rest) <=> p \in f.start..(pg - 1)
    BY <2>3, <1>1, <1>2, <1>3 DEF RangePages
  <2>4. CASE f.size = n
    <3>1. p \in RangePages(f) <=> p \in pg..(pg + n - 1)
      BY <2>1, <2>4, <1>1, <1>2
    <3> QED
      BY <2>2, <2>4, <3>1, <1>4, InPages
  <2>5. CASE f.size # n
    <3>1. p \in RangePages(f) <=> p \in pg..(pg + n - 1) \/ p \in f.start..(pg - 1)
      BY <2>1, <1>1, <1>2
    <3>2. ~ (p \in pg..(pg + n - 1) /\ p \in f.start..(pg - 1))
      BY <1>1, <1>2
    <3> QED
      BY <2>2, <2>3, <2>5, <3>1, <3>2, <1>3, InPages
  <2> QED
    BY <2>4, <2>5
<1>7. pg..(pg + n - 1) \subseteq PagesIn(R)
  <2>1. pg..(pg + n - 1) \subseteq RangePages(f)
    BY <1>1, <1>2 DEF RangePages
  <2> QED
    BY <2>1, InPages
<1>8. PagesIn(S) = PagesIn(R) \ (pg..(pg + n - 1))
  BY <1>6
<1> QED
  BY <1>2, <1>5, <1>7, <1>8

(* A release merges the pages with the ranges which touch them. *)
LEMMA ReleasedMerges ==
  ASSUME NEW R, GoodRanges(R), NEW pg \in Pages, NEW n \in Nat \ {0}, pg + n <= PageCount,
         PagesIn(R) \cap pg..(pg + n - 1) = {}
  PROVE  /\ GoodRanges(Released(R, pg, n))
         /\ PagesIn(Released(R, pg, n)) = PagesIn(R) \cup pg..(pg + n - 1)
<1> USE HeapAssumption
<1> DEFINE touching == {f \in R : f.start + f.size = pg \/ f.start = pg + n}
           lows == {pg} \cup {f.start : f \in touching}
           highs == {pg + n} \cup {f.start + f.size : f \in touching}
           low == Smallest(lows)
           high == Largest(highs)
           new == PageRange(low, high - low)
           S == Released(R, pg, n)
<1>1. \A f \in R : /\ f.start \in Nat /\ f.size \in Nat \ {0} /\ f.start + f.size <= PageCount
  BY DEF GoodRanges, Pages
<1>2. pg \in Nat /\ PageCount \in Nat
  BY DEF Pages
<1>3. low \in lows /\ \A k \in lows : low <= k
  <2>1. lows \in SUBSET Nat /\ lows # {}
    BY <1>1, <1>2
  <2> HIDE DEF lows
  <2> QED
    BY <2>1, SmallestIs
<1>4. high \in highs /\ \A k \in highs : high >= k
  <2>1. highs \in SUBSET Nat /\ highs # {} /\ \A k \in highs : k <= PageCount
    BY <1>1, <1>2
  <2> HIDE DEF highs
  <2> QED
    BY <2>1, <1>2, LargestIs
<1>5. /\ low \in Nat /\ low <= pg
      /\ low = pg \/ \E f \in R : f.start = low /\ f.start + f.size = pg
  <2>1. low <= pg /\ (low = pg \/ \E f \in touching : f.start = low)
    <3> HIDE DEF low, touching
    <3> QED
      BY <1>3
  <2>2. CASE low = pg
    BY <2>2, <1>2
  <2>3. ASSUME NEW f \in touching, f.start = low
        PROVE  low \in Nat /\ f \in R /\ f.start + f.size = pg
    BY <2>1, <2>3, <1>1, <1>2
  <2> HIDE DEF low
  <2> QED
    BY <2>1, <2>2, <2>3
<1>6. /\ high \in Nat /\ high >= pg + n /\ high <= PageCount
      /\ high = pg + n \/ \E f \in R : f.start = pg + n /\ f.start + f.size = high
  BY <1>1, <1>2, <1>4
<1>7. \A f \in touching : low <= f.start /\ f.start + f.size <= high
  BY <1>3, <1>4
<1>8. S = (R \ touching) \cup {new}
  BY DEF Released
<1>9. new.start = low /\ new.size = high - low /\ new \in [start : Pages, size : 1..PageCount]
  <2>1. low \in Pages /\ high - low \in 1..PageCount
    BY <1>2, <1>5, <1>6 DEF Pages
  <2> HIDE DEF low, high
  <2> QED
    BY <2>1 DEF PageRange
<1> HIDE DEF low, high, lows, highs, new
(* A range which does not touch the pages is apart from them... *)
<1>10. \A g \in R \ touching : g.start + g.size < pg \/ pg + n < g.start
  <2> TAKE g \in R \ touching
  <2>1. g.start \in RangePages(g) /\ g.start + g.size - 1 \in RangePages(g)
    BY <1>1 DEF RangePages
  <2>2. g.start \in PagesIn(R) /\ g.start + g.size - 1 \in PagesIn(R)
    BY <2>1, InPages
  <2>3. g.start \notin pg..(pg + n - 1) /\ g.start + g.size - 1 \notin pg..(pg + n - 1)
    BY <2>2
  <2>4. ~ (g.start < pg /\ g.start + g.size - 1 >= pg)
    <3>1. SUFFICES ASSUME g.start < pg, g.start + g.size - 1 >= pg
                   PROVE  FALSE
      OBVIOUS
    <3>2. pg \in RangePages(g)
      BY <3>1, <1>1, <1>2 DEF RangePages
    <3>3. pg \in PagesIn(R) /\ pg \in pg..(pg + n - 1)
      BY <3>2, <1>2, InPages
    <3> QED
      BY <3>3
  <2> QED
    BY <2>3, <2>4, <1>1, <1>2
(* ... and from the ranges which they are merged with. *)
<1>11. \A g \in R \ touching : g.start + g.size < low \/ high < g.start
  <2> TAKE g \in R \ touching
  <2>1. g.start + g.size < pg => g.start + g.size < low
    <3>1. CASE low = pg
      BY <3>1
    <3>2. ASSUME NEW f \in R, f.start = low, f.start + f.size = pg
          PROVE  g.start + g.size < pg => g.start + g.size < low
      <4>1. Apart(f, g)
        BY <3>2 DEF GoodRanges
      <4> QED
        BY <4>1, <3>2, <1>1, <1>2 DEF Apart
    <3> QED
      BY <3>1, <3>2, <1>5
  <2>2. pg + n < g.start => high < g.start
    <3>1. CASE high = pg + n
      BY <3>1
    <3>2. ASSUME NEW f \in R, f.start = pg + n, f.start + f.size = high
          PROVE  pg + n < g.start => high < g.start
      <4>1. Apart(f, g)
        BY <3>2 DEF GoodRanges
      <4> QED
        BY <4>1, <3>2, <1>1, <1>2 DEF Apart
    <3> QED
      BY <3>1, <3>2, <1>6
  <2> QED
    BY <2>1, <2>2, <1>10
<1>12. GoodRanges(S)
  <2>1. \A g \in R \ touching : Apart(g, new) /\ Apart(new, g)
    BY <1>11, <1>9, <1>1, <1>5, <1>6 DEF Apart
  <2>2. new.start + new.size <= PageCount
    BY <1>9, <1>5, <1>6, <1>2
  <2> QED
    BY <2>1, <2>2, <1>8, <1>9 DEF GoodRanges
<1>13. ASSUME NEW p
       PROVE  p \in PagesIn(S) <=> p \in PagesIn(R) \/ p \in pg..(pg + n - 1)
  <2>1. p \in RangePages(new) <=> p \in low..(high - 1)
    <3>1. low + (high - low) - 1 = high - 1
      BY <1>5, <1>6
    <3> QED
      BY <3>1, <1>9 DEF RangePages
  <2>2. ASSUME p \in low..(high - 1), p \notin pg..(pg + n - 1)
        PROVE  \E f \in R : p \in RangePages(f)
    <3>1. CASE p < pg
      <4>1. PICK f \in R : f.start = low /\ f.start + f.size = pg
        BY <2>2, <3>1, <1>2, <1>5, <1>6
      <4> QED
        BY <4>1, <2>2, <3>1, <1>1, <1>2, <1>5 DEF RangePages
    <3>2. CASE p >= pg + n
      <4>1. PICK f \in R : f.start = pg + n /\ f.start + f.size = high
        BY <2>2, <3>2, <1>2, <1>5, <1>6
      <4> QED
        BY <4>1, <2>2, <3>2, <1>1, <1>2, <1>6 DEF RangePages
    <3> QED
      BY <3>1, <3>2, <2>2, <1>2, <1>5, <1>6
  <2>3. ASSUME NEW f \in touching, p \in RangePages(f)
        PROVE  p \in low..(high - 1)
    BY <2>3, <1>1, <1>5, <1>6, <1>7 DEF RangePages
  <2>4. p \in pg..(pg + n - 1) => p \in low..(high - 1)
    BY <1>2, <1>5, <1>6
  <2>5. p \in PagesIn(S) <=> (\E f \in R \ touching : p \in RangePages(f)) \/ p \in low..(high - 1)
    <3> HIDE DEF touching, S
    <3> QED
      BY <2>1, <1>8, InPages
  <2>6. p \in PagesIn(R) <=> \E f \in R : p \in RangePages(f)
    BY InPages
  <2>7. (\E f \in R : p \in RangePages(f)) <=>
           \/ \E f \in R \ touching : p \in RangePages(f)
           \/ \E f \in touching : p \in RangePages(f)
    OBVIOUS
  <2> HIDE DEF touching
  <2> QED
    BY <2>2, <2>3, <2>4, <2>5, <2>6, <2>7
<1>14. PagesIn(S) = PagesIn(R) \cup pg..(pg + n - 1)
  BY <1>13
<1> QED
  BY <1>12, <1>14

-----------------------------------------------------------------------------
(* Page lists *)

EntryType == [type : Kinds \cup {"free"}, map : SUBSET Full,
              size : 0..MaxRange, prev : Pages, next : Pages]

LEMMA CircleFrame ==
  ASSUME NEW m, NEW k, NEW S, Circular(m, S),
         \A q \in S : k[q].next = m[q].next /\ k[q].prev = m[q].prev
  PROVE  Circular(k, S)
<1>1. Linked(k, S)
  BY DEF Circular, Linked
<1>2. ASSUME NEW T \in SUBSET S, T # {}, Closed(k, T)
      PROVE  T = S
  <2>1. Closed(m, T)
    BY <1>2 DEF Closed
  <2> QED
    BY <2>1, <1>2 DEF Circular
<1> QED
  BY <1>1, <1>2 DEF Circular

(* A page which is linked in after another of the list. *)
LEMMA CircleInsert ==
  ASSUME NEW m, NEW k, NEW S, Circular(m, S), NEW q \in S, NEW pg, pg \notin S,
         k[pg].prev = q, k[pg].next = m[q].next, k[q].next = pg, k[m[q].next].prev = pg,
         \A r \in S : r # q => k[r].next = m[r].next,
         \A r \in S : r # m[q].next => k[r].prev = m[r].prev
  PROVE  Circular(k, S \cup {pg})
<1>1. Linked(k, S \cup {pg})
  <2> SUFFICES ASSUME NEW r \in S \cup {pg}
               PROVE  /\ k[r].next \in S \cup {pg} /\ k[r].prev \in S \cup {pg}
                      /\ k[k[r].next].prev = r /\ k[k[r].prev].next = r
    BY DEF Linked
  <2>1. m[q].next \in S
    BY DEF Circular, Linked
  <2>2. CASE r = pg
    BY <2>1, <2>2
  <2>3. CASE r \in S
    <3>1. /\ m[r].next \in S /\ m[r].prev \in S
          /\ m[m[r].next].prev = r /\ m[m[r].prev].next = r
          /\ m[m[q].next].prev = q
      BY <2>3 DEF Circular, Linked
    <3>2. k[r].next \in S \cup {pg} /\ k[k[r].next].prev = r
      <4>1. CASE r = q
        BY <4>1
      <4>2. CASE r # q
        <5>1. k[r].next = m[r].next
          BY <4>2, <2>3
        <5>2. m[r].next # m[q].next
          BY <4>2, <3>1
        <5> QED
          BY <5>1, <5>2, <3>1
      <4> QED
        BY <4>1, <4>2
    <3>3. k[r].prev \in S \cup {pg} /\ k[k[r].prev].next = r
      <4>1. CASE r = m[q].next
        BY <4>1
      <4>2. CASE r # m[q].next
        <5>1. k[r].prev = m[r].prev
          BY <4>2, <2>3
        <5>2. m[r].prev # q
          BY <4>2, <3>1
        <5> QED
          BY <5>1, <5>2, <3>1
      <4> QED
        BY <4>1, <4>2
    <3> QED
      BY <3>2, <3>3
  <2> QED
    BY <2>2, <2>3
<1>2. ASSUME NEW T \in SUBSET (S \cup {pg}), T # {}, Closed(k, T)
      PROVE  T = S \cup {pg}
  <2> DEFINE U == T \ {pg}
  <2>1. U \in SUBSET S
    OBVIOUS
  <2>2. U # {}
    <3>1. pg \in T => m[q].next \in T
      BY <1>2 DEF Closed
    <3>2. m[q].next \in S
      BY DEF Circular, Linked
    <3> QED
      BY <3>1, <3>2, <1>2
  <2>3. Closed(m, U)
    <3> SUFFICES ASSUME NEW r \in U
                 PROVE  m[r].next \in U
      BY DEF Closed
    <3>1. m[r].next \in S
      BY DEF Circular, Linked
    <3>2. CASE r = q
      <4>1. pg \in T
        BY <3>2, <1>2 DEF Closed
      <4>2. k[pg].next \in T
        BY <4>1, <1>2 DEF Closed
      <4> QED
        BY <4>2, <3>1, <3>2
    <3>3. CASE r # q
      BY <3>1, <3>3, <1>2 DEF Closed
    <3> QED
      BY <3>2, <3>3
  <2>4. U = S
    BY <2>1, <2>2, <2>3 DEF Circular
  <2>5. pg \in T
    BY <2>4, <1>2 DEF Closed
  <2> QED
    BY <2>4, <2>5
<1> QED
  BY <1>1, <1>2 DEF Circular

(* A page which is unlinked, its neighbours linked to each other. *)
LEMMA CircleRemove ==
  ASSUME NEW m, NEW k, NEW S, Circular(m, S), NEW pg \in S, m[pg].next # pg,
         k[m[pg].prev].next = m[pg].next, k[m[pg].next].prev = m[pg].prev,
         \A r \in S : r # m[pg].prev => k[r].next = m[r].next,
         \A r \in S : r # m[pg].next => k[r].prev = m[r].prev
  PROVE  /\ Circular(k, S \ {pg})
         /\ m[pg].next \in S \ {pg} /\ m[pg].prev \in S \ {pg}
<1>1. /\ m[pg].next \in S \ {pg} /\ m[pg].prev \in S \ {pg}
      /\ m[m[pg].next].prev = pg /\ m[m[pg].prev].next = pg
  BY DEF Circular, Linked
<1>2. Linked(k, S \ {pg})
  <2> SUFFICES ASSUME NEW r \in S \ {pg}
               PROVE  /\ k[r].next \in S \ {pg} /\ k[r].prev \in S \ {pg}
                      /\ k[k[r].next].prev = r /\ k[k[r].prev].next = r
    BY DEF Linked
  <2>1. /\ m[r].next \in S /\ m[r].prev \in S
        /\ m[m[r].next].prev = r /\ m[m[r].prev].next = r
    BY DEF Circular, Linked
  <2>2. k[r].next \in S \ {pg} /\ k[k[r].next].prev = r
    <3>1. CASE r = m[pg].prev
      BY <3>1, <1>1
    <3>2. CASE r # m[pg].prev
      <4>1. k[r].next = m[r].next
        BY <3>2
      <4>2. m[r].next # pg /\ m[r].next # m[pg].next
        BY <3>2, <2>1, <1>1
      <4> QED
        BY <4>1, <4>2, <2>1
    <3> QED
      BY <3>1, <3>2
  <2>3. k[r].prev \in S \ {pg} /\ k[k[r].prev].next = r
    <3>1. CASE r = m[pg].next
      BY <3>1, <1>1
    <3>2. CASE r # m[pg].next
      <4>1. k[r].prev = m[r].prev
        BY <3>2
      <4>2. m[r].prev # pg /\ m[r].prev # m[pg].prev
        BY <3>2, <2>1, <1>1
      <4> QED
        BY <4>1, <4>2, <2>1
    <3> QED
      BY <3>1, <3>2
  <2> QED
    BY <2>2, <2>3
<1>3. ASSUME NEW T \in SUBSET (S \ {pg}), T # {}, Closed(k, T)
      PROVE  T = S \ {pg}
  <2>1. CASE m[pg].prev \in T
    <3> DEFINE U == T \cup {pg}
    <3>1. Closed(m, U)
      <4> SUFFICES ASSUME NEW r \in U
                   PROVE  m[r].next \in U
        BY DEF Closed
      <4>1. CASE r = pg
        <5>1. k[m[pg].prev].next \in T
          BY <2>1, <1>3 DEF Closed
        <5> QED
          BY <5>1, <4>1
      <4>2. CASE r = m[pg].prev
        BY <4>2, <1>1
      <4>3. CASE r # pg /\ r # m[pg].prev
        BY <4>3, <1>3 DEF Closed
      <4> QED
        BY <4>1, <4>2, <4>3
    <3>2. U = S
      BY <3>1 DEF Circular
    <3> QED
      BY <3>2
  <2>2. CASE m[pg].prev \notin T
    <3>1. Closed(m, T)
      BY <2>2, <1>3 DEF Closed
    <3>2. T = S
      BY <3>1, <1>3 DEF Circular
    <3> QED
      BY <3>2
  <2> QED
    BY <2>1, <2>2
<1> QED
  BY <1>1, <1>2, <1>3 DEF Circular

(* The list operations touch the links of the pages of the list, only. *)
Relinks(m, k, S) ==
    /\ k \in [Pages -> EntryType]
    /\ \A q \in Pages : /\ k[q].type = m[q].type /\ k[q].map = m[q].map
                        /\ k[q].size = m[q].size
                        /\ q \notin S => k[q] = m[q]

(* k is m but for one link. *)
NextSet(m, k, a, b) ==
    /\ Relinks(m, k, {a})
    /\ \A q \in Pages : /\ k[q].next = IF q = a THEN b ELSE m[q].next
                        /\ k[q].prev = m[q].prev

PrevSet(m, k, a, b) ==
    /\ Relinks(m, k, {a})
    /\ \A q \in Pages : /\ k[q].prev = IF q = a THEN b ELSE m[q].prev
                        /\ k[q].next = m[q].next

LEMMA NextIsSet ==
  ASSUME NEW m \in [Pages -> EntryType], NEW a \in Pages, NEW b \in Pages
  PROVE  NextSet(m, [m EXCEPT ![a].next = b], a, b)
BY DEF NextSet, Relinks, EntryType

LEMMA PrevIsSet ==
  ASSUME NEW m \in [Pages -> EntryType], NEW a \in Pages, NEW b \in Pages
  PROVE  PrevSet(m, [m EXCEPT ![a].prev = b], a, b)
BY DEF PrevSet, Relinks, EntryType

LEMMA RelinksMore ==
  ASSUME NEW m, NEW k, NEW l, NEW S, NEW T, NEW U, Relinks(m, k, S), Relinks(k, l, T),
         S \subseteq U, T \subseteq U
  PROVE  Relinks(m, l, U)
BY DEF Relinks

(* pg is linked in between q and next. *)
Between(m, pg, q, next) ==
    [m EXCEPT ![pg].prev = q, ![pg].next = next, ![next].prev = pg, ![q].next = pg]

LinkedIn(m, k, pg, q, next) ==
    /\ Relinks(m, k, {pg, q, next})
    /\ k[pg].prev = q /\ k[pg].next = next /\ k[q].next = pg /\ k[next].prev = pg
    /\ \A r \in Pages : /\ r # q /\ r # pg => k[r].next = m[r].next
                        /\ r # next /\ r # pg => k[r].prev = m[r].prev

LEMMA BetweenLinks ==
  ASSUME NEW m \in [Pages -> EntryType], NEW pg \in Pages, NEW q \in Pages,
         NEW next \in Pages, pg # q, pg # next
  PROVE  LinkedIn(m, Between(m, pg, q, next), pg, q, next)
<1> DEFINE m1 == [m EXCEPT ![pg].prev = q]
           m2 == [m1 EXCEPT ![pg].next = next]
           m3 == [m2 EXCEPT ![next].prev = pg]
           k == [m3 EXCEPT ![q].next = pg]
<1>1. k = Between(m, pg, q, next)
  BY DEF Between
<1>2. PrevSet(m, m1, pg, q)
  BY PrevIsSet
<1>3. m1 \in [Pages -> EntryType]
  BY <1>2 DEF PrevSet, Relinks
<1> HIDE DEF m1
<1>4. NextSet(m1, m2, pg, next)
  BY <1>3, NextIsSet
<1>5. m2 \in [Pages -> EntryType]
  BY <1>4 DEF NextSet, Relinks
<1> HIDE DEF m2
<1>6. PrevSet(m2, m3, next, pg)
  BY <1>5, PrevIsSet
<1>7. m3 \in [Pages -> EntryType]
  BY <1>6 DEF PrevSet, Relinks
<1> HIDE DEF m3
<1>8. NextSet(m3, k, q, pg)
  BY <1>7, NextIsSet
<1> HIDE DEF k
<1>9. Relinks(m, k, {pg, q, next})
  <2>1. Relinks(m, m2, {pg, q, next})
    BY <1>2, <1>4, RelinksMore DEF NextSet, PrevSet
  <2>2. Relinks(m, m3, {pg, q, next})
    BY <1>6, <2>1, RelinksMore DEF NextSet, PrevSet
  <2> QED
    BY <1>8, <2>2, RelinksMore DEF NextSet, PrevSet
<1> QED
  BY <1>1, <1>2, <1>4, <1>6, <1>8, <1>9 DEF NextSet, PrevSet, LinkedIn

(* What an operation of page lists promises: S is the list, from h. *)
Lists(m, r, T, S) ==
    /\ Relinks(m, r.map, T)
    /\ Heads(r.map, S, r.head) /\ r.head \in Pages \cup {NoPage}

LEMMA AddFrontLists ==
  ASSUME NEW m \in [Pages -> EntryType], NEW S \in SUBSET Pages, NEW h, Heads(m, S, h),
         NEW pg \in Pages \ S
  PROVE  Lists(m, AddFront(Ring(m, h), pg), S \cup {pg}, S \cup {pg})
<1> USE HeapAssumption
<1> DEFINE r == AddFront(Ring(m, h), pg)
           k == r.map
<1> SUFFICES Relinks(m, k, S \cup {pg}) /\ Circular(k, S \cup {pg}) /\ r.head = pg
  BY DEF Lists, Heads, Pages
<1>1. CASE h = NoPage
  <2> DEFINE l == [m EXCEPT ![pg].prev = pg]
  <2>1. k = [l EXCEPT ![pg].next = pg] /\ r.head = pg
    BY <1>1 DEF AddFront, Ring
  <2>2. PrevSet(m, l, pg, pg)
    BY PrevIsSet
  <2> HIDE DEF l
  <2>3. NextSet(l, [l EXCEPT ![pg].next = pg], pg, pg)
    BY <2>2, NextIsSet DEF PrevSet, Relinks
  <2> HIDE DEF r, k
  <2>4. Relinks(m, k, S \cup {pg})
    BY <2>1, <2>2, <2>3, RelinksMore DEF NextSet, PrevSet
  <2>5. k[pg].next = pg /\ k[pg].prev = pg
    BY <2>1, <2>2, <2>3 DEF NextSet, PrevSet
  <2>6. Circular(k, {pg})
    BY <2>5 DEF Circular, Linked, Closed
  <2>7. S = {}
    BY <1>1 DEF Heads
  <2> QED
    BY <2>1, <2>4, <2>6, <2>7
<1>2. CASE h # NoPage
  <2> DEFINE next == m[h].next
  <2>1. h \in S /\ next \in S /\ h \in Pages /\ next \in Pages
    BY <1>2 DEF Heads, Circular, Linked
  <2>2. k = Between(m, pg, h, next) /\ r.head = pg
    BY <1>2 DEF AddFront, Ring, Between
  <2>3. next = m[h].next
    OBVIOUS
  <2> HIDE DEF r, k, next
  <2>4. LinkedIn(m, k, pg, h, next)
    BY <2>1, <2>2, BetweenLinks
  <2>5. Circular(k, S \cup {pg})
    BY <2>1, <2>3, <2>4, CircleInsert DEF Heads, LinkedIn
  <2>6. Relinks(m, k, S \cup {pg})
    BY <2>1, <2>4 DEF LinkedIn, Relinks
  <2> QED
    BY <2>2, <2>5, <2>6
<1> QED
  BY <1>1, <1>2

LEMMA RemoveLists ==
  ASSUME NEW m \in [Pages -> EntryType], NEW S \in SUBSET Pages, NEW h, Heads(m, S, h),
         NEW pg \in S
  PROVE  /\ Lists(m, Remove(Ring(m, h), pg), S, S \ {pg})
         /\ m[pg].next # pg => Remove(Ring(m, h), pg).head \in S \ {pg}
<1> USE HeapAssumption
<1> DEFINE r == Remove(Ring(m, h), pg)
           k == r.map
           before == m[pg].prev
           after == m[pg].next
<1>0. NoPage \notin Pages
  BY DEF Pages
<1> SUFFICES /\ Relinks(m, k, S) /\ Circular(k, S \ {pg})
             /\ IF after # pg THEN r.head \in S \ {pg} ELSE r.head = NoPage /\ S = {pg}
  BY <1>0 DEF Lists, Heads
<1>1. /\ after \in S /\ before \in S /\ h \in S
      /\ after \in Pages /\ before \in Pages /\ pg \in Pages
  BY <1>0 DEF Heads, Circular, Linked
<1>2. CASE pg = after
  <2>1. k = m /\ r.head = NoPage
    BY <1>2 DEF Remove, Ring
  <2>2. S = {pg}
    BY <1>2, {pg} \in SUBSET S DEF Heads, Circular, Closed
  <2>3. Circular(k, S \ {pg})
    BY <2>2 DEF Circular, Linked
  <2> HIDE DEF r, k
  <2> QED
    BY <2>1, <2>2, <2>3, <1>2 DEF Relinks
<1>3. CASE pg # after
  <2> DEFINE l == [m EXCEPT ![before].next = after]
  <2>1. /\ k = [l EXCEPT ![after].prev = before]
        /\ r.head = IF pg = h THEN after ELSE h
    BY <1>3 DEF Remove, Ring
  <2>2. after = m[pg].next /\ before = m[pg].prev
    OBVIOUS
  <2> HIDE DEF r, k, after, before
  <2>3. NextSet(m, l, before, after)
    BY <1>1, NextIsSet
  <2> HIDE DEF l
  <2>4. PrevSet(l, k, after, before)
    BY <1>1, <2>1, <2>3, PrevIsSet DEF NextSet, Relinks
  <2>5. Relinks(m, k, S)
    BY <1>1, <2>3, <2>4, RelinksMore DEF NextSet, PrevSet
  <2>6. /\ k[before].next = after /\ k[after].prev = before
        /\ \A q \in S : q # before => k[q].next = m[q].next
        /\ \A q \in S : q # after => k[q].prev = m[q].prev
    BY <1>1, <2>3, <2>4 DEF NextSet, PrevSet
  <2>7. Circular(k, S \ {pg}) /\ after \in S \ {pg}
    BY <1>1, <1>3, <2>2, <2>6, CircleRemove DEF Heads
  <2> QED
    BY <2>1, <2>5, <2>7, <1>1, <1>3
<1> QED
  BY <1>2, <1>3

LEMMA MoveFrontLists ==
  ASSUME NEW m \in [Pages -> EntryType], NEW S \in SUBSET Pages, NEW h, Heads(m, S, h),
         NEW pg \in S
  PROVE  Lists(m, MoveFront(Ring(m, h), pg), S, S)
<1> USE HeapAssumption
<1>0. h \in S
  BY DEF Heads
<1>1. CASE h = pg
  BY <1>0, <1>1 DEF MoveFront, Ring, Lists, Relinks
<1>2. CASE h # pg
  <2> DEFINE r == Remove(Ring(m, h), pg)
             s == AddFront(Ring(r.map, r.head), pg)
  <2>1. Lists(m, r, S, S \ {pg})
    BY RemoveLists
  <2>2. MoveFront(Ring(m, h), pg) = s
    <3>1. r = Ring(r.map, r.head)
      BY DEF Remove, Ring
    <3> QED
      BY <3>1, <1>2 DEF MoveFront, Ring
  <2> SUFFICES Lists(m, s, S, S)
    BY <2>2
  <2> HIDE DEF r
  <2>3. r.map \in [Pages -> EntryType] /\ Heads(r.map, S \ {pg}, r.head)
    BY <2>1 DEF Lists, Relinks
  <2>4. Lists(r.map, s, (S \ {pg}) \cup {pg}, (S \ {pg}) \cup {pg})
    BY <2>3, AddFrontLists
  <2>5. (S \ {pg}) \cup {pg} = S
    OBVIOUS
  <2> HIDE DEF s
  <2> QED
    BY <2>1, <2>4, <2>5, RelinksMore DEF Lists
<1> QED
  BY <1>1, <1>2

LEMMA MoveBackLists ==
  ASSUME NEW m \in [Pages -> EntryType], NEW S \in SUBSET Pages, NEW h, Heads(m, S, h),
         NEW pg \in S
  PROVE  Lists(m, MoveBack(Ring(m, h), pg), S, S)
<1> USE HeapAssumption
<1>0. h \in S
  BY DEF Heads
<1>1. CASE m[pg].next = pg
  BY <1>0, <1>1 DEF MoveBack, Ring, Lists, Relinks
<1>2. CASE m[pg].next # pg
  <2> DEFINE r == MoveBack(Ring(m, h), pg)
             s == Remove(Ring(m, h), pg)
             n == s.map
             last == n[s.head].prev
             next == n[last].next
             k == Between(n, pg, last, next)
  <2>1. Lists(m, s, S, S \ {pg}) /\ s.head \in S \ {pg}
    BY <1>2, RemoveLists
  <2>2. r.map = k /\ r.head = s.head
    BY <1>2 DEF MoveBack, Ring, Between
  <2>3. NoPage \notin Pages
    BY DEF Pages
  <2> SUFFICES Relinks(m, k, S) /\ Circular(k, S)
    BY <2>1, <2>2, <2>3 DEF Lists, Heads
  <2>4. Relinks(m, n, S) /\ Circular(n, S \ {pg}) /\ n \in [Pages -> EntryType]
    BY <2>1 DEF Lists, Heads, Relinks
  <2> HIDE DEF s, n, r
  <2>5. last \in S \ {pg} /\ next \in S \ {pg}
    <3>1. last \in S \ {pg}
      BY <2>1, <2>4 DEF Circular, Linked
    <3> QED
      BY <2>4, <3>1 DEF Circular, Linked
  <2>6. next = n[last].next
    OBVIOUS
  <2> HIDE DEF last, next
  <2>7. LinkedIn(n, k, pg, last, next)
    BY <2>4, <2>5, BetweenLinks
  <2> HIDE DEF k
  <2>8. Circular(k, (S \ {pg}) \cup {pg})
    BY <2>4, <2>5, <2>6, <2>7, CircleInsert DEF LinkedIn
  <2>9. (S \ {pg}) \cup {pg} = S
    OBVIOUS
  <2>10. Relinks(m, k, S)
    BY <2>4, <2>5, <2>7, RelinksMore DEF LinkedIn
  <2> QED
    BY <2>8, <2>9, <2>10
<1> QED
  BY <1>1, <1>2

-----------------------------------------------------------------------------
(* The memory of the heap: what is free, and what the program owns *)

LEMMA FreeIsNotLive ==
  ASSUME BlocksAreDisjoint, NEW y \in live
  PROVE  PagesOf(y) \cap PagesIn(ranges[y.ext]) = {}
BY InPages DEF BlocksAreDisjoint

(* A new block takes pages which were free. *)
LEMMA MemoryTaken ==
  ASSUME TypeOK, MemInv, NEW e \in 1..extents, NEW f \in ranges[e],
         NEW n \in Nat \ {0}, n <= f.size,
         NEW x, x.ext = e, PagesOf(x) = ReservedPage(f, n)..(ReservedPage(f, n) + n - 1),
         live' = live \cup {x}, extents' = extents,
         ranges' = [ranges EXCEPT ![e] = Reserved(@, f, n)]
  PROVE  MemInv'
<1> USE HeapAssumption
<1> DEFINE taken == PagesOf(x)
<1>1. /\ e \in Extents /\ extents \in Nat
      /\ ranges'[e] = Reserved(ranges[e], f, n)
      /\ \A i \in Extents : i # e => ranges'[i] = ranges[i]
  BY DEF TypeOK, Extents
<1>2. /\ GoodRanges(Reserved(ranges[e], f, n)) /\ taken \subseteq PagesIn(ranges[e])
      /\ PagesIn(Reserved(ranges[e], f, n)) = PagesIn(ranges[e]) \ taken
  <2>1. GoodRanges(ranges[e])
    BY <1>1 DEF MemInv, RangeInv
  <2> QED
    BY <2>1, ReservedSplits
<1> HIDE DEF taken
<1>3. RangeInv'
  <2>1. \A i \in Extents : GoodRanges(ranges'[i])
    BY <1>1, <1>2 DEF MemInv, RangeInv
  <2>2. \A i \in Extents : i > extents' => ranges'[i] = {}
    BY <1>1 DEF MemInv, RangeInv
  <2> QED
    BY <2>1, <2>2 DEF RangeInv
<1>4. ASSUME NEW y \in live
      PROVE  /\ y.ext = e => PagesOf(y) \cap taken = {}
             /\ y.ext = e => PagesOf(y) \cap PagesIn(ranges[e]) = {}
  BY <1>2, FreeIsNotLive DEF MemInv
<1>5. BlocksAreDisjoint'
  <2>1. \A y, z \in live' : y # z => ~ Overlap(y, z)
    <3> SUFFICES ASSUME NEW y \in live', NEW z \in live', y # z
                 PROVE  ~ Overlap(y, z)
      OBVIOUS
    <3>1. CASE y \in live /\ z \in live
      BY <3>1 DEF MemInv, BlocksAreDisjoint
    <3>2. CASE y = x /\ z \in live
      BY <3>2, <1>4 DEF Overlap, taken
    <3>3. CASE y \in live /\ z = x
      BY <3>3, <1>4 DEF Overlap, taken
    <3> QED
      BY <3>1, <3>2, <3>3
  <2>2. ASSUME NEW y \in live', NEW g \in ranges'[y.ext]
        PROVE  PagesOf(y) \cap RangePages(g) = {}
    <3>1. CASE y.ext = e
      <4>1. RangePages(g) \subseteq PagesIn(ranges[e]) \ taken
        BY <3>1, <1>1, <1>2, InPages
      <4> QED
        BY <4>1, <3>1, <1>4 DEF taken
    <3>2. CASE y.ext # e
      <4>1. y \in live
        BY <3>2
      <4>2. ranges'[y.ext] = ranges[y.ext]
        BY <3>2 DEF TypeOK
      <4> QED
        BY <4>1, <4>2 DEF MemInv, BlocksAreDisjoint
    <3> QED
      BY <3>1, <3>2
  <2> QED
    BY <2>1, <2>2 DEF BlocksAreDisjoint
<1>6. NothingLeaks'
  <2> SUFFICES ASSUME NEW i \in 1..extents
               PROVE  /\ LivePages(i)' \cup FreePagesOf(i)' = Pages
                      /\ \A g, h \in ranges'[i] : g # h => g.start + g.size # h.start
    BY DEF NothingLeaks
  <2>1. i \in Extents
    BY <1>1 DEF TypeOK, Extents
  <2>2. LivePages(i)' = LivePages(i) \cup (IF i = e THEN taken ELSE {})
    BY DEF LivePages, taken
  <2>3. FreePagesOf(i)' = FreePagesOf(i) \ (IF i = e THEN taken ELSE {})
    <3>1. FreePagesOf(i) = PagesIn(ranges[i]) /\ FreePagesOf(i)' = PagesIn(ranges'[i])
      BY DEF FreePagesOf, PagesIn
    <3> QED
      BY <3>1, <2>1, <1>1, <1>2
  <2>4. LivePages(i) \cup FreePagesOf(i) = Pages
    BY DEF MemInv, NothingLeaks
  <2>5. i = e => taken \subseteq FreePagesOf(i)
    BY <1>2 DEF FreePagesOf, PagesIn
  <2>6. GoodRanges(ranges'[i])
    BY <2>1, <1>3 DEF RangeInv
  <2>7. \A g, h \in ranges'[i] : g # h => g.start + g.size # h.start
    <3> TAKE g, h \in ranges'[i]
    <3>1. /\ g.start \in Int /\ g.size \in Int /\ g.size > 0
          /\ h.start \in Int /\ h.size \in Int /\ h.size > 0
          /\ g # h => Apart(g, h)
      BY <2>6 DEF GoodRanges, Pages
    <3> QED
      BY <3>1 DEF Apart
  <2> QED
    BY <2>2, <2>3, <2>4, <2>5, <2>7
<1> QED
  BY <1>3, <1>5, <1>6 DEF MemInv

(* The pages of a block return when no other block has one of them. *)
LEMMA MemoryGiven ==
  ASSUME TypeOK, MemInv, NEW x \in live, x.ext \in 1..extents,
         NEW pg \in Pages, NEW n \in Nat \ {0}, pg + n <= PageCount,
         PagesOf(x) = pg..(pg + n - 1),
         \A y \in live : y # x /\ y.ext = x.ext => PagesOf(y) \cap PagesOf(x) = {},
         live' = live \ {x}, extents' = extents,
         ranges' = [ranges EXCEPT ![x.ext] = Released(@, pg, n)]
  PROVE  MemInv'
<1> USE HeapAssumption
<1> DEFINE e == x.ext
           given == PagesOf(x)
<1>1. /\ e \in Extents /\ extents \in Nat
      /\ ranges'[e] = Released(ranges[e], pg, n)
      /\ \A i \in Extents : i # e => ranges'[i] = ranges[i]
  BY DEF TypeOK, Extents
<1>2. /\ GoodRanges(Released(ranges[e], pg, n))
      /\ PagesIn(Released(ranges[e], pg, n)) = PagesIn(ranges[e]) \cup given
  <2>1. GoodRanges(ranges[e])
    BY <1>1 DEF MemInv, RangeInv
  <2>2. PagesIn(ranges[e]) \cap pg..(pg + n - 1) = {}
    BY FreeIsNotLive DEF MemInv
  <2> QED
    BY <2>1, <2>2, ReleasedMerges
<1>3. \A y \in live : y # x /\ y.ext = e => PagesOf(y) \cap given = {}
  OBVIOUS
<1> HIDE DEF given
<1>4. RangeInv'
  <2>1. \A i \in Extents : GoodRanges(ranges'[i])
    BY <1>1, <1>2 DEF MemInv, RangeInv
  <2>2. \A i \in Extents : i > extents' => ranges'[i] = {}
    BY <1>1 DEF MemInv, RangeInv
  <2> QED
    BY <2>1, <2>2 DEF RangeInv
<1>5. BlocksAreDisjoint'
  <2>1. \A y, z \in live' : y # z => ~ Overlap(y, z)
    BY DEF MemInv, BlocksAreDisjoint
  <2>2. ASSUME NEW y \in live', NEW g \in ranges'[y.ext]
        PROVE  PagesOf(y) \cap RangePages(g) = {}
    <3>1. CASE y.ext = e
      <4>1. RangePages(g) \subseteq PagesIn(ranges[e]) \cup given
        BY <3>1, <1>1, <1>2, InPages
      <4>2. PagesOf(y) \cap PagesIn(ranges[e]) = {}
        BY <3>1, FreeIsNotLive DEF MemInv
      <4>3. PagesOf(y) \cap given = {}
        BY <3>1, <1>3
      <4> QED
        BY <4>1, <4>2, <4>3
    <3>2. CASE y.ext # e
      <4>1. ranges'[y.ext] = ranges[y.ext]
        BY <3>2 DEF TypeOK
      <4> QED
        BY <4>1 DEF MemInv, BlocksAreDisjoint
    <3> QED
      BY <3>1, <3>2
  <2> QED
    BY <2>1, <2>2 DEF BlocksAreDisjoint
<1>6. NothingLeaks'
  <2> SUFFICES ASSUME NEW i \in 1..extents
               PROVE  /\ LivePages(i)' \cup FreePagesOf(i)' = Pages
                      /\ \A g, h \in ranges'[i] : g # h => g.start + g.size # h.start
    BY DEF NothingLeaks
  <2>1. i \in Extents
    BY <1>1 DEF TypeOK, Extents
  <2>2. LivePages(i) = LivePages(i)' \cup (IF i = e THEN given ELSE {})
    BY DEF LivePages, given
  <2>3. FreePagesOf(i)' = FreePagesOf(i) \cup (IF i = e THEN given ELSE {})
    <3>1. FreePagesOf(i) = PagesIn(ranges[i]) /\ FreePagesOf(i)' = PagesIn(ranges'[i])
      BY DEF FreePagesOf, PagesIn
    <3> QED
      BY <3>1, <2>1, <1>1, <1>2
  <2>4. LivePages(i) \cup FreePagesOf(i) = Pages
    BY DEF MemInv, NothingLeaks
  <2>5. GoodRanges(ranges'[i])
    BY <2>1, <1>4 DEF RangeInv
  <2>6. \A g, h \in ranges'[i] : g # h => g.start + g.size # h.start
    <3> TAKE g, h \in ranges'[i]
    <3>1. /\ g.start \in Int /\ g.size \in Int /\ g.size > 0
          /\ h.start \in Int /\ h.size \in Int /\ h.size > 0
          /\ g # h => Apart(g, h)
      BY <2>5 DEF GoodRanges, Pages
    <3> QED
      BY <3>1 DEF Apart
  <2> QED
    BY <2>2, <2>3, <2>4, <2>6
<1> QED
  BY <1>4, <1>5, <1>6 DEF MemInv

(* A block which comes to, or leaves, a page where another one stays. *)
LEMMA MemoryShared ==
  ASSUME TypeOK, MemInv, NEW x, NEW y \in live, x # y,
         x.ext = y.ext, PagesOf(x) = PagesOf(y), x.kind = y.kind, x.kind # "list",
         \/ live' = live \ {x}
         \/ /\ live' = live \cup {x}
            /\ \A z \in live : z.ext = x.ext /\ z.kind = x.kind
                                 /\ PagesOf(z) \cap PagesOf(x) # {} => z.n # x.n,
         UNCHANGED <<extents, ranges>>
  PROVE  MemInv'
<1>1. \A z \in live : z # y /\ Overlap(z, x) => z.kind = x.kind /\ z.n = x.n
  BY DEF MemInv, BlocksAreDisjoint, Overlap
<1>2. BlocksAreDisjoint'
  <2>1. \A v, w \in live' : v # w => ~ Overlap(v, w)
    BY <1>1 DEF MemInv, BlocksAreDisjoint, Overlap
  <2>2. \A v \in live' : \A g \in ranges'[v.ext] : PagesOf(v) \cap RangePages(g) = {}
    BY DEF MemInv, BlocksAreDisjoint
  <2> QED
    BY <2>1, <2>2 DEF BlocksAreDisjoint
<1>3. \A i : LivePages(i)' = LivePages(i)
  BY DEF LivePages
<1>4. NothingLeaks'
  <2>1. \A i : FreePagesOf(i)' = FreePagesOf(i)
    BY DEF FreePagesOf
  <2> QED
    BY <1>3, <2>1 DEF MemInv, NothingLeaks
<1>5. RangeInv'
  BY DEF MemInv, RangeInv
<1> QED
  BY <1>2, <1>4, <1>5 DEF MemInv

-----------------------------------------------------------------------------
(* Page entries and page lists, as the steps leave them *)

LEMMA Typing ==
  ASSUME TypeOK
  PROVE  /\ pagemap \in [Extents -> [Pages -> EntryType]]
         /\ extents \in Extents /\ extents \in Nat /\ 1 \in Extents
         /\ used \in [Kinds -> Nat] /\ buckets \in [Buckets -> Pages \cup {NoPage}]
BY HeapAssumption DEF TypeOK, EntryType, Extents

LEMMA BlockTypes ==
  ASSUME EntryInv, NEW y \in live
  PROVE  /\ y.ext \in 1..extents /\ y.page \in Pages /\ y.kind \in Kinds /\ y.n \in Nat
         /\ y.page \in PagesOf(y)
         /\ y = Block(y.ext, y.page, y.kind, y.n)
<1>1. EntryOK(y)
  BY DEF EntryInv
<1>2. y \in [ext : 1..extents, page : Pages, kind : Kinds, n : Nat]
  BY <1>1 DEF EntryOK
<1>3. y.page \in PagesOf(y)
  BY <1>1, HeapAssumption DEF EntryOK, PagesOf, Pages
<1> QED
  BY <1>2, <1>3 DEF Block

LEMMA MaskFacts ==
  ASSUME NEW b \in Buckets
  PROVE  /\ BlockMask(b) \subseteq Full /\ BlockMask(b) \cap Idle(b) = {}
         /\ 0 \in BlockMask(b) /\ Idle(b) \cup BlockMask(b) = Full /\ Full \subseteq Nat
BY HeapAssumption DEF BlockMask, Full, Idle

LEMMA EntryKept ==
  ASSUME NEW y, EntryOK(y), extents \in Nat, extents' \in Nat, extents <= extents',
         pagemap'[y.ext][y.page].type = pagemap[y.ext][y.page].type,
         pagemap'[y.ext][y.page].size = pagemap[y.ext][y.page].size,
         pagemap'[y.ext][y.page].map = pagemap[y.ext][y.page].map,
         y.kind # "list" => BusyOf(y.kind, y.page)' = BusyOf(y.kind, y.page)
  PROVE  EntryOK(y)'
<1>1. y \in [ext : 1..extents', page : Pages, kind : Kinds, n : Nat]
  BY DEF EntryOK
<1>2. CASE y.kind = "list"
  BY <1>1, <1>2 DEF EntryOK
<1>3. CASE y.kind # "list"
  BY <1>1, <1>3 DEF EntryOK
<1> QED
  BY <1>2, <1>3

LEMMA ListKept ==
  ASSUME ListInv, NEW b \in Buckets, BucketPages(b)' = BucketPages(b),
         buckets'[b] = buckets[b],
         \A q \in BucketPages(b) : pagemap'[1][q] = pagemap[1][q]
  PROVE  Heads(pagemap[1], BucketPages(b), buckets[b])'
<1> DEFINE m == pagemap[1]
           k == pagemap'[1]
           S == BucketPages(b)
<1>1. Circular(m, S) /\ IF buckets[b] = NoPage THEN S = {} ELSE buckets[b] \in S
  BY DEF ListInv, Heads
<1>2. \A q \in S : k[q].next = m[q].next /\ k[q].prev = m[q].prev
  OBVIOUS
<1> HIDE DEF m, k, S
<1>3. Circular(k, S)
  BY <1>1, <1>2, CircleFrame
<1> QED
  BY <1>1, <1>3 DEF Heads, k, S

(* The pages of a bucket, which no other bucket has. *)
LEMMA BucketPagesAre ==
  ASSUME EntryInv, NEW b \in Buckets
  PROVE  /\ BucketPages(b) \in SUBSET Pages
         /\ \A q \in BucketPages(b) :
              /\ pagemap[1][q].type = b
              /\ pagemap[1][q].map = Idle(b) \cup BusyOf(b, q)
              /\ BusyOf(b, q) \subseteq BlockMask(b)
              /\ \E y \in live : y.ext = 1 /\ y.kind = b /\ y.page = q
<1> USE HeapAssumption
<1>1. ASSUME NEW y \in live, y.kind = b
      PROVE  /\ y.page \in Pages /\ y.ext = 1 /\ y.n \in BlockMask(b)
             /\ pagemap[1][y.page].type = b
             /\ pagemap[1][y.page].map = Idle(b) \cup BusyOf(b, y.page)
  BY <1>1, BlockTypes DEF EntryInv, EntryOK
<1> QED
  BY <1>1 DEF BucketPages, BusyOf

-----------------------------------------------------------------------------
(* Counting *)

LEMMA RunOfPages ==
  ASSUME NEW e, NEW lo \in Int, NEW hi \in Int, lo <= hi
  PROVE  IsFiniteSet({e} \X (lo..hi)) /\ Cardinality({e} \X (lo..hi)) = hi - lo + 1
<1>1. IsFiniteSet(lo..hi) /\ Cardinality(lo..hi) = hi - lo + 1
  BY FS_Interval
<1>2. IsFiniteSet({e}) /\ Cardinality({e}) = 1
  BY FS_Singleton
<1> DEFINE A == {e}
           B == lo..hi
<1>3. /\ IsFiniteSet(A) /\ IsFiniteSet(B)
      /\ Cardinality(A) = 1 /\ Cardinality(B) = hi - lo + 1
  BY <1>1, <1>2
<1> HIDE DEF A, B
<1>4. IsFiniteSet(A \X B) /\ Cardinality(A \X B) = 1 * Cardinality(B)
  BY <1>3, FS_Product
<1> QED
  BY <1>3, <1>4 DEF A, B

LEMMA ListPagesFinite ==
  ASSUME EntryInv, extents \in Extents
  PROVE  IsFiniteSet(ListPages)
<1> USE HeapAssumption
<1>1. IsFiniteSet(Extents) /\ IsFiniteSet(Pages)
  BY FS_Interval DEF Extents, Pages
<1>2. ListPages \subseteq Extents \X Pages
  <2> SUFFICES ASSUME NEW y \in Blocks("list")
               PROVE  y.ext \in Extents /\ PagesOf(y) \subseteq Pages
    BY DEF ListPages
  <2>1. EntryOK(y) /\ y.kind = "list"
    BY DEF EntryInv, Blocks
  <2> QED
    BY <2>1 DEF EntryOK, PagesOf, Pages, Extents
<1> QED
  BY <1>1, <1>2, FS_Product, FS_Subset

LEMMA BlockAdded ==
  ASSUME CountInv, NEW k, NEW x, x.kind = k, x \notin live, live' = live \cup {x}
  PROVE  /\ IsFiniteSet(live') /\ Blocks(k)' = Blocks(k) \cup {x}
         /\ Cardinality(Blocks(k)') = Cardinality(Blocks(k)) + 1
         /\ \A j : j # k => Blocks(j)' = Blocks(j)
<1>1. IsFiniteSet(live') /\ IsFiniteSet(Blocks(k))
  BY FS_AddElement, FS_Subset DEF CountInv, Blocks
<1>2. Blocks(k)' = Blocks(k) \cup {x} /\ x \notin Blocks(k)
  BY DEF Blocks
<1>3. \A j : j # k => Blocks(j)' = Blocks(j)
  BY DEF Blocks
<1> QED
  BY <1>1, <1>2, <1>3, FS_AddElement

LEMMA BlockRemoved ==
  ASSUME CountInv, NEW k, NEW x \in live, x.kind = k, live' = live \ {x}
  PROVE  /\ IsFiniteSet(live') /\ Blocks(k)' = Blocks(k) \ {x}
         /\ Cardinality(Blocks(k)') = Cardinality(Blocks(k)) - 1
         /\ \A j : j # k => Blocks(j)' = Blocks(j)
<1>1. IsFiniteSet(live') /\ IsFiniteSet(Blocks(k))
  BY FS_RemoveElement, FS_Subset DEF CountInv, Blocks
<1>2. Blocks(k)' = Blocks(k) \ {x} /\ x \in Blocks(k)
  BY DEF Blocks
<1>3. \A j : j # k => Blocks(j)' = Blocks(j)
  BY DEF Blocks
<1> QED
  BY <1>1, <1>2, <1>3, FS_RemoveElement

-----------------------------------------------------------------------------
(* The steps *)

LEMMA RoomIsSuitable ==
  ASSUME TypeOK, MemInv, NEW n \in Nat \ {0}, RoomFor(n) # {}
  PROVE  /\ Smallest(RoomFor(n)) \in 1..extents
         /\ \A f \in Suitable(ranges[Smallest(RoomFor(n))], n) :
              /\ f \in ranges[Smallest(RoomFor(n))] /\ n <= f.size
              /\ ReservedPage(f, n) \in Pages /\ ReservedPage(f, n) + n <= PageCount
              /\ ReservedPage(f, n)..(ReservedPage(f, n) + n - 1)
                   \subseteq PagesIn(ranges[Smallest(RoomFor(n))])
<1> USE HeapAssumption
<1> DEFINE e == Smallest(RoomFor(n))
<1>1. RoomFor(n) \in SUBSET Nat
  BY Typing DEF RoomFor
<1>2. e \in RoomFor(n)
  BY <1>1, SmallestIs
<1>3. e \in 1..extents
  BY <1>2 DEF RoomFor
<1> HIDE DEF e
<1>4. GoodRanges(ranges[e])
  BY <1>3, Typing DEF MemInv, RangeInv, Extents
<1>5. ASSUME NEW f \in Suitable(ranges[e], n)
      PROVE  f \in ranges[e] /\ n <= f.size
  <2>1. f \in ranges[e] /\ f.size >= n
    BY DEF Suitable
  <2>2. f.size \in Int
    BY <2>1, <1>4 DEF GoodRanges
  <2> QED
    BY <2>1, <2>2
<1> QED
  BY <1>3, <1>4, <1>5, ReservedSplits DEF e

(* A page which is free is not the page of a block. *)
LEMMA FreePageIsUnused ==
  ASSUME MemInv, EntryInv, NEW e, NEW pg \in PagesIn(ranges[e]), NEW y \in live, y.ext = e
  PROVE  y.page # pg
BY FreeIsNotLive, BlockTypes DEF MemInv

LEMMA AllocPagesKeeps ==
  ASSUME IndInv, NEW n \in 1..MaxRange, AllocPages(n)
  PROVE  IndInv'
<1> USE HeapAssumption DEF IndInv
<1> DEFINE e == Smallest(RoomFor(n))
<1>1. /\ RoomFor(n) # {} /\ n \in Nat \ {0}
      /\ used' = [used EXCEPT !["list"] = @ + n] /\ UNCHANGED <<extents, buckets>>
  BY DEF AllocPages, Count
<1>2. PICK f \in Suitable(ranges[e], n) :
        LET pg == ReservedPage(f, n)
        IN /\ TakeRange(e, f, n)
           /\ pagemap' = [pagemap EXCEPT ![e][pg].type = "list", ![e][pg].size = n,
                                         ![e][pg].map = {}]
           /\ live' = live \cup {Block(e, pg, "list", n)}
  BY DEF AllocPages
<1> DEFINE pg == ReservedPage(f, n)
           x == Block(e, pg, "list", n)
           taken == pg..(pg + n - 1)
<1>3. /\ e \in 1..extents /\ e \in Extents /\ f \in ranges[e] /\ n <= f.size
      /\ pg \in Pages /\ pg \in Nat /\ pg + n <= PageCount
      /\ taken \subseteq PagesIn(ranges[e]) /\ pg \in taken
  <2>1. /\ e \in 1..extents /\ f \in ranges[e] /\ n <= f.size
        /\ pg \in Pages /\ pg + n <= PageCount /\ taken \subseteq PagesIn(ranges[e])
    BY <1>1, RoomIsSuitable
  <2> HIDE DEF e, pg
  <2>2. e \in Extents /\ pg \in Nat
    BY <2>1, Typing DEF Pages, Extents
  <2> QED
    BY <2>1, <2>2, <1>1
<1>4. /\ live' = live \cup {x} /\ TakeRange(e, f, n)
      /\ pagemap' = [pagemap EXCEPT ![e] =
           [pagemap[e] EXCEPT ![pg] = [pagemap[e][pg] EXCEPT !.type = "list", !.size = n, !.map = {}]]]
  <2>1. pagemap' = [pagemap EXCEPT ![e][pg].type = "list", ![e][pg].size = n, ![e][pg].map = {}]
    BY <1>2
  <2>2. pagemap \in [Extents -> [Pages -> EntryType]]
    BY Typing
  <2> HIDE DEF e, pg
  <2>3. [pagemap EXCEPT ![e][pg].type = "list", ![e][pg].size = n, ![e][pg].map = {}] =
          [pagemap EXCEPT ![e] =
            [pagemap[e] EXCEPT ![pg] = [pagemap[e][pg] EXCEPT !.type = "list", !.size = n, !.map = {}]]]
    BY <2>2, <1>3
  <2> QED
    BY <2>1, <2>3, <1>2 DEF e, pg
<1>5. /\ x.ext = e /\ x.page = pg /\ x.kind = "list" /\ x.n = n /\ PagesOf(x) = taken
      /\ x \in [ext : 1..extents, page : Pages, kind : Kinds, n : Nat]
  BY <1>1, <1>3 DEF Block, PagesOf, Kinds
<1>6. \A y \in live : y.ext = e => y.page # pg
  BY <1>3, FreePageIsUnused
<1>7. MemInv'
  <2>1. ranges' = [ranges EXCEPT ![e] = Reserved(@, f, n)]
    BY <1>4 DEF TakeRange
  <2>2. PagesOf(x) = ReservedPage(f, n)..(ReservedPage(f, n) + n - 1)
    BY <1>5
  <2> HIDE DEF e, pg, x, taken
  <2> QED
    BY <2>1, <2>2, <1>1, <1>3, <1>4, <1>5, MemoryTaken
<1> HIDE DEF e, pg, x, taken
<1>8. /\ pagemap' \in [Extents -> [Pages -> EntryType]]
      /\ pagemap'[e][pg].type = "list" /\ pagemap'[e][pg].size = n
      /\ \A i \in Extents, q \in Pages : i # e \/ q # pg => pagemap'[i][q] = pagemap[i][q]
  <2> DEFINE entry == [pagemap[e][pg] EXCEPT !.type = "list", !.size = n, !.map = {}]
  <2>1. pagemap \in [Extents -> [Pages -> EntryType]]
    BY Typing
  <2>2. pagemap[e][pg] \in EntryType
    BY <2>1, <1>3
  <2>3. entry \in EntryType /\ entry.type = "list" /\ entry.size = n
    <3>1. n \in 0..MaxRange /\ "list" \in Kinds \cup {"free"} /\ {} \in SUBSET Full
      BY DEF Kinds
    <3> QED
      BY <2>2, <3>1 DEF EntryType
  <2> HIDE DEF entry
  <2>4. pagemap' = [pagemap EXCEPT ![e] = [pagemap[e] EXCEPT ![pg] = entry]]
    BY <1>4 DEF entry
  <2> QED
    BY <2>1, <2>3, <2>4, <1>3
<1>9. TypeOK'
  <2>1. ranges' \in [Extents -> SUBSET [start : Pages, size : 1..PageCount]]
    <3>1. ranges' = [ranges EXCEPT ![e] = Reserved(@, f, n)]
      BY <1>4 DEF TakeRange
    <3>2. ranges'[e] = Reserved(ranges[e], f, n) /\ GoodRanges(ranges'[e])
      BY <3>1, <1>3, <1>7 DEF TypeOK, MemInv, RangeInv
    <3>3. Reserved(ranges[e], f, n) \in SUBSET [start : Pages, size : 1..PageCount]
      BY <3>2 DEF GoodRanges
    <3> QED
      BY <3>1, <3>3 DEF TypeOK
  <2>2. live' \subseteq [ext : Extents, page : Pages, kind : Kinds, n : Nat]
    <3>1. x \in [ext : Extents, page : Pages, kind : Kinds, n : Nat]
      BY <1>5, Typing DEF Extents
    <3> QED
      BY <3>1, <1>4 DEF TypeOK
  <2>3. used' \in [Kinds -> Nat]
    BY <1>1, Typing DEF Kinds
  <2> QED
    BY <1>1, <1>8, <2>1, <2>2, <2>3 DEF TypeOK, EntryType
<1>10. EntryInv'
  <2> SUFFICES ASSUME NEW y \in live'
               PROVE  EntryOK(y)'
    BY DEF EntryInv
  <2>1. CASE y = x
    BY <2>1, <1>1, <1>3, <1>5, <1>8 DEF EntryOK
  <2>2. CASE y # x
    <3>1. y \in live /\ EntryOK(y)
      BY <2>2, <1>4 DEF EntryInv
    <3>2. pagemap'[y.ext][y.page] = pagemap[y.ext][y.page]
      BY <3>1, <1>6, <1>8, BlockTypes, Typing DEF Extents
    <3>3. y.kind # "list" => BusyOf(y.kind, y.page)' = BusyOf(y.kind, y.page)
      BY <1>4, <1>5 DEF BusyOf
    <3> QED
      BY <3>1, <3>2, <3>3, <1>1, Typing, EntryKept
  <2> QED
    BY <2>1, <2>2
<1>11. ListInv'
  <2> SUFFICES ASSUME NEW b \in Buckets
               PROVE  Heads(pagemap[1], BucketPages(b), buckets[b])'
    BY DEF ListInv
  <2>1. BucketPages(b)' = BucketPages(b)
    BY <1>4, <1>5 DEF BucketPages
  <2>2. ASSUME NEW q \in BucketPages(b)
        PROVE  pagemap'[1][q] = pagemap[1][q]
    <3>1. PICK y \in live : y.ext = 1 /\ y.page = q
      BY BucketPagesAre
    <3> QED
      BY <3>1, <1>6, <1>8, BlockTypes, Typing
  <2> QED
    BY <2>1, <2>2, <1>1, ListKept
<1>12. CountInv'
  <2>1. x \notin live
    BY <1>5, <1>6
  <2>2. /\ IsFiniteSet(live') /\ Blocks("list")' = Blocks("list") \cup {x}
        /\ \A b \in Buckets : Blocks(b)' = Blocks(b)
    BY <2>1, <1>4, <1>5, BlockAdded
  <2>3. \A b \in Buckets : used'[b] = Cardinality(Blocks(b)')
    BY <2>2, <1>1, Typing DEF CountInv, Kinds
  <2>4. ListPages' = ListPages \cup ({e} \X taken)
    BY <2>2, <1>5 DEF ListPages
  <2>5. ListPages \cap ({e} \X taken) = {}
    <3>1. ASSUME NEW y \in live, y.ext = e
          PROVE  PagesOf(y) \cap taken = {}
      BY <3>1, <1>3, FreeIsNotLive DEF MemInv
    <3> QED
      BY <3>1 DEF ListPages, Blocks
  <2>6. IsFiniteSet({e} \X taken) /\ Cardinality({e} \X taken) = n
    <3> DEFINE hi == pg + n - 1
    <3>1. hi \in Int /\ pg <= hi /\ hi - pg + 1 = n /\ taken = pg..hi
      BY <1>1, <1>3 DEF taken
    <3> HIDE DEF hi
    <3>2. pg \in Int
      BY <1>3
    <3>3. IsFiniteSet({e} \X (pg..hi)) /\ Cardinality({e} \X (pg..hi)) = hi - pg + 1
      BY <3>1, <3>2, RunOfPages, Zenon
    <3> QED
      BY <3>1, <3>3
  <2>7. IsFiniteSet(ListPages)
    BY Typing, ListPagesFinite
  <2>8. Cardinality(ListPages') = Cardinality(ListPages) + n
    <3> DEFINE A == {e} \X taken
    <3>1. Cardinality(ListPages \cap A) = 0
      BY <2>5, FS_EmptySet
    <3>2. Cardinality(ListPages) \in Nat
      BY <2>7, FS_CardinalityType
    <3>3. IsFiniteSet(A) /\ Cardinality(A) = n /\ ListPages' = ListPages \cup A
      BY <2>4, <2>6
    <3> HIDE DEF A
    <3>4. Cardinality(ListPages \cup A)
            = Cardinality(ListPages) + Cardinality(A) - Cardinality(ListPages \cap A)
      BY <2>7, <3>3, FS_Union
    <3> QED
      BY <3>1, <3>2, <3>3, <3>4, <1>1
  <2>9. used'["list"] = used["list"] + n
    BY <1>1, Typing DEF Kinds
  <2> QED
    BY <2>2, <2>3, <2>8, <2>9 DEF CountInv
<1> QED
  BY <1>7, <1>9, <1>10, <1>11, <1>12

LEMMA FreePagesKeeps ==
  ASSUME IndInv, NEW blk \in live, FreePages(blk)
  PROVE  IndInv'
<1> USE HeapAssumption DEF IndInv
<1> DEFINE e == blk.ext
           pg == blk.page
           n == blk.n
           given == pg..(pg + n - 1)
<1>1. EntryOK(blk) /\ blk.kind = "list"
  <2>1. EntryOK(blk) /\ e \in 1..extents /\ pagemap[e][pg].type = "list"
    BY DEF FreePages, EntryInv, EntryOK
  <2> QED
    BY <2>1 DEF EntryOK
<1>2. /\ e \in 1..extents /\ pg \in Pages /\ pg \in Nat /\ n \in 1..MaxRange
      /\ n \in Nat \ {0} /\ pg + n <= PageCount /\ pagemap[e][pg].size = n
      /\ PagesOf(blk) = given
  BY <1>1 DEF EntryOK, Pages, PagesOf
<1>3. /\ UNCHANGED <<extents, pagemap, buckets>> /\ live' = live \ {blk}
      /\ ranges' = [ranges EXCEPT ![e] = Released(@, pg, n)]
      /\ used' = [used EXCEPT !["list"] = @ + (-n)]
  BY <1>2 DEF FreePages, Count
<1>4. e \in Extents
  BY <1>2, Typing DEF Extents
<1>5. \A y \in live : y # blk /\ y.ext = e => PagesOf(y) \cap PagesOf(blk) = {}
  BY <1>1 DEF MemInv, BlocksAreDisjoint, Overlap
<1> HIDE DEF e, pg, n, given
<1>6. MemInv'
  <2>1. PagesOf(blk) = pg..(pg + n - 1)
    BY <1>2 DEF given
  <2> QED
    BY <2>1, <1>2, <1>3, <1>5, MemoryGiven DEF e
<1>7. CountInv'
  <2>1. /\ IsFiniteSet(live') /\ Blocks("list")' = Blocks("list") \ {blk}
        /\ \A b \in Buckets : Blocks(b)' = Blocks(b)
    BY <1>1, <1>3, BlockRemoved
  <2>2. \A b \in Buckets : used'[b] = Cardinality(Blocks(b)')
    BY <2>1, <1>3, Typing DEF CountInv, Kinds
  <2> DEFINE A == {e} \X given
  <2>3. ListPages = ListPages' \cup A
    <3>1. blk \in Blocks("list") /\ {blk.ext} \X PagesOf(blk) = A
      BY <1>1, <1>2 DEF Blocks, e
    <3> HIDE DEF A
    <3> QED
      BY <3>1, <2>1 DEF ListPages
  <2>4. ListPages' \cap A = {}
    <3>1. ASSUME NEW y \in Blocks("list")'
          PROVE  ({y.ext} \X PagesOf(y)) \cap A = {}
      <4>1. y \in live /\ y # blk
        BY <2>1 DEF Blocks
      <4>2. y.ext # e \/ PagesOf(y) \cap given = {}
        BY <4>1, <1>2, <1>5
      <4> QED
        BY <4>2
    <3> HIDE DEF A
    <3> QED
      BY <3>1 DEF ListPages
  <2>5. IsFiniteSet(A) /\ Cardinality(A) = n
    <3> DEFINE hi == pg + n - 1
    <3>1. hi \in Int /\ pg <= hi /\ hi - pg + 1 = n /\ given = pg..hi
      BY <1>2 DEF given
    <3> HIDE DEF hi
    <3>2. pg \in Int
      BY <1>2
    <3>3. IsFiniteSet({e} \X (pg..hi)) /\ Cardinality({e} \X (pg..hi)) = hi - pg + 1
      BY <3>1, <3>2, RunOfPages, Zenon
    <3> QED
      BY <3>1, <3>3
  <2> HIDE DEF A
  <2>6. IsFiniteSet(ListPages')
    BY <2>3, Typing, ListPagesFinite, FS_Subset
  <2>7. Cardinality(ListPages) = Cardinality(ListPages') + n
    <3>1. Cardinality(ListPages' \cap A) = 0
      BY <2>4, FS_EmptySet
    <3>2. Cardinality(ListPages') \in Nat
      BY <2>6, FS_CardinalityType
    <3>3. Cardinality(ListPages' \cup A)
            = Cardinality(ListPages') + Cardinality(A) - Cardinality(ListPages' \cap A)
      BY <2>5, <2>6, FS_Union
    <3> QED
      BY <2>3, <2>5, <3>1, <3>2, <3>3, <1>2
  <2>8. used'["list"] = used["list"] + (-n)
    BY <1>3, Typing DEF Kinds
  <2>9. used'["list"] = Cardinality(ListPages')
    <3>1. used["list"] = Cardinality(ListPages) /\ Cardinality(ListPages') \in Nat /\ n \in Nat
      BY <2>6, <1>2, FS_CardinalityType DEF CountInv
    <3> QED
      BY <3>1, <2>7, <2>8
  <2> QED
    BY <2>1, <2>2, <2>9 DEF CountInv
<1>8. TypeOK'
  <2>1. ranges' \in [Extents -> SUBSET [start : Pages, size : 1..PageCount]]
    <3>1. GoodRanges(Released(ranges[e], pg, n))
      BY <1>3, <1>4, <1>6 DEF TypeOK, MemInv, RangeInv
    <3>2. Released(ranges[e], pg, n) \in SUBSET [start : Pages, size : 1..PageCount]
      BY <3>1 DEF GoodRanges
    <3> QED
      BY <3>2, <1>3 DEF TypeOK
  <2>2. used' \in [Kinds -> Nat]
    <3>1. IsFiniteSet(ListPages')
      <4>1. ListPages' \subseteq ListPages
        BY <1>3 DEF ListPages, Blocks
      <4> QED
        BY <4>1, Typing, ListPagesFinite, FS_Subset
    <3>2. used'["list"] \in Nat
      BY <3>1, <1>7, FS_CardinalityType DEF CountInv
    <3>3. \A k \in Kinds : k # "list" => used'[k] = used[k]
      BY <1>3, Typing
    <3>4. used' = [k \in Kinds |-> used'[k]]
      BY <1>3, Typing
    <3> QED
      BY <3>2, <3>3, <3>4, Typing
  <2> QED
    BY <1>3, <2>1, <2>2 DEF TypeOK
<1>9. \A b \in Buckets : \A p : BusyOf(b, p)' = BusyOf(b, p)
  BY <1>1, <1>3 DEF BusyOf
<1>10. EntryInv'
  <2> SUFFICES ASSUME NEW y \in live'
               PROVE  EntryOK(y)'
    BY DEF EntryInv
  <2>1. y \in live /\ EntryOK(y) /\ (y.kind # "list" => y.kind \in Buckets)
    BY <1>3, BlockTypes DEF EntryInv, Kinds
  <2> QED
    BY <2>1, <1>3, <1>9, Typing, EntryKept
<1>11. ListInv'
  <2> SUFFICES ASSUME NEW b \in Buckets
               PROVE  Heads(pagemap[1], BucketPages(b), buckets[b])'
    BY DEF ListInv
  <2>1. BucketPages(b)' = BucketPages(b)
    BY <1>1, <1>3 DEF BucketPages
  <2> QED
    BY <2>1, <1>3, ListKept
<1> QED
  BY <1>6, <1>7, <1>8, <1>10, <1>11

(* A step on the page list of a bucket leaves the other lists alone. *)
OthersKept(b, m, T) ==
    \A c \in Buckets : c # b =>
        /\ BucketPages(c)' = BucketPages(c)
        /\ \A q \in BucketPages(c) : q \in Pages /\ q \notin T /\ m[q] = pagemap[1][q]

LEMMA OneListChanges ==
  ASSUME TypeOK, ListInv, NEW b \in Buckets, NEW m, NEW ring, NEW T,
         Lists(m, ring, T, BucketPages(b)'),
         pagemap' = [pagemap EXCEPT ![1] = ring.map],
         buckets' = [buckets EXCEPT ![b] = ring.head],
         OthersKept(b, m, T)
  PROVE  /\ ListInv'
         /\ pagemap' \in [Extents -> [Pages -> EntryType]]
         /\ buckets' \in [Buckets -> Pages \cup {NoPage}]
         /\ pagemap'[1] = ring.map
         /\ \A i \in Extents : i # 1 => pagemap'[i] = pagemap[i]
<1>1. /\ pagemap' \in [Extents -> [Pages -> EntryType]]
      /\ buckets' \in [Buckets -> Pages \cup {NoPage}]
      /\ pagemap'[1] = ring.map
      /\ \A i \in Extents : i # 1 => pagemap'[i] = pagemap[i]
  BY Typing DEF Lists, Relinks
<1>2. ASSUME NEW c \in Buckets
      PROVE  Heads(pagemap[1], BucketPages(c), buckets[c])'
  <2>1. CASE c = b
    BY <2>1, <1>1, Typing DEF Lists
  <2>2. CASE c # b
    <3>1. BucketPages(c)' = BucketPages(c) /\ buckets'[c] = buckets[c]
      BY <2>2, Typing DEF OthersKept
    <3>2. \A q \in BucketPages(c) : pagemap'[1][q] = pagemap[1][q]
      BY <2>2, <1>1 DEF OthersKept, Lists, Relinks
    <3> QED
      BY <3>1, <3>2, ListKept
  <2> QED
    BY <2>1, <2>2
<1> QED
  BY <1>1, <1>2 DEF ListInv

LEMMA AllocFromNewPageKeeps ==
  ASSUME MixedUse = FALSE, IndInv, NEW b \in Buckets, AllocFromNewPage(b)
  PROVE  IndInv'
<1> USE HeapAssumption DEF IndInv
<1>0. extents = 1 /\ RoomFor(1) # {} /\ b # "list"
  BY DEF AllocFromNewPage, MayUseBuckets
<1>1. Smallest(RoomFor(1)) = 1
  BY <1>0, RoomIsSuitable
<1>2. PICK f \in Suitable(ranges[1], 1) :
        LET pg == ReservedPage(f, 1)
            marked == [pagemap[1] EXCEPT ![pg].type = b, ![pg].size = 0,
                                         ![pg].map = Idle(b) \cup {0}]
            ring == AddFront(Ring(marked, buckets[b]), pg)
        IN /\ TakeRange(1, f, 1)
           /\ pagemap' = [pagemap EXCEPT ![1] = ring.map]
           /\ buckets' = [buckets EXCEPT ![b] = ring.head]
           /\ live' = live \cup {Block(1, pg, b, 0)}
  BY <1>1 DEF AllocFromNewPage
<1> DEFINE pg == ReservedPage(f, 1)
           marked == [pagemap[1] EXCEPT ![pg].type = b, ![pg].size = 0,
                                        ![pg].map = Idle(b) \cup {0}]
           ring == AddFront(Ring(marked, buckets[b]), pg)
           x == Block(1, pg, b, 0)
           S == BucketPages(b)
<1>3. /\ f \in ranges[1] /\ 1 <= f.size /\ pg \in Pages /\ pg + 1 <= PageCount
      /\ pg \in Int /\ pg \in PagesIn(ranges[1])
  <2>1. /\ f \in ranges[1] /\ 1 <= f.size /\ pg \in Pages /\ pg + 1 <= PageCount
        /\ pg..(pg + 1 - 1) \subseteq PagesIn(ranges[1])
    BY <1>0, <1>1, RoomIsSuitable
  <2> HIDE DEF pg
  <2>2. pg \in pg..(pg + 1 - 1)
    BY <2>1 DEF Pages
  <2> QED
    BY <2>1, <2>2 DEF Pages
<1>4. /\ TakeRange(1, f, 1) /\ live' = live \cup {x} /\ extents' = extents
      /\ pagemap' = [pagemap EXCEPT ![1] = ring.map]
      /\ buckets' = [buckets EXCEPT ![b] = ring.head]
      /\ used' = [used EXCEPT ![b] = @ + 1]
  BY <1>2 DEF AllocFromNewPage, Count
<1>5. /\ x.ext = 1 /\ x.page = pg /\ x.kind = b /\ x.n = 0
      /\ PagesOf(x) = {pg} /\ b \in Kinds
      /\ x \in [ext : 1..extents, page : Pages, kind : Kinds, n : Nat]
  BY <1>0, <1>3 DEF Block, PagesOf, Kinds
<1>6. \A y \in live : y.ext = 1 /\ y.page # pg
  <2>1. \A y \in live : y.ext = 1
    BY <1>0, BlockTypes
  <2> QED
    BY <2>1, <1>3, FreePageIsUnused
<1>7. MemInv'
  <2>1. ranges' = [ranges EXCEPT ![1] = Reserved(@, f, 1)]
    BY <1>4 DEF TakeRange
  <2>2. /\ 1 \in 1..extents
        /\ PagesOf(x) = ReservedPage(f, 1)..(ReservedPage(f, 1) + 1 - 1)
    <3>1. ReservedPage(f, 1) = pg /\ pg..(pg + 1 - 1) = {pg}
      <4>1. \A i \in Int : i..(i + 1 - 1) = {i}
        OBVIOUS
      <4> QED
        BY <4>1, <1>3
    <3> HIDE DEF pg
    <3> QED
      BY <3>1, <1>0, <1>5
  <2> DEFINE one == 1
  <2>3. /\ one \in Nat \ {0} /\ one <= f.size
        /\ PagesOf(x) = ReservedPage(f, one)..(ReservedPage(f, one) + one - 1)
        /\ ranges' = [ranges EXCEPT ![1] = Reserved(@, f, one)]
    BY <2>1, <2>2, <1>3
  <2> HIDE DEF pg, x, one
  <2> QED
    BY <2>2, <2>3, <1>3, <1>4, <1>5, MemoryTaken
<1>8. /\ marked \in [Pages -> EntryType]
      /\ marked[pg].type = b /\ marked[pg].map = Idle(b) \cup {0}
      /\ \A q \in Pages : q # pg => marked[q] = pagemap[1][q]
  <2> DEFINE entry == [pagemap[1][pg] EXCEPT !.type = b, !.size = 0, !.map = Idle(b) \cup {0}]
  <2>1. pagemap[1] \in [Pages -> EntryType] /\ pagemap[1][pg] \in EntryType
    BY <1>3, Typing
  <2>2. Idle(b) \cup {0} \in SUBSET Full /\ 0 \in 0..MaxRange /\ b \in Kinds \cup {"free"}
    BY MaskFacts DEF Kinds
  <2>3. entry \in EntryType /\ entry.type = b /\ entry.map = Idle(b) \cup {0}
    BY <2>1, <2>2 DEF EntryType
  <2>4. marked = [pagemap[1] EXCEPT ![pg] = entry]
    <3> HIDE DEF pg
    <3> QED
      BY <2>1, <1>3
  <2> HIDE DEF entry, marked, pg
  <2> QED
    BY <2>1, <2>3, <2>4, <1>3
<1> HIDE DEF pg, marked, x
<1>9. S \in SUBSET Pages /\ pg \in Pages \ S
  <2>1. pg \notin S
    BY <1>6 DEF BucketPages
  <2> QED
    BY <2>1, <1>3, BucketPagesAre
<1>10. Lists(marked, ring, S \cup {pg}, S \cup {pg})
  <2>1. Heads(marked, S, buckets[b])
    <3>1. \A q \in S : marked[q].next = pagemap[1][q].next /\ marked[q].prev = pagemap[1][q].prev
      BY <1>8, <1>9
    <3>2. Heads(pagemap[1], S, buckets[b])
      BY DEF ListInv
    <3> HIDE DEF S
    <3> QED
      BY <3>1, <3>2, CircleFrame DEF Heads
  <2> HIDE DEF S
  <2> QED
    BY <2>1, <1>8, <1>9, AddFrontLists
<1> HIDE DEF ring
<1>11. BucketPages(b)' = S \cup {pg}
  BY <1>4, <1>5 DEF BucketPages
<1>12. ASSUME NEW c \in Buckets, c # b
       PROVE  /\ BucketPages(c)' = BucketPages(c)
              /\ \A q \in BucketPages(c) :
                   q \in Pages /\ q \notin S \cup {pg} /\ marked[q] = pagemap[1][q]
  <2>1. BucketPages(c)' = BucketPages(c)
    BY <1>4, <1>5, <1>12 DEF BucketPages
  <2>2. ASSUME NEW q \in BucketPages(c)
        PROVE  q \in Pages /\ q \notin S /\ q # pg
    <3>1. q \in Pages /\ pagemap[1][q].type = c /\ q # pg
      BY <1>6, BucketPagesAre
    <3>2. \A p \in S : pagemap[1][p].type = b
      BY BucketPagesAre
    <3> QED
      BY <3>1, <3>2, <1>12
  <2> QED
    BY <2>1, <2>2, <1>8
<1>13. /\ ListInv'
       /\ pagemap' \in [Extents -> [Pages -> EntryType]]
       /\ buckets' \in [Buckets -> Pages \cup {NoPage}]
       /\ pagemap'[1] = ring.map
  <2> DEFINE T == S \cup {pg}
  <2>1. Lists(marked, ring, T, BucketPages(b)')
    BY <1>10, <1>11
  <2>2. OthersKept(b, marked, T)
    BY <1>12 DEF OthersKept
  <2> HIDE DEF T, S
  <2> QED
    BY <2>1, <2>2, <1>4, OneListChanges
<1>14. /\ pagemap'[1][pg].type = b /\ pagemap'[1][pg].map = Idle(b) \cup {0}
       /\ \A q \in Pages : q # pg =>
            /\ pagemap'[1][q].type = pagemap[1][q].type
            /\ pagemap'[1][q].map = pagemap[1][q].map
            /\ pagemap'[1][q].size = pagemap[1][q].size
  BY <1>3, <1>8, <1>10, <1>13 DEF Lists, Relinks
<1>15. EntryInv'
  <2> SUFFICES ASSUME NEW y \in live'
               PROVE  EntryOK(y)'
    BY DEF EntryInv
  <2>1. CASE y = x
    <3>1. BusyOf(b, pg)' = {0}
      BY <1>4, <1>5, <1>6 DEF BusyOf
    <3> QED
      BY <2>1, <3>1, <1>0, <1>4, <1>5, <1>14, MaskFacts DEF EntryOK
  <2>2. CASE y # x
    <3>1. y \in live /\ EntryOK(y) /\ y.page \in Pages /\ y.page # pg /\ y.ext = 1
      BY <2>2, <1>4, <1>6, BlockTypes DEF EntryInv
    <3>2. BusyOf(y.kind, y.page)' = BusyOf(y.kind, y.page)
      BY <3>1, <1>4, <1>5 DEF BusyOf
    <3> QED
      BY <3>1, <3>2, <1>4, <1>14, Typing, EntryKept
  <2> QED
    BY <2>1, <2>2
<1>16. CountInv'
  <2>1. x \notin live
    BY <1>5, <1>6
  <2>2. /\ IsFiniteSet(live')
        /\ Cardinality(Blocks(b)') = Cardinality(Blocks(b)) + 1
        /\ \A j : j # b => Blocks(j)' = Blocks(j)
    BY <2>1, <1>4, <1>5, BlockAdded
  <2>3. \A c \in Buckets : used'[c] = Cardinality(Blocks(c)')
    BY <2>2, <1>4, Typing DEF CountInv, Kinds
  <2>4. ListPages' = ListPages /\ used'["list"] = used["list"]
    BY <2>2, <1>0, <1>4, Typing DEF ListPages, Kinds
  <2> QED
    BY <2>2, <2>3, <2>4 DEF CountInv
<1>17. TypeOK'
  <2>1. ranges' \in [Extents -> SUBSET [start : Pages, size : 1..PageCount]]
    <3>1. ranges' = [ranges EXCEPT ![1] = Reserved(@, f, 1)]
      BY <1>4 DEF TakeRange
    <3>2. GoodRanges(Reserved(ranges[1], f, 1))
      BY <3>1, <1>7, Typing DEF TypeOK, MemInv, RangeInv
    <3>3. Reserved(ranges[1], f, 1) \in SUBSET [start : Pages, size : 1..PageCount]
      BY <3>2 DEF GoodRanges
    <3> QED
      BY <3>1, <3>3 DEF TypeOK
  <2>2. live' \subseteq [ext : Extents, page : Pages, kind : Kinds, n : Nat]
    <3>1. x \in [ext : Extents, page : Pages, kind : Kinds, n : Nat]
      BY <1>5, Typing DEF Extents
    <3> QED
      BY <3>1, <1>4 DEF TypeOK
  <2>3. used' \in [Kinds -> Nat]
    BY <1>4, <1>5, Typing
  <2> QED
    BY <1>4, <1>13, <2>1, <2>2, <2>3 DEF TypeOK, EntryType
<1> QED
  BY <1>7, <1>13, <1>15, <1>16, <1>17

LEMMA AllocFromHeadKeeps ==
  ASSUME MixedUse = FALSE, IndInv, NEW b \in Buckets, AllocFromHead(b)
  PROVE  IndInv'
<1> USE HeapAssumption DEF IndInv
<1>0. PICK pg : pg = buckets[b]
  OBVIOUS
<1> DEFINE n == Smallest(Full \ pagemap[1][pg].map)
           marked == [pagemap[1] EXCEPT ![pg].map = @ \cup {n}]
           ring == IF marked[pg].map = Full THEN MoveBack(Ring(marked, pg), pg)
                   ELSE Ring(marked, pg)
           x == Block(1, pg, b, n)
           S == BucketPages(b)
<1>1. /\ extents = 1 /\ b # "list" /\ pg # NoPage /\ pagemap[1][pg].map # Full
      /\ live' = live \cup {x} /\ UNCHANGED <<extents, ranges>>
      /\ pagemap' = [pagemap EXCEPT ![1] = ring.map]
      /\ buckets' = [buckets EXCEPT ![b] = ring.head]
      /\ used' = [used EXCEPT ![b] = @ + 1]
  BY <1>0 DEF AllocFromHead, MayUseBuckets, HeadHasBlock, Count
<1>2. /\ pg \in S /\ S \in SUBSET Pages /\ pg \in Pages
      /\ pagemap[1][pg].type = b
      /\ pagemap[1][pg].map = Idle(b) \cup BusyOf(b, pg)
      /\ BusyOf(b, pg) \subseteq BlockMask(b)
  <2>1. pg \in S
    BY <1>0, <1>1 DEF ListInv, Heads
  <2> QED
    BY <2>1, BucketPagesAre
<1>3. n \in BlockMask(b) /\ n \notin BusyOf(b, pg) /\ n \in Nat
  <2> DEFINE room == Full \ pagemap[1][pg].map
  <2>1. room \in SUBSET Nat /\ room # {}
    BY <1>1, <1>2, MaskFacts
  <2> HIDE DEF room
  <2>2. n \in room
    BY <2>1, SmallestIs DEF room
  <2> QED
    BY <2>1, <2>2, <1>2, MaskFacts DEF room
<1>4. PICK z \in live : z.ext = 1 /\ z.kind = b /\ z.page = pg
  BY <1>2, BucketPagesAre
<1> HIDE DEF n
<1>5. /\ x.ext = 1 /\ x.page = pg /\ x.kind = b /\ x.n = n
      /\ PagesOf(x) = {pg} /\ PagesOf(z) = {pg} /\ b \in Kinds
      /\ x \in [ext : 1..extents, page : Pages, kind : Kinds, n : Nat]
  BY <1>1, <1>2, <1>3, <1>4 DEF Block, PagesOf, Kinds
<1>6. \A y \in live : y.kind = b /\ y.page = pg => y.n # n
  BY <1>3 DEF BusyOf
<1>7. \A y \in live : y.kind = b => PagesOf(y) = {y.page}
  BY <1>1 DEF PagesOf
<1>8. MemInv'
  <2>1. x # z
    BY <1>4, <1>5, <1>6
  <2>2. \A y \in live : y.ext = x.ext /\ y.kind = x.kind
                          /\ PagesOf(y) \cap PagesOf(x) # {} => y.n # x.n
    BY <1>5, <1>6, <1>7
  <2> HIDE DEF x
  <2> QED
    BY <2>1, <2>2, <1>1, <1>4, <1>5, MemoryShared
<1>9. /\ marked \in [Pages -> EntryType]
      /\ marked[pg].type = b /\ marked[pg].map = pagemap[1][pg].map \cup {n}
      /\ \A q \in Pages : /\ marked[q].next = pagemap[1][q].next
                          /\ marked[q].prev = pagemap[1][q].prev
                          /\ q # pg => marked[q] = pagemap[1][q]
  <2> DEFINE entry == [pagemap[1][pg] EXCEPT !.map = @ \cup {n}]
  <2>1. pagemap[1] \in [Pages -> EntryType] /\ pagemap[1][pg] \in EntryType
    BY <1>2, Typing
  <2>2. pagemap[1][pg].map \cup {n} \in SUBSET Full
    BY <2>1, <1>3, MaskFacts DEF EntryType
  <2>3. /\ entry \in EntryType /\ entry.type = b
        /\ entry.map = pagemap[1][pg].map \cup {n}
        /\ entry.next = pagemap[1][pg].next /\ entry.prev = pagemap[1][pg].prev
    BY <2>1, <2>2, <1>2 DEF EntryType
  <2>4. marked = [pagemap[1] EXCEPT ![pg] = entry]
    BY <2>1, <1>2
  <2> HIDE DEF entry, marked
  <2> QED
    BY <2>1, <2>3, <2>4, <1>2
<1> HIDE DEF marked, x
<1>10. Lists(marked, ring, S, S)
  <2>1. Heads(marked, S, pg)
    <3>1. \A q \in S : marked[q].next = pagemap[1][q].next /\ marked[q].prev = pagemap[1][q].prev
      BY <1>2, <1>9
    <3>2. Heads(pagemap[1], S, pg)
      BY <1>0 DEF ListInv
    <3> HIDE DEF S
    <3> QED
      BY <3>1, <3>2, CircleFrame DEF Heads
  <2> HIDE DEF S
  <2>2. CASE marked[pg].map = Full
    BY <2>1, <2>2, <1>2, <1>9, MoveBackLists
  <2>3. CASE marked[pg].map # Full
    <3>1. ring.map = marked /\ ring.head = pg
      BY <2>3 DEF Ring
    <3> QED
      BY <3>1, <2>1, <1>2, <1>9 DEF Lists, Relinks
  <2> QED
    BY <2>2, <2>3
<1> HIDE DEF ring
<1>11. BucketPages(b)' = S
  <2>1. x.page \in S
    BY <1>2, <1>5
  <2> QED
    BY <2>1, <1>1 DEF BucketPages
<1>12. ASSUME NEW c \in Buckets, c # b
       PROVE  /\ BucketPages(c)' = BucketPages(c)
              /\ \A q \in BucketPages(c) : q \in Pages /\ q \notin S /\ marked[q] = pagemap[1][q]
  <2>1. BucketPages(c)' = BucketPages(c)
    BY <1>1, <1>5, <1>12 DEF BucketPages
  <2>2. ASSUME NEW q \in BucketPages(c)
        PROVE  q \in Pages /\ q \notin S
    <3>1. q \in Pages /\ pagemap[1][q].type = c
      BY BucketPagesAre
    <3>2. \A p \in S : pagemap[1][p].type = b
      BY BucketPagesAre
    <3> QED
      BY <3>1, <3>2, <1>12
  <2> QED
    BY <2>1, <2>2, <1>2, <1>9
<1>13. /\ ListInv'
       /\ pagemap' \in [Extents -> [Pages -> EntryType]]
       /\ buckets' \in [Buckets -> Pages \cup {NoPage}]
       /\ pagemap'[1] = ring.map
  <2>1. OthersKept(b, marked, S)
    BY <1>12 DEF OthersKept
  <2>2. Lists(marked, ring, S, BucketPages(b)')
    BY <1>10, <1>11
  <2> HIDE DEF S
  <2> QED
    BY <2>1, <2>2, <1>1, OneListChanges
<1>14. /\ pagemap'[1][pg].type = b /\ pagemap'[1][pg].map = pagemap[1][pg].map \cup {n}
       /\ \A q \in Pages : q # pg =>
            /\ pagemap'[1][q].type = pagemap[1][q].type
            /\ pagemap'[1][q].map = pagemap[1][q].map
            /\ pagemap'[1][q].size = pagemap[1][q].size
  BY <1>2, <1>9, <1>10, <1>13 DEF Lists, Relinks
<1>15. EntryInv'
  <2> SUFFICES ASSUME NEW y \in live'
               PROVE  EntryOK(y)'
    BY DEF EntryInv
  <2>1. BusyOf(b, pg)' = BusyOf(b, pg) \cup {n}
    BY <1>1, <1>5 DEF BusyOf
  <2>2. CASE y.kind = b /\ y.page = pg
    <3>1. y = x \/ (y \in live /\ EntryOK(y))
      BY <1>1 DEF EntryInv
    <3>2. /\ y \in [ext : 1..extents, page : Pages, kind : Kinds, n : Nat]
          /\ y.ext = 1 /\ y.n \in BlockMask(b)
      <4>1. CASE y = x
        BY <4>1, <1>3, <1>5
      <4>2. CASE EntryOK(y)
        BY <4>2, <2>2, <1>1 DEF EntryOK
      <4> QED
        BY <3>1, <4>1, <4>2, <1>5
    <3> QED
      BY <2>1, <2>2, <3>2, <1>1, <1>2, <1>14 DEF EntryOK
  <2>3. CASE ~ (y.kind = b /\ y.page = pg)
    <3>1. y \in live /\ EntryOK(y) /\ y.page \in Pages /\ y.ext = 1
      BY <2>3, <1>1, <1>5, BlockTypes DEF EntryInv
    <3>2. y.page # pg
      <4>1. PagesOf(z) \cap PagesOf(y) # {} => y.kind = b
        BY <3>1, <1>1, <1>4 DEF MemInv, BlocksAreDisjoint, Overlap
      <4> QED
        BY <4>1, <2>3, <3>1, <1>5, BlockTypes
    <3>3. y.kind # "list" => BusyOf(y.kind, y.page)' = BusyOf(y.kind, y.page)
      BY <3>2, <1>1, <1>5 DEF BusyOf
    <3> QED
      BY <3>1, <3>2, <3>3, <1>1, <1>14, Typing, EntryKept
  <2> QED
    BY <2>2, <2>3
<1>16. CountInv'
  <2>1. x \notin live
    BY <1>5, <1>6
  <2>2. /\ IsFiniteSet(live')
        /\ Cardinality(Blocks(b)') = Cardinality(Blocks(b)) + 1
        /\ \A j : j # b => Blocks(j)' = Blocks(j)
    BY <2>1, <1>1, <1>5, BlockAdded
  <2>3. \A c \in Buckets : used'[c] = Cardinality(Blocks(c)')
    BY <2>2, <1>1, Typing DEF CountInv, Kinds
  <2>4. ListPages' = ListPages /\ used'["list"] = used["list"]
    BY <2>2, <1>1, Typing DEF ListPages, Kinds
  <2> QED
    BY <2>2, <2>3, <2>4 DEF CountInv
<1>17. TypeOK'
  <2>1. live' \subseteq [ext : Extents, page : Pages, kind : Kinds, n : Nat]
    <3>1. x \in [ext : Extents, page : Pages, kind : Kinds, n : Nat]
      BY <1>5, Typing DEF Extents
    <3> QED
      BY <3>1, <1>1 DEF TypeOK
  <2>2. used' \in [Kinds -> Nat]
    BY <1>1, <1>5, Typing
  <2> QED
    BY <1>1, <1>13, <2>1, <2>2 DEF TypeOK, EntryType
<1> QED
  BY <1>8, <1>13, <1>15, <1>16, <1>17

LEMMA FreeSmallKeeps ==
  ASSUME IndInv, NEW blk \in live, FreeSmall(blk)
  PROVE  IndInv'
<1> USE HeapAssumption DEF IndInv
<1> DEFINE b == blk.kind
           pg == blk.page
           n == blk.n
           m == pagemap[1]
           marked == [m EXCEPT ![pg].map = @ \ {n}]
           idle == marked[pg].map = Idle(b)
           start == Ring(marked, buckets[b])
           ring == IF idle THEN Remove(start, pg)
                   ELSE IF m[pg].map = Full THEN MoveFront(start, pg)
                   ELSE start
           S == BucketPages(b)
           rest == BusyOf(b, pg) \ {n}
<1>1. /\ b \in Buckets /\ b # "list" /\ b \in Kinds /\ EntryOK(blk) /\ blk.ext = 1
      /\ pagemap[1][pg].type = b
  <2>1. EntryOK(blk) /\ pagemap[blk.ext][pg].type \in Buckets /\ blk.kind \in Kinds
    BY BlockTypes DEF FreeSmall, EntryInv
  <2>2. blk.kind # "list"
    BY <2>1 DEF EntryOK
  <2> QED
    BY <2>1, <2>2 DEF EntryOK, Kinds
<1>2. /\ live' = live \ {blk} /\ extents' = extents
      /\ pagemap' = [pagemap EXCEPT ![1] = ring.map]
      /\ buckets' = [buckets EXCEPT ![b] = ring.head]
      /\ ranges' = IF idle THEN [ranges EXCEPT ![1] = Released(@, pg, 1)] ELSE ranges
      /\ used' = [used EXCEPT ![b] = @ + (-1)]
  BY <1>1 DEF FreeSmall, Count
<1>3. /\ pg \in S /\ S \in SUBSET Pages /\ pg \in Pages /\ pg \in Int
      /\ n \in BlockMask(b) /\ n \in BusyOf(b, pg) /\ n \notin Idle(b)
      /\ m[pg].map = Idle(b) \cup BusyOf(b, pg)
      /\ BusyOf(b, pg) \subseteq BlockMask(b)
      /\ 1 \in 1..extents /\ PagesOf(blk) = {pg}
  <2>1. pg \in S /\ n \in BusyOf(b, pg)
    BY DEF BucketPages, BusyOf
  <2>2. n \in BlockMask(b) /\ PagesOf(blk) = {pg}
    BY <1>1 DEF EntryOK, PagesOf
  <2> QED
    BY <2>1, <2>2, <1>1, BucketPagesAre, MaskFacts, BlockTypes, Typing DEF Pages
<1>4. /\ marked \in [Pages -> EntryType]
      /\ marked[pg].type = b /\ marked[pg].map = Idle(b) \cup rest
      /\ \A q \in Pages : /\ marked[q].next = m[q].next /\ marked[q].prev = m[q].prev
                          /\ q # pg => marked[q] = m[q]
  <2> DEFINE entry == [m[pg] EXCEPT !.map = @ \ {n}]
  <2>1. m \in [Pages -> EntryType] /\ m[pg] \in EntryType
    BY <1>3, Typing
  <2>2. m[pg].map \ {n} \in SUBSET Full /\ m[pg].map \ {n} = Idle(b) \cup rest
    BY <2>1, <1>3 DEF EntryType
  <2> HIDE DEF m, n
  <2>3. /\ entry \in EntryType /\ entry.type = b
        /\ entry.map = Idle(b) \cup rest
        /\ entry.next = m[pg].next /\ entry.prev = m[pg].prev
    <3> HIDE DEF rest
    <3> QED
      BY <2>1, <2>2, <1>1 DEF EntryType, m
  <2>4. marked = [m EXCEPT ![pg] = entry]
    BY <2>1, <1>3
  <2> HIDE DEF entry, marked
  <2> QED
    BY <2>1, <2>3, <2>4, <1>3
<1>5. idle <=> rest = {}
  <2>1. rest \cap Idle(b) = {}
    BY <1>1, <1>3, MaskFacts
  <2>2. marked[pg].map = Idle(b) \cup rest
    BY <1>4
  <2> HIDE DEF rest, marked
  <2> QED
    BY <2>1, <2>2
<1>6. BusyOf(b, pg)' = rest
  <2>1. \A y \in live : y.kind = b /\ y.page = pg /\ y.n = n => y = blk
    <3>1. \A y \in live : y.kind = b => y.ext = 1 /\ y = Block(1, y.page, b, y.n)
      BY <1>1, BlockTypes DEF EntryInv, EntryOK
    <3> QED
      BY <3>1
  <2> QED
    BY <2>1, <1>1, <1>2 DEF BusyOf
<1>7. ASSUME NEW y \in live, y.ext = 1, pg \in PagesOf(y)
      PROVE  y.kind = b /\ y.page = pg
  <2>1. y.kind = b
    BY <1>1, <1>3, <1>7 DEF MemInv, BlocksAreDisjoint, Overlap
  <2> QED
    BY <2>1, <1>1, <1>7 DEF PagesOf
<1>8. ASSUME ~ idle
      PROVE  \E z \in live : z # blk /\ z.ext = 1 /\ z.kind = b /\ z.page = pg
  <2>1. PICK z \in live : z.kind = b /\ z.page = pg /\ z.n # n
    BY <1>5, <1>8 DEF BusyOf
  <2>2. z.ext = 1
    BY <2>1, <1>1 DEF EntryInv, EntryOK
  <2> QED
    BY <2>1, <2>2
<1>9. MemInv'
  <2>1. CASE idle
    <3>1. \A y \in live : y # blk /\ y.ext = blk.ext => PagesOf(y) \cap PagesOf(blk) = {}
      <4> SUFFICES ASSUME NEW y \in live, y # blk, y.ext = 1, pg \in PagesOf(y)
                   PROVE  FALSE
        BY <1>1, <1>3
      <4>1. y.kind = b /\ y.page = pg
        BY <1>7
      <4>2. y.n = n
        BY <4>1, <2>1, <1>5 DEF BusyOf
      <4> QED
        BY <4>1, <4>2, <1>1, BlockTypes
    <3> DEFINE one == 1
    <3>2. /\ one \in Nat \ {0} /\ pg + one <= PageCount
          /\ PagesOf(blk) = pg..(pg + one - 1)
          /\ ranges' = [ranges EXCEPT ![blk.ext] = Released(@, pg, one)]
      <4>1. \A i \in Int : i..(i + 1 - 1) = {i}
        OBVIOUS
      <4> QED
        BY <4>1, <2>1, <1>1, <1>2, <1>3 DEF Pages
    <3>3. blk.ext \in 1..extents
      BY <1>1, <1>3
    <3> HIDE DEF one
    <3> QED
      BY <3>1, <3>2, <3>3, <1>2, <1>3, MemoryGiven
  <2>2. CASE ~ idle
    <3>1. PICK z \in live : z # blk /\ z.ext = 1 /\ z.kind = b /\ z.page = pg
      BY <2>2, <1>8
    <3>2. PagesOf(blk) = PagesOf(z)
      BY <3>1, <1>1, <1>3 DEF PagesOf
    <3>3. live' = live \ {blk} /\ UNCHANGED <<extents, ranges>>
      BY <2>2, <1>2
    <3> QED
      BY <3>1, <3>2, <3>3, <1>1, MemoryShared
  <2> QED
    BY <2>1, <2>2
<1>10. /\ Lists(marked, ring, S, BucketPages(b)')
  <2>1. Heads(marked, S, buckets[b])
    <3>1. \A q \in S : marked[q].next = m[q].next /\ marked[q].prev = m[q].prev
      BY <1>3, <1>4
    <3>2. Heads(m, S, buckets[b])
      BY <1>1 DEF ListInv
    <3> HIDE DEF S, m, marked
    <3>3. Circular(marked, S)
      BY <3>1, <3>2, CircleFrame DEF Heads
    <3> QED
      BY <3>2, <3>3 DEF Heads
  <2>2. buckets[b] \in Pages \cup {NoPage}
    BY <1>1, Typing
  <2>3. CASE idle
    <3>1. BucketPages(b)' = S \ {pg}
      <4>1. \A y \in live' : y.kind = b => y.page # pg
        BY <2>3, <1>5, <1>6 DEF BusyOf
      <4> QED
        BY <4>1, <1>2 DEF BucketPages
    <3>2. ring = Remove(Ring(marked, buckets[b]), pg)
      BY <2>3
    <3> HIDE DEF S, ring, marked
    <3> QED
      BY <3>1, <3>2, <2>1, <1>3, <1>4, RemoveLists
  <2>4. CASE ~ idle
    <3>1. BucketPages(b)' = S
      <4>1. pg \in BucketPages(b)'
        BY <2>4, <1>2, <1>8 DEF BucketPages
      <4> QED
        BY <4>1, <1>2 DEF BucketPages
    <3>2. CASE m[pg].map = Full
      <4>1. ring = MoveFront(Ring(marked, buckets[b]), pg)
        BY <2>4, <3>2
      <4> HIDE DEF S, ring, marked
      <4> QED
        BY <3>1, <4>1, <2>1, <1>3, <1>4, MoveFrontLists
    <3>3. CASE m[pg].map # Full
      <4>1. ring.map = marked /\ ring.head = buckets[b]
        BY <2>4, <3>3 DEF Ring
      <4> HIDE DEF S, ring, marked
      <4> QED
        BY <3>1, <4>1, <2>1, <2>2, <1>4 DEF Lists, Relinks
    <3> QED
      BY <3>2, <3>3
  <2> QED
    BY <2>3, <2>4
<1> HIDE DEF ring, marked, rest, idle
<1>11. ASSUME NEW c \in Buckets, c # b
       PROVE  /\ BucketPages(c)' = BucketPages(c)
              /\ \A q \in BucketPages(c) : q \in Pages /\ q \notin S /\ marked[q] = m[q]
  <2>1. BucketPages(c)' = BucketPages(c)
    BY <1>2, <1>11 DEF BucketPages
  <2>2. ASSUME NEW q \in BucketPages(c)
        PROVE  q \in Pages /\ q \notin S
    <3>1. q \in Pages /\ m[q].type = c
      BY BucketPagesAre
    <3>2. \A p \in S : m[p].type = b
      BY <1>1, BucketPagesAre
    <3> QED
      BY <3>1, <3>2, <1>11
  <2> QED
    BY <2>1, <2>2, <1>3, <1>4
<1>12. /\ ListInv'
       /\ pagemap' \in [Extents -> [Pages -> EntryType]]
       /\ buckets' \in [Buckets -> Pages \cup {NoPage}]
       /\ pagemap'[1] = ring.map
       /\ \A i \in Extents : i # 1 => pagemap'[i] = pagemap[i]
  <2>1. OthersKept(b, marked, S)
    BY <1>11 DEF OthersKept
  <2> HIDE DEF S
  <2> QED
    BY <2>1, <1>1, <1>2, <1>10, OneListChanges
<1>13. /\ pagemap'[1][pg].type = b /\ pagemap'[1][pg].map = Idle(b) \cup rest
       /\ \A q \in Pages : q # pg =>
            /\ pagemap'[1][q].type = pagemap[1][q].type
            /\ pagemap'[1][q].map = pagemap[1][q].map
            /\ pagemap'[1][q].size = pagemap[1][q].size
  BY <1>3, <1>4, <1>10, <1>12 DEF Lists, Relinks
<1>14. EntryInv'
  <2> SUFFICES ASSUME NEW y \in live'
               PROVE  EntryOK(y)'
    BY DEF EntryInv
  <2>1. y \in live /\ EntryOK(y) /\ y.page \in Pages /\ y.ext \in Extents
    BY <1>2, BlockTypes, Typing DEF EntryInv, Extents
  <2>2. CASE y.ext = 1 /\ y.page = pg
    <3>1. y.kind = b
      BY <2>1, <2>2, <1>7, BlockTypes
    <3> QED
      BY <2>1, <2>2, <3>1, <1>1, <1>2, <1>6, <1>13 DEF EntryOK
  <2>3. CASE ~ (y.ext = 1 /\ y.page = pg)
    <3>1. y.kind # "list" => BusyOf(y.kind, y.page)' = BusyOf(y.kind, y.page)
      <4>1. y.kind # "list" => y.page # pg
        BY <2>1, <2>3 DEF EntryOK
      <4> QED
        BY <4>1, <1>2 DEF BusyOf
    <3>2. /\ pagemap'[y.ext][y.page].type = pagemap[y.ext][y.page].type
          /\ pagemap'[y.ext][y.page].map = pagemap[y.ext][y.page].map
          /\ pagemap'[y.ext][y.page].size = pagemap[y.ext][y.page].size
      BY <2>1, <2>3, <1>12, <1>13
    <3>3. EntryOK(y) /\ extents \in Nat /\ extents' \in Nat /\ extents <= extents'
      BY <1>2, <2>1, Typing
    <3> QED
      BY <3>1, <3>2, <3>3, EntryKept
  <2> QED
    BY <2>2, <2>3
<1>15. /\ IsFiniteSet(live')
       /\ Cardinality(Blocks(b)') = Cardinality(Blocks(b)) - 1
       /\ \A j : j # b => Blocks(j)' = Blocks(j)
  BY <1>2, BlockRemoved
<1>16. CountInv'
  <2>1. \A c \in Buckets : used'[c] = Cardinality(Blocks(c)')
    <3>1. used[b] = Cardinality(Blocks(b)) /\ used[b] \in Nat /\ used'[b] = used[b] + (-1)
      BY <1>1, <1>2, Typing DEF CountInv
    <3>2. used'[b] = Cardinality(Blocks(b)')
      BY <3>1, <1>15
    <3> QED
      BY <3>2, <1>2, <1>15, Typing DEF CountInv, Kinds
  <2>2. ListPages' = ListPages /\ used'["list"] = used["list"]
    BY <1>1, <1>2, <1>15, Typing DEF ListPages, Kinds
  <2> QED
    BY <2>1, <2>2, <1>15 DEF CountInv
<1>17. TypeOK'
  <2>1. ranges' \in [Extents -> SUBSET [start : Pages, size : 1..PageCount]]
    <3>1. CASE idle
      <4>1. ranges' = [ranges EXCEPT ![1] = Released(@, pg, 1)]
        BY <3>1, <1>2
      <4>2. GoodRanges(Released(ranges[1], pg, 1))
        BY <4>1, <1>9, Typing DEF TypeOK, MemInv, RangeInv
      <4>3. Released(ranges[1], pg, 1) \in SUBSET [start : Pages, size : 1..PageCount]
        BY <4>2 DEF GoodRanges
      <4> QED
        BY <4>1, <4>3 DEF TypeOK
    <3>2. CASE ~ idle
      BY <3>2, <1>2 DEF TypeOK
    <3> QED
      BY <3>1, <3>2
  <2>2. used' \in [Kinds -> Nat]
    <3>1. used'[b] \in Nat
      <4>1. IsFiniteSet(Blocks(b)') /\ used'[b] = Cardinality(Blocks(b)')
        BY <1>1, <1>15, <1>16, FS_Subset DEF Blocks, CountInv
      <4> QED
        BY <4>1, FS_CardinalityType
    <3>2. \A k \in Kinds : k # b => used'[k] = used[k]
      BY <1>2, Typing
    <3>3. used' = [k \in Kinds |-> used'[k]]
      BY <1>2, Typing
    <3> QED
      BY <3>1, <3>2, <3>3, Typing
  <2> QED
    BY <1>2, <1>12, <2>1, <2>2 DEF TypeOK, EntryType
<1> QED
  BY <1>9, <1>12, <1>14, <1>16, <1>17

(* An extent which is not in use yet is one free range. *)
LEMMA FreshExtent ==
  LET whole == PageRange(0, PageCount) IN
  /\ GoodRanges({whole}) /\ RangePages(whole) = Pages
  /\ FreshPages \in [Pages -> EntryType]
<1> USE HeapAssumption
<1>1. /\ PageRange(0, PageCount) \in [start : Pages, size : 1..PageCount]
      /\ PageRange(0, PageCount).start = 0 /\ PageRange(0, PageCount).size = PageCount
  BY DEF PageRange, Pages
<1>2. FreshPages \in [Pages -> EntryType]
  BY DEF FreshPages, Entry, EntryType, Kinds, Pages
<1> QED
  BY <1>1, <1>2 DEF GoodRanges, RangePages, Pages

LEMMA ExtendKeeps ==
  ASSUME MixedUse = FALSE, IndInv, Extend
  PROVE  IndInv'
<1> USE HeapAssumption DEF IndInv
<1> DEFINE new == extents + 1
           whole == PageRange(0, PageCount)
<1>1. /\ extents < MaxExtents /\ \A b \in Buckets : buckets[b] = NoPage
      /\ extents' = new /\ UNCHANGED <<buckets, used, live>>
      /\ ranges' = [ranges EXCEPT ![new] = {whole}]
      /\ pagemap' = [pagemap EXCEPT ![new] = FreshPages]
  BY DEF Extend
<1>2. /\ extents \in Nat /\ extents >= 1 /\ new \in Extents /\ new \in Nat /\ 1 \in Extents
      /\ \A i \in 1..new : i \in Extents /\ (i = new \/ i \in 1..extents)
      /\ \A i \in 1..extents : i # new /\ i \in Extents
      /\ new \notin 1..extents /\ new # 1
  BY <1>1, Typing DEF Extents
<1>3. /\ ranges'[new] = {whole} /\ pagemap'[new] = FreshPages
      /\ \A i \in Extents : i # new => ranges'[i] = ranges[i] /\ pagemap'[i] = pagemap[i]
      /\ \A i \in Extents : i > extents' => i > extents /\ i # new
  <2> HIDE DEF whole
  <2> QED
    BY <1>1, <1>2 DEF TypeOK, Extents
<1>4. \A y \in live : y.ext \in 1..extents
  BY BlockTypes
<1> HIDE DEF new
<1>5. RangeInv'
  <2>1. \A i \in Extents : GoodRanges(ranges'[i])
    BY <1>3, FreshExtent DEF MemInv, RangeInv
  <2>2. \A i \in Extents : i > extents' => ranges'[i] = {}
    BY <1>3 DEF MemInv, RangeInv
  <2> QED
    BY <2>1, <2>2 DEF RangeInv
<1>6. BlocksAreDisjoint'
  <2>1. \A y \in live : ranges'[y.ext] = ranges[y.ext]
    BY <1>2, <1>3, <1>4
  <2> QED
    BY <2>1, <1>1 DEF MemInv, BlocksAreDisjoint
<1>7. NothingLeaks'
  <2> SUFFICES ASSUME NEW i \in 1..new
               PROVE  /\ LivePages(i)' \cup FreePagesOf(i)' = Pages
                      /\ \A g, h \in ranges'[i] : g # h => g.start + g.size # h.start
    BY <1>1 DEF NothingLeaks
  <2>1. LivePages(i)' = LivePages(i)
    BY <1>1 DEF LivePages
  <2>2. CASE i = new
    <3>1. LivePages(i) = {}
      BY <2>2, <1>2, <1>4 DEF LivePages
    <3>2. FreePagesOf(i)' = Pages
      BY <2>2, <1>3, FreshExtent DEF FreePagesOf
    <3> QED
      BY <2>1, <2>2, <3>1, <3>2, <1>3
  <2>3. CASE i # new
    <3>1. i \in 1..extents /\ ranges'[i] = ranges[i]
      BY <2>3, <1>2, <1>3
    <3>2. FreePagesOf(i)' = FreePagesOf(i)
      BY <3>1 DEF FreePagesOf
    <3> QED
      BY <2>1, <3>1, <3>2 DEF MemInv, NothingLeaks
  <2> QED
    BY <2>2, <2>3
<1>8. EntryInv'
  <2> SUFFICES ASSUME NEW y \in live
               PROVE  EntryOK(y)'
    BY <1>1 DEF EntryInv
  <2>1. EntryOK(y) /\ pagemap'[y.ext] = pagemap[y.ext]
    BY <1>2, <1>3, <1>4 DEF EntryInv
  <2>2. BusyOf(y.kind, y.page)' = BusyOf(y.kind, y.page)
    BY <1>1 DEF BusyOf
  <2>3. extents' \in Nat /\ extents <= extents'
    BY <1>1, <1>2 DEF new
  <2> QED
    BY <2>1, <2>2, <2>3, <1>2, EntryKept
<1>9. ListInv'
  <2> SUFFICES ASSUME NEW b \in Buckets
               PROVE  Heads(pagemap[1], BucketPages(b), buckets[b])'
    BY DEF ListInv
  <2>1. BucketPages(b)' = BucketPages(b) /\ pagemap'[1] = pagemap[1]
    BY <1>1, <1>2, <1>3 DEF BucketPages
  <2> QED
    BY <2>1, <1>1, ListKept
<1>10. CountInv'
  BY <1>1 DEF CountInv, Blocks, ListPages
<1>11. TypeOK'
  <2>1. {whole} \in SUBSET [start : Pages, size : 1..PageCount]
    BY FreshExtent DEF GoodRanges
  <2>2. ranges' \in [Extents -> SUBSET [start : Pages, size : 1..PageCount]]
    BY <2>1, <1>1, <1>2 DEF TypeOK
  <2>3. pagemap' \in [Extents -> [Pages -> EntryType]]
    BY <1>1, <1>2, Typing, FreshExtent
  <2> QED
    BY <2>2, <2>3, <1>1, <1>2 DEF TypeOK, EntryType
<1> QED
  BY <1>5, <1>6, <1>7, <1>8, <1>9, <1>10, <1>11 DEF MemInv

LEMMA InitEstablishes ==
  ASSUME Init
  PROVE  IndInv
<1> USE HeapAssumption DEF Init
<1> DEFINE whole == PageRange(0, PageCount)
<1>1. /\ 1 \in Extents /\ ranges \in [Extents -> {{whole}, {}}] /\ ranges[1] = {whole}
      /\ \A i \in Extents : i # 1 => ranges[i] = {}
      /\ \A i \in Extents : i > 1 => i # 1
  BY DEF Extents
<1>2. GoodRanges({whole}) /\ RangePages(whole) = Pages /\ GoodRanges({})
  BY FreshExtent DEF GoodRanges
<1> HIDE DEF whole
<1>3. TypeOK
  <2>1. ranges \in [Extents -> SUBSET [start : Pages, size : 1..PageCount]]
    BY <1>1, <1>2 DEF GoodRanges
  <2>2. pagemap \in [Extents -> [Pages -> EntryType]]
    BY FreshExtent
  <2> QED
    BY <1>1, <2>1, <2>2 DEF TypeOK, EntryType
<1>4. RangeInv
  BY <1>1, <1>2 DEF RangeInv
<1>5. NothingLeaks
  <2>1. \A i : LivePages(i) = {}
    BY DEF LivePages
  <2>2. FreePagesOf(1) = Pages
    BY <1>1, <1>2 DEF FreePagesOf
  <2>3. \A i \in 1..extents : i = 1
    OBVIOUS
  <2> QED
    BY <2>1, <2>2, <2>3, <1>1 DEF NothingLeaks
<1>6. ListInv
  <2>1. \A b : BucketPages(b) = {}
    BY DEF BucketPages
  <2>2. \A m : Circular(m, {})
    BY DEF Circular, Linked
  <2> QED
    BY <2>1, <2>2 DEF ListInv, Heads
<1>7. CountInv
  <2>1. (\A k : Blocks(k) = {}) /\ ListPages = {}
    BY DEF Blocks, ListPages
  <2>2. IsFiniteSet({}) /\ Cardinality({}) = 0
    BY FS_EmptySet
  <2> QED
    BY <2>1, <2>2 DEF CountInv, Kinds
<1>8. BlocksAreDisjoint /\ EntryInv
  BY DEF BlocksAreDisjoint, EntryInv
<1> QED
  BY <1>3, <1>4, <1>5, <1>6, <1>7, <1>8 DEF IndInv, MemInv

LEMMA StutterKeeps ==
  ASSUME IndInv, UNCHANGED vars
  PROVE  IndInv'
<1> USE DEF IndInv, vars
<1>1. TypeOK'
  BY DEF TypeOK
<1>2. MemInv'
  BY DEF MemInv, RangeInv, BlocksAreDisjoint, NothingLeaks, LivePages, FreePagesOf
<1>3. EntryInv'
  BY DEF EntryInv, EntryOK, BusyOf
<1>4. ListInv'
  BY DEF ListInv, BucketPages
<1>5. CountInv'
  BY DEF CountInv, Blocks, ListPages
<1> QED
  BY <1>1, <1>2, <1>3, <1>4, <1>5

-----------------------------------------------------------------------------
(* The theorems *)

(* The invariant is inductive: no call of evl_alloc_block, evl_free_block *)
(* or evl_extend_heap breaks it.                                          *)
THEOREM HeapInvariant ==
  ASSUME MixedUse = FALSE
  PROVE  Spec => []IndInv
<1>1. Init => IndInv
  BY InitEstablishes
<1>2. IndInv /\ [Next]_vars => IndInv'
  <2> SUFFICES ASSUME IndInv, [Next]_vars
               PROVE  IndInv'
    OBVIOUS
  <2>1. ASSUME NEW n \in 1..MaxRange, AllocPages(n)
        PROVE  IndInv'
    BY <2>1, AllocPagesKeeps
  <2>2. ASSUME NEW b \in Buckets, AllocFromHead(b)
        PROVE  IndInv'
    BY <2>2, AllocFromHeadKeeps
  <2>3. ASSUME NEW b \in Buckets, AllocFromNewPage(b)
        PROVE  IndInv'
    BY <2>3, AllocFromNewPageKeeps
  <2>4. ASSUME NEW blk \in live, FreePages(blk)
        PROVE  IndInv'
    BY <2>4, FreePagesKeeps
  <2>5. ASSUME NEW blk \in live, FreeSmall(blk)
        PROVE  IndInv'
    BY <2>5, FreeSmallKeeps
  <2>6. CASE Extend
    BY <2>6, ExtendKeeps
  <2>7. CASE UNCHANGED vars
    BY <2>7, StutterKeeps
  <2> QED
    BY <2>1, <2>2, <2>3, <2>4, <2>5, <2>6, <2>7 DEF Next
<1> QED
  BY <1>1, <1>2, PTL DEF Spec

(* The page entries, the ranges and the counters stay within their types:  *)
(* used_size is never negative, and a request never leaves its extent      *)
(* (evl_alloc_block, evl_free_block).                                      *)
THEOREM HeapTypes ==
  ASSUME MixedUse = FALSE
  PROVE  Spec => []TypeOK
<1>1. IndInv => TypeOK
  BY DEF IndInv
<1> QED
  BY <1>1, HeapInvariant, PTL

(* No two blocks share memory, and no free range, whose descriptor is kept *)
(* in the free pages themselves, covers a block (reserve_page_range).      *)
THEOREM HeapBlocksAreDisjoint ==
  ASSUME MixedUse = FALSE
  PROVE  Spec => []BlocksAreDisjoint
<1>1. IndInv => BlocksAreDisjoint
  BY DEF IndInv, MemInv
<1> QED
  BY <1>1, HeapInvariant, PTL

(* Each page is free or in a block, and free ranges are merged as soon as *)
(* they touch (release_page_range): the pool never stays fragmented.      *)
THEOREM HeapNothingLeaks ==
  ASSUME MixedUse = FALSE
  PROVE  Spec => []NothingLeaks
<1>1. IndInv => NothingLeaks
  BY DEF IndInv, MemInv
<1> QED
  BY <1>1, HeapInvariant, PTL

(* What can be reached from the head of a page list is the list. *)
LEMMA CircleReaches ==
  ASSUME NEW m, NEW S \in SUBSET Pages, Circular(m, S), NEW h \in S
  PROVE  Reach(m, h) = S
<1>1. ASSUME NEW q \in Reach(m, h)
      PROVE  q \in S
  BY DEF Reach, Circular, Linked
<1>2. ASSUME NEW q \in S, NEW T \in SUBSET Pages, h \in T, \A r \in T : m[r].next \in T
      PROVE  q \in T
  <2> DEFINE U == S \cap T
  <2>1. U \in SUBSET S /\ h \in U
    BY <1>2
  <2>2. Closed(m, U)
    BY <1>2 DEF Circular, Linked, Closed
  <2>3. U = S
    BY <2>1, <2>2 DEF Circular
  <2> QED
    BY <2>3
<1>3. \A q \in S : q \in Reach(m, h)
  BY <1>2 DEF Reach
<1> QED
  BY <1>1, <1>3

(* The heap finds every block again: the pages of a size are in the list   *)
(* of its bucket, however they were moved in it, their maps tell the busy  *)
(* blocks, and used_size sums up what the program owns (add_page_front,    *)
(* remove_page, move_page_back, evl_free_block).                           *)
THEOREM HeapBlocksAreTracked ==
  ASSUME MixedUse = FALSE
  PROVE  Spec => []BlocksAreTracked
<1>1. IndInv => BlocksAreTracked
  <2> SUFFICES ASSUME IndInv
               PROVE  BlocksAreTracked
    OBVIOUS
  <2> USE HeapAssumption
  <2>1. BucketListed
    <3> SUFFICES ASSUME NEW b \in Buckets
                 PROVE  LET m == pagemap[1] IN
                        /\ IF buckets[b] = NoPage THEN BucketPages(b) = {}
                           ELSE BucketPages(b) = Reach(m, buckets[b])
                        /\ \A pg \in BucketPages(b) :
                             /\ m[m[pg].next].prev = pg /\ m[m[pg].prev].next = pg
                             /\ m[pg].type = b
                             /\ m[pg].map = Idle(b) \cup BusyOf(b, pg)
      BY DEF BucketListed, BusyOf
    <3>1. Heads(pagemap[1], BucketPages(b), buckets[b]) /\ BucketPages(b) \in SUBSET Pages
      BY BucketPagesAre DEF IndInv, ListInv
    <3>2. /\ IF buckets[b] = NoPage THEN BucketPages(b) = {}
             ELSE BucketPages(b) = Reach(pagemap[1], buckets[b])
      BY <3>1, CircleReaches DEF Heads
    <3>3. \A pg \in BucketPages(b) :
            /\ pagemap[1][pagemap[1][pg].next].prev = pg
            /\ pagemap[1][pagemap[1][pg].prev].next = pg
      BY <3>1 DEF Heads, Circular, Linked
    <3> QED
      BY <3>2, <3>3, BucketPagesAre DEF IndInv
  <2>2. \A b \in Buckets : used[b] = Cardinality({x \in live : x.kind = b})
    BY DEF IndInv, CountInv, Blocks
  <2>3. used["list"] = Cardinality(UNION {{x.ext} \X PagesOf(x) : x \in {y \in live : y.kind = "list"}})
    BY DEF IndInv, CountInv, ListPages, Blocks
  <2>4. \A x \in {y \in live : y.kind = "list"} : pagemap[x.ext][x.page].size = x.n
    BY DEF IndInv, EntryInv, EntryOK
  <2> QED
    BY <2>1, <2>2, <2>3, <2>4 DEF BlocksAreTracked
<1> QED
  BY <1>1, HeapInvariant, PTL

-----------------------------------------------------------------------------
(* The first extent as a page pool: the pages which blocks occupy are what *)
(* the pool has handed out.                                                *)
RunOf(x) == PageRange(x.page, IF x.kind = "list" THEN x.n ELSE 1)
RunsOf(e) == {RunOf(x) : x \in {y \in live : y.ext = e}}

Pool == INSTANCE AbsRanges
          WITH Requests <- 1..MaxRange \cup {1}, free <- ranges[1], busy <- RunsOf(1)

(* Module AbsRanges splits and merges ranges as Heap does. *)
LEMMA PoolRanges ==
  /\ \A s, n : Pool!PageRange(s, n) = PageRange(s, n)
  /\ \A f, n : Pool!ReservedPage(f, n) = ReservedPage(f, n)
  /\ \A R, n : Pool!Suitable(R, n) = Suitable(R, n)
  /\ \A R, f, n : Pool!Reserved(R, f, n) = Reserved(R, f, n)
  /\ \A R, pg, n : Pool!Released(R, pg, n) = Released(R, pg, n)
<1>1. \A s, n : Pool!PageRange(s, n) = PageRange(s, n)
  BY DEF Pool!PageRange, PageRange
<1>2. \A f, n : Pool!ReservedPage(f, n) = ReservedPage(f, n)
  BY DEF Pool!ReservedPage, ReservedPage
<1>3. \A R, n : Pool!Suitable(R, n) = Suitable(R, n)
  BY DEF Pool!Suitable, Suitable
<1>4. \A R, f, n : Pool!Reserved(R, f, n) = Reserved(R, f, n)
  BY <1>1 DEF Pool!Reserved, Reserved
<1>5. \A S : Pool!Smallest(S) = Smallest(S) /\ Pool!Largest(S) = Largest(S)
  BY DEF Pool!Smallest, Smallest, Pool!Largest, Largest
<1>6. \A R, pg, n : Pool!Released(R, pg, n) = Released(R, pg, n)
  <2> TAKE R, pg, n
  <2> DEFINE touching == {f \in R : f.start + f.size = pg \/ f.start = pg + n}
             lows == {pg} \cup {f.start : f \in touching}
             highs == {pg + n} \cup {f.start + f.size : f \in touching}
  <2>1. Released(R, pg, n)
          = (R \ touching) \cup {PageRange(Smallest(lows), Largest(highs) - Smallest(lows))}
    BY DEF Released
  <2>2. Pool!Released(R, pg, n)
          = (R \ touching) \cup {Pool!PageRange(Pool!Smallest(lows),
                                                Pool!Largest(highs) - Pool!Smallest(lows))}
    BY DEF Pool!Released
  <2> HIDE DEF touching, lows, highs
  <2> QED
    BY <2>1, <2>2, <1>1, <1>5
<1> QED
  BY <1>1, <1>2, <1>3, <1>4, <1>6

LEMMA PoolInit == Init => Pool!Init
<1> SUFFICES ASSUME Init PROVE Pool!Init
  OBVIOUS
<1> USE HeapAssumption
<1>1. RunsOf(1) = {}
  BY DEF Init, RunsOf
<1>2. ranges[1] = {PageRange(0, PageCount)}
  BY DEF Init, Extents
<1> QED
  BY <1>1, <1>2, PoolRanges DEF Pool!Init

LEMMA PoolStep ==
  ASSUME MixedUse = FALSE, IndInv, [Next]_vars
  PROVE  [Pool!Next]_<<ranges[1], RunsOf(1)>>
<1> USE HeapAssumption DEF IndInv
<1>0. 1 \in Extents /\ 1 \in 1..extents
  BY Typing DEF Extents
<1>1. ASSUME NEW n \in 1..MaxRange, AllocPages(n)
      PROVE  [Pool!Next]_<<ranges[1], RunsOf(1)>>
  <2>1. PICK e \in 1..extents : e = Smallest(RoomFor(n))
    BY <1>1, RoomIsSuitable DEF AllocPages
  <2>2. PICK f \in Suitable(ranges[e], n) :
          /\ TakeRange(e, f, n)
          /\ live' = live \cup {Block(e, ReservedPage(f, n), "list", n)}
    BY <1>1, <2>1 DEF AllocPages
  <2> DEFINE x == Block(e, ReservedPage(f, n), "list", n)
  <2>3. x.ext = e /\ RunOf(x) = PageRange(ReservedPage(f, n), n)
    BY DEF Block, RunOf
  <2> HIDE DEF x
  <2>4. live' = live \cup {x} /\ e \in Extents
    BY <2>2, Typing DEF x, Extents
  <2>5. CASE e = 1
    <3>1. ranges'[1] = Reserved(ranges[1], f, n)
      BY <2>2, <2>4, <2>5 DEF TakeRange, TypeOK
    <3>2. RunsOf(1)' = RunsOf(1) \cup {PageRange(ReservedPage(f, n), n)}
      BY <2>3, <2>4, <2>5 DEF RunsOf
    <3>3. Pool!Reserve(n)
      BY <3>1, <3>2, <2>2, <2>5, PoolRanges DEF Pool!Reserve
    <3> QED
      BY <3>3 DEF Pool!Next
  <2>6. CASE e # 1
    <3>1. ranges'[1] = ranges[1]
      BY <2>2, <2>4, <2>6, <1>0 DEF TakeRange, TypeOK
    <3>2. RunsOf(1)' = RunsOf(1)
      BY <2>3, <2>4, <2>6 DEF RunsOf
    <3> QED
      BY <3>1, <3>2
  <2> QED
    BY <2>5, <2>6
<1>2. ASSUME NEW b \in Buckets, AllocFromHead(b)
      PROVE  [Pool!Next]_<<ranges[1], RunsOf(1)>>
  <2>0. PICK pg, n : pg = buckets[b] /\ live' = live \cup {Block(1, pg, b, n)}
    BY <1>2 DEF AllocFromHead
  <2>1. pg \in BucketPages(b) /\ b # "list" /\ ranges' = ranges
    BY <2>0, <1>2 DEF AllocFromHead, HeadHasBlock, ListInv, Heads
  <2>2. PICK z \in live : z.ext = 1 /\ z.kind = b /\ z.page = pg
    BY <2>1, BucketPagesAre
  <2> DEFINE x == Block(1, pg, b, n)
  <2>3. x.ext = 1 /\ RunOf(x) = RunOf(z)
    BY <2>1, <2>2 DEF Block, RunOf
  <2> HIDE DEF x
  <2>4. live' = live \cup {x}
    BY <2>0 DEF x
  <2>5. RunsOf(1)' = RunsOf(1)
    BY <2>2, <2>3, <2>4 DEF RunsOf
  <2> QED
    BY <2>1, <2>5
<1>3. ASSUME NEW b \in Buckets, AllocFromNewPage(b)
      PROVE  [Pool!Next]_<<ranges[1], RunsOf(1)>>
  <2>1. extents = 1 /\ RoomFor(1) # {} /\ b # "list"
    BY <1>3 DEF AllocFromNewPage, MayUseBuckets
  <2>2. Smallest(RoomFor(1)) = 1
    BY <2>1, RoomIsSuitable
  <2>3. PICK f \in Suitable(ranges[1], 1) :
          /\ TakeRange(1, f, 1)
          /\ live' = live \cup {Block(1, ReservedPage(f, 1), b, 0)}
    BY <1>3, <2>2 DEF AllocFromNewPage
  <2> DEFINE x == Block(1, ReservedPage(f, 1), b, 0)
  <2>4. x.ext = 1 /\ RunOf(x) = PageRange(ReservedPage(f, 1), 1)
    BY <2>1 DEF Block, RunOf
  <2> HIDE DEF x
  <2>5. live' = live \cup {x}
    BY <2>3 DEF x
  <2>6. ranges'[1] = Reserved(ranges[1], f, 1)
    BY <2>3, <1>0 DEF TakeRange, TypeOK
  <2>7. RunsOf(1)' = RunsOf(1) \cup {PageRange(ReservedPage(f, 1), 1)}
    BY <2>4, <2>5 DEF RunsOf
  <2>8. Pool!Reserve(1)
    BY <2>3, <2>6, <2>7, PoolRanges DEF Pool!Reserve
  <2> QED
    BY <2>8 DEF Pool!Next
<1>4. ASSUME NEW blk \in live, FreePages(blk)
      PROVE  [Pool!Next]_<<ranges[1], RunsOf(1)>>
  <2>1. EntryOK(blk) /\ blk.kind = "list"
    <3>1. EntryOK(blk) /\ pagemap[blk.ext][blk.page].type = "list"
      BY <1>4 DEF FreePages, EntryInv
    <3> QED
      BY <3>1 DEF EntryOK
  <2>2. /\ live' = live \ {blk} /\ blk.ext \in Extents
        /\ ranges' = [ranges EXCEPT ![blk.ext] = Released(@, blk.page, blk.n)]
    <3>1. pagemap[blk.ext][blk.page].size = blk.n /\ blk.ext \in Extents
      BY <2>1, Typing DEF EntryOK, Extents
    <3> QED
      BY <3>1, <1>4 DEF FreePages
  <2>3. CASE blk.ext = 1
    <3> DEFINE run == RunOf(blk)
    <3>1. run.start = blk.page /\ run.size = blk.n
      BY <2>1 DEF RunOf, PageRange
    <3>2. run \in RunsOf(1)
      BY <2>3 DEF RunsOf
    <3>3. ASSUME NEW y \in live, y # blk, y.ext = 1
          PROVE  RunOf(y) # run
      <4>1. PagesOf(y) \cap PagesOf(blk) = {}
        BY <2>1, <2>3, <3>3 DEF MemInv, BlocksAreDisjoint, Overlap
      <4>2. y.page \in PagesOf(y) /\ blk.page \in PagesOf(blk)
        BY BlockTypes
      <4>3. RunOf(y).start = y.page
        BY DEF RunOf, PageRange
      <4> QED
        BY <4>1, <4>2, <4>3, <3>1
    <3> HIDE DEF run
    <3>4. RunsOf(1)' = RunsOf(1) \ {run}
      BY <2>2, <2>3, <3>3 DEF RunsOf, run
    <3>5. ranges'[1] = Released(ranges[1], run.start, run.size)
      BY <2>2, <2>3, <3>1 DEF TypeOK
    <3>6. Pool!Release(run)
      BY <3>4, <3>5, PoolRanges DEF Pool!Release
    <3> QED
      BY <3>2, <3>6 DEF Pool!Next
  <2>4. CASE blk.ext # 1
    <3>1. ranges'[1] = ranges[1]
      BY <2>2, <2>4, <1>0 DEF TypeOK
    <3>2. RunsOf(1)' = RunsOf(1)
      BY <2>2, <2>4 DEF RunsOf
    <3> QED
      BY <3>1, <3>2
  <2> QED
    BY <2>3, <2>4
<1>5. ASSUME NEW blk \in live, FreeSmall(blk)
      PROVE  [Pool!Next]_<<ranges[1], RunsOf(1)>>
  <2> DEFINE b == blk.kind
             pg == blk.page
             n == blk.n
             rest == BusyOf(b, pg) \ {n}
             idle == [pagemap[1] EXCEPT ![pg].map = @ \ {n}][pg].map = Idle(b)
  <2>1. /\ b \in Buckets /\ b # "list" /\ EntryOK(blk) /\ blk.ext = 1
        /\ n \in BlockMask(b) /\ pg \in Pages
        /\ pagemap[1][pg].map = Idle(b) \cup BusyOf(b, pg)
    <3>1. EntryOK(blk) /\ pagemap[blk.ext][pg].type \in Buckets /\ blk.kind \in Kinds
      BY <1>5, BlockTypes DEF FreeSmall, EntryInv
    <3>2. blk.kind # "list"
      BY <3>1 DEF EntryOK
    <3> QED
      BY <3>1, <3>2 DEF EntryOK, Kinds
  <2>2. /\ live' = live \ {blk}
        /\ ranges' = IF idle THEN [ranges EXCEPT ![1] = Released(@, pg, 1)] ELSE ranges
    BY <1>5, <2>1 DEF FreeSmall, EntryOK
  <2>3. idle <=> rest = {}
    <3>1. pagemap[1] \in [Pages -> EntryType]
      BY <1>0, Typing
    <3>2. [pagemap[1] EXCEPT ![pg].map = @ \ {n}][pg].map = pagemap[1][pg].map \ {n}
      BY <3>1, <2>1 DEF EntryType
    <3>3. BusyOf(b, pg) \subseteq BlockMask(b) /\ BlockMask(b) \cap Idle(b) = {}
      <4>1. pg \in BucketPages(b)
        BY DEF BucketPages
      <4> QED
        BY <4>1, <2>1, BucketPagesAre, MaskFacts
    <3>4. pagemap[1][pg].map \ {n} = Idle(b) \cup rest
      BY <2>1, <3>3
    <3>5. rest \cap Idle(b) = {}
      BY <3>3
    <3> HIDE DEF rest
    <3> QED
      BY <3>2, <3>4, <3>5
  <2> HIDE DEF idle
  <2> DEFINE run == RunOf(blk)
  <2>4. run.start = pg /\ run.size = 1 /\ run \in RunsOf(1)
    BY <2>1 DEF RunOf, PageRange, RunsOf
  <2>5. CASE idle
    <3>1. ASSUME NEW y \in live, y # blk, y.ext = 1
          PROVE  RunOf(y) # run
      <4> SUFFICES ASSUME y.page = pg PROVE FALSE
        BY <2>4 DEF RunOf, PageRange
      <4>1. y.kind = b
        BY <3>1, <2>1, BlockTypes DEF MemInv, BlocksAreDisjoint, Overlap
      <4>2. y.n = n
        BY <4>1, <2>3, <2>5 DEF BusyOf
      <4> QED
        BY <3>1, <4>1, <4>2, <2>1, BlockTypes
    <3> HIDE DEF run
    <3>2. RunsOf(1)' = RunsOf(1) \ {run}
      BY <2>1, <2>2, <3>1 DEF RunsOf, run
    <3>3. ranges'[1] = Released(ranges[1], run.start, run.size)
      BY <2>2, <2>4, <2>5, <1>0 DEF TypeOK
    <3>4. Pool!Release(run)
      BY <3>2, <3>3, PoolRanges DEF Pool!Release
    <3> QED
      BY <2>4, <3>4 DEF Pool!Next
  <2>6. CASE ~ idle
    <3>1. PICK z \in live : z # blk /\ z.kind = b /\ z.page = pg
      BY <2>3, <2>6 DEF BusyOf
    <3>2. z.ext = 1 /\ RunOf(z) = run
      BY <3>1, <2>1 DEF EntryInv, EntryOK, RunOf
    <3> HIDE DEF run
    <3>3. RunsOf(1)' = RunsOf(1)
      BY <2>1, <2>2, <3>1, <3>2 DEF RunsOf, run
    <3> QED
      BY <2>2, <2>6, <3>3
  <2> QED
    BY <2>5, <2>6
<1>6. CASE Extend
  <2>1. extents + 1 # 1 /\ extents + 1 \in Extents
    BY <1>6, Typing DEF Extend, Extents
  <2>2. ranges'[1] = ranges[1] /\ RunsOf(1)' = RunsOf(1)
    BY <1>0, <1>6, <2>1 DEF Extend, RunsOf, TypeOK
  <2> QED
    BY <2>2
<1>7. CASE UNCHANGED vars
  BY <1>7 DEF vars, RunsOf
<1> QED
  BY <1>1, <1>2, <1>3, <1>4, <1>5, <1>6, <1>7 DEF Next

(* The heap uses the pages of an extent as the page pool promises them:    *)
(* each call reserves or releases one run of pages, or leaves them alone   *)
(* (reserve_page_range, release_page_range).  The pool is what the trees   *)
(* of module RangeTrees implement.                                         *)
THEOREM HeapUsesThePool ==
  ASSUME MixedUse = FALSE
  PROVE  Spec => Pool!Spec
<1>1. IndInv /\ [Next]_vars => [Pool!Next]_<<ranges[1], RunsOf(1)>>
  BY PoolStep
<1> QED
  BY <1>1, PoolInit, HeapInvariant, PTL DEF Spec, Pool!Spec
=============================================================================
