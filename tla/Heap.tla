-------------------------------- MODULE Heap --------------------------------
(***************************************************************************)
(* The memory heap of libevl (src/lib/heap.c).                             *)
(*                                                                         *)
(* A heap owns extents of pages.  Large blocks are ranges of pages; small  *)
(* ones share a page with others of the same size, the pages of a size     *)
(* form a circular list headed by the bucket of that size.  Free pages are *)
(* kept as ranges, which are indexed by size and by address in two AVL     *)
(* trees: here, a set of ranges, which module RangeTrees shows the trees   *)
(* to implement.  Every operation runs under the mutex of the heap, and is *)
(* one step.  The program frees what it allocated.                         *)
(***************************************************************************)
EXTENDS Ranges

CONSTANTS
    PageCount,      \* pages of an extent
    MaxExtents,     \* bound: how many times the heap is extended
    MaxRange,       \* bound: pages of the largest request
    Buckets,        \* sizes below that of a page
    BlockCount,     \* blocks of each such size in a page
    MapBits,        \* width of a page map (32)
    MixedUse,       \* whether the program gets small blocks from extended heaps
    NoPage          \* the empty bucket (-1U)

ASSUME HeapAssumption ==
    /\ PageCount \in Nat \ {0} /\ MaxExtents \in Nat \ {0}
    /\ MaxRange \in Nat /\ MapBits \in Nat /\ MixedUse \in BOOLEAN
    /\ BlockCount \in [Buckets -> 2..MapBits]
    /\ "free" \notin Buckets /\ "list" \notin Buckets
    /\ NoPage \notin Nat

Pages == 0..PageCount-1
Extents == 1..MaxExtents
Full == 0..MapBits-1                            \* the map -1U
BlockMask(b) == 0..BlockCount[b]-1              \* gen_block_mask()
Idle(b) == Full \ BlockMask(b)

VARIABLES
    extents,    \* how many extents heap->extents lists
    ranges,     \* the free ranges of each extent: size_tree and addr_tree
    pagemap,    \* the page entries of each extent
    buckets,    \* heap->buckets
    used,       \* heap->used_size: how many blocks of each size
    live        \* history: the blocks which the program owns

vars == <<extents, ranges, pagemap, buckets, used, live>>

Entry(type, map, size, prev, next) ==
    [type |-> type, map |-> map, size |-> size, prev |-> prev, next |-> next]
Block(e, pg, kind, n) == [ext |-> e, page |-> pg, kind |-> kind, n |-> n]

(* add_extent() clears the page entries: no type, no busy block. *)
FreshPages == [pg \in Pages |-> Entry("free", {}, 0, 0, 0)]
Kinds == Buckets \cup {"list"}

(* evl_init_heap() *)
Init ==
    /\ extents = 1
    /\ ranges = [e \in Extents |-> IF e = 1 THEN {PageRange(0, PageCount)} ELSE {}]
    /\ pagemap = [e \in Extents |-> FreshPages]
    /\ buckets = [b \in Buckets |-> NoPage]
    /\ used = [k \in Kinds |-> 0]
    /\ live = {}

-----------------------------------------------------------------------------
(* The page list of a bucket: its head, and the links in the page entries *)

Ring(m, head) == [map |-> m, head |-> head]

(* add_page_front() *)
AddFront(r, pg) ==
    IF r.head = NoPage
      THEN Ring([r.map EXCEPT ![pg].prev = pg, ![pg].next = pg], pg)
      ELSE LET next == r.map[r.head].next
           IN Ring([r.map EXCEPT ![pg].prev = r.head, ![pg].next = next,
                                 ![next].prev = pg, ![r.head].next = pg], pg)

(* Mutant: the bucket still heads the page which leaves. *)
RemoveStale(r, pg) ==
    LET old == r.map[pg]
    IN IF pg = old.next THEN Ring(r.map, NoPage)
       ELSE Ring([r.map EXCEPT ![old.prev].next = old.next, ![old.next].prev = old.prev],
                 r.head)

(* remove_page() *)
Remove(r, pg) ==
    LET old == r.map[pg]
    IN IF pg = old.next THEN Ring(r.map, NoPage)
       ELSE Ring([r.map EXCEPT ![old.prev].next = old.next, ![old.next].prev = old.prev],
                 IF pg = r.head THEN old.next ELSE r.head)

(* move_page_front() *)
MoveFront(r, pg) == IF r.head = pg THEN r ELSE AddFront(Remove(r, pg), pg)

(* move_page_back() *)
MoveBack(r, pg) ==
    IF r.map[pg].next = pg THEN r
    ELSE LET s == Remove(r, pg)
             last == s.map[s.head].prev
         IN Ring([s.map EXCEPT ![pg].prev = last, ![pg].next = s.map[last].next,
                               ![s.map[last].next].prev = pg, ![last].next = pg], s.head)

-----------------------------------------------------------------------------
(* evl_alloc_block() *)

Count(kind, n) == used' = [used EXCEPT ![kind] = @ + n]

(* add_free_range(): the first extent which has a suitable range. *)
RoomFor(n) == {e \in 1..extents : Suitable(ranges[e], n) # {}}

TakeRange(e, f, n) == ranges' = [ranges EXCEPT ![e] = Reserved(@, f, n)]

(* A block of n pages; NULL, and nothing changes, if there is no room. *)
AllocPages(n) ==
    /\ RoomFor(n) # {}
    /\ LET e == Smallest(RoomFor(n))
       IN \E f \in Suitable(ranges[e], n) :
            LET pg == ReservedPage(f, n)
            IN /\ TakeRange(e, f, n)
               /\ pagemap' = [pagemap EXCEPT ![e][pg].type = "list", ![e][pg].size = n,
                                             ![e][pg].map = {}]
               /\ live' = live \cup {Block(e, pg, "list", n)}
    /\ Count("list", n)
    /\ UNCHANGED <<extents, buckets>>

(* Bucket heads do not tell the extent of their page: unless MixedUse, the  *)
(* program stays clear of what follows from it.                             *)
MayUseBuckets == MixedUse \/ extents = 1

(* The heading page of the bucket, as the first extent of the list sees it: *)
(* the loop over the extents stops there, whether or not it has room.       *)
HeadHasBlock(b) == buckets[b] # NoPage /\ pagemap[1][buckets[b]].map # Full

AllocFromHead(b) ==
    /\ HeadHasBlock(b) /\ MayUseBuckets
    /\ LET pg == buckets[b]
           n == Smallest(Full \ pagemap[1][pg].map)
           marked == [pagemap[1] EXCEPT ![pg].map = @ \cup {n}]
           ring == IF marked[pg].map = Full THEN MoveBack(Ring(marked, pg), pg)
                   ELSE Ring(marked, pg)
       IN /\ pagemap' = [pagemap EXCEPT ![1] = ring.map]
          /\ buckets' = [buckets EXCEPT ![b] = ring.head]
          /\ live' = live \cup {Block(1, pg, b, n)}
    /\ Count(b, 1)
    /\ UNCHANGED <<extents, ranges>>

(* No free block in bucketed memory: add a page. *)
AllocFromNewPage(b) ==
    /\ ~HeadHasBlock(b) /\ MayUseBuckets
    /\ RoomFor(1) # {}
    /\ LET e == Smallest(RoomFor(1))
       IN \E f \in Suitable(ranges[e], 1) :
            LET pg == ReservedPage(f, 1)
                marked == [pagemap[e] EXCEPT ![pg].type = b, ![pg].size = 0,
                                             ![pg].map = Idle(b) \cup {0}]
                ring == AddFront(Ring(marked, buckets[b]), pg)
            IN /\ TakeRange(e, f, 1)
               /\ pagemap' = [pagemap EXCEPT ![e] = ring.map]
               /\ buckets' = [buckets EXCEPT ![b] = ring.head]
               /\ live' = live \cup {Block(e, pg, b, 0)}
    /\ Count(b, 1)
    /\ UNCHANGED extents

-----------------------------------------------------------------------------
(* evl_free_block() *)

FreePages(blk) ==
    LET entry == pagemap[blk.ext][blk.page]
    IN /\ blk \in live /\ entry.type = "list"
       /\ ranges' = [ranges EXCEPT ![blk.ext] = Released(@, blk.page, entry.size)]
       /\ Count("list", -entry.size)
       /\ live' = live \ {blk}
       /\ UNCHANGED <<extents, pagemap, buckets>>

(* A page which becomes idle returns to the pool, one which was full moves *)
(* to the front of the list of its bucket.                                 *)
FreeSmall(blk) ==
    LET b == pagemap[blk.ext][blk.page].type
        oldmap == pagemap[blk.ext][blk.page].map
        marked == [pagemap[blk.ext] EXCEPT ![blk.page].map = @ \ {blk.n}]
        idle == marked[blk.page].map = Idle(b)
        ring == Ring(marked, buckets[b])
        moved == IF idle THEN Remove(ring, blk.page)
                 ELSE IF oldmap = Full THEN MoveFront(ring, blk.page)
                 ELSE ring
    IN /\ blk \in live /\ b \in Buckets
       /\ pagemap' = [pagemap EXCEPT ![blk.ext] = moved.map]
       /\ buckets' = [buckets EXCEPT ![b] = moved.head]
       /\ ranges' = IF idle THEN [ranges EXCEPT ![blk.ext] = Released(@, blk.page, 1)]
                    ELSE ranges
       /\ Count(b, -1)
       /\ live' = live \ {blk}
       /\ UNCHANGED extents

(* evl_extend_heap() *)
Extend ==
    /\ extents < MaxExtents
    /\ MixedUse \/ \A b \in Buckets : buckets[b] = NoPage
    /\ extents' = extents + 1
    /\ ranges' = [ranges EXCEPT ![extents + 1] = {PageRange(0, PageCount)}]
    /\ pagemap' = [pagemap EXCEPT ![extents + 1] = FreshPages]
    /\ UNCHANGED <<buckets, used, live>>

Next ==
    \/ \E n \in 1..MaxRange : AllocPages(n)
    \/ \E b \in Buckets : AllocFromHead(b) \/ AllocFromNewPage(b)
    \/ \E blk \in live : FreePages(blk) \/ FreeSmall(blk)
    \/ Extend

Spec == Init /\ [][Next]_vars

-----------------------------------------------------------------------------
TypeOK ==
    /\ extents \in Extents
    /\ ranges \in [Extents -> SUBSET [start : Pages, size : 1..PageCount]]
    /\ pagemap \in [Extents -> [Pages -> [type : Kinds \cup {"free"}, map : SUBSET Full,
                                          size : 0..MaxRange, prev : Pages, next : Pages]]]
    /\ buckets \in [Buckets -> Pages \cup {NoPage}]
    /\ used \in [Kinds -> Nat]
    /\ live \subseteq [ext : Extents, page : Pages, kind : Kinds, n : Nat]

PagesOf(blk) ==
    IF blk.kind = "list" THEN blk.page..(blk.page + blk.n - 1) ELSE {blk.page}
RangePages(f) == f.start..(f.start + f.size - 1)

Overlap(x, y) ==
    /\ x.ext = y.ext /\ PagesOf(x) \cap PagesOf(y) # {}
    /\ x.kind = y.kind => x.kind = "list" \/ x.n = y.n

(* Two blocks never share memory, and no block lies in a free range, where *)
(* the descriptor of the range would overwrite it (evl_alloc_block).       *)
BlocksAreDisjoint ==
    /\ \A x, y \in live : x # y => ~Overlap(x, y)
    /\ \A x \in live : \A f \in ranges[x.ext] : PagesOf(x) \cap RangePages(f) = {}

LivePages(e) == UNION {PagesOf(x) : x \in {y \in live : y.ext = e}}
FreePagesOf(e) == UNION {RangePages(f) : f \in ranges[e]}

(* No page leaks, and free pages are never fragmented: each is in a range, *)
(* and two ranges never touch, so that freeing everything gives the extent *)
(* back as one range (release_page_range).                                 *)
NothingLeaks ==
    \A e \in 1..extents :
        /\ LivePages(e) \cup FreePagesOf(e) = Pages
        /\ \A f, g \in ranges[e] : f # g => f.start + f.size # g.start

(* The pages which hold a block of size b are linked in one circular list, *)
(* the bucket heads it, and the maps say which blocks are busy             *)
(* (add_page_front, remove_page, move_page_back).                          *)
BucketPages(b) == {x.page : x \in {y \in live : y.kind = b}}

Reach(m, pg) ==
    {q \in Pages : \A S \in SUBSET Pages :
        pg \in S /\ (\A r \in S : m[r].next \in S) => q \in S}

BucketListed ==
    \A b \in Buckets :
        LET m == pagemap[1] IN
        /\ IF buckets[b] = NoPage THEN BucketPages(b) = {}
           ELSE BucketPages(b) = Reach(m, buckets[b])
        /\ \A pg \in BucketPages(b) :
             /\ m[m[pg].next].prev = pg /\ m[m[pg].prev].next = pg
             /\ m[pg].type = b
             /\ m[pg].map = Idle(b) \cup {x.n : x \in {y \in live : y.kind = b /\ y.page = pg}}

(* The heap keeps track of what the program owns, bucketed pages as above; *)
(* used_size sums it up, and the size which a free will give back is still *)
(* that of the block (evl_free_block reads the entry).                     *)
BlocksAreTracked ==
    /\ BucketListed
    /\ LET blocks(k) == {x \in live : x.kind = k} IN
       /\ \A b \in Buckets : used[b] = Cardinality(blocks(b))
       /\ used["list"] = Cardinality(UNION {{x.ext} \X PagesOf(x) : x \in blocks("list")})
       /\ \A x \in blocks("list") : pagemap[x.ext][x.page].size = x.n
=============================================================================
