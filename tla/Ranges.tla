------------------------------- MODULE Ranges -------------------------------
(***************************************************************************)
(* The free pages of an extent of the heap (src/lib/heap.c), as a set of   *)
(* ranges: how a range is split by an allocation, and how ranges merge     *)
(* again when pages are freed.  The heap (module Heap) works on such sets, *)
(* the trees which index the ranges (module RangeTrees) implement them.    *)
(***************************************************************************)
EXTENDS Integers, FiniteSets

PageRange(s, n) == [start |-> s, size |-> n]

Smallest(S) == CHOOSE n \in S : \A k \in S : n <= k
Largest(S) == CHOOSE n \in S : \A k \in S : n >= k

(* find_suitable_range(): the smallest which is large enough, in any order *)
(* among those of the same size.                                           *)
Suitable(R, n) ==
    {f \in R : f.size >= n /\ \A g \in R : g.size >= n => g.size >= f.size}

(* Mutant: the address of the upper part forgets the size of the block. *)
ReservedPastEnd(f, n) == f.start + f.size

(* reserve_page_range(): the upper part of a larger range is split off. *)
ReservedPage(f, n) == f.start + f.size - n

(* Mutant: the remainder of a split overlaps the block by a page. *)
ReservedOverlapping(R, f, n) ==
    (R \ {f}) \cup (IF f.size = n THEN {} ELSE {PageRange(f.start, f.size - n + 1)})

Reserved(R, f, n) ==
    (R \ {f}) \cup (IF f.size = n THEN {} ELSE {PageRange(f.start, f.size - n)})

(* Mutant: the right neighbour is not merged. *)
ReleasedLeftOnly(R, pg, n) ==
    LET left == {f \in R : f.start + f.size = pg}
        low == Smallest({pg} \cup {f.start : f \in left})
    IN (R \ left) \cup {PageRange(low, pg + n - low)}

(* release_page_range(): the neighbours which touch the range are merged. *)
Released(R, pg, n) ==
    LET touching == {f \in R : f.start + f.size = pg \/ f.start = pg + n}
        low == Smallest({pg} \cup {f.start : f \in touching})
        high == Largest({pg + n} \cup {f.start + f.size : f \in touching})
    IN (R \ touching) \cup {PageRange(low, high - low)}
=============================================================================
