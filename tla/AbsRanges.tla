----------------------------- MODULE AbsRanges -----------------------------
(***************************************************************************)
(* What the page pool of an extent promises: ranges of pages are handed    *)
(* out from the free range which fits best, and free ranges which touch    *)
(* are one range.                                                          *)
(***************************************************************************)
EXTENDS Ranges

CONSTANTS
    PageCount,      \* pages of the extent
    Requests        \* how many pages a program asks for

VARIABLES
    free,       \* the free ranges
    busy        \* the ranges which are in use

Init == free = {PageRange(0, PageCount)} /\ busy = {}

(* Reserving fails, and nothing changes, if no range is suitable. *)
Reserve(n) ==
    \E f \in Suitable(free, n) :
        /\ busy' = busy \cup {PageRange(ReservedPage(f, n), n)}
        /\ free' = Reserved(free, f, n)

Release(b) ==
    /\ busy' = busy \ {b}
    /\ free' = Released(free, b.start, b.size)

Next == (\E n \in Requests : Reserve(n)) \/ (\E b \in busy : Release(b))

Spec == Init /\ [][Next]_<<free, busy>>
=============================================================================
