----------------------------- MODULE Statistics -----------------------------
(***************************************************************************)
(* The figures which latmus collects (latmus/stats.c): a bulk sums up the  *)
(* latencies measured over a period, the statistics of a test sum up its   *)
(* bulks.  A histogram counts latencies by their absolute value, in cells  *)
(* of one microsecond, the last cell taking all those beyond.              *)
(***************************************************************************)
EXTENDS Integers, FiniteSets

CONSTANTS
    Far,        \* TEN_MILLIONS: beyond any latency
    Micro,      \* time units in a microsecond (1000 in the code)
    Cells,      \* histogram_cells
    Threshold   \* abort_threshold: a maximum beyond aborts the test (0: none does)

StatisticsConstants == {Far, Micro, Cells} \subseteq Nat \ {0} /\ Threshold \in Nat

(* reset_measurement(), and init_statistics(). *)
EmptyBulk == [sum |-> 0, min |-> Far, max |-> -Far, overruns |-> 0, samples |-> 0]
NoStatistics == [sum |-> 0, min |-> Far, max |-> -Far, overruns |-> 0, samples |-> 0]
NoHistogram == [c \in 0..Cells-1 |-> 0]

Least(x, y) == IF x < y THEN x ELSE y
Most(x, y) == IF x > y THEN x ELSE y

(* add_measurement(), for n samples of a same latency. *)
Measured(bulk, dt, n) ==
    IF n = 0 THEN bulk
    ELSE [bulk EXCEPT !.sum = @ + n * dt, !.min = Least(@, dt), !.max = Most(@, dt), !.samples = @ + n]

(* add_measurement_histogram() *)
Binned(histogram, dt, n) ==
    LET cell == Least((IF dt < 0 THEN -dt ELSE dt) \div Micro, Cells - 1)
    IN [histogram EXCEPT ![cell] = @ + n]

(* How many samples a histogram holds: those of a cell are counted from 1. *)
Samples(histogram) == UNION {{c} \X (1..histogram[c]) : c \in DOMAIN histogram}
Total(histogram) == Cardinality(Samples(histogram))

(* __log_results() sums a bulk up, unless the worst latency so far exceeds *)
(* the threshold which aborts the test.                                    *)
Exceeds(st, bulk) == Threshold > 0 /\ bulk.max > st.max /\ bulk.max > Threshold

Logged(st, bulk) ==
    [sum |-> st.sum + bulk.sum, min |-> Least(st.min, bulk.min), max |-> Most(st.max, bulk.max),
     overruns |-> st.overruns + bulk.overruns, samples |-> st.samples + bulk.samples]
=============================================================================
