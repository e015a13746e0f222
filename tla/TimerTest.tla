----------------------------- MODULE TimerTest -----------------------------
(***************************************************************************)
(* The timer test of latmus (latmus/timer.c): the latmus driver, which is  *)
(* external, measures latencies while a sitter thread waits in it, and     *)
(* writes a bulk of them to a cross-buffer every second; a logger thread   *)
(* reads the bulks; the main thread waits for a signal, stops the others   *)
(* and reports.  For the user context the latencies are those of a         *)
(* responder thread which pulses the driver.                               *)
(*                                                                         *)
(* The logger is detached (create_logger): joining it does not wait for    *)
(* it, hence __log_results() may run twice at once.                        *)
(***************************************************************************)
EXTENDS Statistics, Sequences

CONSTANTS
    Latencies,     \* latencies which may be measured
    MaxSamples     \* bound: how many are measured

TimerTestConstants ==
    StatisticsConstants /\ Latencies \subseteq -Far..Far /\ MaxSamples \in Nat

VARIABLES
    tester,     \* what the main thread does next
    sitter,     \* "run" in the driver, or "done"
    logger,     \* what the logger does next
    cancelled,  \* pthread_cancel() was called for the logger
    signal,     \* a signal which ends the test is pending
    user,       \* test_ulat: a responder pulses the driver
    stamp,      \* the responder has a timestamp for its next pulse
    bulkNow,    \* what the driver has measured since the last bulk
    collected,  \* the histogram of the driver
    xbuf,       \* bulks in the cross-buffer
    held,       \* the bulk which the logger has read
    last_bulk,  \* what the driver left to the sitter
    st,         \* the statistics
    seen,       \* what the logger and the main thread have read of them
    overlap     \* history: the statistics changed between a read and its update

timerVars == <<tester, sitter, logger, cancelled, signal, user, stamp, bulkNow, collected,
               xbuf, held, last_bulk, st, seen, overlap>>

Init ==
    /\ tester = "start" /\ sitter = "none" /\ logger = "none"
    /\ cancelled = FALSE /\ signal = FALSE /\ user = FALSE /\ stamp = FALSE
    /\ bulkNow = EmptyBulk /\ collected = NoHistogram /\ xbuf = <<>>
    /\ held = EmptyBulk /\ last_bulk = EmptyBulk /\ st = NoStatistics
    /\ seen = [t \in {"logger", "main"} |-> NoStatistics] /\ overlap = FALSE

Over == tester \in {"exit", "abort", "weird"}

(* run_timer_test() creates the logger, the responder and the sitter. *)
Start ==
    /\ tester = "start"
    /\ tester' = "wait" /\ sitter' = "run" /\ logger' = "read" /\ user' \in BOOLEAN
    /\ UNCHANGED <<cancelled, signal, stamp, bulkNow, collected, xbuf, held, last_bulk, st, seen, overlap>>

-----------------------------------------------------------------------------
(* A latency which the driver measures. *)
Sample ==
    /\ Total(collected) < MaxSamples
    /\ \E dt \in Latencies :
           bulkNow' = Measured(bulkNow, dt, 1) /\ collected' = Binned(collected, dt, 1)

(* In interrupt and kernel contexts the driver measures on its own.  It    *)
(* measures user latencies from the timestamp which a pulse brings: there  *)
(* is none in the first one nor in one which follows a failure (EPIPE).    *)
Tick ==
    /\ sitter = "run" /\ ~ user /\ Sample
    /\ UNCHANGED <<tester, sitter, logger, cancelled, signal, user, stamp, xbuf, held, last_bulk, st, seen, overlap>>

Pulse ==
    /\ sitter = "run" /\ user
    /\ IF stamp THEN Sample ELSE UNCHANGED <<bulkNow, collected>>
    /\ stamp' \in BOOLEAN
    /\ UNCHANGED <<tester, sitter, logger, cancelled, signal, user, xbuf, held, last_bulk, st, seen, overlap>>

EndBulk ==
    /\ sitter = "run" /\ bulkNow.samples > 0
    /\ xbuf' = Append(xbuf, bulkNow) /\ bulkNow' = EmptyBulk
    /\ UNCHANGED <<tester, sitter, logger, cancelled, signal, user, stamp, collected, held, last_bulk, st, seen, overlap>>

-----------------------------------------------------------------------------
(* What an update of the statistics leaves there when another has          *)
(* happened since it read them: for each of the figures, either is lost    *)
(* or none.                                                                *)
Updated(read, bulk) ==
    LET a == Logged(read, bulk)
        b == Logged(st, bulk)
    IN [sum: {a.sum, b.sum}, min: {a.min, b.min}, max: {a.max, b.max},
        overruns: {a.overruns, b.overruns}, samples: {a.samples, b.samples}]

Update(t, bulk) ==
    /\ st' \in Updated(seen[t], bulk)
    /\ overlap' = (overlap \/ seen[t] # st)

LogRead ==
    /\ logger = "read" /\ xbuf # <<>>
    /\ held' = Head(xbuf) /\ xbuf' = Tail(xbuf) /\ logger' = "page"
    /\ UNCHANGED <<tester, sitter, cancelled, signal, user, stamp, bulkNow, collected, last_bulk, st, seen, overlap>>

(* log_results(): the header of a page, __log_results(), then the line of  *)
(* more_timer_data(), which is not printed when the figures are wrong.     *)
LogBegin ==
    /\ logger = "page" /\ logger' = "sum" /\ seen' = [seen EXCEPT !["logger"] = st]
    /\ UNCHANGED <<tester, sitter, cancelled, signal, user, stamp, bulkNow, collected, xbuf, held, last_bulk, st, overlap>>

LogEnd ==
    /\ logger = "sum"
    /\ IF Exceeds(seen["logger"], held)
       THEN tester' = "abort" /\ UNCHANGED <<logger, st, overlap>>
       ELSE Update("logger", held) /\ logger' = "line" /\ UNCHANGED tester
    /\ UNCHANGED <<sitter, cancelled, signal, user, stamp, bulkNow, collected, xbuf, held, last_bulk, seen>>

(* The division of C rounds to zero. *)
Average(bulk) ==
    IF bulk.sum >= 0 THEN bulk.sum \div bulk.samples ELSE -((-bulk.sum) \div bulk.samples)

LooksWeird(bulk) ==
    LET avg == Average(bulk) IN
    \/ bulk.min > bulk.max \/ bulk.min > avg \/ avg > bulk.max
    \/ bulk.min > st.max \/ bulk.max > st.max \/ avg > st.max \/ st.min > st.max

LogLine ==
    /\ logger = "line"
    /\ IF LooksWeird(held)
       THEN tester' = "weird" /\ UNCHANGED <<logger, held>>
       ELSE logger' = "read" /\ held' = EmptyBulk /\ UNCHANGED tester
    /\ UNCHANGED <<sitter, cancelled, signal, user, stamp, bulkNow, collected, xbuf, last_bulk, st, seen, overlap>>

(* Cancellation points are reads and prints. *)
LoggerDies ==
    /\ cancelled /\ logger \in {"read", "page", "line"}
    /\ logger' = "dead" /\ held' = IF logger = "line" THEN EmptyBulk ELSE held
    /\ UNCHANGED <<tester, sitter, cancelled, signal, user, stamp, bulkNow, collected, xbuf, last_bulk, st, seen, overlap>>

-----------------------------------------------------------------------------
(* The alarm of notify_start(), a user, or sigdebug_handler() when the     *)
(* responder has switched to in-band mode and -K was not given.            *)
Signal ==
    /\ tester = "wait" /\ signal' = TRUE
    /\ UNCHANGED <<tester, sitter, logger, cancelled, user, stamp, bulkNow, collected, xbuf, held, last_bulk, st, seen, overlap>>

(* Mutant: the sitter is not waited for, as if it were detached. *)
StopNoWait ==
    /\ tester = "wait" /\ signal
    /\ tester' = "log" /\ sitter' = "stopping"
    /\ UNCHANGED <<logger, cancelled, signal, user, stamp, bulkNow, collected, xbuf, held, last_bulk, st, seen, overlap>>

(* The sitter is cancelled and joined. *)
Stop ==
    /\ tester = "wait" /\ signal
    /\ tester' = "join" /\ sitter' = "stopping"
    /\ UNCHANGED <<logger, cancelled, signal, user, stamp, bulkNow, collected, xbuf, held, last_bulk, st, seen, overlap>>

(* The driver leaves the last bulk when the sitter returns from it. *)
SitterReturns ==
    /\ sitter = "stopping" /\ sitter' = "done"
    /\ last_bulk' = bulkNow /\ bulkNow' = EmptyBulk
    /\ tester' = IF tester = "join" THEN "log" ELSE tester
    /\ UNCHANGED <<logger, cancelled, signal, user, stamp, collected, xbuf, held, st, seen, overlap>>

(* The responder and the logger are cancelled, then the last bulk counts. *)
LogLast ==
    /\ tester = "log" /\ cancelled' = TRUE
    /\ IF last_bulk.samples > 0
       THEN tester' = "sum" /\ seen' = [seen EXCEPT !["main"] = st]
       ELSE tester' = "report" /\ UNCHANGED seen
    /\ UNCHANGED <<sitter, logger, signal, user, stamp, bulkNow, collected, xbuf, held, last_bulk, st, overlap>>

LogLastEnd ==
    /\ tester = "sum"
    /\ IF Exceeds(seen["main"], last_bulk)
       THEN tester' = "abort" /\ UNCHANGED <<st, overlap>>
       ELSE Update("main", last_bulk) /\ tester' = "report"
    /\ UNCHANGED <<sitter, logger, cancelled, signal, user, stamp, bulkNow, collected, xbuf, held, last_bulk, seen>>

(* consume_statistics(), then the process exits with all of its threads. *)
Report ==
    /\ tester = "report" /\ tester' = "exit"
    /\ UNCHANGED <<sitter, logger, cancelled, signal, user, stamp, bulkNow, collected, xbuf, held, last_bulk, st, seen, overlap>>

Driver == Tick \/ Pulse \/ EndBulk \/ SitterReturns
Logger == LogRead \/ LogBegin \/ LogEnd \/ LogLine \/ LoggerDies
Main == Start \/ Signal \/ Stop \/ LogLast \/ LogLastEnd \/ Report
Next == ~ Over /\ (Driver \/ Logger \/ Main)

-----------------------------------------------------------------------------
(* Each latency which the driver has put in the histogram is reported      *)
(* once, unless the logger was cancelled or still running when the process *)
(* exits (run_timer_test): then a bulk may be left in the cross-buffer or  *)
(* in its hands, or, if both threads summed up at once, lost; but none is  *)
(* ever counted twice.                                                     *)
InXbuf == Total([i \in DOMAIN xbuf |-> xbuf[i].samples])
InHand == IF logger \in {"page", "sum", "dead"} THEN held.samples ELSE 0

TimerSamplesCountedOnce ==
    tester = "exit" =>
        LET reported == st.samples + InXbuf + InHand IN
        IF overlap THEN reported <= Total(collected) ELSE reported = Total(collected)

(* The check of more_timer_data() never ends a test whose figures are      *)
(* right, unless two bulks were summed up at once.                         *)
WeirdIfOverlap == tester = "weird" => overlap

(* A test which was not aborted has measured nothing beyond the threshold  *)
(* (-A), but for what the logger did not read or lost.                     *)
ThresholdHonoured == tester = "exit" /\ ~ overlap => Threshold = 0 \/ st.max <= Threshold
=============================================================================
