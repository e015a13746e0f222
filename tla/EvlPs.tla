------------------------------- MODULE EvlPs -------------------------------
(***************************************************************************)
(* The report of 'evl ps' on the threads of the EVL core (utils/evl-ps.c). *)
(* It walks the directories of the threads in sysfs, while threads may     *)
(* terminate, collects what a few files of them say, then sorts and        *)
(* displays what it has got.                                               *)
(***************************************************************************)
EXTENDS Integers, SequencesExt, FiniteSetsExt

CONSTANTS
    Tids,          \* threads
    Files,         \* files of a thread which are collected
    StatsFields,   \* fields in the file of statistics, 5 or 6
    Figure,        \* what the files say of each thread, a number per name
    PsCpus,        \* the number of CPUs
    CpuArgs,       \* arguments of -c which are tried
    IntLimit,      \* ints are below this limit
    MaxWords       \* bound: how many options are given

EvlPsConstants ==
    /\ Files \subseteq {"sched", "stats", "state", "pid", "timeout", "wchan"}
    /\ StatsFields \in {5, 6} /\ PsCpus \in Nat \ {0} /\ IntLimit \in Nat \ {0} /\ MaxWords \in Nat
    /\ Figure \in [Tids -> [{"cpu", "pid", "pcpu", "isw", "cputime"} -> Nat]]
    /\ \A t \in Tids : Figure[t]["cpu"] < PsCpus

VARIABLES
    words,         \* how many options were read
    format,        \* display_format
    sort_key,      \* the key, and whether SORT_REVERSE
    restrict,      \* cpu_restrict
    walk,          \* what evl-ps does next
    living,        \* threads which have not terminated
    unvisited,     \* threads whose directory is not visited
    dir,           \* the directory which is visited, and its files left
    thread_list,   \* threads found, the last one first; then sorted
    info,          \* what was collected of them
    lines          \* the threads displayed

EvlPsInit ==
    /\ words = 0 /\ format = {} /\ sort_key = [by |-> "pid", reverse |-> FALSE] /\ restrict = {}
    /\ walk = "options" /\ living = Tids /\ unvisited = Tids /\ dir = [tid |-> "none", left |-> {}]
    /\ thread_list = <<>> /\ lines = <<>>
    /\ info = [t \in Tids |-> [parse_ok |-> FALSE, last |-> "none", got |-> {}, missed |-> {}]]

-----------------------------------------------------------------------------
(* build_cpu_mask(): an argument is a sequence of ranges "n", "n-m", "n-", *)
(* "-m" or "-", whose bounds must be CPUs.  A range may be empty.          *)
None == -1

Bounds(r) ==
    [start |-> IF r.from = None THEN 0 ELSE r.from,
     end   |-> IF r.to # None THEN r.to ELSE IF r.dash THEN PsCpus - 1 ELSE r.from]

GoodMask(arg) ==
    \A i \in DOMAIN arg : Bounds(arg[i]).start < PsCpus /\ Bounds(arg[i]).end < PsCpus

CpuMask(arg) == UNION {Bounds(arg[i]).start..Bounds(arg[i]).end : i \in DOMAIN arg}

(* main() reads the options; the last -c and the last -S count. *)
Option ==
    /\ walk = "options" /\ words < MaxWords /\ words' = words + 1
    /\ \/ \E f \in {"state", "sched", "times", "long", "wait"} :
              format' = format \cup {f} /\ UNCHANGED <<sort_key, restrict, walk>>
       \/ \E k \in {"pcpu", "isw", "cputime"} :
              sort_key' = [sort_key EXCEPT !.by = k] /\ UNCHANGED <<format, restrict, walk>>
       \/ sort_key' = [sort_key EXCEPT !.reverse = TRUE] /\ UNCHANGED <<format, restrict, walk>>
       \/ \E arg \in CpuArgs :
              /\ IF GoodMask(arg)
                 THEN restrict' = CpuMask(arg) /\ UNCHANGED walk
                 ELSE walk' = "failed" /\ UNCHANGED restrict
              /\ UNCHANGED <<format, sort_key>>
    /\ UNCHANGED <<living, unvisited, dir, thread_list, info, lines>>

(* The default format is that of -p. *)
Collect ==
    /\ walk = "options" /\ walk' = "scan"
    /\ format' = IF format = {} THEN {"sched"} ELSE format
    /\ UNCHANGED <<words, sort_key, restrict, living, unvisited, dir, thread_list, info, lines>>

-----------------------------------------------------------------------------
Terminate(t) ==
    /\ walk = "scan" /\ t \in living /\ living' = living \ {t}
    /\ UNCHANGED <<words, format, sort_key, restrict, walk, unvisited, dir, thread_list, info, lines>>

(* nftw() enters the directories, and finds their files, in any order.     *)
(* When a thread has terminated, its directory is skipped, or it cannot be *)
(* opened any more, and this ends the walk with an error.                  *)
EnterDir(t) ==
    /\ walk = "scan" /\ dir.left = {} /\ t \in unvisited /\ unvisited' = unvisited \ {t}
    /\ \/ t \in living /\ dir' = [tid |-> t, left |-> Files] /\ UNCHANGED walk
       \/ t \notin living /\ UNCHANGED <<dir, walk>>
       \/ t \notin living /\ walk' = "failed" /\ UNCHANGED dir
    /\ UNCHANGED <<words, format, sort_key, restrict, living, thread_list, info, lines>>

(* The collect handlers: that of the statistics converts six fields and    *)
(* is content with five.                                                   *)
Handled(f) == f = "stats" => StatsFields = 5

(* Mutant: any file which could be read makes the entry good. *)
ScannedAny(ti, f, read) ==
    [parse_ok |-> ti.parse_ok \/ (read /\ Handled(f)), last |-> f,
     got      |-> IF read THEN ti.got \cup {f} ELSE ti.got,
     missed   |-> IF read THEN ti.missed ELSE ti.missed \cup {f}]

(* The entry of a thread after one of its files, which could be read, or not. *)
Scanned(ti, f, read) ==
    [parse_ok |-> read /\ Handled(f), last |-> f,
     got      |-> IF read THEN ti.got \cup {f} ELSE ti.got,
     missed   |-> IF read THEN ti.missed ELSE ti.missed \cup {f}]

(* scan_thread(): a thread is found by its first file; parse_ok tells      *)
(* whether the last one which was opened could be read and parsed.  When   *)
(* the thread has terminated, a file of its directory may be one which     *)
(* nftw() cannot stat (FTW_NS), or does not find any more: nothing is done *)
(* for this file then.                                                     *)
ScanThread(f) ==
    LET t == dir.tid
    IN /\ walk = "scan" /\ f \in dir.left /\ dir' = [dir EXCEPT !.left = @ \ {f}]
       /\ \/ /\ thread_list' = IF t \in ToSet(thread_list) THEN thread_list ELSE <<t>> \o thread_list
             /\ info' = [info EXCEPT ![t] = Scanned(@, f, t \in living)]
          \/ t \notin living /\ UNCHANGED <<thread_list, info>>
       /\ UNCHANGED <<words, format, sort_key, restrict, walk, living, unvisited, lines>>

-----------------------------------------------------------------------------
(* A figure is zero as long as its file was not read. *)
FileOf(k) == IF k = "pid" THEN "pid" ELSE IF k = "cpu" THEN "sched" ELSE "stats"
Known(t, k) == IF FileOf(k) \in info[t].got THEN Figure[t][k] ELSE 0

(* compare_info() truncates the difference of two figures to an int. *)
ToInt(d) == ((d + IntLimit) % (2 * IntLimit)) - IntLimit
Compare(l, r) ==
    LET ret == ToInt(Known(l, sort_key.by) - Known(r, sort_key.by))
    IN IF sort_key.reverse THEN ToInt(-ret) ELSE ret

(* sort_thread_info() drops the entries which are not parse_ok; the merge  *)
(* sort of qsort() leaves no two neighbours out of order, and nothing more *)
(* when the comparisons do not agree with each other.                      *)
Sort ==
    /\ walk = "scan" /\ unvisited = {} /\ dir.left = {} /\ walk' = "print"
    /\ \E s \in SetToSeqs({t \in ToSet(thread_list) : info[t].parse_ok}) :
           /\ \A i \in 1..Len(s)-1 : Compare(s[i], s[i+1]) <= 0
           /\ thread_list' = s
    /\ UNCHANGED <<words, format, sort_key, restrict, living, unvisited, dir, info, lines>>

(* print_thread_info(): an empty mask restricts nothing. *)
Displayed(t) == restrict = {} \/ Known(t, "cpu") \in restrict

Display ==
    /\ walk = "print" /\ walk' = "done" /\ lines' = SelectSeq(thread_list, Displayed)
    /\ UNCHANGED <<words, format, sort_key, restrict, living, unvisited, dir, thread_list, info>>

PsNext ==
    \/ Option \/ Collect \/ Sort \/ Display
    \/ \E t \in Tids : Terminate(t) \/ EnterDir(t)
    \/ \E f \in Files : ScanThread(f)

-----------------------------------------------------------------------------
(* The handlers which print_thread_info() links in turn for a format. *)
Links(f) ==
    LET When(wanted, links) == IF f \cap (wanted \cup {"long"}) # {} THEN links ELSE <<>>
        Short(links) == IF "long" \in f THEN <<>> ELSE links
    IN  <<"CPU", "PID">>
            \o When({"sched"}, <<"SCHED", "PRIO">>)
            \o When({"state"}, <<"ISW", "CTXSW", "SYS", "RWA", "STAT">>)
            \o When({"times"}, <<"TIMEOUT", "%CPU", "CPUTIME">>)
            \o When({"wait"}, Short(<<"TIMEOUT", "RWA", "STAT">>) \o <<"WCHAN">>)
            \o <<"NAME">>

(* There is one link per handler, hence a handler which is linked again    *)
(* loses what followed it: the columns are those met from the first one.   *)
Columns(f) ==
    LET links == Links(f)
        After(h) == links[Max({i \in DOMAIN links : links[i] = h}) + 1]
        Follow(chain, h) == IF Last(chain) = "NAME" THEN chain ELSE Append(chain, After(Last(chain)))
    IN FoldLeft(Follow, <<"CPU">>, links)

(* format_state(): a wait on a resource hides the delay it is bounded by,  *)
(* and is in lower case then; some bits have no letter.                    *)
StateLetters(state) ==
    {c \in state : c # "unlabelled" /\ ~ (c = "DELAY" /\ "PEND" \in state) /\ c # "PEND"}
        \cup (IF "PEND" \notin state THEN {} ELSE IF "DELAY" \in state THEN {"pend"} ELSE {"PEND"})

-----------------------------------------------------------------------------
(* A thread is not displayed once a file of it could not be read, and what *)
(* is displayed of a thread which is still there is complete (parse_ok,    *)
(* scan_thread()).  One which terminates while it is visited may be        *)
(* displayed without the figures of the files which are gone by then:      *)
(* nothing marks it, unlike what the comment in scan_thread() says, when   *)
(* nftw() does not hand these files over.                                  *)
ListedIsWhole ==
    walk \in {"print", "done"} =>
        \A t \in ToSet(thread_list) : info[t].missed = {} /\ (t \in living => info[t].got = Files)

(* The threads displayed, of those which stay alive, are all those on the  *)
(* CPUs of -c, but the ones whose statistics have a sixth field, which     *)
(* collect_statistics() converts and then rejects, and are read last.      *)
ResidentsListed ==
    walk = "done" =>
        \A t \in living :
            t \in ToSet(lines) <=>
                /\ restrict = {} \/ Figure[t]["cpu"] \in restrict
                /\ StatsFields = 6 => info[t].last # "stats"

(* Two threads are displayed out of the order of the sort key only if the  *)
(* figures of some threads differ by more than an int holds                *)
(* (compare_info()).                                                       *)
SortedByKey ==
    LET key(t) == Known(t, sort_key.by)
        found == ToSet(thread_list)
    IN walk = "done" /\ (\A t, u \in found : key(t) - key(u) < IntLimit) =>
        \A i, j \in DOMAIN lines : i < j =>
            IF sort_key.reverse THEN key(lines[i]) >= key(lines[j]) ELSE key(lines[i]) <= key(lines[j])

(* The columns end with the name, none is displayed twice, and all those   *)
(* asked for are there, but those which -w, without -l, makes the chain of *)
(* the handlers skip: the timeout after those of -s, the times after that  *)
(* of -t (print_thread_info()).                                            *)
ColumnsEnd ==
    LET c == Columns(format)
        skipped ==
            IF "wait" \notin format \/ "long" \in format THEN {}
            ELSE (IF "state" \in format THEN {"TIMEOUT"} ELSE {})
                     \cup (IF "times" \in format THEN {"%CPU", "CPUTIME"} ELSE {})
    IN walk = "print" => Last(c) = "NAME" /\ IsInjective(c) /\ ToSet(c) = ToSet(Links(format)) \ skipped

(* The letters tell waits, bounded waits and delays apart. *)
StatesAreTold ==
    walk = "print" =>
        \A s, u \in SUBSET {"PEND", "DELAY", "READY"} : StateLetters(s) = StateLetters(u) => s = u

PsReportIsTrue == ListedIsWhole /\ ResidentsListed /\ SortedByKey /\ ColumnsEnd /\ StatesAreTold
=============================================================================
