------------------------------ MODULE MCTools ------------------------------
(***************************************************************************)
(* Model checking of the programs on top of the library and of the vDSO    *)
(* parser, side by side: the initial state picks which of them runs.       *)
(***************************************************************************)
EXTENDS Integers, Sequences

(* Of latmus. *)
CONSTANTS Far, Micro, Cells, Threshold, RoundsPerSec, Delays, MaxRounds, MaxFaults, MaxStrays, MaxTimestamps,
    Latencies, MaxSamples, Cpus, CpuLists, MaxOptions
(* Of evl ps, evl check, evl net and the parser. *)
CONSTANTS Tids, Files, StatsFields, Figure, PsCpus, CpuArgs, IntLimit, MaxWords,
    Symbols, ConfigLines, Assertions, Archs, MaxConfig, MaxChecks, Modules,
    VdsoImages, VdsoNames, VdsoVersions, HashOf, NBuckets

VARIABLES part,
    runner, main, seq, check, last, lost, inbox, packet, sent, pending, bulk, stats, histogram, torn,
    peer, peerSeq, peerInbox, faults, strays, dropped, missed, late, back,
    tester, sitter, logger, cancelled, signal, user, stamp, bulkNow, collected, xbuf,
    held, last_bulk, st, seen, overlap,
    given, opts, plan,
    words, format, sort_key, restrict, walk, living, unvisited, dir, thread_list, info, lines,
    stage, config, table, arch, checklist, failed, error,
    command, todo, call, files, refused, port, filter, vlans, neighbour,
    image, vdso, wanted, at, found, exited

net == <<runner, main, seq, check, last, lost, inbox, packet, sent, pending, bulk, stats, histogram, torn,
         peer, peerSeq, peerInbox, faults, strays, dropped, missed, late, back>>
timer == <<tester, sitter, logger, cancelled, signal, user, stamp, bulkNow, collected, xbuf,
           held, last_bulk, st, seen, overlap>>
options == <<given, opts, plan>>
ps == <<words, format, sort_key, restrict, walk, living, unvisited, dir, thread_list, info, lines>>
checks == <<stage, config, table, arch, checklist, failed, error>>
netctl == <<command, todo, call, files, refused, port, filter, vlans, neighbour>>
parser == <<image, vdso, wanted, at, found, exited>>

-----------------------------------------------------------------------------
(* An early latency, a short one and one beyond the threshold. *)
TimerLatencies == {-1, 1, 3}

(* The files which list CPUs are empty, or hold one or both of two. *)
TwoCpuLists == {<<>>, <<<<0, -1>>>>, <<<<1, -1>>>>, <<<<0, 1>>>>}

(* Two threads; their CPU times differ by more than an int. *)
TwoThreads ==
    [t \in Tids |-> IF t = "t1" THEN [cpu |-> 0, pid |-> 1, pcpu |-> 3, isw |-> 1, cputime |-> 9]
                    ELSE [cpu |-> 1, pid |-> 2, pcpu |-> 1, isw |-> 1, cputime |-> 2]]

(* -c 0, -c 1-0, -c 1-, -c 2 and -c -. *)
PsCpuArgs ==
    LET r(from, to, dash) == <<[from |-> from, to |-> to, dash |-> dash]>>
    IN {r(0, -1, FALSE), r(1, 0, TRUE), r(1, -1, TRUE), r(2, -1, FALSE), r(-1, -1, TRUE)}

Settings ==
    [is : {"setting"}, sym : {"CONFIG_A"}, val : {"y", "m", "42"}]
        \cup [is : {"setting"}, sym : {"CONFIG_B", "not CONFIG_"}, val : {"m"}]
        \cup [is : {"header"}, sym : {""}, val : {"arm64"}]

(* On the first symbol, on the condition that the second is set or not. *)
SomeAssertions ==
    {a \in [no : BOOLEAN, sym : {"CONFIG_A", "FOO"}, val : {"any", "y", "m", "n"},
            cond : {"none", "CONFIG_B"}, notcond : BOOLEAN, on : {"none", "aarch", "arm"}] :
        (a.notcond => a.cond # "none") /\ (a.sym = "FOO" => ~ a.no /\ a.val = "any")}

(* Images with two symbols of a same name, which hashes like the other one *)
(* to a bucket, and images which miss a table or a segment.                *)
SomeImages ==
    LET all == {"strtab", "symtab", "hash", "gnu_hash", "versym", "verdef"}
        defs == <<[ndx |-> 1, base |-> TRUE, name |-> "V1"], [ndx |-> 2, base |-> FALSE, name |-> "V1"],
                  [ndx |-> 3, base |-> FALSE, name |-> "V2"]>>
        img(m, g, t, s) == [mapped |-> m, segments |-> g, tables |-> t, verdef |-> defs, symtab |-> s]
        a == [name : {"a"}, type : {"func", "object"}, bind : {"weak", "local"}, defined : BOOLEAN,
              ndx : {1, 2, 3}, hidden : BOOLEAN]
        b == [name : {"b"}, type : {"func"}, bind : {"global"}, defined : BOOLEAN, ndx : {1, 3}, hidden : {FALSE}]
        c == [name : {"a"}, type : {"func"}, bind : {"global"}, defined : {TRUE}, ndx : {2}, hidden : BOOLEAN]
    IN {img(TRUE, {"load", "dynamic"}, t, <<x, y, z>>) :
            t \in {all, all \ {"gnu_hash"}, all \ {"verdef"}}, x \in a, y \in b, z \in c}
       \cup {img(m, g, t, <<>>) : m \in BOOLEAN, g \in SUBSET {"load", "dynamic"},
                                  t \in {all, all \ {"strtab"}, all \ {"hash", "gnu_hash"}}}

NameHashes == [n \in VdsoNames |-> IF n = "a" THEN 2 ELSE 3]

-----------------------------------------------------------------------------
Net == INSTANCE NetTest
Timer == INSTANCE TimerTest
Options == INSTANCE LatmusOptions
Ps == INSTANCE EvlPs
Check == INSTANCE EvlCheck
Netctl == INSTANCE EvlNet
Parser == INSTANCE VdsoParser

ASSUME ToolsAssumption ==
    /\ Net!NetTestConstants /\ Timer!TimerTestConstants /\ Options!LatmusOptionsConstants
    /\ Ps!EvlPsConstants /\ Check!EvlCheckConstants /\ Netctl!EvlNetConstants
    /\ Parser!VdsoConstants

MCInit ==
    /\ part \in {"net", "timer", "options", "ps", "check", "netctl", "parser"}
    /\ Net!Init /\ Timer!Init /\ Options!Init /\ Ps!EvlPsInit /\ Check!EvlCheckInit
    /\ Parser!VdsoInit /\ Netctl!EvlNetInit /\ (part # "netctl" => ~ port)

MCNext ==
    /\ \/ part = "net" /\ Net!Next /\ UNCHANGED <<timer, options, ps, checks, netctl, parser>>
       \/ part = "timer" /\ Timer!Next /\ UNCHANGED <<net, options, ps, checks, netctl, parser>>
       \/ part = "options" /\ Options!Next /\ UNCHANGED <<net, timer, ps, checks, netctl, parser>>
       \/ part = "ps" /\ Ps!PsNext /\ UNCHANGED <<net, timer, options, checks, netctl, parser>>
       \/ part = "check" /\ Check!EvlCheckNext /\ UNCHANGED <<net, timer, options, ps, netctl, parser>>
       \/ part = "parser" /\ Parser!VdsoNext /\ UNCHANGED <<net, timer, options, ps, checks, netctl>>
       \/ part = "netctl" /\ Netctl!EvlNetNext /\ UNCHANGED <<net, timer, options, ps, checks, parser>>
    /\ UNCHANGED part

MCSpec == MCInit /\ [][MCNext]_<<part, net, timer, options, ps, checks, netctl, parser>>

-----------------------------------------------------------------------------
(* latmus reports each latency once (log_results), and stops a test for    *)
(* its figures only when two threads summed them up at once.               *)
LatenciesCountedOnce ==
    /\ part = "net" => Net!NetSamplesCountedOnce
    /\ part = "timer" => Timer!TimerSamplesCountedOnce /\ Timer!WeirdIfOverlap /\ Timer!ThresholdHonoured

(* The network test counts no more packets lost than were lost, came late  *)
(* or set the sequence back, and stalls for good only once two of them are *)
(* lost (rx).                                                              *)
LossesAreHonest == part = "net" => Net!LossesNotOvercounted /\ Net!StallsAfterTwoLosses

(* latmus runs the tests which its options name, the GPIO ones as network  *)
(* tests, on a CPU which suits; evl net does what its options ask for, or  *)
(* fails, and the library closes its files (main, determine_responder_cpu, *)
(* evl_net_open_port, evl_net_set_filter).                                 *)
CommandsDoAsAsked ==
    /\ part = "options" => Options!PlanFollowsOptions /\ Options!CpuFitsTest
    /\ part = "netctl" => Netctl!SuccessMeansDone /\ Netctl!ServicesCloseFiles

(* evl ps, evl check and the vDSO parser tell what is there, and where the *)
(* first two are wrong they are so in the cases which their properties     *)
(* name (scan_thread, print_thread_info, apply_checklist,                  *)
(* evl_lookup_vdso).                                                       *)
ReportsAreTrue ==
    /\ part = "ps" => Ps!PsReportIsTrue
    /\ part = "check" => Check!ChecksAreTrue
    /\ part = "parser" => Parser!LookupIsTrue
=============================================================================
