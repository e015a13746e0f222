--------------------------- MODULE LatmusOptions ---------------------------
(***************************************************************************)
(* The command line of latmus (latmus/latmus.c): what main() reads from    *)
(* its options, how it checks them, on which CPU it places the test and    *)
(* which tests it runs.                                                    *)
(***************************************************************************)
EXTENDS Integers, SequencesExt

CONSTANTS
    Cpus,          \* CPU numbers of the machine
    CpuLists,      \* contents of the files which list CPUs, as sequences of ranges
    MaxOptions     \* bound: how many options are given

LatmusOptionsConstants ==
    /\ Cpus \subseteq Nat /\ Cpus # {} /\ MaxOptions \in Nat
    /\ \A l \in CpuLists : \A i \in DOMAIN l : l[i] \in Cpus \X (Cpus \cup {-1})

VARIABLES
    given,     \* how many options were read
    opts,      \* what they say
    plan       \* what main() does then

optionVars == <<given, opts, plan>>

InbandMode == 1
OobMode == 2
TimerTests == {"irq", "kernel", "user", "sirq"}
GpioTests == {"inband-gpio", "oob-gpio"}
DefaultCells == 200

Init ==
    /\ given = 0 /\ plan = [status |-> "reading"]
    /\ opts = [asked |-> {}, netlat |-> 0, noCheck |-> FALSE, netif |-> FALSE, tuning |-> FALSE, timeout |-> FALSE,
               verbosity |-> 1, plotFile |-> FALSE, plotOut |-> FALSE, cells |-> 0, priority |-> -1,
               cpu |-> -1, background |-> FALSE, reset |-> FALSE]

-----------------------------------------------------------------------------
(* The long options.  Those which only carry a value to the tests are left *)
(* out: packet-size, gpio-in, gpio-out, keep-going, period, maxlat-abort   *)
(* and lines.                                                              *)
OptionTable ==
    TimerTests \cup GpioTests \cup
        {"net", "no-check", "local-ip", "measure", "tune", "reset", "quiet", "verbose",
         "background", "timeout", "plot", "histogram", "priority", "cpu", "force-cpu"}

(* What an option may lead to, for the arguments it may have.  opts.asked  *)
(* is the tests which are named, as usage() calls them; test_netlat is set *)
(* for three of them, the GPIO tests included, and --net sets it to true,  *)
(* which is INBAND_MODE.  --cpu is --force-cpu, whose flag makes no        *)
(* difference once a CPU is given.                                         *)
Read(o) ==
    CASE o \in TimerTests -> {[opts EXCEPT !.asked = @ \cup {o}]}
      [] o = "oob-gpio" -> {[opts EXCEPT !.asked = @ \cup {o}, !.netlat = OobMode]}
      [] o \in {"inband-gpio", "net"} -> {[opts EXCEPT !.asked = @ \cup {o}, !.netlat = InbandMode]}
      [] o = "no-check" -> {[opts EXCEPT !.noCheck = TRUE]}
      [] o = "local-ip" -> {[opts EXCEPT !.netif = TRUE]}
      [] o \in {"measure", "tune"} -> {[opts EXCEPT !.tuning = (o = "tune")]}
      [] o = "reset" -> {[opts EXCEPT !.reset = TRUE]}
      [] o = "quiet" -> {[opts EXCEPT !.verbosity = 0]}
      [] o = "verbose" -> {[opts EXCEPT !.verbosity = v] : v \in {0, 1}}
      [] o = "background" -> {[opts EXCEPT !.background = TRUE]}
      [] o = "timeout" -> {[opts EXCEPT !.timeout = t] : t \in BOOLEAN}
      [] o = "plot" -> {[opts EXCEPT !.plotFile = TRUE], [opts EXCEPT !.plotOut = TRUE]}
      [] o = "histogram" -> {[opts EXCEPT !.cells = 1]}
      [] o = "priority" -> {[opts EXCEPT !.priority = 5]}
      [] o \in {"cpu", "force-cpu"} -> {[opts EXCEPT !.cpu = c] : c \in Cpus}

Option ==
    /\ plan.status = "reading" /\ given < MaxOptions /\ given' = given + 1
    /\ \E o \in OptionTable : opts' \in Read(o)
    /\ UNCHANGED plan

(* One which is not known, or whose value is not valid, ends the process,  *)
(* and so does an argument which is left.  The short options of the timer  *)
(* tests (-i, -k, -u and -s), and -S, are among those not known.           *)
Refuse ==
    /\ plan.status = "reading" /\ plan' = [status |-> "refused"]
    /\ UNCHANGED <<given, opts>>

-----------------------------------------------------------------------------
(* parse_cpu_list(): a range without an end is a single CPU. *)
CpusOf(list) ==
    UNION {LET first == list[i][1]
               last == IF list[i][2] < 0 THEN first ELSE list[i][2]
           IN first..last : i \in DOMAIN list}

(* Mutant: a requested CPU is used whatever it can do. *)
ResponderCpuAsRequested(inband, isolated, oob, here) ==
    IF opts.cpu >= 0 THEN opts.cpu
    ELSE IF isolated \cap oob # {} THEN Min(isolated \cap oob)
    ELSE IF oob # {} THEN Min(oob) ELSE IF isolated # {} THEN Min(isolated) ELSE here

(* determine_responder_cpu(): the lowest CPU of the first of the sets      *)
(* which is not empty.                                                     *)
ResponderCpu(inband, isolated, oob, here) ==
    LET first(sets) == LET i == Min({j \in DOMAIN sets : sets[j] # {}}) IN Min(sets[i])
        default == IF opts.cpu >= 0 THEN opts.cpu ELSE here
    IN IF opts.cpu >= 0 /\ (inband \/ opts.cpu \in oob) THEN opts.cpu
       ELSE IF opts.cpu >= 0 THEN first(<<oob, isolated, {default}>>)
       ELSE IF inband THEN first(<<isolated, {default}>>)
       ELSE first(<<isolated \cap oob, oob, isolated, {default}>>)

(* The tests which run: user if none is asked for, all those which tune    *)
(* the core timer when tuning.  test_gpiolat is never set.                 *)
Flagged == (opts.asked \cap TimerTests) \cup (IF opts.netlat # 0 THEN {"net"} ELSE {})
Tests ==
    IF Flagged # {} THEN Flagged ELSE IF opts.tuning THEN {"irq", "kernel", "user"} ELSE {"user"}

(* --quiet requires --timeout when measuring, --background requires        *)
(* --quiet.                                                                *)
Verbosity ==
    IF opts.background THEN 0
    ELSE IF ~ opts.tuning /\ ~ opts.timeout /\ opts.verbosity = 0 THEN 1 ELSE opts.verbosity

(* --plot implies --measure. *)
Plotting == (opts.plotFile \/ opts.plotOut) /\ ~ opts.tuning

(* The checks which main() makes on the options as a whole, in order; the  *)
(* file to plot to may be there already, the device may not.               *)
Fails(exists, device) ==
    \/ Plotting /\ opts.plotFile /\ exists
    \/ IF opts.tuning THEN ~ Tests \subseteq {"irq", "kernel", "user"} ELSE Cardinality(Tests) > 1
    \/ IF opts.netlat = 0 THEN ~ device ELSE ~ opts.netif

(* do_measurement() picks the test, do_tuning() runs for each context. *)
Order(tests) ==
    LET When(t) == IF t \in tests THEN <<t>> ELSE <<>>
    IN IF opts.tuning THEN When("irq") \o When("kernel") \o When("user")
       ELSE When("irq") \o When("kernel") \o When("sirq") \o When("user") \o When("net")

Run ==
    /\ plan.status = "reading"
    /\ \E isolatedList, oobList \in CpuLists, here \in Cpus, exists, device \in BOOLEAN :
        LET isolated == CpusOf(isolatedList)
            oob == CpusOf(oobList)
            cpu == ResponderCpu(opts.netlat = InbandMode, isolated, oob, here)
        IN plan' =
            IF Fails(exists, device) THEN [status |-> "failed"]
            ELSE [status |-> "runs", tests |-> Order(Tests), verbosity |-> Verbosity, plotting |-> Plotting,
                  cells |-> IF Plotting /\ opts.cells = 0 THEN DefaultCells ELSE opts.cells,
                  priority |-> IF opts.priority < 0 /\ (opts.tuning \/ Tests \cap {"irq", "sirq"} = {})
                               THEN IF opts.netlat # 0 THEN 10 ELSE 98 ELSE opts.priority,
                  reset |-> opts.reset /\ opts.netlat = 0, checkSequence |-> opts.noCheck,
                  cpu |-> cpu, isolated |-> isolated, oob |-> oob]
    /\ UNCHANGED <<given, opts>>

Next == Option \/ Refuse \/ Run

-----------------------------------------------------------------------------
(* What usage() promises of a test which is asked for.  A measurement runs *)
(* that one test, the user one if none is named, but for the GPIO tests:   *)
(* the options which it describes as such ("measure in-band response time  *)
(* to GPIO event via <host|'broadcast'>") run the network test.  Tuning    *)
(* runs for the contexts which are named, or for all.  A plot has cells to *)
(* count in; a measurement without an end is not quiet unless it is in the *)
(* background, which nothing disturbs; a test which has a thread respond   *)
(* gives it a priority (main, do_measurement).                             *)
PlanFollowsOptions ==
    plan.status = "runs" =>
        LET runs == ToSet(plan.tests)
            named(default) == IF opts.asked = {} THEN default ELSE opts.asked
        IN /\ opts.tuning => runs = named({"irq", "kernel", "user"}) /\ "sirq" \notin runs /\ ~ plan.plotting
           /\ ~ opts.tuning =>
                 /\ Len(plan.tests) = 1
                 /\ runs = IF opts.asked \cap GpioTests = {} THEN named({"user"}) ELSE {"net"}
           /\ plan.plotting => plan.cells > 0
           /\ ~ opts.tuning /\ plan.verbosity = 0 => opts.timeout \/ opts.background
           /\ opts.background => plan.verbosity = 0
           /\ runs \cap {"user", "net"} # {} => plan.priority >= 0

(* The CPU which was asked for is the one which runs the test when it can; *)
(* a test which is not in-band is on a CPU which runs out-of-band threads  *)
(* whenever there is one, an isolated one if none was asked for            *)
(* (determine_responder_cpu).  Not so --net, which usage() describes as    *)
(* out-of-band: it is placed like --inband-gpio, on an isolated CPU,       *)
(* whether out-of-band threads may run there or not.                       *)
CpuFitsTest ==
    plan.status = "runs" =>
        LET placedInband == opts.asked \cap {"inband-gpio", "net"} # {} /\ "oob-gpio" \notin opts.asked
            placedOob == opts.asked \cap {"inband-gpio", "net"} = {}
        IN /\ placedOob /\ plan.oob # {} =>
                 /\ plan.cpu \in plan.oob
                 /\ opts.cpu < 0 /\ plan.isolated \cap plan.oob # {} => plan.cpu \in plan.isolated
           /\ placedInband /\ opts.cpu < 0 /\ plan.isolated # {} => plan.cpu \in plan.isolated
           /\ opts.cpu >= 0 /\ (placedInband \/ opts.cpu \in plan.oob \/ plan.oob \cup plan.isolated = {})
              => plan.cpu = opts.cpu
=============================================================================
