------------------------------ MODULE NetTest ------------------------------
(***************************************************************************)
(* The network test of latmus (latmus/net.c).  The net runner of a host    *)
(* sends a packet per period then waits for one from the peer, and         *)
(* measures how long packets stay in the network stack; the main thread    *)
(* waits for a signal, then reports.  The peer runs the same program: the  *)
(* exchange of packets is all there is of it here.                         *)
(*                                                                         *)
(* The network is external, and carries UDP: it may lose packets, garble   *)
(* them, deliver them twice or in another order.  A host which is not      *)
(* there loses those which are sent to it; the peer may be restarted.      *)
(***************************************************************************)
EXTENDS Statistics

CONSTANTS
    RoundsPerSec,  \* rounds_per_sec: how often the figures are reported
    Delays,        \* latencies which may be measured
    MaxRounds,     \* bound: how many packets a host sends
    MaxFaults,     \* bound: packets which are lost, garbled or sent late
    MaxStrays,     \* bound: packets which are repeated or overtake others, exits of the peer
    MaxTimestamps  \* bound: packets which are measured, on either way

NetTestConstants ==
    /\ StatisticsConstants /\ Delays \subseteq -Far..Far
    /\ RoundsPerSec \in Nat \ {0} /\ MaxRounds \in Nat
    /\ MaxFaults \in Nat /\ MaxStrays \in Nat /\ MaxTimestamps \in Nat

(* The indexes in statistics[]. *)
Rx == {"rx_queuing", "rx_delivery"}
Tx == {"tx_queuing", "tx_delivery"}
Stats == Rx \cup Tx

VARIABLES
    runner,     \* what the net runner does next
    main,       \* what the main thread does next
    seq,        \* packets the host has sent
    check,      \* rx.check_sequence
    last,       \* rx.last_serial
    lost,       \* rx.invalid_lost
    inbox,      \* packets on their way to the host, in its socket and in rx.packet
    packet,     \* the one in rx.packet while the figures are reported, in a set
    sent,       \* history: how many packets were put on their way to the host
    pending,    \* sent packets whose timestamps were not fetched
    bulk,       \* nd->rx and nd->tx measurements
    stats,      \* nd->statistics
    histogram,  \* their histograms
    torn,       \* history: the runner measured while the figures were reported
    peer,       \* what the peer does next
    peerSeq,    \* packets it has sent
    peerInbox,  \* packets on their way to it, or in its socket
    faults,     \* how many packets were lost, garbled or late to leave
    strays,     \* how many were repeated or overtook others, and exits of the peer
    dropped,    \* history: how many were lost
    missed,     \* history: how many were lost or garbled on their way to the host
    late,       \* history: how many were overtaken by those which were read before
    back        \* history: how far the serials went back

figures == <<pending, bulk, stats, histogram, torn>>
sequence == <<seq, check, last, lost, late, back>>
wire == <<inbox, packet, sent>>
others == <<peer, peerSeq, peerInbox, dropped, missed>>
netVars == <<runner, main, sequence, wire, figures, others, faults, strays>>

(* no_check is passed as is: the sequence is checked when -n is given. *)
Init ==
    /\ runner = "start" /\ main = "start"
    /\ seq = 0 /\ check = FALSE /\ last = 0 /\ lost = 0 /\ late = 0 /\ back = 0
    /\ inbox = {} /\ packet = {} /\ sent = 0 /\ pending = 0
    /\ bulk = [s \in Stats |-> EmptyBulk]
    /\ stats = [s \in Stats |-> NoStatistics]
    /\ histogram = [s \in Stats |-> NoHistogram] /\ torn = FALSE
    /\ peer = "start" /\ peerSeq = 0 /\ peerInbox = 0
    /\ faults = 0 /\ strays = 0 /\ dropped = 0 /\ missed = 0

(* run_net_test() binds the socket and spawns the runner. *)
Start ==
    /\ main = "start"
    /\ main' = "wait" /\ runner' = "send" /\ check' \in BOOLEAN
    /\ UNCHANGED <<seq, last, lost, late, back, wire, figures, others, faults, strays>>

Fault(n) == faults + n <= MaxFaults /\ faults' = faults + n
Stray(n) == strays + n <= MaxStrays /\ strays' = strays + n

-----------------------------------------------------------------------------
(* tx() tries without blocking first, and counts an overrun when it fails. *)
Send ==
    /\ runner = "send" /\ seq < MaxRounds
    /\ \/ /\ peer \in {"send", "recv"}
          /\ peerInbox' = peerInbox + 1 /\ UNCHANGED dropped
          /\ \/ Fault(0) /\ UNCHANGED bulk
             \/ Fault(1) /\ bulk' = [bulk EXCEPT !.tx_delivery.overruns = @ + 1]
       \/ /\ Fault(IF peer \in {"send", "recv"} THEN 1 ELSE 0)
          /\ dropped' = dropped + 1 /\ UNCHANGED <<peerInbox, bulk>>
    /\ pending' = pending + 1 /\ runner' = "timer"
    /\ UNCHANGED <<main, sequence, wire, stats, histogram, torn, peer, peerSeq, missed, strays>>

(* add_measurement_histogram() for n packets on the way in or out. *)
Add(way, dt, n) ==
    /\ bulk' = [s \in Stats |-> IF s \in way THEN Measured(bulk[s], dt, n) ELSE bulk[s]]
    /\ histogram' = [s \in Stats |-> IF s \in way THEN Binned(histogram[s], dt, n) ELSE histogram[s]]
    /\ \A s \in way : Total(histogram[s]) + n <= MaxTimestamps
    /\ torn' = (torn \/ (n > 0 /\ main = "report"))

(* At the next period the runner fetches the timestamps of sent packets,   *)
(* if there are any yet: log_tx_times().                                   *)
FetchTimestamps ==
    /\ runner = "timer"
    /\ \E n \in {0, pending}, dt \in Delays : pending' = pending - n /\ Add(Tx, dt, n)
    /\ runner' = "recv"
    /\ UNCHANGED <<main, sequence, wire, stats, others, faults, strays>>

-----------------------------------------------------------------------------
(* A frame starts with a '^', ends with its checksum, and holds a serial   *)
(* number in between, which counts up from 0: parse_input().               *)
Valid(p) == p.state = "good"

(* Mutant: a packet which is not in sequence is counted one too many. *)
LostAfterOffByOne(p) ==
    IF ~ Valid(p) THEN lost + 1
    ELSE IF check /\ last > 0 /\ p.serial # last + 1
    THEN IF p.serial > last THEN p.serial - last ELSE lost + 1
    ELSE lost

(* parse_input() and the end of rx(): a gap in the sequence replaces the   *)
(* count of the packets lost so far.                                       *)
LostAfter(p) ==
    IF ~ Valid(p) THEN lost + 1
    ELSE IF check /\ last > 0 /\ p.serial # last + 1
    THEN IF p.serial > last THEN p.serial - last - 1 ELSE lost + 1
    ELSE lost

(* By how much a packet sets the sequence back: it was repeated, is late,  *)
(* or comes from a peer which was started again.                           *)
WentBack(p) == IF Valid(p) /\ last > 0 /\ p.serial <= last THEN last - p.serial + 1 ELSE 0

(* Those which were sent before a packet and are still on their way. *)
Overtaken(p) == {q \in inbox : q.n < p.n}

(* Mutant: a packet which is not valid is waited for again. *)
ParseOrWait(p) ==
    /\ lost' = LostAfter(p) /\ inbox' = inbox \ {p} /\ packet' = {} /\ UNCHANGED <<check, sent>>
    /\ late' = late + Cardinality(Overtaken(p))
    /\ IF Valid(p)
       THEN last' = p.serial /\ seq' = seq + 1 /\ runner' = "send" /\ back' = back + WentBack(p)
       ELSE UNCHANGED <<last, seq, back>> /\ runner' = "recv"

(* The runner starts another round, whatever it has got. *)
Parse(p) ==
    /\ lost' = LostAfter(p) /\ last' = IF Valid(p) THEN p.serial ELSE last
    /\ inbox' = inbox \ {p} /\ packet' = {} /\ UNCHANGED <<check, sent>>
    /\ late' = late + Cardinality(Overtaken(p)) /\ back' = back + WentBack(p)
    /\ seq' = seq + 1 /\ runner' = "send"

(* rx() waits for a packet, whatever time it takes, and logs its           *)
(* latencies if it has timestamps; log_rx_times() reports once per second. *)
Receive ==
    /\ runner = "recv"
    /\ \E p \in inbox :
        /\ Stray(IF Overtaken(p) = {} THEN 0 ELSE 1)
        /\ \/ Parse(p) /\ UNCHANGED <<bulk, histogram, torn>>
           \/ /\ p.state # "alien"
              /\ \E dt \in Delays : Add(Rx, dt, 1)
              /\ IF seq % RoundsPerSec = 0
                 THEN runner' = "log" /\ packet' = {p} /\ UNCHANGED <<sequence, inbox, sent>>
                 ELSE Parse(p)
    /\ UNCHANGED <<main, pending, stats, others, faults>>

(* __log_results() for the four bulks; one of them may end the process. *)
SumUp == stats' = [s \in Stats |-> Logged(stats[s], bulk[s])]
Aborts == \E s \in Stats : Exceeds(stats[s], bulk[s])
Exit(status) ==
    /\ main' = status /\ runner' = "exit" /\ inbox' = {} /\ packet' = {}
    /\ UNCHANGED <<sequence, sent, figures, others, faults, strays>>

Log ==
    /\ runner = "log"
    /\ IF Aborts THEN Exit("abort")
       ELSE /\ SumUp /\ runner' = "reset" /\ torn' = (torn \/ main = "report")
            /\ UNCHANGED <<main, sequence, wire, pending, bulk, histogram, others, faults, strays>>

(* Mutant: one of the bulks is not reset. *)
ResetAllButOne ==
    /\ runner = "reset"
    /\ bulk' = [s \in Stats |-> IF s = "tx_delivery" THEN bulk[s] ELSE EmptyBulk]
    /\ \E p \in packet : Parse(p)
    /\ UNCHANGED <<main, pending, stats, histogram, torn, others, faults, strays>>

Reset ==
    /\ runner = "reset"
    /\ bulk' = [s \in Stats |-> EmptyBulk]
    /\ \E p \in packet : Parse(p)
    /\ UNCHANGED <<main, pending, stats, histogram, torn, others, faults, strays>>

-----------------------------------------------------------------------------
(* The main thread does not stop the runner before it adds the last bulks. *)
Finalize ==
    /\ main = "wait"
    /\ IF Aborts THEN Exit("abort")
       ELSE /\ SumUp /\ main' = "report" /\ torn' = (torn \/ runner = "reset")
            /\ UNCHANGED <<runner, sequence, wire, pending, bulk, histogram, others, faults, strays>>

(* consume_statistics(), then the process exits. *)
Report == main = "report" /\ Exit("exit")

-----------------------------------------------------------------------------
(* The peer may start and exit any time, and its serials start from 0      *)
(* each time.                                                              *)
PeerStarts ==
    /\ peer = "start" /\ peer' = "send"
    /\ UNCHANGED <<peerSeq, peerInbox, faults, strays, dropped, missed, inbox, sent>>

PeerExits ==
    /\ peer \in {"send", "recv"} /\ Stray(1)
    /\ peer' = "start" /\ peerSeq' = 0 /\ peerInbox' = 0 /\ dropped' = dropped + peerInbox
    /\ UNCHANGED <<faults, missed, inbox, sent>>

(* A packet from the peer may come with a wrong checksum ("garbled") or    *)
(* without its leading '^' ("alien").                                      *)
Bound == main \in {"wait", "report"}
Enqueue(k, s) ==
    /\ inbox' = inbox \cup {[n |-> sent, serial |-> k, state |-> s]} /\ sent' = sent + 1
    /\ missed' = missed + (IF s = "good" THEN 0 ELSE 1)

PeerSends ==
    /\ peer = "send" /\ peerSeq < MaxRounds /\ peer' = "recv"
    /\ \/ /\ Bound
          /\ \E s \in {"good", "garbled", "alien"} :
              Fault(IF s = "good" THEN 0 ELSE 1) /\ Enqueue(peerSeq, s) /\ UNCHANGED dropped
       \/ /\ Fault(IF Bound THEN 1 ELSE 0)
          /\ dropped' = dropped + 1 /\ missed' = missed + 1 /\ UNCHANGED <<inbox, sent>>
    /\ UNCHANGED <<peerSeq, peerInbox, strays>>

PeerReceives ==
    /\ peer = "recv" /\ peerInbox > 0
    /\ peer' = "send" /\ peerInbox' = peerInbox - 1 /\ peerSeq' = peerSeq + 1
    /\ UNCHANGED <<faults, strays, dropped, missed, inbox, sent>>

(* A packet is delivered twice. *)
Repeat ==
    /\ Bound /\ Stray(1)
    /\ \E p \in inbox : Enqueue(p.serial, p.state)
    /\ UNCHANGED <<peer, peerSeq, peerInbox, dropped, faults>>

Peer ==
    /\ main \in {"start", "wait", "report"}
    /\ PeerStarts \/ PeerExits \/ PeerSends \/ PeerReceives \/ Repeat
    /\ UNCHANGED <<runner, main, sequence, packet, figures>>

Next == Start \/ Send \/ FetchTimestamps \/ Receive \/ Log \/ Reset \/ Finalize \/ Report \/ Peer

-----------------------------------------------------------------------------
(* What a host reports is what it measured: each sample of the histogram   *)
(* is summed up once, in a bulk which was logged or in the last one        *)
(* (log_rx_times, finalize_last_bulk), unless the runner, which is not     *)
(* stopped, was measuring meanwhile.                                       *)
NetSamplesCountedOnce ==
    main = "exit" /\ ~ torn => \A s \in Stats : stats[s].samples = Total(histogram[s])

(* A packet which was lost or garbled is never counted twice, as an        *)
(* invalid one and as a gap in the sequence (rx): when packets come in     *)
(* order no more are counted lost than were.  One which is overtaken       *)
(* counts as a gap, and one which sets the sequence back counts once; the  *)
(* next ones may then count as lost as many as it went back by, and no     *)
(* more: "Way too lost in space!".                                         *)
LossesNotOvercounted == lost <= missed + late + back

(* Each host sends a packet for each one it receives, and one more: both   *)
(* of them wait for ever only if two packets were lost on the way, in      *)
(* either direction, those before the start of either host and those which *)
(* the peer had not read when it exited included (rx: "RX stalled",        *)
(* "Waiting for peer to start").                                           *)
StallsAfterTwoLosses ==
    main = "wait" /\ runner = "recv" /\ inbox = {} /\ peer = "recv" /\ peerInbox = 0 => dropped >= 2
=============================================================================
