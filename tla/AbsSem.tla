------------------------------- MODULE AbsSem -------------------------------
(***************************************************************************)
(* A counting semaphore as its callers see it: tokens are taken at once    *)
(* when there are some, callers queue when there is none, a put serves one *)
(* queued caller or adds a token, and a queued caller may give up or be    *)
(* flushed without a token changing hands.                                 *)
(***************************************************************************)
EXTENDS Naturals

CONSTANT Threads

VARIABLES
    tokens,     \* how many callers could take the semaphore without waiting
    waiting     \* the callers queued for a token

absVars == <<tokens, waiting>>

Take ==
    /\ tokens > 0
    /\ tokens' = tokens - 1
    /\ UNCHANGED waiting

Wait(t) ==
    /\ tokens = 0
    /\ t \notin waiting
    /\ waiting' = waiting \cup {t}
    /\ UNCHANGED tokens

Put ==
    \/ /\ waiting = {}
       /\ tokens' = tokens + 1
       /\ UNCHANGED waiting
    \/ /\ \E t \in waiting : waiting' = waiting \ {t}
       /\ UNCHANGED tokens

(* Timeout, signal. *)
GiveUp(t) ==
    /\ t \in waiting
    /\ waiting' = waiting \ {t}
    /\ UNCHANGED tokens

(* evl_flush_sem, evl_close_sem. *)
Flush ==
    /\ waiting' = {}
    /\ UNCHANGED tokens

AbsNext == Take \/ Put \/ Flush \/ \E t \in Threads : Wait(t) \/ GiveUp(t)

AbsInit == tokens \in Nat /\ waiting = {}

AbsSpec == AbsInit /\ [][AbsNext]_absVars
=============================================================================
