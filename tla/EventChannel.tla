---------------------------- MODULE EventChannel ----------------------------
(***************************************************************************)
(* What the event transport promises, whatever it is made of: a channel    *)
(* from the probes to the program that prints, which numbers the events it *)
(* accepts, hands them over in runs that start at the first event not yet  *)
(* settled, may drop a run of accepted events instead, and never both.     *)
(***************************************************************************)
EXTENDS Integers, Sequences

VARIABLES
    accepted,   \* how many events the channel has taken in
    delivered,  \* the events handed over, in order
    dropped     \* the accepted events that will never be handed over

channelVars == <<accepted, delivered, dropped>>

Settled == {delivered[i] : i \in DOMAIN delivered} \cup dropped

\* The events m, m+1, ..., n-1 as they are handed over.
Run(m, n) == [i \in 1 .. (n - m) |-> m + i - 1]

Init ==
    /\ accepted = 0
    /\ delivered = << >>
    /\ dropped = {}

Accept ==
    /\ accepted' = accepted + 1
    /\ UNCHANGED <<delivered, dropped>>

Deliver ==
    /\ \E m, n \in 0 .. accepted :
         /\ m < n
         /\ 0 .. (m - 1) \subseteq Settled
         /\ (m .. (n - 1)) \cap Settled = {}
         /\ delivered' = delivered \o Run(m, n)
    /\ UNCHANGED <<accepted, dropped>>

Drop ==
    /\ \E m, n \in 0 .. accepted :
         /\ m < n
         /\ (m .. (n - 1)) \cap Settled = {}
         /\ dropped' = dropped \cup (m .. (n - 1))
    /\ UNCHANGED <<accepted, delivered>>

Next == Accept \/ Deliver \/ Drop

Spec == Init /\ [][Next]_channelVars
=============================================================================
