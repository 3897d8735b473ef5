----------------------------- MODULE AodRingbuf -----------------------------
(***************************************************************************)
(* The shared event transport: the BPF ring buffer `aodrb` that            *)
(* smbslower, smbiosnoop, nfsslower and nfsiosnoop write into, and the     *)
(* consumer (common/shim_consumer.py on ringbuf_shim.c) that drains it in  *)
(* batches.                                                                *)
(*                                                                         *)
(* A record is identified by its ring position: the record reserved when   *)
(* producer_pos is n is record n, so every record ever accepted has a name *)
(* of its own and both positions count records (RecSize bytes each).       *)
(*                                                                         *)
(* The kernel's ring buffer and libbpf's poll loop are not in the          *)
(* repository: they are modelled from the way it calls them, with the      *)
(* memory operations that the other side can observe as separate steps     *)
(* (reserve; query; clear the busy bit; compare positions and wake).       *)
(***************************************************************************)
EXTENDS Integers, Sequences, FiniteSets

CONSTANTS
    Probes,       \* program invocations that can be in flight at once (tool x CPU)
    Snoops,       \* the probes of smbiosnoop / nfsiosnoop: they compute flags before reserve
    WakeupSize,   \* WakeupSize[p]: the tool's wakeup_data_size, in bytes
    RecSize,      \* bytes one record takes: 8 of header and sizeof(struct event)
    RingBytes,    \* max_entries of aodrb
    Capacity,     \* MAX_BATCH: events the consumer's buffer holds
    MaxEvents,    \* bound: requests that can reach a probe
    MaxRestarts   \* bound: times a consumer stops and another is started

ASSUME ConstantsAssumption ==
    /\ Snoops \subseteq Probes
    /\ WakeupSize \in [Probes -> Nat]
    /\ RecSize \in Nat \ {0}
    /\ RingBytes \in Nat
    /\ Capacity \in Nat \ {0}
    /\ MaxEvents \in Nat
    /\ MaxRestarts \in Nat

VARIABLES
    producer_pos, \* records reserved so far
    consumer_pos, \* records consumed so far
    busy,         \* positions reserved and not yet committed
    pc,           \* where each probe is in its emit sequence
    pos,          \* the position of each probe's last record, -1 before the first
    flags,        \* the last result of get_flags() in each probe
    wake,         \* the ring's irq_work is queued
    ready,        \* the ring's fd is on the epoll ready list
    cpc,          \* where the consumer is
    batch,        \* ext_buf[0 .. count-1]: positions copied in this poll
    delivered,    \* history: positions handed to the Python loop, in order
    lost,         \* history: positions consumed by a callback that found the buffer full
    abandoned,    \* history: positions in a batch whose consumer died
    requests,     \* history: requests that reached a probe
    restarts      \* history: consumers that went away

ringVars     == <<producer_pos, busy>>
probeVars    == <<pc, pos, flags, requests>>
consumerVars == <<consumer_pos, cpc, batch, delivered, lost, abandoned, restarts>>
vars == <<producer_pos, consumer_pos, busy, pc, pos, flags, wake, ready, cpc,
          batch, delivered, lost, abandoned, requests, restarts>>

Range(s) == {s[i] : i \in DOMAIN s}

\* BPF_RB_AVAIL_DATA: bytes between the two positions, busy records included.
AvailData == (producer_pos - consumer_pos) * RecSize

Init ==
    /\ producer_pos = 0 /\ consumer_pos = 0
    /\ busy = {}
    /\ pc = [p \in Probes |-> "idle"]
    /\ pos = [p \in Probes |-> -1]
    /\ flags = [p \in Probes |-> "adaptive"]
    /\ wake = FALSE /\ ready = FALSE
    /\ cpc = "closed"
    /\ batch = << >> /\ delivered = << >>
    /\ lost = {} /\ abandoned = {}
    /\ requests = 0 /\ restarts = 0

(***************************************************************************)
(* The BPF side.                                                           *)
(***************************************************************************)
\* Mutant: the comparison loses its equality.
GetFlagsStrict(p) ==
    IF WakeupSize[p] = 0 THEN "adaptive"
    ELSE IF AvailData > WakeupSize[p] THEN "force_wakeup" ELSE "no_wakeup"

\* Mutant: without a wakeup size the tool asks for no wakeup at all.
GetFlagsNever(p) ==
    IF WakeupSize[p] # 0 /\ AvailData >= WakeupSize[p] THEN "force_wakeup" ELSE "no_wakeup"

\* Mutant: records are counted where the size is in bytes.
GetFlagsCount(p) ==
    IF WakeupSize[p] = 0 THEN "adaptive"
    ELSE IF producer_pos - consumer_pos >= WakeupSize[p] THEN "force_wakeup" ELSE "no_wakeup"

\* get_flags() of the four programs that write to aodrb.
GetFlags(p) ==
    IF WakeupSize[p] = 0 THEN "adaptive"
    ELSE IF AvailData >= WakeupSize[p] THEN "force_wakeup" ELSE "no_wakeup"

\* Mutant: a slower tool that hands get_flags() to reserve, as the snoops do.
RequestFlagged(p) ==
    /\ pc[p] = "idle"
    /\ requests < MaxEvents
    /\ requests' = requests + 1
    /\ pc' = [pc EXCEPT ![p] = "reserve"]
    /\ flags' = [flags EXCEPT ![p] = GetFlags(p)]
    /\ UNCHANGED <<ringVars, pos, wake, ready, consumerVars>>

\* A request that passes the tool's filters enters the emit sequence.  The
\* snoop tools evaluate get_flags() here, as the argument of reserve; the
\* slower tools pass 0.
Request(p) ==
    /\ pc[p] = "idle"
    /\ requests < MaxEvents
    /\ requests' = requests + 1
    /\ pc' = [pc EXCEPT ![p] = "reserve"]
    /\ flags' = [flags EXCEPT ![p] = IF p \in Snoops THEN GetFlags(p) ELSE "adaptive"]
    /\ UNCHANGED <<ringVars, pos, wake, ready, consumerVars>>

\* bpf_ringbuf_reserve refuses any flag, and a record that does not fit.
RingFull == (producer_pos + 1 - consumer_pos) * RecSize > RingBytes - 1
ReserveFails(p) == flags[p] # "adaptive" \/ RingFull

Reserve(p) ==
    /\ pc[p] = "reserve"
    /\ ~ReserveFails(p)
    /\ pos' = [pos EXCEPT ![p] = producer_pos]
    /\ busy' = busy \cup {producer_pos}
    /\ producer_pos' = producer_pos + 1
    /\ pc' = [pc EXCEPT ![p] = "fill"]
    /\ UNCHANGED <<flags, requests, wake, ready, consumerVars>>

\* if (!e) return 0;  the event is dropped.
ReserveNull(p) ==
    /\ pc[p] = "reserve"
    /\ ReserveFails(p)
    /\ pc' = [pc EXCEPT ![p] = "idle"]
    /\ UNCHANGED <<ringVars, pos, flags, requests, wake, ready, consumerVars>>

\* The record is filled in and get_flags() evaluated as the argument of submit.
QueryFlags(p) ==
    /\ pc[p] = "fill"
    /\ flags' = [flags EXCEPT ![p] = GetFlags(p)]
    /\ pc' = [pc EXCEPT ![p] = "submit"]
    /\ UNCHANGED <<ringVars, pos, requests, wake, ready, consumerVars>>

\* bpf_ringbuf_submit, first half: the busy bit is cleared.
Submit(p) ==
    /\ pc[p] = "submit"
    /\ busy' = busy \ {pos[p]}
    /\ pc' = [pc EXCEPT ![p] = "commit"]
    /\ UNCHANGED <<producer_pos, pos, flags, requests, wake, ready, consumerVars>>

\* bpf_ringbuf_submit, second half: force, never, or only when the consumer
\* has caught up with this very record.
MustWake(p) ==
    \/ flags[p] = "force_wakeup"
    \/ flags[p] = "adaptive" /\ consumer_pos = pos[p]

Commit(p) ==
    /\ pc[p] = "commit"
    /\ wake' = (wake \/ MustWake(p))
    /\ pc' = [pc EXCEPT ![p] = "idle"]
    /\ UNCHANGED <<ringVars, pos, flags, requests, ready, consumerVars>>

\* The queued irq_work wakes the waiters: epoll puts the fd on its ready list.
IrqWork ==
    /\ wake
    /\ wake' = FALSE
    /\ ready' = (ready \/ cpc # "closed")
    /\ UNCHANGED <<ringVars, probeVars, consumerVars>>

(***************************************************************************)
(* The consumer.                                                           *)
(***************************************************************************)
\* rb_open: ring_buffer__new adds the fd to epoll, which polls it at once.
RbOpen ==
    /\ cpc = "closed"
    /\ cpc' = "idle"
    /\ ready' = (AvailData > 0)
    /\ batch' = << >>
    /\ UNCHANGED <<ringVars, probeVars, wake, consumer_pos, delivered, lost,
                   abandoned, restarts>>

\* Mutant: count is not reset between polls.
RbPollIntoNoReset ==
    /\ cpc = "idle"
    /\ cpc' = "wait"
    /\ UNCHANGED <<ringVars, probeVars, wake, ready, consumer_pos, batch,
                   delivered, lost, abandoned, restarts>>

\* rb_poll_into up to epoll_wait: the batch starts empty.
RbPollInto ==
    /\ cpc = "idle"
    /\ cpc' = "wait"
    /\ batch' = << >>
    /\ UNCHANGED <<ringVars, probeVars, wake, ready, consumer_pos, delivered,
                   lost, abandoned, restarts>>

\* epoll_wait finds the fd on its ready list and asks it again: with data it is
\* reported and stays on the list (level triggered), without it is taken off.
EpollReports ==
    /\ cpc = "wait" /\ ready /\ AvailData > 0
    /\ cpc' = "process"
    /\ UNCHANGED <<ringVars, probeVars, wake, ready, consumer_pos, batch,
                   delivered, lost, abandoned, restarts>>

EpollRemoves ==
    /\ cpc = "wait" /\ ready /\ AvailData = 0
    /\ ready' = FALSE
    /\ UNCHANGED <<ringVars, probeVars, wake, consumerVars>>

\* The 100 ms timeout, or EINTR: ring_buffer__poll processes nothing.
EpollTimeout ==
    /\ cpc = "wait" /\ ~ready
    /\ cpc' = "return"
    /\ UNCHANGED <<ringVars, probeVars, wake, ready, consumer_pos, batch,
                   delivered, lost, abandoned, restarts>>

\* Mutant: the busy bit of the head is not looked at.
HeadReserved == consumer_pos < producer_pos

\* libbpf stops at the first record whose busy bit is set.
HeadCommitted == consumer_pos < producer_pos /\ consumer_pos \notin busy

\* Mutants: the capacity test off by one, on either side.
BatchOverfull == Len(batch) > Capacity
BatchNearlyFull == Len(batch) + 1 >= Capacity

\* c->count >= c->ext_capacity
BatchFull == Len(batch) >= Capacity

\* _copy_event with room: libbpf stores consumer_pos after the callback.  Load
\* of the head, callback and store are one step: a probe can observe the store
\* only, and does so before or after this step.
CopyEvent ==
    /\ cpc = "process" /\ HeadCommitted
    /\ ~BatchFull
    /\ batch' = Append(batch, consumer_pos)
    /\ consumer_pos' = consumer_pos + 1
    /\ UNCHANGED <<ringVars, probeVars, wake, ready, cpc, delivered, lost,
                   abandoned, restarts>>

\* _copy_event returns -1: libbpf still advances consumer_pos, then stops.
CopyEventFull ==
    /\ cpc = "process" /\ HeadCommitted
    /\ BatchFull
    /\ lost' = lost \cup {consumer_pos}
    /\ consumer_pos' = consumer_pos + 1
    /\ cpc' = "return"
    /\ UNCHANGED <<ringVars, probeVars, wake, ready, batch, delivered,
                   abandoned, restarts>>

\* No record, or an uncommitted one, at the head: the poll ends.
ProcessStops ==
    /\ cpc = "process" /\ ~HeadCommitted
    /\ cpc' = "return"
    /\ UNCHANGED <<ringVars, probeVars, wake, ready, consumer_pos, batch,
                   delivered, lost, abandoned, restarts>>

\* Mutant: the error of a full buffer is returned in place of the count.
HandleBatchError ==
    /\ cpc = "return"
    /\ cpc' = "idle"
    /\ delivered' = IF BatchFull THEN delivered ELSE delivered \o batch
    /\ UNCHANGED <<ringVars, probeVars, wake, ready, consumer_pos, batch, lost,
                   abandoned, restarts>>

\* rb_poll_into returns count (the -1 of a full buffer is hidden by count > 0)
\* and the Python loop prints buf[0 .. count-1].
HandleBatch ==
    /\ cpc = "return"
    /\ cpc' = "idle"
    /\ delivered' = delivered \o batch
    /\ UNCHANGED <<ringVars, probeVars, wake, ready, consumer_pos, batch, lost,
                   abandoned, restarts>>

\* SIGINT / SIGTERM set `exiting`; the loop ends once the batch is handled.
RbClose ==
    /\ cpc = "idle" /\ restarts < MaxRestarts
    /\ cpc' = "closed"
    /\ ready' = FALSE
    /\ restarts' = restarts + 1
    /\ UNCHANGED <<ringVars, probeVars, wake, consumer_pos, batch, delivered,
                   lost, abandoned>>

\* The consumer is killed at any other point: consumer_pos lives in the map's
\* page and stays, what was copied and not printed is gone.
ConsumerDies ==
    /\ cpc \notin {"closed", "idle"} /\ restarts < MaxRestarts
    /\ cpc' = "closed"
    /\ ready' = FALSE
    /\ abandoned' = abandoned \cup Range(batch)
    /\ restarts' = restarts + 1
    /\ UNCHANGED <<ringVars, probeVars, wake, consumer_pos, batch, delivered, lost>>

-----------------------------------------------------------------------------
Probe(p) == \/ Reserve(p) \/ ReserveNull(p) \/ QueryFlags(p)
            \/ Submit(p) \/ Commit(p)
Poll == \/ RbOpen \/ RbPollInto \/ EpollReports \/ EpollRemoves \/ EpollTimeout
        \/ CopyEvent \/ CopyEventFull \/ ProcessStops \/ HandleBatch
Next == \/ \E p \in Probes : Request(p) \/ Probe(p)
        \/ IrqWork \/ Poll \/ RbClose \/ ConsumerDies

Spec == Init /\ [][Next]_vars

\* A BPF program runs to its end once started, a queued irq_work runs, and a
\* consumer is scheduled (and started when there is none).
Fairness == (\A p \in Probes : WF_vars(Probe(p))) /\ WF_vars(IrqWork) /\ WF_vars(Poll)
FairSpec == Spec /\ Fairness

-----------------------------------------------------------------------------
\* Every variable keeps its type; in particular the batch never outgrows the
\* buffer that rb_poll_into was given (_copy_event's memcpy stays inside it).
TypeOK ==
    /\ producer_pos \in Nat /\ consumer_pos \in Nat
    /\ busy \subseteq Nat
    /\ pc \in [Probes -> {"idle", "reserve", "fill", "submit", "commit"}]
    /\ pos \in [Probes -> Nat \cup {-1}]
    /\ flags \in [Probes -> {"adaptive", "force_wakeup", "no_wakeup"}]
    /\ wake \in BOOLEAN /\ ready \in BOOLEAN
    /\ cpc \in {"closed", "idle", "wait", "process", "return"}
    /\ batch \in Seq(Nat) /\ Len(batch) <= Capacity
    /\ delivered \in Seq(Nat)
    /\ lost \subseteq Nat /\ abandoned \subseteq Nat
    /\ requests \in Nat /\ restarts \in Nat

\* ext_buf[0 .. count-1] holds events not yet handed over only during a poll.
Pending == IF cpc \in {"wait", "process", "return"} THEN Range(batch) ELSE {}

\* No record that left the ring vanishes without trace: it is delivered, in the
\* batch of the poll in progress, the one sacrificed by a full batch
\* (_copy_event returning -1), or it died with its consumer.
Accounted ==
    0 .. (consumer_pos - 1) = Range(delivered) \cup Pending \cup lost \cup abandoned

\* The Python loop sees events in the order they were reserved and sees none
\* twice, over polls, full batches, consumer deaths and restarts.
DeliveredInOrder ==
    \A i, j \in DOMAIN delivered : i < j => delivered[i] < delivered[j]

\* What a full batch costs (comment of _copy_event): one event, and only
\* behind Capacity events that the same poll did copy.
LossBehindFullBatch ==
    \A x \in lost :
        \A y \in (x - Capacity) .. (x - 1) :
            y >= 0 /\ y \in Range(delivered) \cup Pending \cup abandoned /\ y \notin lost

\* The consumer never reads past a record that a probe is still filling in.
OnlyCommittedConsumed == \A x \in busy : x >= consumer_pos

\* When every tool uses the same wakeup size, a consumer that sleeps in
\* epoll_wait with no wakeup on its way leaves less than that size in the ring,
\* and nothing when the size is 0 (get_flags, bpf_ringbuf_submit).
Asleep == cpc = "wait" /\ ~ready /\ ~wake /\ \A p \in Probes : pc[p] = "idle"
WakeupBound ==
    Asleep => \A p \in Probes :
        AvailData < (IF WakeupSize[p] = 0 THEN 1 ELSE WakeupSize[p])

\* Whatever -w the other tools use, a tool's own -w bounds what it leaves to a
\* sleeping consumer: behind its record, with nothing on its way, less than that
\* size is in the ring.
LastWriter(p) == producer_pos > 0 /\ pos[p] = producer_pos - 1
OwnThreshold ==
    Asleep => \A p \in Probes : LastWriter(p) /\ WakeupSize[p] # 0 => AvailData < WakeupSize[p]

\* With sizes that fit the ring, a full ring is left to a sleeping consumer in
\* one case only: tools with and without -w share it and one without wrote last
\* (its adaptive commit does not wake for a record behind an unannounced one).
WakeupFits == RecSize < RingBytes /\ \A p \in Probes : WakeupSize[p] + RecSize <= RingBytes
DeafRing == /\ RingFull /\ cpc \in {"idle", "wait", "return"} /\ ~ready /\ ~wake
            /\ \A p \in Probes : pc[p] \in {"idle", "reserve"}
FullRingWakes ==
    WakeupFits /\ DeafRing =>
        \E p, q \in Probes : WakeupSize[p] = 0 /\ LastWriter(p) /\ WakeupSize[q] # 0

\* An event is dropped at reserve only because the ring is full.
DropsOnlyWhenFull ==
    [][\A p \in Probes : pc[p] = "reserve" /\ pc'[p] = "idle" => RingFull]_vars

\* With wakeup size 0 every accepted event is settled in the end: the Python
\* loop gets it, unless a full batch or the death of a consumer took it.
AcceptedIsSettled ==
    \A n \in 0 .. (MaxEvents - 1) :
        producer_pos > n ~> n \in Range(delivered) \cup lost \cup abandoned
-----------------------------------------------------------------------------
\* The ring with its consumer, seen from outside.
Channel == INSTANCE EventChannel WITH
    accepted <- producer_pos, delivered <- delivered, dropped <- lost \cup abandoned

\* The ring, libbpf's poll loop and rb_poll_into together are a lossy channel:
\* runs of events in order, each event at most once, nothing skipped that was
\* not dropped for good.
ImplementsChannel == Channel!Spec

-----------------------------------------------------------------------------
(***************************************************************************)
(* The strengthening that makes the invariants above inductive.            *)
(***************************************************************************)
Holds(p) == pc[p] \in {"fill", "submit"}

\* Busy records are exactly the ones held by probes, one each, ahead of the
\* consumer.
HoldersInv ==
    /\ consumer_pos <= producer_pos
    /\ \A x \in busy : consumer_pos <= x /\ x < producer_pos
    /\ \A p \in Probes : Holds(p) => pos[p] \in busy
    /\ \A p, q \in Probes : Holds(p) /\ Holds(q) /\ pos[p] = pos[q] => p = q
    /\ \A x \in busy : \E p \in Probes : Holds(p) /\ pos[p] = x

\* While a poll runs, the batch is the run of records just below consumer_pos.
BatchInv ==
    /\ cpc = "wait" => batch = << >>
    /\ cpc = "process" =>
         \A i \in 1 .. Len(batch) : batch[i] = consumer_pos - Len(batch) + i - 1
    /\ cpc \in {"process", "return"} =>
         /\ \A i \in 1 .. Len(batch) : batch[i] < consumer_pos
         /\ \A i, j \in 1 .. Len(batch) : i < j => batch[i] < batch[j]
         /\ \A i \in 1 .. Len(delivered), j \in 1 .. Len(batch) : delivered[i] < batch[j]
         /\ \A i \in 1 .. Len(batch) : batch[i] \notin lost
    /\ \A i \in 1 .. Len(delivered) : delivered[i] < consumer_pos
    /\ \A x \in lost \cup abandoned : x < consumer_pos

\* What is still to be handed over is one run of records, none of them settled.
RunInv ==
    cpc \in {"process", "return"} =>
        /\ \A i \in 1 .. Len(batch) : batch[i] = batch[1] + i - 1
        /\ \A i \in 1 .. Len(batch) : batch[i] \notin abandoned

\* The tools that pass get_flags() to reserve run without -w.
SnoopsAdaptive == \A p \in Snoops : WakeupSize[p] = 0
ReserveInv == SnoopsAdaptive => \A p \in Probes : pc[p] = "reserve" => flags[p] = "adaptive"

\* All tools run with the same -w.
UniformWakeup == \A p, q \in Probes : WakeupSize[p] = WakeupSize[q]

\* A sleeping consumer has a wakeup coming for what it must not sleep on: in
\* adaptive mode the record at consumer_pos, else the last record reserved.
WakeComing(r) ==
    IF WakeupSize[r] = 0
    THEN \/ consumer_pos = producer_pos \/ consumer_pos \in busy \/ wake
         \/ \E p \in Probes : pc[p] = "commit" /\ pos[p] = consumer_pos
    ELSE \/ AvailData < WakeupSize[r] \/ wake
         \/ \E p \in Probes :
              /\ pos[p] = producer_pos - 1
              /\ \/ pc[p] = "fill"
                 \/ pc[p] \in {"submit", "commit"} /\ flags[p] = "force_wakeup"
\* The same for the tool that wrote last, whatever the others use.
OwnWakeComing(p) ==
    \/ AvailData < WakeupSize[p] \/ wake
    \/ pc[p] = "fill"
    \/ pc[p] \in {"submit", "commit"} /\ flags[p] = "force_wakeup"
OwnInv ==
    /\ \A p \in Probes : pos[p] < producer_pos
    /\ producer_pos > 0 => \E p \in Probes : LastWriter(p)
    /\ cpc # "closed" /\ ~ready =>
         \A p \in Probes : LastWriter(p) /\ WakeupSize[p] # 0 => OwnWakeComing(p)

WakeInv ==
    /\ cpc = "process" => ready
    /\ \A p \in Probes : pc[p] = "commit" /\ WakeupSize[p] = 0 => flags[p] = "adaptive"
    /\ \A p \in Probes : pc[p] = "submit" /\ WakeupSize[p] = 0 => flags[p] = "adaptive"
    /\ UniformWakeup /\ cpc # "closed" /\ ~ready => \A r \in Probes : WakeComing(r)
=============================================================================
