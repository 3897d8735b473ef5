-------------------------- MODULE AodChannel_proofs --------------------------
(***************************************************************************)
(* The ring with its consumer implements EventChannel, for any number of   *)
(* probes and any sizes.                                                   *)
(***************************************************************************)
EXTENDS AodRingbuf_proofs

ChannelInv == TypeOK /\ HoldersInv /\ BatchInv /\ Accounted /\ RunInv

\* The batch stays one run of records that nobody has settled.
LEMMA RunStep == TypeOK /\ HoldersInv /\ BatchInv /\ RunInv /\ [Next]_vars => RunInv'
<1>. SUFFICES ASSUME TypeOK, HoldersInv, BatchInv, RunInv, [Next]_vars PROVE RunInv'
  OBVIOUS
<1>. USE DEF TypeOK
<1>1. CASE UNCHANGED <<DeliveryVars, cpc>>
  BY <1>1 DEF RunInv, DeliveryVars
<1>2. CASE UNCHANGED DeliveryVars /\ cpc = "wait" /\ cpc' \in {"process", "return"}
  BY <1>2 DEF RunInv, BatchInv, DeliveryVars
<1>3. CASE UNCHANGED DeliveryVars /\ cpc = "process" /\ cpc' = "return"
  BY <1>3 DEF RunInv, DeliveryVars
<1>4. CASE UNCHANGED DeliveryVars /\ cpc = "idle" /\ cpc' = "closed"
  BY <1>4 DEF RunInv
<1>5. CASE CopyEvent
  <2>1. /\ batch' = Append(batch, consumer_pos) /\ cpc = "process" /\ abandoned' = abandoned
    BY <1>5 DEF CopyEvent
  <2>2. Len(batch') = Len(batch) + 1 /\ batch'[Len(batch) + 1] = consumer_pos
    BY <2>1
  <2>3. \A i \in 1 .. Len(batch) : batch'[i] = batch[i]
    BY <2>1
  <2>4. ASSUME NEW i \in 1 .. Len(batch') PROVE batch'[i] = batch'[1] + i - 1
    <3>1. CASE Len(batch) = 0  BY <2>2, <3>1
    <3>2. CASE Len(batch) > 0
      <4>1. 1 \in 1 .. Len(batch) /\ batch'[1] = batch[1]  BY <2>3, <3>2
      <4>2. batch[1] = consumer_pos - Len(batch)  BY <2>1, <4>1 DEF BatchInv
      <4>3. CASE i <= Len(batch)  BY <2>1, <2>3, <4>1, <4>3 DEF RunInv
      <4>4. CASE i = Len(batch) + 1  BY <2>2, <4>1, <4>2, <4>4
      <4>. QED  BY <2>2, <4>3, <4>4
    <3>. QED  BY <3>1, <3>2
  <2>5. consumer_pos \notin abandoned  BY DEF BatchInv
  <2>6. \A i \in 1 .. Len(batch') : batch'[i] \notin abandoned'
    BY <2>1, <2>2, <2>3, <2>5 DEF RunInv
  <2>. QED  BY <2>4, <2>6 DEF RunInv
<1>6. CASE CopyEventFull
  BY <1>6 DEF CopyEventFull, RunInv
<1>7. RbOpen \/ RbPollInto \/ HandleBatch \/ ConsumerDies => cpc' \notin {"process", "return"}
  BY DEF RbOpen, RbPollInto, HandleBatch, ConsumerDies
<1>. QED  BY <1>1, <1>2, <1>3, <1>4, <1>5, <1>6, <1>7, QuietSteps DEF RunInv

\* The batch of a poll as the channel sees it: the run of events from its first
\* record on, accepted, not settled, with everything below it settled.
LEMMA BatchIsRun ==
    ASSUME ChannelInv, cpc \in {"process", "return"}, batch # << >>
    PROVE  \E m, n \in 0 .. producer_pos :
             /\ m < n
             /\ batch = Channel!Run(m, n) /\ Range(batch) = m .. (n - 1)
             /\ 0 .. (m - 1) \subseteq Channel!Settled
             /\ (m .. (n - 1)) \cap Channel!Settled = {}
<1>. USE DEF ChannelInv, TypeOK
<1>1. Len(batch) \in Nat \ {0} /\ 1 \in 1 .. Len(batch) /\ DOMAIN batch = 1 .. Len(batch)
  OBVIOUS
<1>. DEFINE m == batch[1]
            n == m + Len(batch)
<1>2. m \in Nat /\ n \in Nat /\ m < n /\ n - m = Len(batch)
  BY <1>1
<1>3. \A i \in 1 .. Len(batch) : batch[i] = m + i - 1
  BY DEF RunInv
<1>. HIDE DEF m, n
<1>4. n <= consumer_pos /\ consumer_pos <= producer_pos
  <2>1. batch[Len(batch)] = n - 1 /\ batch[Len(batch)] < consumer_pos
    BY <1>1, <1>2, <1>3 DEF BatchInv
  <2>. QED  BY <1>2, <2>1 DEF HoldersInv
<1>5. Range(batch) = m .. (n - 1)
  <2>1. ASSUME NEW x \in Range(batch) PROVE x \in m .. (n - 1)
    <3>1. PICK i \in 1 .. Len(batch) : x = batch[i]  BY <2>1 DEF Range
    <3>. QED  BY <1>2, <1>3, <3>1
  <2>2. ASSUME NEW x \in m .. (n - 1) PROVE x \in Range(batch)
    <3>1. PICK i \in 1 .. Len(batch) : i = x - m + 1  BY <1>1, <1>2, <2>2
    <3>2. batch[i] = x  BY <1>2, <1>3, <3>1, SMTT(40)
    <3>. QED  BY <3>2 DEF Range
  <2>. QED  BY <2>1, <2>2
<1>6. batch = Channel!Run(m, n)
  <2>1. batch = [i \in 1 .. (n - m) |-> batch[i]]  BY <1>1, <1>2
  <2>. QED  BY <1>2, <1>3, <2>1 DEF Channel!Run
<1>7. Channel!Settled = Range(delivered) \cup lost \cup abandoned
  BY DEF Channel!Settled, Range
<1>8. (m .. (n - 1)) \cap Channel!Settled = {}
  <2>1. ASSUME NEW x \in Range(batch), x \in Range(delivered) PROVE FALSE
    <3>0. DOMAIN delivered = 1 .. Len(delivered)  OBVIOUS
    <3>1. PICK j \in DOMAIN batch : x = batch[j]  BY <2>1 DEF Range
    <3>2. PICK i \in DOMAIN delivered : x = delivered[i]  BY <2>1 DEF Range
    <3>3. delivered[i] < batch[j] /\ batch[j] \in Nat  BY <1>1, <3>0 DEF BatchInv
    <3>. QED  BY <3>1, <3>2, <3>3
  <2>2. \A x \in Range(batch) : x \notin lost /\ x \notin abandoned
    BY DEF BatchInv, RunInv, Range
  <2>. QED  BY <1>5, <1>7, <2>1, <2>2
<1>9. 0 .. (m - 1) \subseteq Channel!Settled
  <2>1. ASSUME NEW x \in 0 .. (m - 1) PROVE x \in Channel!Settled
    <3>1. x \in 0 .. (consumer_pos - 1) /\ x \notin m .. (n - 1)
      BY <1>2, <1>4
    <3>2. x \in Range(delivered) \cup Pending \cup lost \cup abandoned
      BY <3>1 DEF Accounted
    <3>. QED  BY <1>5, <1>7, <3>1, <3>2 DEF Pending
  <2>. QED  BY <2>1
<1>. QED  BY <1>2, <1>4, <1>5, <1>6, <1>8, <1>9

\* Every step of the ring is a step of the channel or leaves it alone.
LEMMA ChannelStep ==
    ChannelInv /\ [Next]_vars => [Channel!Next]_(Channel!channelVars)
<1>. SUFFICES ASSUME ChannelInv, [Next]_vars
              PROVE  [Channel!Next]_(Channel!channelVars)
  OBVIOUS
<1>. USE DEF ringVars, probeVars, consumerVars
<1>. DEFINE Quiet == UNCHANGED <<producer_pos, delivered, lost, abandoned>>
<1>0. Quiet => UNCHANGED Channel!channelVars
  BY DEF Channel!channelVars
<1>1. ASSUME NEW p \in Probes, Reserve(p) PROVE Channel!Accept
  BY <1>1 DEF Reserve, Channel!Accept
<1>2. ASSUME NEW p \in Probes,
             Request(p) \/ ReserveNull(p) \/ QueryFlags(p) \/ Submit(p) \/ Commit(p)
      PROVE  Quiet
  BY <1>2 DEF Request, ReserveNull, QueryFlags, Submit, Commit
<1>3. ASSUME IrqWork \/ RbOpen \/ RbPollInto \/ EpollReports \/ EpollRemoves \/ EpollTimeout
             \/ CopyEvent \/ ProcessStops \/ RbClose \/ UNCHANGED vars
      PROVE  Quiet
  BY <1>3 DEF IrqWork, RbOpen, RbPollInto, EpollReports, EpollRemoves, EpollTimeout,
              CopyEvent, ProcessStops, RbClose, vars
<1>4. CASE CopyEventFull
  <2>1. /\ lost' = lost \cup {consumer_pos}
        /\ UNCHANGED <<producer_pos, delivered, abandoned>>
        /\ consumer_pos < producer_pos
    BY <1>4 DEF CopyEventFull, HeadCommitted
  <2>2. consumer_pos \in 0 .. producer_pos /\ consumer_pos + 1 \in 0 .. producer_pos
    BY <2>1 DEF ChannelInv, TypeOK
  <2>3. consumer_pos .. ((consumer_pos + 1) - 1) = {consumer_pos}
    BY DEF ChannelInv, TypeOK
  <2>4. consumer_pos \notin Channel!Settled
    <3>1. consumer_pos \notin lost \cup abandoned
      BY DEF ChannelInv, TypeOK, BatchInv
    <3>2. \A i \in DOMAIN delivered : delivered[i] # consumer_pos
      <4>1. DOMAIN delivered = 1 .. Len(delivered)  BY DEF ChannelInv, TypeOK
      <4>. QED  BY <4>1 DEF ChannelInv, TypeOK, BatchInv
    <3>. QED  BY <3>1, <3>2 DEF Channel!Settled
  <2>5. (lost \cup abandoned)' = (lost \cup abandoned) \cup {consumer_pos}
    BY <2>1
  <2>6. Channel!Drop
    <3>1. /\ consumer_pos < consumer_pos + 1
          /\ (consumer_pos .. ((consumer_pos + 1) - 1)) \cap Channel!Settled = {}
          /\ (lost \cup abandoned)'
             = (lost \cup abandoned) \cup (consumer_pos .. ((consumer_pos + 1) - 1))
      BY <2>2, <2>3, <2>4, <2>5
    <3>. QED  BY <2>1, <2>2, <3>1 DEF Channel!Drop
  <2>. QED  BY <2>6 DEF Channel!Next
<1>5. CASE HandleBatch
  <2>1. /\ cpc = "return" /\ delivered' = delivered \o batch
        /\ UNCHANGED <<producer_pos, lost, abandoned>>
    BY <1>5 DEF HandleBatch
  <2>2. CASE batch = << >>
    <3>1. delivered' = delivered  BY <2>1, <2>2 DEF ChannelInv, TypeOK
    <3>. QED  BY <1>0, <2>1, <3>1
  <2>3. CASE batch # << >>
    <3>1. Channel!Deliver  BY <2>1, <2>3, BatchIsRun DEF Channel!Deliver
    <3>. QED  BY <3>1 DEF Channel!Next
  <2>. QED  BY <2>2, <2>3
<1>6. CASE ConsumerDies
  <2>1. /\ cpc \in {"wait", "process", "return"} /\ abandoned' = abandoned \cup Range(batch)
        /\ UNCHANGED <<producer_pos, delivered, lost>>
    BY <1>6 DEF ConsumerDies, ChannelInv, TypeOK
  <2>2. CASE batch = << >>
    <3>1. Range(batch) = {}  BY <2>2 DEF Range
    <3>. QED  BY <1>0, <2>1, <3>1
  <2>3. CASE batch # << >>
    <3>1. cpc \in {"process", "return"}  BY <2>1, <2>3 DEF ChannelInv, BatchInv
    <3>2. (lost \cup abandoned)' = (lost \cup abandoned) \cup Range(batch)  BY <2>1
    <3>3. Channel!Drop  BY <2>1, <2>3, <3>1, <3>2, BatchIsRun DEF Channel!Drop
    <3>. QED  BY <3>3 DEF Channel!Next
  <2>. QED  BY <2>1, <2>2, <2>3
<1>. QED  BY <1>0, <1>1, <1>2, <1>3, <1>4, <1>5, <1>6 DEF Next, Probe, Poll, Channel!Next

\* The ring, libbpf's poll loop and rb_poll_into together implement the lossy
\* channel: in order, at most once, nothing skipped that was not dropped.
THEOREM RingImplementsChannel == Spec => ImplementsChannel
<1>1. Init => ChannelInv
  <2>1. Init => HoldersInv /\ BatchInv /\ Accounted
    BY DEF Init, HoldersInv, Holds, BatchInv, Accounted, Pending, Range
  <2>2. Init => RunInv
    BY DEF Init, RunInv
  <2>. QED  BY <2>1, <2>2, InitTypeOK DEF ChannelInv
<1>2. Init => Channel!Init
  BY DEF Init, Channel!Init
<1>3. ChannelInv /\ [Next]_vars => ChannelInv'
  BY TypeStep, HoldersStep, BatchStep, AccountedStep, RunStep DEF ChannelInv
<1>. QED  BY <1>1, <1>2, <1>3, ChannelStep, PTL DEF Spec, ImplementsChannel, Channel!Spec
=============================================================================
