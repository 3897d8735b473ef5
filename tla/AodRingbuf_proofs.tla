-------------------------- MODULE AodRingbuf_proofs --------------------------
(***************************************************************************)
(* Safety of the event transport for any number of probes, any wakeup      *)
(* sizes, ring and batch sizes.                                            *)
(***************************************************************************)
EXTENDS AodRingbuf, TLAPS

\* What the Python loop has seen grows by the batch, one event per slot.
LEMMA RangeConcat ==
    ASSUME NEW s \in Seq(Nat), NEW t \in Seq(Nat)
    PROVE  Range(s \o t) = Range(s) \cup Range(t)
<1>1. ASSUME NEW x \in Range(s \o t) PROVE x \in Range(s) \cup Range(t)
  <2>1. PICK i \in 1 .. (Len(s) + Len(t)) : x = (s \o t)[i]  BY <1>1 DEF Range
  <2>2. CASE i <= Len(s)  BY <2>1, <2>2 DEF Range
  <2>3. CASE i > Len(s)
    <3>1. i - Len(s) \in 1 .. Len(t) /\ x = t[i - Len(s)]  BY <2>1, <2>3
    <3>. QED  BY <3>1 DEF Range
  <2>. QED  BY <2>1, <2>2, <2>3
<1>2. ASSUME NEW x \in Range(s) PROVE x \in Range(s \o t)
  <2>1. PICK i \in 1 .. Len(s) : x = s[i]  BY <1>2 DEF Range
  <2>2. i \in 1 .. Len(s \o t) /\ (s \o t)[i] = x  BY <2>1
  <2>. QED  BY <2>2 DEF Range
<1>3. ASSUME NEW x \in Range(t) PROVE x \in Range(s \o t)
  <2>1. PICK i \in 1 .. Len(t) : x = t[i]  BY <1>3 DEF Range
  <2>2. Len(s) + i \in DOMAIN (s \o t)  BY <2>1
  <2>3. (s \o t)[Len(s) + i] = x  BY <2>1
  <2>. QED  BY <2>2, <2>3 DEF Range
<1>. QED  BY <1>1, <1>2, <1>3

\* _copy_event adds exactly the record it was called with.
LEMMA RangeAppend ==
    ASSUME NEW s \in Seq(Nat), NEW x \in Nat
    PROVE  Range(Append(s, x)) = Range(s) \cup {x}
<1>1. ASSUME NEW y \in Range(Append(s, x)) PROVE y \in Range(s) \cup {x}
  <2>1. PICK i \in 1 .. (Len(s) + 1) : y = Append(s, x)[i]  BY <1>1 DEF Range
  <2>2. CASE i <= Len(s)  BY <2>1, <2>2 DEF Range
  <2>3. CASE i = Len(s) + 1  BY <2>1, <2>3
  <2>. QED  BY <2>1, <2>2, <2>3
<1>2. ASSUME NEW y \in Range(s) PROVE y \in Range(Append(s, x))
  <2>1. PICK i \in 1 .. Len(s) : y = s[i]  BY <1>2 DEF Range
  <2>2. i \in 1 .. Len(Append(s, x)) /\ Append(s, x)[i] = y  BY <2>1
  <2>. QED  BY <2>2 DEF Range
<1>3. x \in Range(Append(s, x))
  <2>1. Len(s) + 1 \in 1 .. Len(Append(s, x)) /\ Append(s, x)[Len(s) + 1] = x  OBVIOUS
  <2>. QED  BY <2>1 DEF Range
<1>. QED  BY <1>1, <1>2, <1>3

-----------------------------------------------------------------------------
\* The empty ring is well typed.
LEMMA InitTypeOK == Init => TypeOK
<1>. SUFFICES ASSUME Init PROVE TypeOK
  OBVIOUS
<1>1. << >> \in Seq(Nat) /\ Len(<< >>) = 0  OBVIOUS
<1>2. batch \in Seq(Nat) /\ delivered \in Seq(Nat) /\ Len(batch) <= Capacity
  BY <1>1, ConstantsAssumption DEF Init
<1>. QED  BY <1>2 DEF Init, TypeOK

\* Every step keeps the types; _copy_event tests the room before it copies.
LEMMA TypeStep == TypeOK /\ [Next]_vars => TypeOK'
<1>. SUFFICES ASSUME TypeOK, [Next]_vars PROVE TypeOK'
  OBVIOUS
<1>. USE ConstantsAssumption DEF TypeOK, ringVars, probeVars, consumerVars
<1>1. ASSUME NEW p \in Probes, Request(p) PROVE TypeOK'
  <2>1. GetFlags(p) \in {"adaptive", "force_wakeup", "no_wakeup"}  BY DEF GetFlags
  <2>. QED  BY <1>1, <2>1 DEF Request
<1>2. ASSUME NEW p \in Probes, Reserve(p) PROVE TypeOK'
  BY <1>2 DEF Reserve
<1>3. ASSUME NEW p \in Probes, ReserveNull(p) PROVE TypeOK'
  BY <1>3 DEF ReserveNull
<1>4. ASSUME NEW p \in Probes, QueryFlags(p) PROVE TypeOK'
  <2>1. GetFlags(p) \in {"adaptive", "force_wakeup", "no_wakeup"}  BY DEF GetFlags
  <2>. QED  BY <1>4, <2>1 DEF QueryFlags
<1>5. ASSUME NEW p \in Probes, Submit(p) PROVE TypeOK'
  BY <1>5 DEF Submit
<1>6. ASSUME NEW p \in Probes, Commit(p) PROVE TypeOK'
  BY <1>6 DEF Commit
<1>7. CASE IrqWork  BY <1>7 DEF IrqWork
<1>8. CASE RbOpen  BY <1>8 DEF RbOpen
<1>9. CASE RbPollInto  BY <1>9 DEF RbPollInto
<1>10. CASE EpollReports  BY <1>10 DEF EpollReports
<1>11. CASE EpollRemoves  BY <1>11 DEF EpollRemoves
<1>12. CASE EpollTimeout  BY <1>12 DEF EpollTimeout
<1>13. CASE CopyEvent
  <2>1. Append(batch, consumer_pos) \in Seq(Nat)
        /\ Len(Append(batch, consumer_pos)) = Len(batch) + 1  OBVIOUS
  <2>2. Len(batch) + 1 <= Capacity  BY <1>13 DEF CopyEvent, BatchFull
  <2>. QED  BY <1>13, <2>1, <2>2 DEF CopyEvent
<1>14. CASE CopyEventFull  BY <1>14 DEF CopyEventFull
<1>15. CASE ProcessStops  BY <1>15 DEF ProcessStops
<1>16. CASE HandleBatch
  <2>1. delivered \o batch \in Seq(Nat)  OBVIOUS
  <2>. QED  BY <1>16, <2>1 DEF HandleBatch
<1>17. CASE RbClose
  <2>1. restarts' \in Nat /\ ready' = FALSE /\ cpc' = "closed"  BY <1>17 DEF RbClose
  <2>2. UNCHANGED <<ringVars, probeVars, wake, consumer_pos, batch, delivered, lost, abandoned>>
    BY <1>17 DEF RbClose
  <2>. QED  BY <2>1, <2>2
<1>18. CASE ConsumerDies
  <2>1. \A i \in DOMAIN batch : batch[i] \in Nat  OBVIOUS
  <2>2. Range(batch) \subseteq Nat  BY <2>1 DEF Range
  <2>3. restarts' \in Nat /\ ready' = FALSE /\ cpc' = "closed"  BY <1>18 DEF ConsumerDies
  <2>4. abandoned' = abandoned \cup Range(batch)
        /\ UNCHANGED <<ringVars, probeVars, wake, consumer_pos, batch, delivered, lost>>
    BY <1>18 DEF ConsumerDies
  <2>. QED  BY <2>2, <2>3, <2>4
<1>19. CASE UNCHANGED vars  BY <1>19 DEF vars
<1>. QED  BY <1>1, <1>2, <1>3, <1>4, <1>5, <1>6, <1>7, <1>8, <1>9, <1>10,
             <1>11, <1>12, <1>13, <1>14, <1>15, <1>16, <1>17, <1>18, <1>19
          DEF Next, Probe, Poll

\* Type correctness: in particular _copy_event never writes past the buffer
\* that rb_poll_into was given.
THEOREM TypeCorrect == Spec => []TypeOK
BY InitTypeOK, TypeStep, PTL DEF Spec

-----------------------------------------------------------------------------
\* A reserved record is held by one probe until it is committed, and the
\* consumer stays behind it.
LEMMA HoldersStep == TypeOK /\ HoldersInv /\ [Next]_vars => HoldersInv'
<1>. SUFFICES ASSUME TypeOK, HoldersInv, [Next]_vars PROVE HoldersInv'
  OBVIOUS
<1>. USE DEF TypeOK, ringVars, probeVars, consumerVars
<1>1. ASSUME NEW p \in Probes, Request(p) PROVE HoldersInv'
  BY <1>1, SMTT(40) DEF Request, HoldersInv, Holds
<1>2. ASSUME NEW p \in Probes, Reserve(p) PROVE HoldersInv'
  <2>1. /\ pc' = [pc EXCEPT ![p] = "fill"] /\ pos' = [pos EXCEPT ![p] = producer_pos]
        /\ busy' = busy \cup {producer_pos} /\ producer_pos' = producer_pos + 1
        /\ consumer_pos' = consumer_pos /\ ~Holds(p)
    BY <1>2 DEF Reserve, Holds
  <2>2. \A q \in Probes : q # p => pc'[q] = pc[q] /\ pos'[q] = pos[q]
    BY <2>1
  <2>3. pc'[p] = "fill" /\ pos'[p] = producer_pos
    BY <2>1
  <2>4. \A q \in Probes : Holds(q)' => pos'[q] \in busy'
    BY <2>1, <2>2, <2>3 DEF HoldersInv, Holds
  <2>5. \A q, r \in Probes : Holds(q)' /\ Holds(r)' /\ pos'[q] = pos'[r] => q = r
    BY <2>1, <2>2, <2>3 DEF HoldersInv, Holds
  <2>6. \A x \in busy' : \E q \in Probes : Holds(q)' /\ pos'[q] = x
    BY <2>1, <2>2, <2>3 DEF HoldersInv, Holds
  <2>7. consumer_pos' <= producer_pos'
        /\ \A x \in busy' : consumer_pos' <= x /\ x < producer_pos'
    BY <2>1 DEF HoldersInv
  <2>. QED  BY <2>4, <2>5, <2>6, <2>7 DEF HoldersInv
<1>3. ASSUME NEW p \in Probes, ReserveNull(p) PROVE HoldersInv'
  BY <1>3 DEF ReserveNull, HoldersInv, Holds
<1>4. ASSUME NEW p \in Probes, QueryFlags(p) PROVE HoldersInv'
  BY <1>4 DEF QueryFlags, HoldersInv, Holds
<1>5. ASSUME NEW p \in Probes, Submit(p) PROVE HoldersInv'
  <2>1. /\ pc' = [pc EXCEPT ![p] = "commit"] /\ busy' = busy \ {pos[p]}
        /\ Holds(p) /\ UNCHANGED <<pos, producer_pos, consumer_pos>>
    BY <1>5 DEF Submit, Holds
  <2>2. \A q \in Probes : q # p => pc'[q] = pc[q]
    BY <2>1
  <2>3. ~Holds(p)'
    BY <2>1 DEF Holds
  <2>4. \A q \in Probes : Holds(q)' => pos'[q] \in busy'
    BY <2>1, <2>2, <2>3 DEF HoldersInv, Holds
  <2>5. \A q, r \in Probes : Holds(q)' /\ Holds(r)' /\ pos'[q] = pos'[r] => q = r
    BY <2>1, <2>2, <2>3 DEF HoldersInv, Holds
  <2>6. \A x \in busy' : \E q \in Probes : Holds(q)' /\ pos'[q] = x
    BY <2>1, <2>2, <2>3 DEF HoldersInv, Holds
  <2>. QED  BY <2>1, <2>4, <2>5, <2>6 DEF HoldersInv
<1>6. ASSUME NEW p \in Probes, Commit(p) PROVE HoldersInv'
  BY <1>6 DEF Commit, HoldersInv, Holds
<1>7. CASE CopyEvent
  BY <1>7 DEF CopyEvent, HeadCommitted, HoldersInv, Holds
<1>8. CASE CopyEventFull
  BY <1>8 DEF CopyEventFull, HeadCommitted, HoldersInv, Holds
<1>9. CASE UNCHANGED <<producer_pos, consumer_pos, busy, pc, pos>>
  BY <1>9 DEF HoldersInv, Holds
<1>10. ASSUME IrqWork \/ RbOpen \/ RbPollInto \/ EpollReports \/ EpollRemoves
              \/ EpollTimeout \/ ProcessStops \/ HandleBatch \/ RbClose \/ ConsumerDies
       PROVE  UNCHANGED <<producer_pos, consumer_pos, busy, pc, pos>>
  BY <1>10 DEF IrqWork, RbOpen, RbPollInto, EpollReports, EpollRemoves, EpollTimeout,
               ProcessStops, HandleBatch, RbClose, ConsumerDies
<1>. QED  BY <1>1, <1>2, <1>3, <1>4, <1>5, <1>6, <1>7, <1>8, <1>9, <1>10
          DEF Next, Probe, Poll, vars

\* The consumer never reads past a record that a probe is still filling in,
\* whatever the number of probes and the order of their commits.
THEOREM CommittedConsumed == Spec => []OnlyCommittedConsumed
<1>1. Init => HoldersInv
  BY DEF Init, HoldersInv, Holds
<1>2. HoldersInv => OnlyCommittedConsumed
  BY DEF HoldersInv, OnlyCommittedConsumed
<1>. QED  BY <1>1, <1>2, TypeCorrect, HoldersStep, PTL DEF Spec

-----------------------------------------------------------------------------
\* The steps that leave the delivery state alone: every probe step, the wakeup
\* and the ways epoll_wait ends.
DeliveryVars == <<consumer_pos, batch, delivered, lost, abandoned>>

LEMMA QuietSteps ==
    ASSUME [Next]_vars
    PROVE  \/ UNCHANGED <<DeliveryVars, cpc>>
           \/ UNCHANGED DeliveryVars /\ cpc = "wait" /\ cpc' \in {"process", "return"}
           \/ UNCHANGED DeliveryVars /\ cpc = "process" /\ cpc' = "return"
           \/ UNCHANGED DeliveryVars /\ cpc = "idle" /\ cpc' = "closed"
           \/ RbOpen \/ RbPollInto \/ CopyEvent \/ CopyEventFull \/ HandleBatch
           \/ ConsumerDies
<1>. USE DEF DeliveryVars, ringVars, probeVars, consumerVars
<1>1. ASSUME NEW p \in Probes, Request(p) \/ Probe(p) PROVE UNCHANGED <<DeliveryVars, cpc>>
  BY <1>1 DEF Probe, Request, Reserve, ReserveNull, QueryFlags, Submit, Commit
<1>2. IrqWork \/ EpollRemoves \/ UNCHANGED vars => UNCHANGED <<DeliveryVars, cpc>>
  BY DEF IrqWork, EpollRemoves, vars
<1>3. EpollReports \/ EpollTimeout
      => UNCHANGED DeliveryVars /\ cpc = "wait" /\ cpc' \in {"process", "return"}
  BY DEF EpollReports, EpollTimeout
<1>4. ProcessStops => UNCHANGED DeliveryVars /\ cpc = "process" /\ cpc' = "return"
  BY DEF ProcessStops
<1>5. RbClose => UNCHANGED DeliveryVars /\ cpc = "idle" /\ cpc' = "closed"
  BY DEF RbClose
<1>. QED  BY <1>1, <1>2, <1>3, <1>4, <1>5 DEF Next, Poll

\* The batch is the run of records just consumed.
LEMMA BatchStep == TypeOK /\ HoldersInv /\ BatchInv /\ [Next]_vars => BatchInv'
<1>. SUFFICES ASSUME TypeOK, HoldersInv, BatchInv, [Next]_vars PROVE BatchInv'
  OBVIOUS
<1>. USE DEF TypeOK
<1>1. CASE UNCHANGED <<DeliveryVars, cpc>>
  BY <1>1 DEF BatchInv, DeliveryVars
<1>2. CASE UNCHANGED DeliveryVars /\ cpc = "wait" /\ cpc' \in {"process", "return"}
  BY <1>2 DEF BatchInv, DeliveryVars
<1>3. CASE UNCHANGED DeliveryVars /\ cpc = "process" /\ cpc' = "return"
  BY <1>3 DEF BatchInv, DeliveryVars
<1>4. CASE UNCHANGED DeliveryVars /\ cpc = "idle" /\ cpc' = "closed"
  BY <1>4 DEF BatchInv, DeliveryVars
<1>5. CASE RbOpen
  BY <1>5 DEF RbOpen, BatchInv
<1>6. CASE RbPollInto
  BY <1>6 DEF RbPollInto, BatchInv
<1>7. CASE CopyEvent
  <2>1. /\ batch' = Append(batch, consumer_pos) /\ consumer_pos' = consumer_pos + 1
        /\ cpc = "process" /\ cpc' = "process"
        /\ UNCHANGED <<delivered, lost, abandoned>>
    BY <1>7 DEF CopyEvent
  <2>2. Len(batch') = Len(batch) + 1 /\ batch'[Len(batch) + 1] = consumer_pos
    BY <2>1
  <2>3. \A i \in 1 .. Len(batch) : batch'[i] = batch[i]
    BY <2>1
  <2>4. ASSUME NEW i \in 1 .. Len(batch')
        PROVE  batch'[i] = consumer_pos' - Len(batch') + i - 1
    <3>1. CASE i <= Len(batch)
      <4>1. i \in 1 .. Len(batch)  BY <3>1
      <4>2. batch[i] = consumer_pos - Len(batch) + i - 1  BY <2>1, <4>1 DEF BatchInv
      <4>. QED  BY <2>1, <2>2, <2>3, <4>1, <4>2
    <3>2. CASE i = Len(batch) + 1  BY <2>1, <2>2, <3>2
    <3>. QED  BY <2>2, <3>1, <3>2
  <2>5. \A i, j \in 1 .. Len(batch') : i < j => batch'[i] < batch'[j]
    BY <2>1, <2>2, <2>3 DEF BatchInv
  <2>6. \A i \in 1 .. Len(batch') : batch'[i] < consumer_pos'
    BY <2>1, <2>2, <2>3 DEF BatchInv
  <2>7. \A i \in 1 .. Len(delivered'), j \in 1 .. Len(batch') : delivered'[i] < batch'[j]
    BY <2>1, <2>2, <2>3 DEF BatchInv
  <2>8. \A i \in 1 .. Len(batch') : batch'[i] \notin lost'
    BY <2>1, <2>2, <2>3 DEF BatchInv
  <2>9. /\ \A i \in 1 .. Len(delivered') : delivered'[i] < consumer_pos'
        /\ \A x \in lost' \cup abandoned' : x < consumer_pos'
    BY <2>1 DEF BatchInv
  <2>. QED  BY <2>1, <2>4, <2>5, <2>6, <2>7, <2>8, <2>9 DEF BatchInv
<1>8. CASE CopyEventFull
  <2>1. /\ lost' = lost \cup {consumer_pos} /\ consumer_pos' = consumer_pos + 1
        /\ cpc = "process" /\ cpc' = "return"
        /\ UNCHANGED <<batch, delivered, abandoned>>
    BY <1>8 DEF CopyEventFull
  <2>. QED  BY <2>1 DEF BatchInv
<1>9. CASE HandleBatch
  <2>1. /\ delivered' = delivered \o batch /\ cpc = "return" /\ cpc' = "idle"
        /\ UNCHANGED <<batch, consumer_pos, lost, abandoned>>
    BY <1>9 DEF HandleBatch
  <2>2. ASSUME NEW i \in 1 .. Len(delivered') PROVE delivered'[i] < consumer_pos'
    <3>1. CASE i <= Len(delivered)  BY <2>1, <3>1 DEF BatchInv
    <3>2. CASE i > Len(delivered)
      <4>1. i - Len(delivered) \in 1 .. Len(batch) /\ delivered'[i] = batch[i - Len(delivered)]
        BY <2>1, <3>2
      <4>. QED  BY <2>1, <4>1 DEF BatchInv
    <3>. QED  BY <3>1, <3>2
  <2>. QED  BY <2>1, <2>2 DEF BatchInv
<1>10. CASE ConsumerDies
  <2>1. /\ cpc' = "closed" /\ abandoned' = abandoned \cup Range(batch)
        /\ cpc \in {"wait", "process", "return"}
        /\ UNCHANGED <<batch, delivered, consumer_pos, lost>>
    BY <1>10 DEF ConsumerDies
  <2>2. \A x \in Range(batch) : x < consumer_pos
    BY <2>1 DEF BatchInv, Range
  <2>. QED  BY <2>1, <2>2 DEF BatchInv
<1>. QED  BY <1>1, <1>2, <1>3, <1>4, <1>5, <1>6, <1>7, <1>8, <1>9, <1>10, QuietSteps

\* Every record that left the ring is accounted for.
LEMMA AccountedStep ==
    TypeOK /\ HoldersInv /\ BatchInv /\ Accounted /\ [Next]_vars => Accounted'
<1>. SUFFICES ASSUME TypeOK, HoldersInv, BatchInv, Accounted, [Next]_vars PROVE Accounted'
  OBVIOUS
<1>. USE DEF TypeOK
<1>1. CASE UNCHANGED <<DeliveryVars, cpc>>
  BY <1>1 DEF Accounted, Pending, DeliveryVars
<1>2. CASE UNCHANGED DeliveryVars /\ cpc = "wait" /\ cpc' \in {"process", "return"}
  BY <1>2 DEF Accounted, Pending, DeliveryVars
<1>3. CASE UNCHANGED DeliveryVars /\ cpc = "process" /\ cpc' = "return"
  BY <1>3 DEF Accounted, Pending, DeliveryVars
<1>4. CASE UNCHANGED DeliveryVars /\ cpc = "idle" /\ cpc' = "closed"
  BY <1>4 DEF Accounted, Pending, DeliveryVars
<1>5. CASE RbOpen
  BY <1>5 DEF RbOpen, Accounted, Pending
<1>6. CASE RbPollInto
  <2>1. cpc = "idle" /\ cpc' = "wait" /\ batch' = << >>
        /\ UNCHANGED <<consumer_pos, delivered, lost, abandoned>>
    BY <1>6 DEF RbPollInto
  <2>2. Pending = {} /\ Pending' = {}
    BY <2>1 DEF Pending, Range
  <2>. QED  BY <2>1, <2>2 DEF Accounted
<1>7. CASE CopyEvent
  <2>1. /\ batch' = Append(batch, consumer_pos) /\ consumer_pos' = consumer_pos + 1
        /\ cpc = "process" /\ cpc' = "process"
        /\ UNCHANGED <<delivered, lost, abandoned>>
    BY <1>7 DEF CopyEvent
  <2>2. Pending' = Pending \cup {consumer_pos}
    BY <2>1, RangeAppend DEF Pending
  <2>3. 0 .. (consumer_pos' - 1) = 0 .. (consumer_pos - 1) \cup {consumer_pos}
    BY <2>1
  <2>. QED  BY <2>1, <2>2, <2>3 DEF Accounted
<1>8. CASE CopyEventFull
  <2>1. /\ lost' = lost \cup {consumer_pos} /\ consumer_pos' = consumer_pos + 1
        /\ Pending' = Pending /\ UNCHANGED <<delivered, abandoned>>
    BY <1>8 DEF CopyEventFull, Pending
  <2>2. 0 .. (consumer_pos' - 1) = 0 .. (consumer_pos - 1) \cup {consumer_pos}
    BY <2>1
  <2>. QED  BY <2>1, <2>2 DEF Accounted
<1>9. CASE HandleBatch
  <2>1. /\ Range(delivered') = Range(delivered) \cup Pending /\ Pending' = {}
        /\ UNCHANGED <<consumer_pos, lost, abandoned>>
    BY <1>9, RangeConcat DEF HandleBatch, Pending
  <2>. QED  BY <2>1 DEF Accounted
<1>10. CASE ConsumerDies
  <2>1. /\ abandoned' = abandoned \cup Pending /\ Pending' = {}
        /\ UNCHANGED <<consumer_pos, delivered, lost>>
    BY <1>10 DEF ConsumerDies, Pending
  <2>. QED  BY <2>1 DEF Accounted
<1>. QED  BY <1>1, <1>2, <1>3, <1>4, <1>5, <1>6, <1>7, <1>8, <1>9, <1>10, QuietSteps

\* Appending a batch keeps the order in which the Python loop sees events.
LEMMA OrderStep ==
    TypeOK /\ BatchInv /\ DeliveredInOrder /\ [Next]_vars => DeliveredInOrder'
<1>. SUFFICES ASSUME TypeOK, BatchInv, DeliveredInOrder, [Next]_vars PROVE DeliveredInOrder'
  OBVIOUS
<1>. USE DEF TypeOK
<1>1. CASE delivered' = delivered
  BY <1>1 DEF DeliveredInOrder
<1>2. CASE HandleBatch
  <2>1. delivered' = delivered \o batch /\ cpc = "return"
    BY <1>2 DEF HandleBatch
  <2>2. ASSUME NEW i \in DOMAIN delivered', NEW j \in DOMAIN delivered', i < j
        PROVE  delivered'[i] < delivered'[j]
    <3>1. /\ i \in 1 .. (Len(delivered) + Len(batch)) /\ j \in 1 .. (Len(delivered) + Len(batch))
          /\ i < j
      BY <2>1, <2>2
    <3>2. CASE j <= Len(delivered)
      <4>1. delivered'[i] = delivered[i] /\ delivered'[j] = delivered[j]
        BY <2>1, <3>1, <3>2
      <4>. QED  BY <3>1, <3>2, <4>1 DEF DeliveredInOrder
    <3>3. CASE i <= Len(delivered) /\ j > Len(delivered)
      <4>1. delivered'[i] = delivered[i] /\ delivered'[j] = batch[j - Len(delivered)]
            /\ j - Len(delivered) \in 1 .. Len(batch) /\ i \in 1 .. Len(delivered)
        BY <2>1, <3>1, <3>3
      <4>. QED  BY <2>1, <4>1 DEF BatchInv
    <3>4. CASE i > Len(delivered)
      <4>1. /\ delivered'[i] = batch[i - Len(delivered)] /\ i - Len(delivered) \in 1 .. Len(batch)
            /\ delivered'[j] = batch[j - Len(delivered)] /\ j - Len(delivered) \in 1 .. Len(batch)
            /\ i - Len(delivered) < j - Len(delivered)
        BY <2>1, <3>1, <3>4, SMTT(40)
      <4>. QED  BY <2>1, <4>1 DEF BatchInv
    <3>. QED  BY <3>1, <3>2, <3>3, <3>4
  <2>. QED  BY <2>2 DEF DeliveredInOrder
<1>3. RbOpen \/ RbPollInto \/ CopyEvent \/ CopyEventFull \/ ConsumerDies => delivered' = delivered
  BY DEF RbOpen, RbPollInto, CopyEvent, CopyEventFull, ConsumerDies
<1>4. UNCHANGED DeliveryVars => delivered' = delivered
  BY DEF DeliveryVars
<1>. QED  BY <1>1, <1>2, <1>3, <1>4, QuietSteps

\* A full batch costs one event, behind Capacity events that were copied.
LEMMA LossStep ==
    /\ TypeOK /\ HoldersInv /\ BatchInv /\ LossBehindFullBatch /\ [Next]_vars
    => LossBehindFullBatch'
<1>. SUFFICES ASSUME TypeOK, HoldersInv, BatchInv, LossBehindFullBatch, [Next]_vars
              PROVE  LossBehindFullBatch'
  OBVIOUS
<1>. USE ConstantsAssumption DEF TypeOK
<1>. DEFINE Kept == Range(delivered) \cup Pending \cup abandoned
<1>1. ASSUME lost' = lost, Kept \subseteq Kept' PROVE LossBehindFullBatch'
  BY <1>1 DEF LossBehindFullBatch
<1>2. CASE UNCHANGED <<DeliveryVars, cpc>>
  BY <1>1, <1>2 DEF Pending, DeliveryVars
<1>3. CASE UNCHANGED DeliveryVars /\ cpc = "wait" /\ cpc' \in {"process", "return"}
  BY <1>1, <1>3 DEF Pending, DeliveryVars
<1>4. CASE UNCHANGED DeliveryVars /\ cpc = "process" /\ cpc' = "return"
  BY <1>1, <1>4 DEF Pending, DeliveryVars
<1>5. CASE UNCHANGED DeliveryVars /\ cpc = "idle" /\ cpc' = "closed"
  BY <1>1, <1>5 DEF Pending, DeliveryVars
<1>6. CASE RbOpen
  BY <1>1, <1>6 DEF RbOpen, Pending
<1>7. CASE RbPollInto
  BY <1>1, <1>7 DEF RbPollInto, Pending
<1>8. CASE CopyEvent
  <2>1. lost' = lost /\ UNCHANGED <<delivered, abandoned>>
        /\ Pending' = Pending \cup {consumer_pos}
    BY <1>8, RangeAppend DEF CopyEvent, Pending
  <2>. QED  BY <1>1, <2>1
<1>9. CASE CopyEventFull
  <2>1. /\ lost' = lost \cup {consumer_pos} /\ cpc = "process" /\ Kept' = Kept
        /\ Pending = Range(batch)
    BY <1>9 DEF CopyEventFull, Pending
  <2>2. Len(batch) = Capacity
    BY <1>9 DEF CopyEventFull, BatchFull
  <2>3. ASSUME NEW y \in (consumer_pos - Capacity) .. (consumer_pos - 1)
        PROVE  y >= 0 /\ y \in Kept /\ y \notin lost'
    <3>1. y - consumer_pos + Capacity + 1 \in 1 .. Len(batch)
      BY <2>2
    <3>2. batch[y - consumer_pos + Capacity + 1] = y
      BY <2>1, <2>2, <3>1 DEF BatchInv
    <3>3. y \in Nat /\ y \in Range(batch) /\ y \notin lost
      BY <2>1, <3>1, <3>2 DEF BatchInv, Range
    <3>. QED  BY <2>1, <3>3
  <2>4. ASSUME NEW x \in lost, NEW y \in (x - Capacity) .. (x - 1)
        PROVE  y >= 0 /\ y \in Kept /\ y \notin lost'
    <3>1. x < consumer_pos  BY DEF BatchInv
    <3>. QED  BY <2>1, <3>1 DEF LossBehindFullBatch
  <2>5. ASSUME NEW x \in lost', NEW y \in (x - Capacity) .. (x - 1)
        PROVE  y >= 0 /\ y \in Kept' /\ y \notin lost'
    BY <2>1, <2>3, <2>4
  <2>. QED  BY <2>5 DEF LossBehindFullBatch
<1>10. CASE HandleBatch
  <2>1. lost' = lost /\ abandoned' = abandoned
        /\ Range(delivered') = Range(delivered) \cup Pending
    BY <1>10, RangeConcat DEF HandleBatch, Pending
  <2>. QED  BY <1>1, <2>1
<1>11. CASE ConsumerDies
  <2>1. lost' = lost /\ delivered' = delivered /\ abandoned' = abandoned \cup Pending
    BY <1>11 DEF ConsumerDies, Pending
  <2>. QED  BY <1>1, <2>1
<1>. QED  BY <1>2, <1>3, <1>4, <1>5, <1>6, <1>7, <1>8, <1>9, <1>10, <1>11, QuietSteps

-----------------------------------------------------------------------------
\* Delivery, for every batch size and any history of full batches, consumer
\* deaths and restarts: nothing vanishes untraced, nothing is delivered twice
\* or out of order, and a full batch costs one event behind Capacity others.
THEOREM DeliveryCorrect == Spec => [](Accounted /\ DeliveredInOrder /\ LossBehindFullBatch)
<1>1. Init => HoldersInv /\ BatchInv
  BY DEF Init, HoldersInv, Holds, BatchInv
<1>2. Init => Accounted /\ DeliveredInOrder /\ LossBehindFullBatch
  BY DEF Init, Accounted, Pending, Range, DeliveredInOrder, LossBehindFullBatch
<1>. QED  BY <1>1, <1>2, TypeCorrect, HoldersStep, BatchStep, AccountedStep, OrderStep,
             LossStep, PTL DEF Spec

\* The Python loop sees events in the order they were reserved and none twice,
\* for every batch size and any history of consumer deaths.
THEOREM DeliveryOrder == Spec => []DeliveredInOrder
BY DeliveryCorrect, PTL

\* A full batch (_copy_event returning -1) costs one event, and only behind
\* Capacity events that the same poll copied.
THEOREM LossBound == Spec => []LossBehindFullBatch
BY DeliveryCorrect, PTL

-----------------------------------------------------------------------------
\* BPF_RB_AVAIL_DATA is 0 exactly when the consumer has caught up.
LEMMA AvailEmpty ==
    ASSUME TypeOK, HoldersInv
    PROVE  AvailData \in Nat /\ (AvailData = 0 <=> consumer_pos = producer_pos)
<1>. DEFINE n == producer_pos - consumer_pos
<1>1. n \in Nat /\ (n = 0 <=> consumer_pos = producer_pos)
  BY DEF TypeOK, HoldersInv
<1>2. ASSUME NEW m \in Nat PROVE m * RecSize \in Nat /\ (m * RecSize = 0 <=> m = 0)
  BY ConstantsAssumption
<1>. HIDE DEF n
<1>3. n * RecSize \in Nat /\ (n * RecSize = 0 <=> n = 0)
  BY <1>1, <1>2
<1>. QED  BY <1>1, <1>3 DEF AvailData, n

\* A consumer that goes to sleep has a wakeup on its way for what it must not
\* sleep on.
LEMMA WakeStep ==
    TypeOK /\ HoldersInv /\ WakeInv /\ [Next]_vars => WakeInv'
<1>. SUFFICES ASSUME TypeOK, HoldersInv, WakeInv, [Next]_vars PROVE WakeInv'
  OBVIOUS
<1>0. AvailData \in Nat /\ (AvailData = 0 <=> consumer_pos = producer_pos)
  BY AvailEmpty
<1>. USE ConstantsAssumption DEF TypeOK, ringVars, probeVars, consumerVars
<1>1. ASSUME NEW p \in Probes, Request(p) PROVE WakeInv'
  <2>1. /\ pc[p] = "idle" /\ pc' = [pc EXCEPT ![p] = "reserve"]
        /\ \A q \in Probes : q # p => flags'[q] = flags[q]
        /\ UNCHANGED <<producer_pos, consumer_pos, busy, pos, wake, ready, cpc>>
    BY <1>1 DEF Request
  <2>2. AvailData' = AvailData  BY <2>1 DEF AvailData
  <2>3. ASSUME NEW r \in Probes, WakeComing(r) PROVE WakeComing(r)'
    BY <2>1, <2>2, <2>3 DEF WakeComing
  <2>. QED  BY <2>1, <2>3 DEF WakeInv, UniformWakeup
<1>2. ASSUME NEW p \in Probes, Reserve(p) PROVE WakeInv'
  <2>1. /\ pc[p] = "reserve" /\ pc' = [pc EXCEPT ![p] = "fill"]
        /\ pos' = [pos EXCEPT ![p] = producer_pos]
        /\ busy' = busy \cup {producer_pos} /\ producer_pos' = producer_pos + 1
        /\ UNCHANGED <<consumer_pos, flags, wake, ready, cpc>>
    BY <1>2 DEF Reserve
  <2>2. pc'[p] = "fill" /\ pos'[p] = producer_pos' - 1  BY <2>1
  <2>3. ASSUME NEW r \in Probes, WakeComing(r) PROVE WakeComing(r)'
    <3>1. CASE WakeupSize[r] = 0  BY <2>1, <2>3, <3>1 DEF WakeComing
    <3>2. CASE WakeupSize[r] # 0  BY <2>2, <3>2 DEF WakeComing
    <3>. QED  BY <3>1, <3>2
  <2>. QED  BY <2>1, <2>3 DEF WakeInv, UniformWakeup
<1>3. ASSUME NEW p \in Probes, ReserveNull(p) PROVE WakeInv'
  <2>1. /\ pc[p] = "reserve" /\ pc' = [pc EXCEPT ![p] = "idle"]
        /\ UNCHANGED <<producer_pos, consumer_pos, busy, pos, flags, wake, ready, cpc>>
    BY <1>3 DEF ReserveNull
  <2>2. AvailData' = AvailData  BY <2>1 DEF AvailData
  <2>3. ASSUME NEW r \in Probes, WakeComing(r) PROVE WakeComing(r)'
    BY <2>1, <2>2, <2>3 DEF WakeComing
  <2>. QED  BY <2>1, <2>3 DEF WakeInv, UniformWakeup
<1>4. ASSUME NEW p \in Probes, QueryFlags(p) PROVE WakeInv'
  <2>1. /\ pc[p] = "fill" /\ pc' = [pc EXCEPT ![p] = "submit"]
        /\ flags' = [flags EXCEPT ![p] = GetFlags(p)]
        /\ UNCHANGED <<producer_pos, consumer_pos, busy, pos, wake, ready, cpc>>
    BY <1>4 DEF QueryFlags
  <2>2. AvailData' = AvailData  BY <2>1 DEF AvailData
  <2>3. ASSUME NEW r \in Probes, WakeComing(r), UniformWakeup PROVE WakeComing(r)'
    <3>1. CASE WakeupSize[r] = 0  BY <2>1, <2>3, <3>1 DEF WakeComing
    <3>2. CASE WakeupSize[r] # 0
      <4>1. WakeupSize[p] = WakeupSize[r]  BY <2>3 DEF UniformWakeup
      <4>2. AvailData < WakeupSize[r] \/ flags'[p] = "force_wakeup"
        BY <1>0, <2>1, <3>2, <4>1 DEF GetFlags
      <4>3. /\ pc'[p] = "submit"
            /\ \A q \in Probes : q # p => pc'[q] = pc[q] /\ flags'[q] = flags[q]
        BY <2>1
      <4>. QED  BY <2>1, <2>2, <2>3, <3>2, <4>2, <4>3 DEF WakeComing
    <3>. QED  BY <3>1, <3>2
  <2>4. WakeupSize[p] = 0 => flags'[p] = "adaptive"  BY <2>1 DEF GetFlags
  <2>. QED  BY <2>1, <2>3, <2>4 DEF WakeInv, UniformWakeup
<1>5. ASSUME NEW p \in Probes, Submit(p) PROVE WakeInv'
  <2>1. /\ pc[p] = "submit" /\ pc' = [pc EXCEPT ![p] = "commit"]
        /\ busy' = busy \ {pos[p]}
        /\ UNCHANGED <<producer_pos, consumer_pos, pos, flags, wake, ready, cpc>>
    BY <1>5 DEF Submit
  <2>2. AvailData' = AvailData  BY <2>1 DEF AvailData
  <2>3. /\ pc'[p] = "commit" /\ \A q \in Probes : q # p => pc'[q] = pc[q]
    BY <2>1
  <2>4. ASSUME NEW r \in Probes, WakeComing(r) PROVE WakeComing(r)'
    BY <2>1, <2>2, <2>3, <2>4 DEF WakeComing
  <2>. QED  BY <2>1, <2>3, <2>4 DEF WakeInv, UniformWakeup
<1>6. ASSUME NEW p \in Probes, Commit(p) PROVE WakeInv'
  <2>1. /\ pc[p] = "commit" /\ pc' = [pc EXCEPT ![p] = "idle"]
        /\ wake' = (wake \/ MustWake(p))
        /\ UNCHANGED <<producer_pos, consumer_pos, busy, pos, flags, ready, cpc>>
    BY <1>6 DEF Commit
  <2>2. AvailData' = AvailData  BY <2>1 DEF AvailData
  <2>3. /\ pc'[p] = "idle" /\ \A q \in Probes : q # p => pc'[q] = pc[q]
    BY <2>1
  <2>4. ASSUME NEW r \in Probes, WakeComing(r), UniformWakeup PROVE WakeComing(r)'
    <3>0. WakeupSize[p] = WakeupSize[r]  BY <2>4 DEF UniformWakeup
    <3>1. CASE WakeupSize[r] = 0
      <4>1. flags[p] = "adaptive"  BY <2>1, <3>0, <3>1 DEF WakeInv
      <4>2. pos[p] = consumer_pos => wake'  BY <2>1, <4>1 DEF MustWake
      <4>3. wake => wake'  BY <2>1
      <4>. QED  BY <2>1, <2>3, <2>4, <3>1, <4>2, <4>3 DEF WakeComing
    <3>2. CASE WakeupSize[r] # 0
      <4>1. flags[p] = "force_wakeup" => wake'  BY <2>1 DEF MustWake
      <4>2. wake => wake'  BY <2>1
      <4>. QED  BY <2>1, <2>2, <2>3, <2>4, <3>2, <4>1, <4>2 DEF WakeComing
    <3>. QED  BY <3>1, <3>2
  <2>. QED  BY <2>1, <2>3, <2>4 DEF WakeInv, UniformWakeup
<1>7. CASE IrqWork
  <2>1. ready' \/ cpc' = "closed"  BY <1>7 DEF IrqWork
  <2>. QED  BY <1>7, <2>1 DEF IrqWork, WakeInv
<1>8. ASSUME RbOpen \/ EpollRemoves PROVE WakeInv'
  <2>1. /\ ready' \/ AvailData = 0
        /\ UNCHANGED <<producer_pos, consumer_pos, busy, pc, pos, flags, wake>>
    <3>1. CASE RbOpen
      <4>1. AvailData > 0 \/ AvailData = 0  BY <1>0
      <4>2. AvailData > 0 => ready'  BY <3>1 DEF RbOpen
      <4>. QED  BY <3>1, <4>1, <4>2 DEF RbOpen
    <3>2. CASE EpollRemoves  BY <3>2 DEF EpollRemoves
    <3>. QED  BY <1>8, <3>1, <3>2
  <2>2. AvailData' = AvailData  BY <2>1 DEF AvailData
  <2>3. cpc' # "process"  BY <1>8 DEF RbOpen, EpollRemoves
  <2>4. ASSUME NEW r \in Probes, ~ready' PROVE WakeComing(r)'
    <3>1. AvailData' = 0 /\ consumer_pos' = producer_pos'  BY <1>0, <2>1, <2>2, <2>4
    <3>2. WakeupSize[r] = 0 \/ WakeupSize[r] > 0  OBVIOUS
    <3>. QED  BY <3>1, <3>2 DEF WakeComing
  <2>. QED  BY <2>1, <2>3, <2>4 DEF WakeInv, UniformWakeup
<1>9. ASSUME CopyEvent \/ CopyEventFull PROVE WakeInv'
  <2>1. cpc = "process" /\ UNCHANGED <<pc, flags, ready>>
    BY <1>9 DEF CopyEvent, CopyEventFull
  <2>. QED  BY <2>1 DEF WakeInv
<1>10. ASSUME RbClose \/ ConsumerDies PROVE WakeInv'
  <2>1. cpc' = "closed" /\ UNCHANGED <<pc, flags>>
    BY <1>10 DEF RbClose, ConsumerDies
  <2>. QED  BY <2>1 DEF WakeInv
<1>11. ASSUME RbPollInto \/ EpollReports \/ EpollTimeout \/ ProcessStops \/ HandleBatch
              \/ UNCHANGED vars
       PROVE  WakeInv'
  <2>1. /\ UNCHANGED <<producer_pos, consumer_pos, busy, pc, pos, flags, wake, ready>>
        /\ (cpc' = "closed") = (cpc = "closed")
    BY <1>11 DEF RbPollInto, EpollReports, EpollTimeout, ProcessStops, HandleBatch, vars
  <2>2. cpc' = "process" => ready'
    BY <1>11 DEF RbPollInto, EpollReports, EpollTimeout, ProcessStops, HandleBatch, vars, WakeInv
  <2>3. AvailData' = AvailData  BY <2>1 DEF AvailData
  <2>4. ASSUME NEW r \in Probes, WakeComing(r) PROVE WakeComing(r)'
    BY <2>1, <2>3, <2>4 DEF WakeComing
  <2>. QED  BY <2>1, <2>2, <2>4 DEF WakeInv, UniformWakeup
<1>. QED  BY <1>1, <1>2, <1>3, <1>4, <1>5, <1>6, <1>7, <1>8, <1>9, <1>10, <1>11
          DEF Next, Probe, Poll

\* No lost wakeup: when all tools run with the same -w, a consumer asleep in
\* epoll_wait with no wakeup pending leaves less than that size in the ring,
\* and nothing at all when the size is 0.
THEOREM WakeupCorrect == Spec => [](UniformWakeup => WakeupBound)
<1>1. Init => HoldersInv /\ WakeInv
  BY DEF Init, HoldersInv, Holds, WakeInv
<1>2. TypeOK /\ HoldersInv /\ WakeInv => (UniformWakeup => WakeupBound)
  <2>. SUFFICES ASSUME TypeOK, HoldersInv, WakeInv, UniformWakeup, Asleep, NEW r \in Probes
                PROVE  AvailData < (IF WakeupSize[r] = 0 THEN 1 ELSE WakeupSize[r])
    BY DEF WakeupBound
  <2>1. WakeComing(r)  BY DEF WakeInv, Asleep
  <2>2. busy = {}  BY DEF HoldersInv, Holds, Asleep
  <2>3. \A p \in Probes : pc[p] = "idle" /\ ~wake  BY DEF Asleep
  <2>4. CASE WakeupSize[r] = 0
    <3>1. consumer_pos = producer_pos  BY <2>1, <2>2, <2>3, <2>4 DEF WakeComing
    <3>. QED  BY <2>4, <3>1, AvailEmpty
  <2>5. CASE WakeupSize[r] # 0
    BY <2>1, <2>3, <2>5 DEF WakeComing
  <2>. QED  BY <2>4, <2>5
<1>. QED  BY <1>1, <1>2, TypeCorrect, HoldersStep, WakeStep, PTL DEF Spec

-----------------------------------------------------------------------------
\* The same argument for the tool that wrote last, without any assumption on
\* the wakeup sizes of the others: a later record of another tool makes that
\* tool the last writer.
LEMMA OwnStep == TypeOK /\ HoldersInv /\ WakeInv /\ OwnInv /\ [Next]_vars => OwnInv'
<1>. SUFFICES ASSUME TypeOK, HoldersInv, WakeInv, OwnInv, [Next]_vars PROVE OwnInv'
  OBVIOUS
<1>. USE ConstantsAssumption DEF TypeOK, ringVars, probeVars, consumerVars
<1>0. AvailData \in Nat /\ (AvailData = 0 <=> consumer_pos = producer_pos)
  BY AvailEmpty
<1>1. ASSUME NEW q \in Probes, Request(q) PROVE OwnInv'
  <2>1. /\ pc[q] = "idle" /\ \A p \in Probes : p # q => pc'[p] = pc[p] /\ flags'[p] = flags[p]
        /\ UNCHANGED <<producer_pos, consumer_pos, pos, wake, ready, cpc>>
    BY <1>1 DEF Request
  <2>2. AvailData' = AvailData  BY <2>1 DEF AvailData
  <2>3. ASSUME NEW p \in Probes, OwnWakeComing(p) PROVE OwnWakeComing(p)'
    BY <2>1, <2>2, <2>3 DEF OwnWakeComing
  <2>. QED  BY <2>1, <2>3 DEF OwnInv, LastWriter
<1>2. ASSUME NEW q \in Probes, Reserve(q) PROVE OwnInv'
  <2>1. /\ pos' = [pos EXCEPT ![q] = producer_pos] /\ producer_pos' = producer_pos + 1
        /\ pc'[q] = "fill"
    BY <1>2 DEF Reserve
  <2>2. OwnWakeComing(q)'  BY <2>1 DEF OwnWakeComing
  <2>3. \A p \in Probes : p # q => pos'[p] < producer_pos' - 1  BY <2>1 DEF OwnInv
  <2>4. pos'[q] = producer_pos' - 1  BY <2>1
  <2>5. \A p \in Probes : pos'[p] < producer_pos'
    <3>1. \A p \in Probes : pos'[p] = IF p = q THEN producer_pos ELSE pos[p]  BY <2>1
    <3>2. \A p \in Probes : pos[p] \in Int /\ pos[p] < producer_pos  BY DEF OwnInv
    <3>. QED  BY <2>1, <3>1, <3>2
  <2>6. \A p \in Probes : LastWriter(p)' => p = q  BY <2>1, <2>3 DEF LastWriter
  <2>7. LastWriter(q)'  BY <2>1, <2>4 DEF LastWriter
  <2>. QED  BY <2>2, <2>5, <2>6, <2>7 DEF OwnInv
<1>3. ASSUME NEW q \in Probes, ReserveNull(q) PROVE OwnInv'
  <2>1. /\ pc[q] = "reserve" /\ \A p \in Probes : p # q => pc'[p] = pc[p]
        /\ UNCHANGED <<producer_pos, consumer_pos, pos, flags, wake, ready, cpc>>
    BY <1>3 DEF ReserveNull
  <2>2. AvailData' = AvailData  BY <2>1 DEF AvailData
  <2>3. ASSUME NEW p \in Probes, OwnWakeComing(p) PROVE OwnWakeComing(p)'
    BY <2>1, <2>2, <2>3 DEF OwnWakeComing
  <2>. QED  BY <2>1, <2>3 DEF OwnInv, LastWriter
<1>4. ASSUME NEW q \in Probes, QueryFlags(q) PROVE OwnInv'
  <2>1. /\ pc'[q] = "submit" /\ flags'[q] = GetFlags(q)
        /\ \A p \in Probes : p # q => pc'[p] = pc[p] /\ flags'[p] = flags[p]
        /\ UNCHANGED <<producer_pos, consumer_pos, pos, wake, ready, cpc>>
    BY <1>4 DEF QueryFlags
  <2>2. AvailData' = AvailData  BY <2>1 DEF AvailData
  <2>3. ASSUME NEW p \in Probes, WakeupSize[p] # 0, OwnWakeComing(p) PROVE OwnWakeComing(p)'
    <3>1. CASE p # q  BY <2>1, <2>2, <2>3, <3>1 DEF OwnWakeComing
    <3>2. CASE p = q
      <4>1. AvailData < WakeupSize[q] \/ flags'[q] = "force_wakeup"
        BY <1>0, <2>1, <2>3, <3>2 DEF GetFlags
      <4>. QED  BY <2>1, <2>2, <3>2, <4>1 DEF OwnWakeComing
    <3>. QED  BY <3>1, <3>2
  <2>. QED  BY <2>1, <2>3 DEF OwnInv, LastWriter
<1>5. ASSUME NEW q \in Probes, Submit(q) PROVE OwnInv'
  <2>1. /\ pc[q] = "submit" /\ pc'[q] = "commit" /\ \A p \in Probes : p # q => pc'[p] = pc[p]
        /\ UNCHANGED <<producer_pos, consumer_pos, pos, flags, wake, ready, cpc>>
    BY <1>5 DEF Submit
  <2>2. AvailData' = AvailData  BY <2>1 DEF AvailData
  <2>3. ASSUME NEW p \in Probes, OwnWakeComing(p) PROVE OwnWakeComing(p)'
    BY <2>1, <2>2, <2>3 DEF OwnWakeComing
  <2>. QED  BY <2>1, <2>3 DEF OwnInv, LastWriter
<1>6. ASSUME NEW q \in Probes, Commit(q) PROVE OwnInv'
  <2>1. /\ pc[q] = "commit" /\ \A p \in Probes : p # q => pc'[p] = pc[p]
        /\ UNCHANGED <<producer_pos, consumer_pos, pos, flags, ready, cpc>>
    BY <1>6 DEF Commit
  <2>2. wake => wake'  BY <1>6 DEF Commit
  <2>3. flags[q] = "force_wakeup" => wake'  BY <1>6 DEF Commit, MustWake
  <2>4. AvailData' = AvailData  BY <2>1 DEF AvailData
  <2>5. ASSUME NEW p \in Probes, OwnWakeComing(p) PROVE OwnWakeComing(p)'
    BY <2>1, <2>2, <2>3, <2>4, <2>5 DEF OwnWakeComing
  <2>. QED  BY <2>1, <2>5 DEF OwnInv, LastWriter
<1>7. CASE IrqWork
  <2>1. UNCHANGED <<producer_pos, pos, cpc>> /\ (ready' \/ cpc' = "closed")
    BY <1>7 DEF IrqWork
  <2>. QED  BY <2>1 DEF OwnInv, LastWriter
<1>8. ASSUME RbOpen \/ EpollRemoves PROVE OwnInv'
  <2>1. UNCHANGED <<producer_pos, consumer_pos, pos>>
    BY <1>8 DEF RbOpen, EpollRemoves
  <2>2. ready' \/ AvailData = 0
    <3>1. CASE RbOpen
      <4>1. AvailData > 0 => ready'  BY <3>1 DEF RbOpen
      <4>. QED  BY <1>0, <4>1
    <3>2. CASE EpollRemoves  BY <3>2 DEF EpollRemoves
    <3>. QED  BY <1>8, <3>1, <3>2
  <2>3. AvailData' = AvailData  BY <2>1 DEF AvailData
  <2>4. ASSUME NEW p \in Probes, WakeupSize[p] # 0, ~ready' PROVE OwnWakeComing(p)'
    BY <2>2, <2>3, <2>4 DEF OwnWakeComing
  <2>. QED  BY <2>1, <2>4 DEF OwnInv, LastWriter
<1>9. ASSUME CopyEvent \/ CopyEventFull PROVE OwnInv'
  <2>1. cpc = "process" /\ UNCHANGED <<producer_pos, pos, ready>>
    BY <1>9 DEF CopyEvent, CopyEventFull
  <2>. QED  BY <2>1 DEF OwnInv, WakeInv, LastWriter
<1>10. ASSUME RbClose \/ ConsumerDies PROVE OwnInv'
  <2>1. cpc' = "closed" /\ UNCHANGED <<producer_pos, pos>>
    BY <1>10 DEF RbClose, ConsumerDies
  <2>. QED  BY <2>1 DEF OwnInv, LastWriter
<1>11. ASSUME RbPollInto \/ EpollReports \/ EpollTimeout \/ ProcessStops \/ HandleBatch
              \/ UNCHANGED vars
       PROVE  OwnInv'
  <2>1. /\ UNCHANGED <<producer_pos, consumer_pos, pc, pos, flags, wake, ready>>
        /\ (cpc' = "closed") = (cpc = "closed")
    BY <1>11 DEF RbPollInto, EpollReports, EpollTimeout, ProcessStops, HandleBatch, vars
  <2>2. AvailData' = AvailData  BY <2>1 DEF AvailData
  <2>3. ASSUME NEW p \in Probes, OwnWakeComing(p) PROVE OwnWakeComing(p)'
    BY <2>1, <2>2, <2>3 DEF OwnWakeComing
  <2>. QED  BY <2>1, <2>3 DEF OwnInv, LastWriter
<1>. QED  BY <1>1, <1>2, <1>3, <1>4, <1>5, <1>6, <1>7, <1>8, <1>9, <1>10, <1>11
          DEF Next, Probe, Poll

WakeIInv == TypeOK /\ HoldersInv /\ WakeInv /\ OwnInv

\* The wakeup invariant holds whatever wakeup sizes the tools were given.
LEMMA WakeInvariant == Spec => []WakeIInv
<1>1. Init => HoldersInv /\ WakeInv
  BY DEF Init, HoldersInv, Holds, WakeInv
<1>2. Init => OwnInv
  BY DEF Init, OwnInv
<1>3. Init => WakeIInv
  BY <1>1, <1>2, InitTypeOK DEF WakeIInv
<1>4. WakeIInv /\ [Next]_vars => WakeIInv'
  BY TypeStep, HoldersStep, WakeStep, OwnStep DEF WakeIInv
<1>. QED  BY <1>3, <1>4, PTL DEF Spec

\* A tool's own -w bounds what it leaves to a sleeping consumer, for any mixture
\* of wakeup sizes on the shared ring.
THEOREM OwnThresholdCorrect == Spec => []OwnThreshold
<1>1. WakeIInv => OwnThreshold
  BY DEF WakeIInv, OwnInv, OwnThreshold, OwnWakeComing, Asleep
<1>. QED  BY <1>1, WakeInvariant, PTL

\* A ring that is full has at least one record, and leaves no room for a size
\* that fits the ring.
LEMMA FullRing ==
    ASSUME TypeOK, HoldersInv, RingFull, WakeupFits
    PROVE  /\ consumer_pos # producer_pos /\ producer_pos > 0
           /\ \A p \in Probes : ~(AvailData < WakeupSize[p])
<1>. USE ConstantsAssumption DEF TypeOK
<1>. DEFINE n == producer_pos - consumer_pos
<1>1. n \in Nat /\ (n = 0 <=> consumer_pos = producer_pos) /\ producer_pos >= n
  BY DEF HoldersInv
<1>2. \A k \in Nat : (k + 1) * RecSize = k * RecSize + RecSize /\ k * RecSize \in Nat
  OBVIOUS
<1>3. producer_pos + 1 - consumer_pos = n + 1  OBVIOUS
<1>4. (n + 1) * RecSize > RingBytes - 1  BY <1>3 DEF RingFull
<1>5. AvailData = n * RecSize  BY DEF AvailData
<1>. HIDE DEF n
<1>6. n * RecSize \in Nat /\ n * RecSize + RecSize > RingBytes - 1
  BY <1>1, <1>2, <1>4
<1>7. n # 0
  <2>1. n = 0 => n * RecSize = 0  OBVIOUS
  <2>. QED  BY <1>6, <2>1 DEF WakeupFits
<1>8. ASSUME NEW p \in Probes PROVE ~(AvailData < WakeupSize[p])
  BY <1>5, <1>6 DEF WakeupFits
<1>. QED  BY <1>1, <1>7, <1>8

\* With sizes that fit the ring, a full ring is left to a sleeping consumer only
\* when tools with and without -w share it.
THEOREM FullRingCorrect == Spec => []FullRingWakes
<1>1. WakeIInv => FullRingWakes
  <2>. SUFFICES ASSUME WakeIInv, WakeupFits, DeafRing
                PROVE  \E p, q \in Probes : WakeupSize[p] = 0 /\ LastWriter(p) /\ WakeupSize[q] # 0
    BY DEF FullRingWakes
  <2>. USE DEF WakeIInv, DeafRing
  <2>1. /\ consumer_pos # producer_pos /\ producer_pos > 0
        /\ \A p \in Probes : ~(AvailData < WakeupSize[p])
    BY FullRing
  <2>2. PICK p \in Probes : LastWriter(p)
    BY <2>1 DEF OwnInv
  <2>3. WakeupSize[p] = 0
    BY <2>1, <2>2 DEF OwnInv, OwnWakeComing
  <2>4. ASSUME \A q \in Probes : WakeupSize[q] = 0 PROVE FALSE
    <3>1. WakeComing(p)
      BY <2>4 DEF WakeInv, UniformWakeup
    <3>2. busy = {}
      BY DEF HoldersInv, Holds
    <3>. QED  BY <2>1, <2>3, <3>1, <3>2 DEF WakeComing
  <2>. QED  BY <2>2, <2>3, <2>4
<1>. QED  BY <1>1, WakeInvariant, PTL

-----------------------------------------------------------------------------
\* As long as the snoop tools run without -w, an event is dropped at reserve only
\* because the ring is full: reserve is never handed a flag.
THEOREM DropsCorrect == SnoopsAdaptive => (Spec => DropsOnlyWhenFull)
<1>. SUFFICES ASSUME SnoopsAdaptive PROVE Spec => DropsOnlyWhenFull
  OBVIOUS
<1>1. Init => ReserveInv
  BY DEF Init, ReserveInv
<1>2. TypeOK /\ ReserveInv /\ [Next]_vars => ReserveInv'
  <2>. SUFFICES ASSUME TypeOK, ReserveInv, [Next]_vars PROVE ReserveInv'
    OBVIOUS
  <2>. USE DEF TypeOK, ringVars, probeVars, consumerVars
  <2>1. ASSUME NEW p \in Probes, Request(p) PROVE ReserveInv'
    <3>1. p \in Snoops => GetFlags(p) = "adaptive"  BY DEF GetFlags, SnoopsAdaptive
    <3>. QED  BY <2>1, <3>1 DEF Request, ReserveInv
  <2>2. ASSUME NEW p \in Probes, Probe(p) PROVE ReserveInv'
    BY <2>2 DEF Probe, Reserve, ReserveNull, QueryFlags, Submit, Commit, ReserveInv
  <2>3. ASSUME UNCHANGED <<pc, flags>> PROVE ReserveInv'
    BY <2>3 DEF ReserveInv
  <2>4. IrqWork \/ Poll \/ RbClose \/ ConsumerDies \/ UNCHANGED vars => UNCHANGED <<pc, flags>>
    BY DEF IrqWork, Poll, RbOpen, RbPollInto, EpollReports, EpollRemoves, EpollTimeout,
           CopyEvent, CopyEventFull, ProcessStops, HandleBatch, RbClose, ConsumerDies, vars
  <2>. QED  BY <2>1, <2>2, <2>3, <2>4 DEF Next
<1>3. TypeOK /\ ReserveInv /\ [Next]_vars
      => [\A p \in Probes : pc[p] = "reserve" /\ pc'[p] = "idle" => RingFull]_vars
  <2>. SUFFICES ASSUME TypeOK, ReserveInv, Next, NEW p \in Probes, pc[p] = "reserve", pc'[p] = "idle"
                PROVE  RingFull
    OBVIOUS
  <2>. USE DEF TypeOK, ringVars, probeVars, consumerVars
  <2>1. ASSUME NEW q \in Probes, ReserveNull(q) PROVE RingFull
    <3>1. pc[q] = "reserve" /\ ReserveFails(q)  BY <2>1 DEF ReserveNull
    <3>. QED  BY <3>1 DEF ReserveFails, ReserveInv
  <2>2. ASSUME NEW q \in Probes, Request(q) \/ Reserve(q) \/ QueryFlags(q) \/ Submit(q) \/ Commit(q)
        PROVE  FALSE
    BY <2>2 DEF Request, Reserve, QueryFlags, Submit, Commit
  <2>3. IrqWork \/ Poll \/ RbClose \/ ConsumerDies => pc' = pc
    BY DEF IrqWork, Poll, RbOpen, RbPollInto, EpollReports, EpollRemoves, EpollTimeout,
           CopyEvent, CopyEventFull, ProcessStops, HandleBatch, RbClose, ConsumerDies
  <2>. QED  BY <2>1, <2>2, <2>3 DEF Next, Probe
<1>. QED  BY <1>1, <1>2, <1>3, TypeCorrect, PTL DEF Spec, DropsOnlyWhenFull
=============================================================================
