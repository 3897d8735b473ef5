------------------------- MODULE AodLifecycle_proofs -------------------------
(***************************************************************************)
(* Proofs about AodLifecycle, for any number of loaders, rings, records    *)
(* and consumers. The inductive invariant is                               *)
(*   TypeOK /\ PlacedInv /\ SharedRing /\ CalledInv /\ NothingSkipped      *)
(* and, on top of it, OInv for the order of the lines: what is printed     *)
(* twice, or will be, is paid for by a consumer that died.                 *)
(***************************************************************************)
EXTENDS AodLifecycle, FiniteSetTheorems, TLAPS

IInv == TypeOK /\ PlacedInv /\ SharedRing /\ CalledInv /\ NothingSkipped

\* Nobody is started and nothing is printed in the initial state.
LEMMA LifecycleInit == Init => IInv
<1> SUFFICES ASSUME Init PROVE IInv
    OBVIOUS
<1> USE LifecycleAssumption DEF Init, Off, Rings
<1>1. TypeOK
    BY DEF TypeOK, Party
<1>2. PlacedInv
    BY DEF PlacedInv, Placed
<1>3. SharedRing
    BY DEF SharedRing
<1>4. CalledInv
    BY DEF CalledInv
<1>5. NothingSkipped
    BY DEF NothingSkipped, Printed
<1> QED BY <1>1, <1>2, <1>3, <1>4, <1>5 DEF IInv

\* What is printed stays printed when a line is added (handle_event).
LEMMA PrintedGrows ==
    ASSUME printed \in Seq(Rings \X Nat), NEW e \in Rings \X Nat, printed' = Append(printed, e)
    PROVE  /\ \A r, i : Printed(r, i) => Printed(r, i)'
           /\ \A r, i : e = <<r, i>> => Printed(r, i)'
           /\ printed' \in Seq(Rings \X Nat)
<1>1. DOMAIN printed = 1 .. Len(printed) /\ DOMAIN printed' = 1 .. (Len(printed) + 1) /\ Len(printed) \in Nat
    OBVIOUS
<1>2. \A j \in 1 .. Len(printed) : printed'[j] = printed[j]
    OBVIOUS
<1>3. printed'[Len(printed) + 1] = e
    OBVIOUS
<1>4. ASSUME NEW r, NEW i, Printed(r, i) PROVE Printed(r, i)'
    <2>1. PICK j \in DOMAIN printed : printed[j] = <<r, i>>
        BY <1>4 DEF Printed
    <2>2. j \in DOMAIN printed' /\ printed'[j] = <<r, i>>
        BY <2>1, <1>1, <1>2
    <2> QED BY <2>2 DEF Printed
<1>5. ASSUME NEW r, NEW i, e = <<r, i>> PROVE Printed(r, i)'
    <2>1. Len(printed) + 1 \in DOMAIN printed'
        BY <1>1
    <2> QED BY <2>1, <1>3, <1>5 DEF Printed
<1> QED BY <1>4, <1>5

\* If two states agree on the parties, the pin and the epoch, and parties that are
\* new in the second carry the current pin, sharing is kept.
LEMMA SharedStep ==
    ASSUME PlacedInv, SharedRing, epoch' = epoch, pin \in Nat,
           pin' = pin \/ pin = 0,
           \A l \in Loaders : \/ loader'[l].pc = "off"
                              \/ loader'[l].ring = loader[l].ring /\ loader'[l].epoch = loader[l].epoch
                                   /\ loader[l].pc # "off"
                              \/ loader'[l].ring = pin' /\ loader'[l].epoch = epoch /\ pin' \in Rings,
           \/ consumer'.pc = "off"
           \/ consumer'.ring = consumer.ring /\ consumer'.epoch = consumer.epoch /\ consumer.pc # "off"
           \/ consumer'.ring = pin' /\ consumer'.epoch = epoch /\ pin' \in Rings,
           epoch \in Nat
    PROVE  PlacedInv' /\ SharedRing'
<1>1. ASSUME NEW a, a.pc # "off", Placed(a)
      PROVE  a.ring \in Rings /\ a.epoch <= epoch' /\ (a.epoch = epoch' => a.ring = pin')
    BY <1>1 DEF Placed, Rings
<1>2. ASSUME NEW l \in Loaders PROVE Placed(loader[l])'
    BY <1>1, <1>2 DEF PlacedInv, Placed
<1>3. Placed(consumer)'
    BY <1>1 DEF PlacedInv, Placed
<1>4. PlacedInv'
    BY <1>2, <1>3 DEF PlacedInv
<1> DEFINE Old(a) == \/ \E l \in Loaders : a.ring = loader[l].ring /\ a.epoch = loader[l].epoch /\ loader[l].pc # "off"
                     \/ a.ring = consumer.ring /\ a.epoch = consumer.epoch /\ consumer.pc # "off"
           New(a) == a.ring = pin' /\ a.epoch = epoch
           Party1 == {loader'[l] : l \in Loaders} \cup {consumer'}
<1>5. ASSUME NEW a \in Party1, a.pc # "off" PROVE Old(a) \/ New(a)
    BY <1>5
<1>6. ASSUME NEW a, Old(a), a.epoch = epoch PROVE a.ring = pin'
    BY <1>6, <1>1 DEF PlacedInv
<1>7. ASSUME NEW a, NEW b, Old(a), Old(b), a.epoch = b.epoch PROVE a.ring = b.ring
    BY <1>7 DEF SharedRing
<1>8. ASSUME NEW a \in Party1, NEW b \in Party1, a.pc # "off", b.pc # "off", a.epoch = b.epoch
      PROVE  a.ring = b.ring
    <2> HIDE DEF Old, Party1
    <2>1. (Old(a) \/ New(a)) /\ (Old(b) \/ New(b))
        BY <1>5, <1>8
    <2> QED BY <2>1, <1>6, <1>7, <1>8
<1>9. SharedRing'
    BY <1>8 DEF SharedRing
<1> QED BY <1>4, <1>9

\* One step of anybody.
LEMMA LifecycleStep == IInv /\ [Next]_vars => IInv'
<1> SUFFICES ASSUME IInv, [Next]_vars PROVE IInv'
    OBVIOUS
<1> USE LifecycleAssumption
<1>0. TypeOK /\ PlacedInv /\ SharedRing /\ CalledInv /\ NothingSkipped
    BY DEF IInv
<1>t. pin \in Nat /\ epoch \in Nat /\ created \in Nat /\ (pin # 0 => pin \in Rings)
    BY <1>0 DEF TypeOK, Rings
<1>1. CASE UNCHANGED vars
    BY <1>0, <1>1 DEF vars, IInv, TypeOK, PlacedInv, Placed, SharedRing, CalledInv, NothingSkipped, Printed
<1>2. ASSUME NEW l \in Loaders, LoaderLoad(l) PROVE IInv'
    <2>1. pin' \in Rings /\ created' \in 0 .. MaxRings /\ pin' \in 0 .. created' /\ (pin' = pin \/ pin = 0)
        BY <1>0, <1>t, <1>2, SMTT(40) DEF LoaderLoad, TypeOK, Rings
    <2>2. loader' = [loader EXCEPT ![l] = [pc |-> "loaded", ring |-> pin', epoch |-> epoch]]
          /\ UNCHANGED <<records, pos, consumer, printed, epoch, starts, deaths>>
        BY <1>2 DEF LoaderLoad
    <2>3. TypeOK'
        BY <1>0, <2>1, <2>2 DEF TypeOK, Party
    <2>4. PlacedInv' /\ SharedRing'
        <3>1. \A m \in Loaders : IF m = l THEN loader'[m] = [pc |-> "loaded", ring |-> pin', epoch |-> epoch]
                                          ELSE loader'[m] = loader[m]
            BY <1>0, <2>2 DEF TypeOK
        <3> QED BY <1>0, <1>t, <2>1, <2>2, <3>1, SharedStep
    <2>5. CalledInv' /\ NothingSkipped'
        BY <1>0, <2>2 DEF CalledInv, NothingSkipped, Printed
    <2> QED BY <2>3, <2>4, <2>5 DEF IInv
<1>3. ASSUME NEW l \in Loaders, LoaderAttach(l) \/ LoaderExit(l) PROVE IInv'
    <2>1. UNCHANGED <<pin, created, records, pos, consumer, printed, epoch, starts, deaths>>
        BY <1>3 DEF LoaderAttach, LoaderExit
    <2> DEFINE P == Party({"off", "loaded", "attached"})
    <2>a. loader \in [Loaders -> P] /\ loader[l] \in P /\ Off \in P /\ Off.pc = "off"
        BY <1>0 DEF TypeOK, Party, Off
    <2>b. PICK x \in P : /\ loader' = [loader EXCEPT ![l] = x]
                         /\ \/ x.pc = "off"
                            \/ x.ring = loader[l].ring /\ x.epoch = loader[l].epoch /\ loader[l].pc # "off"
        <3>1. CASE LoaderAttach(l)
            <4>1. [loader[l] EXCEPT !.pc = "attached"] \in P
                BY <2>a DEF Party
            <4>2. loader' = [loader EXCEPT ![l] = [loader[l] EXCEPT !.pc = "attached"]] /\ loader[l].pc = "loaded"
                BY <3>1 DEF LoaderAttach
            <4>3. [loader[l] EXCEPT !.pc = "attached"].ring = loader[l].ring
                  /\ [loader[l] EXCEPT !.pc = "attached"].epoch = loader[l].epoch
                BY <2>a DEF Party
            <4> QED BY <4>1, <4>2, <4>3
        <3>2. CASE LoaderExit(l)
            BY <2>a, <3>2 DEF LoaderExit
        <3> QED BY <1>3, <3>1, <3>2
    <2>c. loader' \in [Loaders -> P] /\ \A m \in Loaders : loader'[m] = IF m = l THEN x ELSE loader[m]
        BY <2>a, <2>b
    <2>2. \A m \in Loaders : \/ loader'[m].pc = "off"
                             \/ /\ loader'[m].ring = loader[m].ring /\ loader'[m].epoch = loader[m].epoch
                                /\ loader[m].pc # "off"
        BY <2>b, <2>c
    <2>3. TypeOK'
        BY <1>0, <2>1, <2>c DEF TypeOK
    <2>4. PlacedInv' /\ SharedRing'
        BY <1>0, <1>t, <2>1, <2>2, SharedStep
    <2>5. CalledInv' /\ NothingSkipped'
        BY <1>0, <2>1 DEF CalledInv, NothingSkipped, Printed
    <2> QED BY <2>3, <2>4, <2>5 DEF IInv
<1>4. ASSUME NEW l \in Loaders, Emit(l) PROVE IInv'
    <2>1. UNCHANGED <<pin, created, loader, pos, consumer, printed, epoch, starts, deaths>>
        BY <1>4 DEF Emit
    <2>2. loader[l].ring \in Rings
        BY <1>0, <1>4 DEF Emit, PlacedInv, Placed
    <2>3. records' \in [Rings -> Seq(Loaders)] /\ \A r \in Rings : Len(records[r]) <= Len(records'[r])
        BY <1>0, <1>4, <2>2 DEF Emit, TypeOK
    <2>3a. \A r \in Rings : Len(records[r]) \in Nat /\ Len(records'[r]) \in Nat /\ pos[r] \in Nat
        BY <1>0, <2>3 DEF TypeOK
    <2>4. TypeOK'
        BY <1>0, <2>1, <2>3, <2>3a DEF TypeOK, Party
    <2>5. PlacedInv' /\ SharedRing' /\ NothingSkipped'
        BY <1>0, <2>1 DEF PlacedInv, Placed, SharedRing, NothingSkipped, Printed
    <2>6. CalledInv'
        BY <1>0, <2>1, <2>3, <2>3a DEF CalledInv, PlacedInv, Placed, Printed
    <2> QED BY <2>4, <2>5, <2>6 DEF IInv
<1>5. CASE ConsumerOpen \/ ConsumerExit \/ ConsumerDies
    <2>1. UNCHANGED <<pin, created, loader, records, pos, printed, epoch>>
        BY <1>5 DEF ConsumerOpen, ConsumerExit, ConsumerDies
    <2>a. consumer' = Off \/ (consumer' = [pc |-> "polling", ring |-> pin, epoch |-> epoch] /\ pin # 0)
        BY <1>5 DEF ConsumerOpen, ConsumerExit, ConsumerDies
    <2>b. consumer' \in Party({"off", "polling", "called"}) /\ consumer'.pc # "called"
        BY <1>t, <2>a DEF Party, Off
    <2>c. starts' \in Nat /\ deaths' \in Nat
        BY <1>0, <1>5 DEF ConsumerOpen, ConsumerExit, ConsumerDies, TypeOK
    <2>2. TypeOK' /\ consumer'.pc # "called"
        BY <1>0, <2>1, <2>b, <2>c DEF TypeOK
    <2>3. consumer'.pc = "off" \/ (consumer'.ring = pin' /\ consumer'.epoch = epoch /\ pin' \in Rings)
        BY <1>5, <1>t, <2>1 DEF ConsumerOpen, ConsumerExit, ConsumerDies, Off
    <2>4. \A l \in Loaders : \/ loader'[l].pc = "off"
                             \/ loader'[l].ring = loader[l].ring /\ loader'[l].epoch = loader[l].epoch
                                  /\ loader[l].pc # "off"
        BY <2>1
    <2>5. PlacedInv' /\ SharedRing'
        BY <1>0, <1>t, <2>1, <2>3, <2>4, SharedStep
    <2>6. CalledInv' /\ NothingSkipped'
        BY <1>0, <2>1, <2>2 DEF CalledInv, NothingSkipped, Printed
    <2> QED BY <2>2, <2>5, <2>6 DEF IInv
<1>6. CASE handle_event
    <2>1. UNCHANGED <<pin, created, loader, records, pos, epoch, starts, deaths>>
          /\ consumer.pc = "polling" /\ consumer' = [consumer EXCEPT !.pc = "called"]
          /\ pos[consumer.ring] < Len(records[consumer.ring])
          /\ printed' = Append(printed, <<consumer.ring, pos[consumer.ring] + 1>>)
        BY <1>6 DEF handle_event
    <2>2. consumer.ring \in Rings
        BY <1>0, <2>1 DEF PlacedInv, Placed
    <2>3. <<consumer.ring, pos[consumer.ring] + 1>> \in Rings \X Nat /\ printed \in Seq(Rings \X Nat)
        BY <1>0, <2>2 DEF TypeOK
    <2>4. /\ \A r, i : Printed(r, i) => Printed(r, i)'
          /\ \A r, i : <<consumer.ring, pos[consumer.ring] + 1>> = <<r, i>> => Printed(r, i)'
          /\ printed' \in Seq(Rings \X Nat)
        BY <2>1, <2>3, PrintedGrows
    <2>5. consumer'.pc = "called" /\ consumer'.ring = consumer.ring /\ consumer'.epoch = consumer.epoch
          /\ consumer' \in Party({"off", "polling", "called"})
        BY <1>0, <2>1 DEF TypeOK, Party
    <2>6. TypeOK'
        BY <1>0, <2>1, <2>4, <2>5 DEF TypeOK
    <2>7. \A l \in Loaders : \/ loader'[l].pc = "off"
                             \/ loader'[l].ring = loader[l].ring /\ loader'[l].epoch = loader[l].epoch
                                  /\ loader[l].pc # "off"
        BY <2>1
    <2>8. PlacedInv' /\ SharedRing'
        BY <1>0, <1>t, <2>1, <2>5, <2>7, SharedStep
    <2>9. CalledInv'
        BY <2>1, <2>4, <2>5 DEF CalledInv
    <2>10. NothingSkipped'
        BY <1>0, <2>1, <2>4 DEF NothingSkipped
    <2> QED BY <2>6, <2>8, <2>9, <2>10 DEF IInv
<1>7. CASE AdvancePosition
    <2>1. UNCHANGED <<pin, created, loader, records, printed, epoch, starts, deaths>>
          /\ consumer.pc = "called" /\ consumer' = [consumer EXCEPT !.pc = "polling"]
          /\ pos' = [pos EXCEPT ![consumer.ring] = @ + 1]
        BY <1>7 DEF AdvancePosition
    <2>2. consumer.ring \in Rings /\ pos[consumer.ring] < Len(records[consumer.ring])
          /\ Printed(consumer.ring, pos[consumer.ring] + 1)
        BY <1>0, <2>1 DEF PlacedInv, Placed, CalledInv
    <2>3. consumer'.pc = "polling" /\ consumer'.ring = consumer.ring /\ consumer'.epoch = consumer.epoch
          /\ consumer' \in Party({"off", "polling", "called"})
        BY <1>0, <2>1 DEF TypeOK, Party
    <2>4. \A r \in Rings : pos[r] \in Nat /\ Len(records[r]) \in Nat /\ pos[r] <= Len(records[r])
        BY <1>0 DEF TypeOK
    <2>5. pos' \in [Rings -> Nat]
          /\ \A r \in Rings : pos'[r] = IF r = consumer.ring THEN pos[r] + 1 ELSE pos[r]
        <3>1. pos \in [Rings -> Nat] /\ pos' = [pos EXCEPT ![consumer.ring] = pos[consumer.ring] + 1]
            BY <1>0, <2>1 DEF TypeOK
        <3>2. pos[consumer.ring] + 1 \in Nat /\ consumer.ring \in Rings
            BY <2>2, <2>4
        <3> QED BY <3>1, <3>2
    <2>6. TypeOK'
        BY <1>0, <2>1, <2>2, <2>3, <2>4, <2>5, SMTT(40) DEF TypeOK
    <2>7. \A l \in Loaders : \/ loader'[l].pc = "off"
                             \/ loader'[l].ring = loader[l].ring /\ loader'[l].epoch = loader[l].epoch
                                  /\ loader[l].pc # "off"
        BY <2>1
    <2>8. PlacedInv' /\ SharedRing'
        BY <1>0, <1>t, <2>1, <2>3, <2>7, SharedStep
    <2>9. ASSUME NEW r \in Rings, NEW i \in 1 .. pos'[r] PROVE Printed(r, i)'
        <3>1. Printed(r, i)
            BY <1>0, <2>2, <2>4, <2>5, <2>9 DEF NothingSkipped
        <3> QED BY <3>1, <2>1 DEF Printed
    <2>10. NothingSkipped' /\ CalledInv'
        BY <2>3, <2>9 DEF NothingSkipped, CalledInv
    <2> QED BY <2>6, <2>8, <2>10 DEF IInv
<1>8. ASSUME NEW tools, Detach(tools) PROVE IInv'
    <2>1. pin' = 0 /\ epoch' = epoch + 1
          /\ UNCHANGED <<created, loader, records, pos, consumer, printed, starts, deaths>>
        BY <1>8 DEF Detach
    <2>2. TypeOK'
        BY <1>0, <2>1 DEF TypeOK, Party
    <2>3. PlacedInv'
        <3>1. \A n \in Nat : n <= epoch => n <= epoch + 1 /\ n # epoch + 1
            BY <1>t
        <3>2. (\A l \in Loaders : loader[l].epoch \in Nat) /\ consumer.epoch \in Nat
            BY <1>0 DEF TypeOK, Party
        <3>3. ASSUME NEW a, a.epoch \in Nat, Placed(a)
              PROVE  a.pc # "off" => a.ring \in Rings /\ a.epoch <= epoch' /\ a.epoch # epoch'
            BY <2>1, <3>1, <3>3 DEF Placed
        <3>4. \A l \in Loaders : Placed(loader[l])'
            BY <1>0, <2>1, <3>2, <3>3 DEF PlacedInv, Placed
        <3>5. Placed(consumer)'
            BY <1>0, <2>1, <3>2, <3>3 DEF PlacedInv, Placed
        <3> QED BY <3>4, <3>5 DEF PlacedInv
    <2>4. SharedRing' /\ CalledInv' /\ NothingSkipped'
        BY <1>0, <2>1 DEF SharedRing, CalledInv, NothingSkipped, Printed
    <2> QED BY <2>2, <2>3, <2>4 DEF IInv
<1> QED BY <1>1, <1>2, <1>3, <1>4, <1>5, <1>6, <1>7, <1>8 DEF Next

\* The variables keep their types, and a ring's consumer position never passes its records.
THEOREM LifecycleTypeCorrect == Spec => []TypeOK
BY LifecycleInit, LifecycleStep, PTL DEF Spec, IInv

\* Whoever loads or opens between the same two detaches uses one ring, for any number
\* of loaders, rings and restarts (LIBBPF_PIN_BY_NAME and bpf_obj_get).
THEOREM SharedRingCorrect == Spec => []SharedRing
BY LifecycleInit, LifecycleStep, PTL DEF Spec, IInv

\* sample_consumer.py skips no record, however often it is killed and started again.
THEOREM NothingSkippedCorrect == Spec => []NothingSkipped
BY LifecycleInit, LifecycleStep, PTL DEF Spec, IInv

(***************************************************************************)
(* The order of the lines, and what is printed twice                       *)
(***************************************************************************)

\* Line j is the last one of its ring.
Last(j) == \A m \in DOMAIN printed : printed[m][1] = printed[j][1] => m <= j

\* The last line of a ring is the record before the consumer position or the one at it;
\* inside the callback it is the one at the position.
LastInv ==
    \A j \in DOMAIN printed :
      LET r == printed[j][1]
      IN  /\ printed[j][2] <= pos[r] + 1
          /\ Last(j) => printed[j][2] \in {pos[r], pos[r] + 1}
          /\ Last(j) /\ consumer.pc = "called" /\ consumer.ring = r => printed[j][2] = pos[r] + 1

\* The rings whose next record is out already, because a consumer died.
Pending == {r \in Rings : Printed(r, pos[r] + 1) /\ ~(consumer.pc = "called" /\ consumer.ring = r)}

\* Every repetition, past or still to come, has its death.
CountInv == Cardinality(Repeats) + Cardinality(Pending) <= deaths

OInv == LastInv /\ RepeatsFromDeaths /\ CountInv

\* Nothing is printed at the start.
LEMMA OrderInit == Init => OInv
<1> SUFFICES ASSUME Init PROVE OInv
    OBVIOUS
<1>1. printed = << >> /\ deaths = 0
    BY DEF Init
<1>2. DOMAIN printed = {}
    BY <1>1
<1>3. Repeats = {} /\ Pending = {}
    BY <1>2 DEF Repeats, Pending, Printed
<1>4. Cardinality(Repeats) = 0 /\ Cardinality(Pending) = 0
    BY <1>3, FS_EmptySet
<1>5. LastInv
    BY <1>2 DEF LastInv
<1>6. RepeatsFromDeaths /\ CountInv
    BY <1>1, <1>2, <1>4 DEF RepeatsFromDeaths, CountInv
<1> QED BY <1>5, <1>6 DEF OInv

\* The two sets are finite.
LEMMA OrderFinite ==
    TypeOK => /\ IsFiniteSet(Repeats) /\ Cardinality(Repeats) \in Nat
              /\ IsFiniteSet(Pending) /\ Cardinality(Pending) \in Nat
              /\ Repeats \subseteq 1 .. Len(printed)
<1> SUFFICES ASSUME TypeOK
             PROVE  /\ IsFiniteSet(Repeats) /\ Cardinality(Repeats) \in Nat
                    /\ IsFiniteSet(Pending) /\ Cardinality(Pending) \in Nat
                    /\ Repeats \subseteq 1 .. Len(printed)
    OBVIOUS
<1>1. DOMAIN printed = 1 .. Len(printed) /\ Len(printed) \in Nat
    BY DEF TypeOK
<1>2. Repeats \in SUBSET (1 .. Len(printed)) /\ Pending \in SUBSET Rings
    BY <1>1 DEF Repeats, Pending
<1>3. IsFiniteSet(1 .. Len(printed)) /\ IsFiniteSet(Rings)
    BY <1>1, FS_Interval, LifecycleAssumption DEF Rings
<1>4. IsFiniteSet(Repeats) /\ IsFiniteSet(Pending)
    BY <1>2, <1>3, FS_Subset
<1> QED BY <1>2, <1>4, FS_CardinalityType

\* When no line is added, only the number of deaths can matter to the lines.
LEMMA OrderSame ==
    ASSUME printed' = printed
    PROVE  /\ Repeats' = Repeats /\ (\A r, i : Printed(r, i)' <=> Printed(r, i))
           /\ \A j : (Last(j)' <=> Last(j)) /\ Before(j)' = Before(j)
    BY DEF Repeats, Printed, Last, Before

\* One step of anybody.
LEMMA OrderStep == IInv /\ IInv' /\ OInv /\ [Next]_vars => OInv'
<1> SUFFICES ASSUME IInv, IInv', OInv, [Next]_vars PROVE OInv'
    OBVIOUS
<1>0. TypeOK /\ TypeOK' /\ PlacedInv /\ CalledInv /\ NothingSkipped /\ deaths \in Nat
    BY DEF IInv, TypeOK
<1>s. /\ DOMAIN printed = 1 .. Len(printed) /\ Len(printed) \in Nat
      /\ \A j \in 1 .. Len(printed) : printed[j] \in Rings \X Nat
      /\ \A r \in Rings : pos[r] \in Nat
    BY <1>0 DEF TypeOK
<1>f. /\ IsFiniteSet(Repeats) /\ Cardinality(Repeats) \in Nat
      /\ IsFiniteSet(Pending) /\ Cardinality(Pending) \in Nat
      /\ Repeats \subseteq 1 .. Len(printed)
    BY <1>0, OrderFinite
<1>1. CASE /\ UNCHANGED <<printed, pos, deaths>>
           /\ consumer' = consumer \/ (consumer.pc # "called" /\ consumer'.pc # "called")
  <2>1. /\ Repeats' = Repeats /\ (\A r, i : Printed(r, i)' <=> Printed(r, i))
        /\ \A j : (Last(j)' <=> Last(j)) /\ Before(j)' = Before(j)
    BY <1>1, OrderSame
  <2>2. Pending' = Pending
    BY <1>1, <2>1 DEF Pending
  <2>3. LastInv'
    BY <1>1, <2>1 DEF OInv, LastInv
  <2>4. RepeatsFromDeaths' /\ CountInv'
    BY <1>1, <2>1, <2>2 DEF OInv, RepeatsFromDeaths, CountInv
  <2> QED BY <2>3, <2>4 DEF OInv
<1>2. CASE handle_event
  <2> DEFINE r == consumer.ring
             e == <<r, pos[r] + 1>>
  <2>n. PICK n \in Nat : n = Len(printed) + 1
    BY <1>s
  <2>1. /\ UNCHANGED <<pos, deaths>> /\ consumer.pc = "polling"
        /\ consumer' = [consumer EXCEPT !.pc = "called"] /\ printed' = Append(printed, e)
    BY <1>2 DEF handle_event
  <2>2. r \in Rings /\ pos[r] \in Nat /\ consumer'.pc = "called" /\ consumer'.ring = r
    BY <1>0, <1>s, <2>1 DEF PlacedInv, Placed, TypeOK, Party
  <2>3. /\ DOMAIN printed' = 1 .. n /\ printed'[n] = e /\ n \in Nat
        /\ \A j \in 1 .. Len(printed) : printed'[j] = printed[j]
        /\ \A j \in 1 .. n : j \in 1 .. Len(printed) \/ j = n
        /\ n \notin 1 .. Len(printed) /\ n \in 1 .. n /\ 1 .. Len(printed) \subseteq 1 .. n
        /\ 1 .. (n - 1) = 1 .. Len(printed)
    <3>1. printed \in Seq(Rings \X Nat) /\ e \in Rings \X Nat
      BY <1>0, <2>2, SMTT(40) DEF TypeOK
    <3>2. Len(printed') = n /\ printed' \in Seq(Rings \X Nat)
      BY <2>1, <2>n, <3>1
    <3>3. DOMAIN printed' = 1 .. n /\ printed'[n] = e /\ n \in Nat
      BY <1>s, <2>1, <2>n, <3>1, <3>2
    <3>4. \A j \in 1 .. Len(printed) : printed'[j] = printed[j]
      BY <2>1, <3>1
    <3>5. /\ \A j \in 1 .. n : j \in 1 .. Len(printed) \/ j = n
          /\ n \notin 1 .. Len(printed) /\ n \in 1 .. n /\ 1 .. Len(printed) \subseteq 1 .. n
          /\ 1 .. (n - 1) = 1 .. Len(printed)
      BY <1>s, <2>n
    <3> QED BY <3>3, <3>4, <3>5
  <2>4. e[1] = r /\ e[2] = pos[r] + 1
    OBVIOUS
  <2>5. \A j \in 1 .. Len(printed) : 1 .. (j - 1) \subseteq 1 .. Len(printed)
    BY <1>s
  <2> HIDE DEF e
  <2>6. \A j \in 1 .. Len(printed) : Before(j)' = Before(j)
    BY <2>3, <2>5 DEF Before
  <2>7. Before(n)' = {k \in 1 .. Len(printed) : printed[k][1] = r}
    BY <2>3, <2>4 DEF Before
  <2>8. \A q, k : Printed(q, k)' <=> Printed(q, k) \/ e = <<q, k>>
    BY <1>s, <2>3 DEF Printed
  <2>9. ASSUME NEW j \in 1 .. Len(printed), Last(j)'
        PROVE  printed[j][1] # r /\ Last(j)
    <3>1. printed[j][1] # r
      <4>1. ~(n <= j)
        BY <1>s, <2>n
      <4> QED BY <2>3, <2>4, <2>9, <4>1 DEF Last
    <3>2. Last(j)
      BY <1>s, <2>3, <2>9 DEF Last
    <3> QED BY <3>1, <3>2
  <2>10. LastInv'
    <3>1. ASSUME NEW j \in 1 .. Len(printed)
          PROVE  LET q == printed'[j][1]
                 IN  /\ printed'[j][2] <= pos'[q] + 1
                     /\ Last(j)' => printed'[j][2] \in {pos'[q], pos'[q] + 1}
                     /\ Last(j)' /\ consumer'.pc = "called" /\ consumer'.ring = q => printed'[j][2] = pos'[q] + 1
      BY <1>s, <2>1, <2>2, <2>3, <2>9 DEF OInv, LastInv
    <3>2. /\ printed'[n][2] <= pos'[r] + 1 /\ printed'[n][2] = pos'[r] + 1 /\ printed'[n][1] = r
      BY <2>1, <2>2, <2>3, <2>4
    <3> QED BY <2>3, <3>1, <3>2 DEF LastInv
  <2>11. ASSUME NEW j \in DOMAIN printed'
         PROVE  /\ Before(j)' = {} => printed'[j][2] = 1
                /\ \A k \in Before(j)' : (\A m \in Before(j)' : m <= k) =>
                     printed'[j][2] \in {printed'[k][2], printed'[k][2] + 1}
    <3>1. CASE j \in 1 .. Len(printed)
      <4>1. Before(j)' = Before(j) /\ Before(j) \subseteq 1 .. Len(printed)
        BY <2>5, <2>6, <3>1 DEF Before
      <4> QED BY <1>s, <2>3, <3>1, <4>1 DEF OInv, RepeatsFromDeaths
    <3>2. CASE j = n
      <4>1. ASSUME Before(n)' = {} PROVE e[2] = 1
        <5>1. \A k \in 1 .. Len(printed) : printed[k][1] # r
          BY <2>7, <4>1
        <5>2. ~Printed(r, 1)
          BY <1>s, <5>1 DEF Printed
        <5>3. ~(1 \in 1 .. pos[r])
          BY <1>0, <2>2, <5>2 DEF NothingSkipped
        <5> QED BY <2>2, <2>4, <5>3
      <4>2. ASSUME NEW k \in Before(n)', \A m \in Before(n)' : m <= k
            PROVE  e[2] \in {printed'[k][2], printed'[k][2] + 1}
        <5>1. k \in 1 .. Len(printed) /\ printed[k][1] = r /\ printed'[k] = printed[k] /\ printed[k][2] \in Nat
          BY <1>s, <2>3, <2>7
        <5>2. Last(k)
          BY <1>s, <2>7, <4>2, <5>1 DEF Last
        <5>3. printed[k][2] \in {pos[r], pos[r] + 1}
          BY <1>s, <5>1, <5>2 DEF OInv, LastInv
        <5> QED BY <2>2, <2>4, <5>1, <5>3
      <4> QED BY <2>3, <3>2, <4>1, <4>2
    <3> QED BY <2>3, <3>1, <3>2
  <2>12. Cardinality(Repeats') + Cardinality(Pending') <= deaths'
    <3>1. Repeats' = Repeats \cup (IF Printed(r, pos[r] + 1) THEN {n} ELSE {})
      <4>1. \A j \in 1 .. Len(printed) : j \in Repeats' <=> j \in Repeats
        BY <1>s, <2>3, <2>5 DEF Repeats
      <4>2. n \in Repeats' <=> Printed(r, pos[r] + 1)
        BY <1>s, <2>3 DEF Repeats, Printed, e
      <4>3. \A j : j \in Repeats' => j \in 1 .. Len(printed) \/ j = n
        BY <2>3 DEF Repeats
      <4> QED BY <1>f, <4>1, <4>2, <4>3
    <3>2. Pending' = Pending \ {r}
      <4>1. \A q \in Rings : q # r => (Printed(q, pos[q] + 1)' <=> Printed(q, pos[q] + 1))
        BY <2>1, <2>8 DEF e
      <4> QED BY <2>1, <2>2, <4>1 DEF Pending
    <3>3. Cardinality(Repeats) + Cardinality(Pending) <= deaths
      BY DEF OInv, CountInv
    <3>4. CASE Printed(r, pos[r] + 1)
      <4>1. r \in Pending
        BY <2>1, <2>2, <3>4 DEF Pending
      <4>2. Cardinality(Pending') = Cardinality(Pending) - 1
        BY <1>f, <3>2, <4>1, FS_RemoveElement
      <4>3. Repeats' = Repeats \cup {n} /\ n \notin Repeats
        BY <1>f, <2>3, <3>1, <3>4
      <4>4. Cardinality(Repeats') = Cardinality(Repeats) + 1
        BY <1>f, <4>3, FS_AddElement
      <4> QED BY <1>0, <1>f, <2>1, <3>3, <4>2, <4>4
    <3>5. CASE ~Printed(r, pos[r] + 1)
      <4>1. Repeats' = Repeats /\ Pending' = Pending
        BY <3>1, <3>2, <3>5 DEF Pending
      <4> QED BY <2>1, <3>3, <4>1
    <3> QED BY <3>4, <3>5
  <2>13. Cardinality(Repeats') <= deaths'
    <3>1. Cardinality(Repeats') \in Nat /\ Cardinality(Pending') \in Nat
      <4>1. (/\ IsFiniteSet(Repeats) /\ Cardinality(Repeats) \in Nat
             /\ IsFiniteSet(Pending) /\ Cardinality(Pending) \in Nat
             /\ Repeats \subseteq 1 .. Len(printed))'
        BY <1>0, OrderFinite, PTL
      <4> QED BY <4>1
    <3> QED BY <1>0, <2>1, <2>12, <3>1
  <2> QED BY <2>10, <2>11, <2>12, <2>13 DEF OInv, RepeatsFromDeaths, CountInv
<1>3. CASE AdvancePosition
  <2> DEFINE r == consumer.ring
  <2>1. /\ UNCHANGED <<printed, deaths>> /\ consumer.pc = "called"
        /\ consumer' = [consumer EXCEPT !.pc = "polling"] /\ pos' = [pos EXCEPT ![r] = @ + 1]
    BY <1>3 DEF AdvancePosition
  <2>2. r \in Rings /\ consumer'.pc = "polling" /\ pos[r] \in Nat
        /\ \A q \in Rings : pos'[q] = IF q = r THEN pos[r] + 1 ELSE pos[q]
    BY <1>0, <1>s, <2>1 DEF PlacedInv, Placed, TypeOK, Party
  <2>3. /\ Repeats' = Repeats /\ (\A q, i : Printed(q, i)' <=> Printed(q, i))
        /\ \A j : (Last(j)' <=> Last(j)) /\ Before(j)' = Before(j)
    BY <2>1, OrderSame
  <2>4. LastInv'
    <3>1. ASSUME NEW j \in 1 .. Len(printed)
          PROVE  LET q == printed[j][1]
                 IN  /\ printed[j][2] <= pos'[q] + 1
                     /\ Last(j) => printed[j][2] \in {pos'[q], pos'[q] + 1}
      <4>1. printed[j][1] \in Rings /\ printed[j][2] \in Nat
        BY <1>s
      <4> QED BY <1>s, <2>1, <2>2, <4>1 DEF OInv, LastInv
    <3> QED BY <1>s, <2>1, <2>2, <2>3, <3>1 DEF LastInv
  <2>5. Pending' = Pending
    <3>1. ~Printed(r, (pos[r] + 1) + 1)
      <4>1. ASSUME NEW j \in 1 .. Len(printed), printed[j] = <<r, (pos[r] + 1) + 1>> PROVE FALSE
        <5>1. printed[j][1] = r /\ printed[j][2] = (pos[r] + 1) + 1
          BY <4>1
        <5>2. printed[j][2] <= pos[r] + 1
          BY <1>s, <5>1 DEF OInv, LastInv
        <5> QED BY <2>2, <5>1, <5>2
      <4> QED BY <1>s, <4>1 DEF Printed
    <3>2. r \notin Pending /\ r \notin Pending'
      BY <2>1, <2>2, <2>3, <3>1 DEF Pending
    <3>3. \A q \in Rings : q # r => (q \in Pending' <=> q \in Pending)
      BY <2>2, <2>3 DEF Pending
    <3> QED BY <3>2, <3>3 DEF Pending
  <2>6. RepeatsFromDeaths' /\ CountInv'
    BY <2>1, <2>3, <2>5 DEF OInv, RepeatsFromDeaths, CountInv
  <2> QED BY <2>4, <2>6 DEF OInv
<1>4. CASE ConsumerDies
  <2> DEFINE r == consumer.ring
  <2>1. UNCHANGED <<printed, pos>> /\ consumer.pc = "called" /\ consumer'.pc = "off" /\ deaths' = deaths + 1
    BY <1>4 DEF ConsumerDies, Off
  <2>2. /\ Repeats' = Repeats /\ (\A q, i : Printed(q, i)' <=> Printed(q, i))
        /\ \A j : (Last(j)' <=> Last(j)) /\ Before(j)' = Before(j)
    BY <2>1, OrderSame
  <2>3. LastInv'
    BY <2>1, <2>2 DEF OInv, LastInv
  <2>4. Pending' \in SUBSET (Pending \cup {r})
    BY <2>1, <2>2 DEF Pending
  <2>5. /\ IsFiniteSet(Pending \cup {r})
        /\ Cardinality(Pending \cup {r}) <= Cardinality(Pending) + 1
    <3>1. ASSUME NEW S, NEW x, IsFiniteSet(S), Cardinality(S) \in Nat
          PROVE  IsFiniteSet(S \cup {x}) /\ Cardinality(S \cup {x}) <= Cardinality(S) + 1
      BY <3>1, FS_AddElement
    <3> QED BY <1>f, <3>1
  <2>6. Cardinality(Pending') <= Cardinality(Pending \cup {r}) /\ IsFiniteSet(Pending')
    BY <2>4, <2>5, FS_Subset
  <2>7. Cardinality(Pending') \in Nat /\ Cardinality(Pending \cup {r}) \in Nat
    BY <2>5, <2>6, FS_CardinalityType
  <2>8. CountInv'
    <3>1. Cardinality(Repeats) + Cardinality(Pending) <= deaths
      BY DEF OInv, CountInv
    <3>2. Cardinality(Repeats') = Cardinality(Repeats)
      BY <2>2
    <3> QED BY <1>0, <1>f, <2>1, <2>5, <2>6, <2>7, <3>1, <3>2 DEF CountInv
  <2>9. RepeatsFromDeaths'
    <3>1. Cardinality(Repeats') <= deaths'
      BY <1>0, <1>f, <2>1, <2>2 DEF OInv, RepeatsFromDeaths
    <3> QED BY <2>1, <2>2, <3>1 DEF OInv, RepeatsFromDeaths
  <2> QED BY <2>3, <2>8, <2>9 DEF OInv
<1>5. CASE ConsumerOpen \/ ConsumerExit
  <2>1. UNCHANGED <<printed, pos, deaths>> /\ consumer.pc # "called" /\ consumer'.pc # "called"
    BY <1>5 DEF ConsumerOpen, ConsumerExit, Off
  <2> QED BY <1>1, <2>1
<1>6. CASE (\E l \in Loaders : LoaderLoad(l) \/ LoaderAttach(l) \/ Emit(l) \/ LoaderExit(l)) \/ (\E t : Detach(t))
    BY <1>1, <1>6 DEF LoaderLoad, LoaderAttach, Emit, LoaderExit, Detach
<1>7. CASE UNCHANGED vars
    BY <1>1, <1>7 DEF vars
<1> QED BY <1>2, <1>3, <1>4, <1>5, <1>6, <1>7 DEF Next

\* On each ring sample_consumer.py prints the records in their order, and a line comes
\* twice only as often as a consumer was killed between its callback and the position.
THEOREM RepeatsCorrect == Spec => []RepeatsFromDeaths
<1>1. Init => IInv /\ OInv
    BY LifecycleInit, OrderInit
<1>2. (IInv /\ OInv) /\ [Next]_vars => (IInv /\ OInv)'
    BY LifecycleStep, OrderStep
<1>3. IInv /\ OInv => RepeatsFromDeaths
    BY DEF OInv
<1> QED BY <1>1, <1>2, <1>3, PTL DEF Spec
=============================================================================
