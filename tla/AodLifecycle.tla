---------------------------- MODULE AodLifecycle ----------------------------
(***************************************************************************)
(* Several loaders, one consumer and the pin that brings them together.    *)
(* A loader finds or creates the ring buffer pinned at /sys/fs/bpf/aodrb   *)
(* when it loads its object, attaches later, and leaves the pin behind     *)
(* when it exits; sample_consumer.py opens whatever is pinned and prints   *)
(* each record from libbpf's callback; --detach unlinks the pin. Any of    *)
(* them may be started, stopped or killed at any time.                     *)
(*                                                                         *)
(* Flags and wakeups are AodRingbuf's matter: here a ring is the sequence  *)
(* of its records with the consumer position that the kernel keeps in it.  *)
(***************************************************************************)
EXTENDS Integers, Sequences, FiniteSets

CONSTANTS
    Loaders,     \* loader processes
    RingSize,    \* records that a ring holds
    MaxRings,    \* bound: rings created
    MaxEvents,   \* bound: records written
    MaxStarts    \* bound: consumer processes

ASSUME LifecycleAssumption ==
    /\ RingSize \in Nat \ {0} /\ MaxRings \in Nat \ {0}
    /\ MaxEvents \in Nat /\ MaxStarts \in Nat

Rings == 1 .. MaxRings

VARIABLES
    pin,        \* the ring at /sys/fs/bpf/aodrb, 0 for none
    created,    \* rings created so far
    loader,     \* loader -> [pc, ring, epoch]
    records,    \* ring -> its records, all that were ever written
    pos,        \* ring -> consumer_pos
    consumer,   \* [pc, ring, epoch] of sample_consumer.py
    printed,    \* history: <<ring, index>> of the lines printed
    epoch,      \* history: how often --detach removed a pin
    starts,     \* history: consumers started
    deaths      \* history: consumers killed between a line and its position

vars == <<pin, created, loader, records, pos, consumer, printed, epoch, starts, deaths>>

Off == [pc |-> "off", ring |-> 0, epoch |-> 0]

Init ==
    /\ pin = 0 /\ created = 0
    /\ loader = [l \in Loaders |-> Off]
    /\ records = [r \in Rings |-> << >>] /\ pos = [r \in Rings |-> 0]
    /\ consumer = Off
    /\ printed = << >> /\ epoch = 0 /\ starts = 0 /\ deaths = 0

Written == {<<r, i>> : r \in Rings, i \in 1 .. MaxEvents} \cap
           UNION {{<<r, i>> : i \in DOMAIN records[r]} : r \in Rings}

(***************************************************************************)
(* Loaders                                                                 *)
(***************************************************************************)

\* Mutant: the object creates its own map and pins that.
LoaderLoadNew(l) ==
    /\ loader[l].pc = "off"
    /\ created < MaxRings
    /\ created' = created + 1 /\ pin' = created + 1
    /\ loader' = [loader EXCEPT ![l] = [pc |-> "loaded", ring |-> created + 1, epoch |-> epoch]]
    /\ UNCHANGED <<records, pos, consumer, printed, epoch, starts, deaths>>

\* LIBBPF_PIN_BY_NAME: take the pinned map, or create one and pin it. libbpf
\* starts over when another loader pinned its map in between.
LoaderLoad(l) ==
    /\ loader[l].pc = "off"
    /\ \/ pin # 0 /\ UNCHANGED <<pin, created>>
       \/ pin = 0 /\ created < MaxRings /\ created' = created + 1 /\ pin' = created + 1
    /\ loader' = [loader EXCEPT ![l] = [pc |-> "loaded", ring |-> pin', epoch |-> epoch]]
    /\ UNCHANGED <<records, pos, consumer, printed, epoch, starts, deaths>>

LoaderAttach(l) ==
    /\ loader[l].pc = "loaded"
    /\ loader' = [loader EXCEPT ![l].pc = "attached"]
    /\ UNCHANGED <<pin, created, records, pos, consumer, printed, epoch, starts, deaths>>

\* A program of l submits a record, or bpf_ringbuf_reserve() finds no room.
Emit(l) ==
    LET r == loader[l].ring
    IN  /\ loader[l].pc = "attached"
        /\ Cardinality(Written) < MaxEvents
        /\ Len(records[r]) - pos[r] < RingSize
        /\ records' = [records EXCEPT ![r] = Append(@, l)]
        /\ UNCHANGED <<pin, created, loader, pos, consumer, printed, epoch, starts, deaths>>

\* destroy(), or the process is killed: the pin stays, and so does what the ring holds.
LoaderExit(l) ==
    /\ loader[l].pc # "off"
    /\ loader' = [loader EXCEPT ![l] = Off]
    /\ UNCHANGED <<pin, created, records, pos, consumer, printed, epoch, starts, deaths>>

(***************************************************************************)
(* sample_consumer.py                                                      *)
(***************************************************************************)

\* bpf_obj_get and ring_buffer__new; without a pin the process ends with a message.
ConsumerOpen ==
    /\ consumer.pc = "off" /\ starts < MaxStarts
    /\ starts' = starts + 1
    /\ consumer' = IF pin = 0 THEN Off ELSE [pc |-> "polling", ring |-> pin, epoch |-> epoch]
    /\ UNCHANGED <<pin, created, loader, records, pos, printed, epoch, deaths>>

\* Mutant: the position is stored before the callback has the record.
HandleEventLate ==
    /\ consumer.pc = "polling"
    /\ pos[consumer.ring] < Len(records[consumer.ring])
    /\ pos' = [pos EXCEPT ![consumer.ring] = @ + 1]
    /\ consumer' = [consumer EXCEPT !.pc = "called"]
    /\ UNCHANGED <<pin, created, loader, records, printed, epoch, starts, deaths>>

\* Mutant: a consumer whose ring is no longer pinned stops reading.
HandleEventPinned ==
    /\ consumer.pc = "polling" /\ consumer.ring = pin
    /\ pos[consumer.ring] < Len(records[consumer.ring])
    /\ printed' = Append(printed, <<consumer.ring, pos[consumer.ring] + 1>>)
    /\ consumer' = [consumer EXCEPT !.pc = "called"]
    /\ UNCHANGED <<pin, created, loader, records, pos, epoch, starts, deaths>>

\* _handle_event prints the record at the consumer position; it always returns 0.
\* A line counts as printed once print() has taken it.
handle_event ==
    /\ consumer.pc = "polling"
    /\ pos[consumer.ring] < Len(records[consumer.ring])
    /\ printed' = Append(printed, <<consumer.ring, pos[consumer.ring] + 1>>)
    /\ consumer' = [consumer EXCEPT !.pc = "called"]
    /\ UNCHANGED <<pin, created, loader, records, pos, epoch, starts, deaths>>

\* Mutant: the position is not stored when the tools have gone.
AdvancePositionLazy ==
    /\ consumer.pc = "called"
    /\ pos' = [pos EXCEPT ![consumer.ring] = IF \A l \in Loaders : loader[l].pc = "off" THEN @ ELSE @ + 1]
    /\ consumer' = [consumer EXCEPT !.pc = "polling"]
    /\ UNCHANGED <<pin, created, loader, records, printed, epoch, starts, deaths>>

\* libbpf stores consumer_pos after the callback returns.
AdvancePosition ==
    /\ consumer.pc = "called"
    /\ pos' = [pos EXCEPT ![consumer.ring] = @ + 1]
    /\ consumer' = [consumer EXCEPT !.pc = "polling"]
    /\ UNCHANGED <<pin, created, loader, records, printed, epoch, starts, deaths>>

\* The loop tests exiting only when ring_buffer__poll has returned.
ConsumerExit ==
    /\ consumer.pc = "polling"
    /\ consumer' = Off
    /\ UNCHANGED <<pin, created, loader, records, pos, printed, epoch, starts, deaths>>

\* SIGKILL inside the callback: the line is out, the position is not stored.
ConsumerDies ==
    /\ consumer.pc = "called"
    /\ consumer' = Off /\ deaths' = deaths + 1
    /\ UNCHANGED <<pin, created, loader, records, pos, printed, epoch, starts>>

\* Of _TOOL_LINKS, the tools whose links are pinned: no loader calls bpf_link__pin.
PinnedLinks == {}

\* detach(tools): the ring's name goes unless a tool that was not named has a link pinned.
Detach(tools) ==
    /\ PinnedLinks \ tools = {}
    /\ pin # 0
    /\ pin' = 0 /\ epoch' = epoch + 1
    /\ UNCHANGED <<created, loader, records, pos, consumer, printed, starts, deaths>>

Next ==
    \/ \E l \in Loaders : LoaderLoad(l) \/ LoaderAttach(l) \/ Emit(l) \/ LoaderExit(l)
    \/ ConsumerOpen \/ handle_event \/ AdvancePosition \/ ConsumerExit \/ ConsumerDies
    \/ \E tools \in SUBSET {"smb", "nfs"} : Detach(tools)

\* A consumer that is left alone goes on consuming (with wakeup size zero, AodRingbuf's run ring_adaptive).
Spec == Init /\ [][Next]_vars /\ WF_vars(handle_event) /\ WF_vars(AdvancePosition)

(***************************************************************************)
(* Properties                                                              *)
(***************************************************************************)

Party(pcs) == [pc : pcs, ring : {0} \cup Rings, epoch : Nat]

\* Types of the variables.
TypeOK ==
    /\ created \in 0 .. MaxRings /\ pin \in 0 .. created
    /\ loader \in [Loaders -> Party({"off", "loaded", "attached"})]
    /\ consumer \in Party({"off", "polling", "called"})
    /\ records \in [Rings -> Seq(Loaders)] /\ pos \in [Rings -> Nat]
    /\ \A r \in Rings : pos[r] <= Len(records[r])
    /\ printed \in Seq(Rings \X Nat)
    /\ epoch \in Nat /\ starts \in Nat /\ deaths \in Nat

\* Everyone who loaded or opened between the same two detaches uses the same ring,
\* whatever was started first and whoever has gone since (LIBBPF_PIN_BY_NAME, never
\* unpinned by a loader). Across a detach a consumer may be deaf to a running tool.
SharedRing ==
    \A a, b \in {loader[l] : l \in Loaders} \cup {consumer} :
      a.pc # "off" /\ b.pc # "off" /\ a.epoch = b.epoch => a.ring = b.ring

Printed(r, i) == \E j \in DOMAIN printed : printed[j] = <<r, i>>

\* The records before the consumer position of a ring have all been printed: neither
\* the death of a consumer nor the exit of the tool that wrote a record loses it.
NothingSkipped ==
    \A r \in Rings : \A i \in 1 .. pos[r] : Printed(r, i)

\* The lines before line j that are of the same ring, and the lines that were there before.
Before(j) == {k \in 1 .. (j - 1) : printed[k][1] = printed[j][1]}
Repeats == {j \in DOMAIN printed : \E k \in 1 .. (j - 1) : printed[k] = printed[j]}

\* On each ring the lines come in the order of the records, and a record is printed
\* again only by the consumer that follows one killed inside its callback.
RepeatsFromDeaths ==
    /\ \A j \in DOMAIN printed :
         /\ Before(j) = {} => printed[j][2] = 1
         /\ \A k \in Before(j) : (\A m \in Before(j) : m <= k) =>
              printed[j][2] \in {printed[k][2], printed[k][2] + 1}
    /\ Cardinality(Repeats) <= deaths

\* A record on the ring that a consumer reads is printed while that consumer is there:
\* a detach, the exit of the tool and other tools on another ring do not stop it.
SharedDelivery ==
    \A r \in Rings : \A i \in 1 .. MaxEvents :
      (consumer.ring = r /\ i \in DOMAIN records[r])
        ~> (consumer.ring # r \/ Printed(r, i))

(***************************************************************************)
(* The parts of the inductive invariant.                                   *)
(***************************************************************************)

\* A party knows a ring, of this epoch's pin or of an earlier one.
Placed(a) ==
    a.pc # "off" =>
      /\ a.ring \in Rings
      /\ a.epoch <= epoch
      /\ a.epoch = epoch => a.ring = pin

PlacedInv == (\A l \in Loaders : Placed(loader[l])) /\ Placed(consumer)

\* Inside the callback the line is out and the record is still there.
CalledInv ==
    consumer.pc = "called" =>
      /\ pos[consumer.ring] < Len(records[consumer.ring])
      /\ Printed(consumer.ring, pos[consumer.ring] + 1)
=============================================================================
