--------------------------- MODULE IoSlower_proofs --------------------------
(***************************************************************************)
(* Proofs about IoSlower, for any threads, operations, nesting, map size,  *)
(* threshold and number of calls, with or without -p. As in iosnoop the    *)
(* number of a call is followed from its stack through op_start into at    *)
(* most one event; here its time goes along.                               *)
(***************************************************************************)
EXTENDS IoSlower, VfsKernel_proofs

Start == [ts : Nat, op : OpNames, dev : Devs \cup {0}, call : Nat]

\* Types in the form the provers need.
TypeInv ==
    /\ DOMAIN op_start \subseteq Threads
    /\ op_start \in [DOMAIN op_start -> Start]
    /\ \A t \in DOMAIN op_start : op_start[t].ts <= now
    /\ vma_dev_map \in [DOMAIN vma_dev_map -> Devs \cup {0}]
    /\ Bounded(op_start) /\ Bounded(vma_dev_map)
    /\ configured \in BOOLEAN /\ now \in 0 .. MaxTime
    /\ threshold_config = IF configured THEN MinUs ELSE 0
    /\ refused \cup orphans \cup overlapped \cup slow \subseteq 0 .. (calls - 1)

\* Two calls on one stack are noted as overlapped; a call in progress is no orphan
\* and ends no event.
StackInv ==
    \A t \in Threads : \A i \in 1 .. Len(stack[t]) :
      /\ \A j \in 1 .. Len(stack[t]) : i # j => stack[t][i].call \in overlapped
      /\ stack[t][i].call \notin orphans
      /\ \A e \in events : e.end # stack[t][i].call

\* f is the frame that wrote start s.
Wrote(f, s) == f.call = s.call /\ f.ts = s.ts /\ f.op = s.op /\ (s.op # "munmap" => f.dev = s.dev)

\* A start is that of a call in progress or of an orphan, passed the filter, and has
\* not been used.
StartInv ==
    \A t \in DOMAIN op_start :
      /\ op_start[t].call \in orphans \/ \E i \in 1 .. Len(stack[t]) : Wrote(stack[t][i], op_start[t])
      /\ op_start[t].call < calls
      /\ PassMountFilter(op_start[t].dev)
      /\ \A e \in events : e.start # op_start[t].call

\* No call has two starts.
DistinctInv == \A t, u \in DOMAIN op_start : op_start[t].call = op_start[u].call => t = u

\* A call in progress that is to be reported when slow has its start in op_start.
ReportInv ==
    \A t \in Threads : \A i \in 1 .. Len(stack[t]) :
      stack[t][i].entered /\ Expected(stack[t][i]) =>
        \/ stack[t][i].call \in refused \cup overlapped
        \/ t \in DOMAIN op_start /\ op_start[t].call = stack[t][i].call

EventInv ==
    \A e \in events : /\ e.delta_us \in 0 .. (U32 - 1) /\ e.dev \in Devs \cup {0}
                      /\ e.start \in 0 .. (calls - 1) /\ e.end \in 0 .. (calls - 1)

IInv == /\ KernelInv /\ CallsInv /\ TypeInv /\ StackInv /\ StartInv /\ DistinctInv /\ ReportInv
        /\ EventInv /\ PairedEvents /\ SlowExactly

\* Nothing has been called in the initial state.
LEMMA SlowerInit == Init => IInv
<1> SUFFICES ASSUME Init PROVE IInv
    OBVIOUS
<1>1. \A t \in Threads : stack[t] = << >> /\ Len(stack[t]) = 0
    BY DEF Init, KernelInit
<1>2. KernelInv
  <2>1. << >> \in Seq(Frame)
    OBVIOUS
  <2> QED BY <2>1, KernelAssumption DEF Init, KernelInit, KernelInv
<1>3. CallsInv /\ StackInv /\ ReportInv
    BY <1>1 DEF CallsInv, StackInv, ReportInv
<1>4. DOMAIN op_start = {} /\ DOMAIN vma_dev_map = {}
    BY DEF Init
<1>5. TypeInv
  <2>1. Bounded(op_start) /\ Bounded(vma_dev_map)
    BY <1>4, FS_EmptySet, KernelAssumption DEF Bounded
  <2>2. configured = FALSE /\ now \in 0 .. MaxTime /\ threshold_config = IF configured THEN MinUs ELSE 0
    BY SlowerAssumption DEF Init
  <2>3. op_start \in [DOMAIN op_start -> Start] /\ vma_dev_map \in [DOMAIN vma_dev_map -> Devs \cup {0}]
    BY DEF Init
  <2>4. refused \cup orphans \cup overlapped \cup slow \subseteq 0 .. (calls - 1)
    BY DEF Init
  <2> QED BY <1>4, <2>1, <2>2, <2>3, <2>4 DEF TypeInv
<1>6. StartInv /\ DistinctInv
    BY <1>4 DEF StartInv, DistinctInv
<1>7. EventInv /\ PairedEvents /\ SlowExactly
    BY DEF Init, EventInv, PairedEvents, SlowExactly
<1> QED BY <1>2, <1>3, <1>5, <1>6, <1>7 DEF IInv

(***************************************************************************)
(* Entry probes.                                                           *)
(***************************************************************************)

\* What the entry probes have in common: sdev is the device that goes through the
\* filter, that of the call but for vm_munmap.
EnterAs(t, op, dev, range, sdev) ==
    /\ CallOf(t, op, dev, range)
    /\ op # "munmap" => sdev = dev
    /\ \/ EntryAttached(op) /\ StartOrDrop(t, op, sdev) /\ (op = "mmap" => dev # 0)
       \/ UNCHANGED <<op_start, refused>> /\ (EntryAttached(op) => op = "mmap" /\ dev = 0)
    /\ vma_dev_map' = vma_dev_map \/ \E k : vma_dev_map' = Drop(vma_dev_map, k)

LEMMA EnterShape ==
    ASSUME KernelInv, TypeInv, NEW t \in Threads, Enter(t)
    PROVE  \E op \in OpNames, dev \in Devs \cup {0}, range \in Ranges \cup {NoRange}, sdev \in Devs \cup {0} :
             /\ EnterAs(t, op, dev, range, sdev)
             /\ op = "munmap" => /\ range \in Ranges /\ sdev = VmaDev(t, range.start)
                                 /\ dev = DevOf(Cell(t, range.start))
<1>1. ASSUME NEW op, NEW dev \in Devs, TraceEnter(t, op, dev), op \notin {"mmap", "munmap"}
      PROVE  EnterAs(t, op, dev, NoRange, dev)
    BY <1>1 DEF TraceEnter, EnterAs
<1>2. CASE \/ EnterOpenReadWrite(t) \/ EnterNamespace(t) \/ EnterMetadata(t) \/ EnterVector(t)
           \/ EnterKprobed(t) \/ EnterDirectory(t) \/ EnterLock(t)
  <2>1. \A op, dev : TraceEnter(t, op, dev) => op \in OpNames
    BY DEF TraceEnter, CallOf, Call
  <2>2. \E op \in OpNames, dev \in Devs : TraceEnter(t, op, dev) /\ op \notin {"mmap", "munmap"}
    BY <1>2, <2>1 DEF EnterOpenReadWrite, EnterNamespace, EnterMetadata, EnterVector, EnterKprobed,
                      EnterDirectory, EnterLock
  <2> QED BY <1>1, <2>2
<1>3. CASE EnterMmap(t)
  <2>1. PICK dev \in Devs \cup {0} :
          /\ CallOf(t, "mmap", dev, NoRange)
          /\ IF EntryAttached("mmap") /\ dev # 0
             THEN StartOrDrop(t, "mmap", dev) ELSE UNCHANGED <<op_start, refused>>
          /\ UNCHANGED vma_dev_map
    BY <1>3 DEF EnterMmap
  <2>2. EnterAs(t, "mmap", dev, NoRange, dev)
    BY <2>1 DEF EnterAs
  <2>3. "mmap" \in OpNames
    BY <2>1 DEF CallOf, Call
  <2> QED BY <2>2, <2>3
<1>4. CASE EnterMunmap(t)
  <2>1. PICK range \in Ranges :
          /\ CallOf(t, "munmap", DevOf(Cell(t, range.start)), range)
          /\ IF EntryAttached("munmap")
             THEN /\ StartOrDrop(t, "munmap", VmaDev(t, range.start))
                  /\ vma_dev_map' = Drop(vma_dev_map, VmaKey(PidOf[t], range.start))
             ELSE UNCHANGED <<op_start, refused, vma_dev_map>>
    BY <1>4 DEF EnterMunmap
  <2>2. VmaDev(t, range.start) \in Devs \cup {0}
    BY DEF VmaDev, TypeInv
  <2>3. DevOf(Cell(t, range.start)) \in Devs \cup {0}
    BY RangeType DEF KernelInv, DevOf, PidPages
  <2>4. EnterAs(t, "munmap", DevOf(Cell(t, range.start)), range, VmaDev(t, range.start))
    BY <2>1 DEF EnterAs
  <2>5. "munmap" \in OpNames
    BY <2>1 DEF CallOf, Call
  <2> QED BY <2>2, <2>3, <2>4, <2>5
<1> QED BY <1>2, <1>3, <1>4 DEF Enter

\* The start of the call goes into op_start, or the call is refused there or is none
\* that is to be reported.
Stored(t, op, dev, sdev) ==
    /\ HasRoom(op_start, t)
    /\ op_start' = Put(op_start, t, [ts |-> now, op |-> op, dev |-> sdev, call |-> calls])
    /\ refused' = refused
    /\ PassMountFilter(sdev) /\ (op # "munmap" => sdev = dev)

Skipped(f) ==
    /\ op_start' = op_start
    /\ refused \subseteq refused' /\ refused' \subseteq refused \cup {calls}
    /\ f.entered /\ Expected(f) => calls \in refused'

LEMMA EnterEffect ==
    ASSUME NEW t, NEW op, NEW dev \in Devs \cup {0}, NEW range, NEW sdev \in Devs \cup {0},
           EnterAs(t, op, dev, range, sdev)
    PROVE  Stored(t, op, dev, sdev) \/ Skipped(NewFrame(t, op, dev, range, now))
<1> DEFINE f == NewFrame(t, op, dev, range, now)
<1>1. f.op = op /\ f.dev = dev /\ (f.entered <=> EntryAttached(op))
    BY DEF NewFrame
<1> HIDE DEF f
<1>2. CASE UNCHANGED <<op_start, refused>> /\ (EntryAttached(op) => op = "mmap" /\ dev = 0)
  <2>1. Skipped(f)
    BY <1>1, <1>2 DEF Skipped, Expected
  <2> QED BY <2>1 DEF f
<1>3. CASE EntryAttached(op) /\ StartOrDrop(t, op, sdev) /\ (op = "mmap" => dev # 0)
  <2>1. CASE PassMountFilter(sdev) /\ HasRoom(op_start, t)
    BY <1>3, <2>1 DEF Stored, StartOrDrop, EnterAs
  <2>2. CASE ~HasRoom(op_start, t)
    BY <1>3, <2>2 DEF Skipped, StartOrDrop
  <2>3. CASE ~PassMountFilter(sdev)
    <3>1. ~Expected(f)
      BY <1>1, <2>3 DEF Expected, PassMountFilter, EnterAs
    <3>2. op_start' = op_start /\ refused \subseteq refused' /\ refused' \subseteq refused \cup {calls}
      BY <1>3, <2>3 DEF StartOrDrop
    <3> QED BY <3>1, <3>2 DEF Skipped, f
  <2> QED BY <2>1, <2>2, <2>3
<1> QED BY <1>2, <1>3 DEF EnterAs, f

\* An entry probe keeps the invariant.
LEMMA EnterKeeps ==
    ASSUME IInv, NEW t \in Threads, NEW op \in OpNames, NEW dev \in Devs \cup {0},
           NEW range \in Ranges \cup {NoRange}, NEW sdev \in Devs \cup {0},
           EnterAs(t, op, dev, range, sdev)
    PROVE  IInv'
<1> DEFINE f == NewFrame(t, op, dev, range, now)
           n == Len(stack[t]) + 1
           c == [ts |-> now, op |-> op, dev |-> sdev, call |-> calls]
<1>1. now \in Nat /\ calls \in Nat /\ \A u \in Threads : Len(stack[u]) \in Nat
    BY KernelAssumption, SlowerAssumption DEF IInv, KernelInv, TypeInv
<1>2. /\ Pushed(t, f) /\ calls' = calls + 1 /\ KernelInv' /\ CallsInv'
    BY <1>1, CallStep DEF IInv, EnterAs, CallOf
<1>3. f.op = op /\ f.dev = dev /\ f.call = calls /\ f.ts = now
    BY DEF NewFrame
<1>4. Stored(t, op, dev, sdev) \/ Skipped(f)
    BY EnterEffect
<1>5. UNCHANGED <<threshold_config, configured, now, events, orphans, slow>>
    BY DEF EnterAs, CallOf
<1>6. /\ overlapped \subseteq overlapped' /\ overlapped' \subseteq 0 .. calls
      /\ \A i \in 1 .. Len(stack[t]) : stack[t][i].call \in overlapped' /\ calls \in overlapped'
  <2>1. /\ DOMAIN stack[t] = 1 .. Len(stack[t])
        /\ \A i \in 1 .. Len(stack[t]) : stack[t][i] \in Frame
        /\ (stack[t] = << >> <=> ~(Len(stack[t]) >= 1))
    BY StackTop DEF IInv
  <2>2. \A i \in 1 .. Len(stack[t]) : stack[t][i].call \in 0 .. calls /\ stack[t][i].op \in OpNames
    BY <1>1, <2>1 DEF IInv, Frame, CallsInv
  <2>3. \A i \in 1 .. Len(stack[t]) : stack[t][i].call \in InProgress(t, OpNames)
    BY <2>1, <2>2 DEF InProgress
  <2>4. InProgress(t, OpNames) \subseteq 0 .. calls
    BY <2>1, <2>2 DEF InProgress
  <2>5. overlapped \subseteq 0 .. calls
    BY <1>1 DEF IInv, TypeInv
  <2>6. overlapped' = IF stack[t] = << >> THEN overlapped
                      ELSE overlapped \cup InProgress(t, OpNames) \cup {calls}
    BY DEF EnterAs, CallOf
  <2>7. CASE stack[t] = << >>
    <3>1. \A i \in 1 .. Len(stack[t]) : FALSE
      BY <1>1, <2>1, <2>7
    <3> QED BY <2>5, <2>6, <2>7, <3>1
  <2>8. CASE stack[t] # << >>
    <3>1. overlapped' = overlapped \cup InProgress(t, OpNames) \cup {calls}
      BY <2>6, <2>8
    <3>2. calls \in 0 .. calls
      BY <1>1
    <3> QED BY <2>3, <2>4, <2>5, <3>1, <3>2
  <2> QED BY <2>7, <2>8
<1>7. \A u \in DOMAIN op_start : op_start[u].call < calls /\ op_start[u].call # calls /\ op_start[u] \in Start
  <2>1. \A u \in DOMAIN op_start : op_start[u] \in Start /\ op_start[u].call < calls
    BY DEF IInv, TypeInv, StartInv
  <2> QED BY <1>1, <2>1 DEF Start
<1>8. \A e \in events : e.start # calls /\ e.end # calls
    BY <1>1 DEF IInv, EventInv
<1> HIDE DEF f, n, c
<1>9. c \in Start /\ c.ts = now /\ c.op = op /\ c.dev = sdev /\ c.call = calls
    BY <1>1 DEF c, Start
<1>10. /\ DOMAIN op_start' \subseteq DOMAIN op_start \cup {t}
       /\ op_start' = [u \in DOMAIN op_start' |-> op_start'[u]]
       /\ \A u \in DOMAIN op_start \ {t} : u \in DOMAIN op_start' /\ op_start'[u] = op_start[u]
       /\ \A u \in DOMAIN op_start' :
            \/ u = t /\ op_start'[u] = c /\ Stored(t, op, dev, sdev)
            \/ u \in DOMAIN op_start /\ op_start'[u] = op_start[u]
  <2>1. CASE Stored(t, op, dev, sdev)
    <3>1. op_start' = [x \in DOMAIN op_start \cup {t} |-> IF x = t THEN c ELSE op_start[x]]
      BY <2>1 DEF Stored, Put, c
    <3> QED BY <2>1, <3>1
  <2>2. CASE Skipped(f)
    BY <2>2 DEF Skipped, IInv, TypeInv
  <2> QED BY <1>4, <2>1, <2>2
<1>11. refused \subseteq refused' /\ refused' \subseteq refused \cup {calls}
    BY <1>4 DEF Stored, Skipped
<1>20. TypeInv'
  <2>1. DOMAIN op_start' \subseteq Threads
    BY <1>10 DEF IInv, TypeInv
  <2>2. op_start' \in [DOMAIN op_start' -> Start]
    <3>1. \A u \in DOMAIN op_start' : op_start'[u] \in Start
      BY <1>7, <1>9, <1>10
    <3> QED BY <1>10, <3>1
  <2>3. \A u \in DOMAIN op_start' : op_start'[u].ts <= now'
    BY <1>1, <1>5, <1>9, <1>10 DEF IInv, TypeInv
  <2>4. Bounded(op_start)'
    <3>1. Bounded(op_start)
      BY DEF IInv, TypeInv
    <3>2. CASE Stored(t, op, dev, sdev)
      <4>1. Bounded(Put(op_start, t, [ts |-> now, op |-> op, dev |-> sdev, call |-> calls]))
        BY <3>1, <3>2, PutBounded DEF Stored
      <4> QED BY <3>2, <4>1 DEF Stored, Bounded
    <3>3. CASE Skipped(f)
      BY <3>1, <3>3 DEF Skipped, Bounded
    <3> QED BY <1>4, <3>2, <3>3
  <2>5. Bounded(vma_dev_map)' /\ vma_dev_map' \in [DOMAIN vma_dev_map' -> Devs \cup {0}]
    <3>1. Bounded(vma_dev_map) /\ vma_dev_map \in [DOMAIN vma_dev_map -> Devs \cup {0}]
      BY DEF IInv, TypeInv
    <3>2. CASE vma_dev_map' = vma_dev_map
      BY <3>1, <3>2 DEF Bounded
    <3>3. CASE \E q : vma_dev_map' = Drop(vma_dev_map, q)
      <4>1. PICK q : vma_dev_map' = Drop(vma_dev_map, q)
        BY <3>3
      <4>2. Bounded(Drop(vma_dev_map, q))
        BY <3>1, DropBounded
      <4>3. Drop(vma_dev_map, q) \in [DOMAIN Drop(vma_dev_map, q) -> Devs \cup {0}]
        BY <3>1 DEF Drop
      <4> QED BY <4>1, <4>2, <4>3 DEF Bounded
    <3> QED BY <3>2, <3>3 DEF EnterAs
  <2>6. (refused \cup orphans \cup overlapped \cup slow)' \subseteq 0 .. (calls' - 1)
    BY <1>1, <1>2, <1>5, <1>6, <1>11 DEF IInv, TypeInv
  <2>7. configured' \in BOOLEAN /\ now' \in 0 .. MaxTime /\ threshold_config' = IF configured' THEN MinUs ELSE 0
    BY <1>5 DEF IInv, TypeInv
  <2> QED BY <2>1, <2>2, <2>3, <2>4, <2>5, <2>6, <2>7 DEF TypeInv
<1>21. StackInv'
  <2> SUFFICES ASSUME NEW u \in Threads, NEW i \in 1 .. Len(stack'[u])
               PROVE  /\ \A j \in 1 .. Len(stack'[u]) : i # j => stack'[u][i].call \in overlapped'
                      /\ stack'[u][i].call \notin orphans'
                      /\ \A e \in events' : e.end # stack'[u][i].call
    BY DEF StackInv
  <2>1. orphans \subseteq 0 .. (calls - 1)
    BY DEF IInv, TypeInv
  <2>2. CASE i \in 1 .. Len(stack[u]) /\ stack'[u][i] = stack[u][i]
    <3>1. ASSUME NEW j \in 1 .. Len(stack'[u]), i # j
          PROVE  stack'[u][i].call \in overlapped'
      <4>1. CASE j \in 1 .. Len(stack[u])
        BY <1>6, <2>2, <3>1, <4>1 DEF IInv, StackInv
      <4>2. CASE u = t
        BY <1>6, <2>2, <4>2
      <4> QED BY <1>2, <4>1, <4>2 DEF Pushed
    <3> QED BY <1>5, <2>2, <3>1 DEF IInv, StackInv
  <2>3. CASE u = t /\ i = n
    <3>1. stack'[u][i] = f
      BY <1>2, <2>3 DEF Pushed, n
    <3>2. ASSUME NEW j \in 1 .. Len(stack'[u]), i # j
          PROVE  stack'[u][i].call \in overlapped'
      <4>1. j \in 1 .. Len(stack[t])
        BY <1>2, <2>3, <3>2 DEF Pushed, n
      <4> QED BY <1>3, <1>6, <3>1, <4>1
    <3> QED BY <1>1, <1>3, <1>5, <1>8, <2>1, <3>1, <3>2
  <2> QED BY <1>2, <2>2, <2>3 DEF Pushed, n
<1>22. StartInv'
  <2> SUFFICES ASSUME NEW u \in DOMAIN op_start'
               PROVE  LET d == op_start'[u] IN
                      /\ d.call \in orphans' \/ \E i \in 1 .. Len(stack'[u]) : Wrote(stack'[u][i], d)
                      /\ d.call < calls'
                      /\ PassMountFilter(d.dev)
                      /\ \A e \in events' : e.start # d.call
    BY DEF StartInv, Wrote, PassMountFilter
  <2>1. CASE u = t /\ op_start'[u] = c /\ Stored(t, op, dev, sdev)
    <3>1. n \in 1 .. Len(stack'[u]) /\ Wrote(stack'[u][n], c)
      BY <1>2, <1>3, <1>9, <2>1 DEF Pushed, n, Wrote, Stored
    <3> QED BY <1>1, <1>2, <1>5, <1>8, <1>9, <2>1, <3>1 DEF Stored
  <2>2. CASE u \in DOMAIN op_start /\ op_start'[u] = op_start[u]
    <3> DEFINE d == op_start[u]
    <3>1. /\ d.call \in orphans \/ \E i \in 1 .. Len(stack[u]) : Wrote(stack[u][i], d)
          /\ PassMountFilter(d.dev)
          /\ \A e \in events : e.start # d.call
      BY <2>2 DEF IInv, StartInv
    <3>2. d.call \in Nat /\ d.call < calls /\ u \in Threads
      BY <1>7, <2>2 DEF IInv, TypeInv, Start
    <3>3. op_start'[u] = d
      BY <2>2
    <3> HIDE DEF d
    <3>4. (\E i \in 1 .. Len(stack[u]) : Wrote(stack[u][i], d))
            => \E i \in 1 .. Len(stack'[u]) : Wrote(stack'[u][i], d)
      BY <1>2, <3>2 DEF Pushed
    <3> QED BY <1>1, <1>2, <1>5, <3>1, <3>2, <3>3, <3>4
  <2> QED BY <1>10, <2>1, <2>2
<1>23. DistinctInv'
    BY <1>7, <1>9, <1>10 DEF IInv, DistinctInv
<1>24. ReportInv'
  <2> SUFFICES ASSUME NEW u \in Threads, NEW i \in 1 .. Len(stack'[u]),
                      stack'[u][i].entered, Expected(stack'[u][i])
               PROVE  \/ stack'[u][i].call \in refused' \cup overlapped'
                      \/ u \in DOMAIN op_start' /\ op_start'[u].call = stack'[u][i].call
    BY DEF ReportInv, Expected
  <2>1. CASE i \in 1 .. Len(stack[u]) /\ stack'[u][i] = stack[u][i]
    <3>1. CASE u = t
      BY <1>6, <2>1, <3>1
    <3>2. CASE u # t
      <4>1. \/ stack[u][i].call \in refused \cup overlapped
            \/ u \in DOMAIN op_start /\ op_start[u].call = stack[u][i].call
        BY <2>1 DEF IInv, ReportInv
      <4> QED BY <1>6, <1>10, <1>11, <2>1, <3>2, <4>1
    <3> QED BY <3>1, <3>2
  <2>2. CASE u = t /\ i = n
    <3>1. stack'[u][i] = f
      BY <1>2, <2>2 DEF Pushed, n
    <3>2. CASE Skipped(f)
      BY <1>3, <3>1, <3>2 DEF Skipped
    <3>3. CASE Stored(t, op, dev, sdev)
      <4>1. t \in DOMAIN op_start' /\ op_start'[t] = c
        BY <3>3 DEF Stored, Put, c
      <4> QED BY <1>3, <1>9, <2>2, <3>1, <4>1
    <3> QED BY <1>4, <3>2, <3>3
  <2> QED BY <1>2, <2>1, <2>2 DEF Pushed, n
<1>25. EventInv'
    BY <1>1, <1>2, <1>5 DEF IInv, EventInv
<1>26. PairedEvents' /\ SlowExactly'
    BY <1>5, <1>6, <1>11 DEF IInv, PairedEvents, SlowExactly
<1> QED BY <1>2, <1>20, <1>21, <1>22, <1>23, <1>24, <1>25, <1>26 DEF IInv

(***************************************************************************)
(* Return probes.                                                          *)
(***************************************************************************)

\* What every return has in common: the top of the stack goes, and what it leaves in
\* vma and vma_dev_map has its type.
Leaves(t) ==
    /\ Pop(t)
    /\ missed' \in 0 .. MaxMissed /\ vma' \in [Pids \X Pages -> Devs \cup {0, Unmapped}]
    /\ torn' \subseteq Pids \X Pages
    /\ vma_dev_map' \in [DOMAIN vma_dev_map' -> Devs \cup {0}] /\ Bounded(vma_dev_map)'
    /\ UNCHANGED <<overlapped, threshold_config, configured, now>>

\* The calls that stay on the stacks are others than the one that returns.
LEMMA LeavesStack ==
    ASSUME IInv, NEW t \in Threads, Leaves(t)
    PROVE  /\ Popped(t) /\ KernelInv' /\ CallsInv' /\ calls' = calls /\ calls \in Nat
           /\ Len(stack[t]) \in 1 .. Len(stack[t])
           /\ Top(t) = stack[t][Len(stack[t])] /\ Top(t) \in Frame /\ Top(t).call \in 0 .. (calls - 1)
           /\ \A u \in Threads : \A i \in 1 .. Len(stack'[u]) :
                /\ i \in 1 .. Len(stack[u]) /\ stack'[u][i] = stack[u][i]
                /\ stack[u][i].call # Top(t).call
                /\ u = t => i # Len(stack[t])
<1>1. Popped(t) /\ stack' \in [Threads -> Seq(Frame)] /\ UNCHANGED <<attached, calls, unseen>>
      /\ CallsInv' /\ Top(t) \in Frame
    BY PopStep DEF IInv, Leaves
<1>2. KernelInv'
    BY <1>1 DEF IInv, KernelInv, Leaves
<1>3. Top(t) = stack[t][Len(stack[t])] /\ Len(stack[t]) \in 1 .. Len(stack[t])
    BY <1>1 DEF Top, Popped
<1>4. calls \in Nat /\ Top(t).call \in Nat
    BY <1>1, KernelAssumption DEF IInv, KernelInv, Frame
<1>5. Top(t).call < calls
    BY <1>3 DEF IInv, CallsInv
<1>6. ASSUME NEW u \in Threads, NEW i \in 1 .. Len(stack'[u])
      PROVE  /\ i \in 1 .. Len(stack[u]) /\ stack'[u][i] = stack[u][i]
             /\ stack[u][i].call # Top(t).call
             /\ u = t => i # Len(stack[t])
  <2>1. i \in 1 .. Len(stack[u]) /\ stack'[u][i] = stack[u][i]
    BY <1>1 DEF Popped
  <2>2. u = t => i # Len(stack[t])
    BY <1>1 DEF Popped
  <2>3. stack[u][i].call # Top(t).call
    BY <1>3, <2>1, <2>2 DEF IInv, CallsInv
  <2> QED BY <2>1, <2>2, <2>3
<1> QED BY <1>1, <1>2, <1>3, <1>4, <1>5, <1>6

\* A return that is not traced makes its call an orphan.
LEMMA OrphanKeeps ==
    ASSUME IInv, NEW t \in Threads, Leaves(t), orphans' = orphans \cup {Top(t).call},
           UNCHANGED <<op_start, events, refused, slow>>
    PROVE  IInv'
<1> DEFINE f == Top(t)
           N == Len(stack[t])
<1>1. /\ Popped(t) /\ KernelInv' /\ CallsInv' /\ calls' = calls /\ calls \in Nat
      /\ N \in 1 .. Len(stack[t]) /\ f = stack[t][N] /\ f.call \in 0 .. (calls - 1)
      /\ \A u \in Threads : \A i \in 1 .. Len(stack'[u]) :
           i \in 1 .. Len(stack[u]) /\ stack'[u][i] = stack[u][i] /\ stack[u][i].call # f.call
    BY LeavesStack
<1>2. UNCHANGED <<overlapped, threshold_config, configured, now>> /\ orphans' = orphans \cup {f.call}
    BY DEF Leaves
<1> HIDE DEF f, N
<1>3. TypeInv'
    BY <1>1, <1>2 DEF IInv, TypeInv, Leaves, Bounded
<1>4. StackInv'
  <2> SUFFICES ASSUME NEW u \in Threads, NEW i \in 1 .. Len(stack'[u])
               PROVE  /\ \A j \in 1 .. Len(stack'[u]) : i # j => stack'[u][i].call \in overlapped'
                      /\ stack'[u][i].call \notin orphans'
                      /\ \A e \in events' : e.end # stack'[u][i].call
    BY DEF StackInv
  <2>1. \A j \in 1 .. Len(stack'[u]) : j \in 1 .. Len(stack[u]) /\ stack'[u][j] = stack[u][j]
    BY <1>1
  <2>2. stack[u][i].call # f.call
    BY <1>1
  <2> QED BY <1>2, <2>1, <2>2 DEF IInv, StackInv
<1>5. StartInv'
  <2> SUFFICES ASSUME NEW u \in DOMAIN op_start'
               PROVE  LET d == op_start'[u] IN
                      /\ d.call \in orphans' \/ \E i \in 1 .. Len(stack'[u]) : Wrote(stack'[u][i], d)
                      /\ d.call < calls'
                      /\ PassMountFilter(d.dev)
                      /\ \A e \in events' : e.start # d.call
    BY DEF StartInv, Wrote, PassMountFilter
  <2> DEFINE d == op_start[u]
  <2>1. /\ d.call \in orphans \/ \E i \in 1 .. Len(stack[u]) : Wrote(stack[u][i], d)
        /\ d.call < calls
        /\ PassMountFilter(d.dev)
        /\ \A e \in events : e.start # d.call
    BY DEF IInv, StartInv
  <2>2. op_start'[u] = d /\ u \in Threads
    BY DEF IInv, TypeInv
  <2> HIDE DEF d
  <2>3. ASSUME NEW i \in 1 .. Len(stack[u]), Wrote(stack[u][i], d)
        PROVE  d.call \in orphans' \/ \E j \in 1 .. Len(stack'[u]) : Wrote(stack'[u][j], d)
    <3>1. CASE i \in 1 .. Len(stack'[u]) /\ stack'[u][i] = stack[u][i]
      BY <2>3, <3>1
    <3>2. CASE u = t /\ i = N
      BY <1>1, <1>2, <2>3, <3>2 DEF Wrote
    <3> QED BY <1>1, <2>2, <3>1, <3>2 DEF Popped, N
  <2> QED BY <1>1, <1>2, <2>1, <2>2, <2>3
<1>6. DistinctInv' /\ EventInv' /\ SlowExactly'
    BY <1>1, <1>2 DEF IInv, DistinctInv, EventInv, SlowExactly
<1>7. ReportInv'
  <2> SUFFICES ASSUME NEW u \in Threads, NEW i \in 1 .. Len(stack'[u]),
                      stack'[u][i].entered, Expected(stack'[u][i])
               PROVE  \/ stack'[u][i].call \in refused' \cup overlapped'
                      \/ u \in DOMAIN op_start' /\ op_start'[u].call = stack'[u][i].call
    BY DEF ReportInv, Expected
  <2>1. i \in 1 .. Len(stack[u]) /\ stack'[u][i] = stack[u][i]
    BY <1>1
  <2>2. \/ stack[u][i].call \in refused \cup overlapped
        \/ u \in DOMAIN op_start /\ op_start[u].call = stack[u][i].call
    BY <2>1 DEF IInv, ReportInv
  <2> QED BY <1>2, <2>1, <2>2
<1>8. PairedEvents'
    BY <1>2 DEF IInv, PairedEvents
<1> QED BY <1>1, <1>3, <1>4, <1>5, <1>6, <1>7, <1>8 DEF IInv

\* The event that the return of call f makes of the start found.
EventOf(t, f) ==
    [op |-> op_start[t].op, start |-> op_start[t].call, end |-> f.call, dev |-> f.dev,
     delta_us |-> (now - op_start[t].ts) % U32, took |-> now - f.ts, torn |-> f.torn, armed |-> configured]

\* What a return probe does: the start goes, with an event, a loss, or neither when
\* there is none or the call was fast.
Reported(t, f) ==
    /\ DOMAIN op_start' = DOMAIN op_start \ {t}
    /\ \A u \in DOMAIN op_start' : op_start'[u] = op_start[u]
    /\ op_start' = [u \in DOMAIN op_start' |-> op_start'[u]]
    /\ \/ /\ t \in DOMAIN op_start /\ ~(now - op_start[t].ts < threshold_config)
          /\ events' = events \cup {EventOf(t, f)} /\ refused' = refused
       \/ events' = events /\ refused' = refused \cup {f.call}
       \/ /\ t \in DOMAIN op_start => now - op_start[t].ts < threshold_config
          /\ events' = events /\ refused' = refused
    /\ \/ slow' = slow
       \/ f.entered /\ Expected(f) /\ now - f.ts >= MinUs /\ slow' = slow \cup {f.call}
    /\ orphans' = orphans

LEMMA ReportedShape ==
    ASSUME TypeInv, NEW t \in Threads, Return(t), ReturnAttached(Top(t).op)
    PROVE  Reported(t, Top(t))
<1> DEFINE f == Top(t)
<1>1. FinishEvent(t, f) /\ orphans' = orphans
      /\ slow' = IF f.entered /\ Expected(f) /\ now - f.ts >= MinUs THEN slow \cup {f.call} ELSE slow
    BY DEF Return
<1>2. op_start = [u \in DOMAIN op_start |-> op_start[u]]
    BY DEF TypeInv
<1> HIDE DEF f
<1>3. CASE t \notin DOMAIN op_start
  <2>1. UNCHANGED <<events, refused, op_start>>
    BY <1>1, <1>3 DEF FinishEvent
  <2> QED BY <1>1, <1>2, <1>3, <2>1 DEF Reported, f
<1>4. CASE t \in DOMAIN op_start
  <2>1. EmitEvent(op_start[t], f) /\ op_start' = [u \in DOMAIN op_start \ {t} |-> op_start[u]]
    BY <1>1, <1>4 DEF FinishEvent, Drop
  <2>2. /\ DOMAIN op_start' = DOMAIN op_start \ {t}
        /\ \A u \in DOMAIN op_start' : op_start'[u] = op_start[u]
        /\ op_start' = [u \in DOMAIN op_start' |-> op_start'[u]]
    BY <2>1
  <2>3. CASE now - op_start[t].ts < threshold_config
    <3>1. UNCHANGED <<events, refused>>
      BY <2>1, <2>3 DEF EmitEvent
    <3> QED BY <1>1, <1>4, <2>2, <2>3, <3>1 DEF Reported, f
  <2>4. CASE ~(now - op_start[t].ts < threshold_config)
    <3>1. \/ events' = events \cup {EventOf(t, f)} /\ refused' = refused
          \/ events' = events /\ refused' = refused \cup {f.call}
      BY <2>1, <2>4 DEF EmitEvent, EventOf, Lose
    <3> QED BY <1>1, <1>4, <2>2, <2>4, <3>1 DEF Reported, f
  <2> QED BY <2>3, <2>4
<1> QED BY <1>3, <1>4

\* The remainder fits the field.
LEMMA ModBound == \A d \in Nat : d % U32 \in 0 .. (U32 - 1)
    BY SlowerAssumption

LEMMA ReportedKeeps ==
    ASSUME IInv, NEW t \in Threads, Leaves(t), Reported(t, Top(t))
    PROVE  IInv'
<1> DEFINE f == Top(t)
           N == Len(stack[t])
           c == op_start[t]
           e == EventOf(t, f)
<1>1. /\ Popped(t) /\ KernelInv' /\ CallsInv' /\ calls' = calls /\ calls \in Nat
      /\ N \in 1 .. Len(stack[t]) /\ f = stack[t][N] /\ f \in Frame /\ f.call \in 0 .. (calls - 1)
      /\ \A u \in Threads : \A i \in 1 .. Len(stack'[u]) :
           /\ i \in 1 .. Len(stack[u]) /\ stack'[u][i] = stack[u][i] /\ stack[u][i].call # f.call
           /\ u = t => i # N
    BY LeavesStack, SMTT(40)
<1>2. UNCHANGED <<overlapped, threshold_config, configured, now>>
    BY DEF Leaves
<1>3. f.op \in OpNames /\ f.dev \in Devs \cup {0} /\ f.ts \in Nat
    BY <1>1 DEF Frame
<1>4. /\ e.start = c.call /\ e.end = f.call /\ e.dev = f.dev /\ e.armed = configured
      /\ e.delta_us = (now - c.ts) % U32 /\ e.took = now - f.ts
    BY DEF EventOf
<1>5. /\ DOMAIN op_start' = DOMAIN op_start \ {t}
      /\ \A u \in DOMAIN op_start' : op_start'[u] = op_start[u]
      /\ op_start' = [u \in DOMAIN op_start' |-> op_start'[u]]
      /\ orphans' = orphans
    BY DEF Reported
<1>6. \/ /\ t \in DOMAIN op_start /\ ~(now - c.ts < threshold_config)
         /\ events' = events \cup {e} /\ refused' = refused
      \/ events' = events /\ refused' = refused \cup {f.call}
      \/ /\ t \in DOMAIN op_start => now - c.ts < threshold_config
         /\ events' = events /\ refused' = refused
    BY DEF Reported
<1>7. \/ slow' = slow
      \/ f.entered /\ Expected(f) /\ now - f.ts >= MinUs /\ slow' = slow \cup {f.call}
    BY DEF Reported
<1>8. ASSUME t \in DOMAIN op_start
      PROVE  /\ c \in Start /\ c.call \in 0 .. (calls - 1) /\ now - c.ts \in Nat
             /\ c.call \in orphans \/ \E i \in 1 .. Len(stack[t]) : Wrote(stack[t][i], c)
             /\ \A g \in events : g.start # c.call
  <2>1. c \in Start /\ c.ts <= now /\ now \in Nat
    BY <1>8, SlowerAssumption DEF IInv, TypeInv
  <2>2. /\ c.call \in orphans \/ \E i \in 1 .. Len(stack[t]) : Wrote(stack[t][i], c)
        /\ c.call < calls
        /\ \A g \in events : g.start # c.call
    BY <1>8 DEF IInv, StartInv
  <2> HIDE DEF c
  <2>3. c.ts \in Nat /\ c.call \in Nat
    BY <2>1 DEF Start
  <2> QED BY <1>1, <2>1, <2>2, <2>3
<1>9. f.call \notin orphans /\ \A g \in events : g.end # f.call
    BY <1>1 DEF IInv, StackInv
<1>10. /\ events \subseteq events' /\ events' \subseteq events \cup {e}
       /\ refused \subseteq refused' /\ refused' \subseteq refused \cup {f.call}
    BY <1>6
<1>11. now \in Nat /\ MinUs \in Nat /\ configured \in BOOLEAN /\ threshold_config \in Nat
       /\ threshold_config <= MinUs /\ (configured => threshold_config = MinUs)
    BY SlowerAssumption DEF IInv, TypeInv
<1> HIDE DEF f, N, c, e
\* A start with the number of the call that returns is its own.
<1>12. ASSUME t \in DOMAIN op_start, c.call = f.call
       PROVE  c.ts = f.ts
  <2>1. PICK i \in 1 .. Len(stack[t]) : Wrote(stack[t][i], c)
    BY <1>8, <1>9, <1>12
  <2>2. i = N
    BY <1>1, <1>12, <2>1 DEF Wrote, IInv, CallsInv
  <2> QED BY <1>1, <2>1, <2>2 DEF Wrote
<1>20. TypeInv'
  <2>1. DOMAIN op_start' \subseteq Threads
    BY <1>5 DEF IInv, TypeInv
  <2>2. op_start' \in [DOMAIN op_start' -> Start]
    <3>1. \A u \in DOMAIN op_start' : op_start'[u] \in Start
      BY <1>5 DEF IInv, TypeInv
    <3> QED BY <1>5, <3>1
  <2>3. \A u \in DOMAIN op_start' : op_start'[u].ts <= now'
    BY <1>2, <1>5 DEF IInv, TypeInv
  <2>4. Bounded(op_start)'
    <3>1. Bounded(Drop(op_start, t))
      BY DropBounded DEF IInv, TypeInv
    <3>2. DOMAIN op_start' = DOMAIN Drop(op_start, t)
      BY <1>5 DEF Drop
    <3> QED BY <3>1, <3>2 DEF Bounded
  <2>5. (refused \cup orphans \cup overlapped \cup slow)' \subseteq 0 .. (calls' - 1)
    BY <1>1, <1>2, <1>5, <1>7, <1>10 DEF IInv, TypeInv
  <2>6. configured' \in BOOLEAN /\ now' \in 0 .. MaxTime /\ threshold_config' = IF configured' THEN MinUs ELSE 0
    BY <1>2 DEF IInv, TypeInv
  <2> QED BY <2>1, <2>2, <2>3, <2>4, <2>5, <2>6 DEF TypeInv, Leaves
<1>21. StackInv'
  <2> SUFFICES ASSUME NEW u \in Threads, NEW i \in 1 .. Len(stack'[u])
               PROVE  /\ \A j \in 1 .. Len(stack'[u]) : i # j => stack'[u][i].call \in overlapped'
                      /\ stack'[u][i].call \notin orphans'
                      /\ \A g \in events' : g.end # stack'[u][i].call
    BY DEF StackInv
  <2>1. \A j \in 1 .. Len(stack'[u]) : j \in 1 .. Len(stack[u]) /\ stack'[u][j] = stack[u][j]
    BY <1>1
  <2>2. stack[u][i].call # f.call
    BY <1>1
  <2>3. \A g \in events' : g.end # stack'[u][i].call
    BY <1>4, <1>10, <2>1, <2>2 DEF IInv, StackInv
  <2> QED BY <1>2, <1>5, <2>1, <2>3 DEF IInv, StackInv
<1>22. StartInv'
  <2> SUFFICES ASSUME NEW u \in DOMAIN op_start'
               PROVE  LET d == op_start'[u] IN
                      /\ d.call \in orphans' \/ \E i \in 1 .. Len(stack'[u]) : Wrote(stack'[u][i], d)
                      /\ d.call < calls'
                      /\ PassMountFilter(d.dev)
                      /\ \A g \in events' : g.start # d.call
    BY DEF StartInv, Wrote, PassMountFilter
  <2> DEFINE d == op_start[u]
  <2>1. op_start'[u] = d /\ u \in DOMAIN op_start /\ u # t /\ u \in Threads
    BY <1>5 DEF IInv, TypeInv
  <2>2. /\ d.call \in orphans \/ \E i \in 1 .. Len(stack[u]) : Wrote(stack[u][i], d)
        /\ d.call < calls
        /\ PassMountFilter(d.dev)
        /\ \A g \in events : g.start # d.call
    BY <2>1 DEF IInv, StartInv
  <2>3. t \in DOMAIN op_start => c.call # d.call
    BY <2>1 DEF IInv, DistinctInv, c
  <2> HIDE DEF d
  <2>4. ASSUME NEW i \in 1 .. Len(stack[u]), Wrote(stack[u][i], d)
        PROVE  \E j \in 1 .. Len(stack'[u]) : Wrote(stack'[u][j], d)
    <3>1. i \in 1 .. Len(stack'[u]) /\ stack'[u][i] = stack[u][i]
      BY <1>1, <2>1 DEF Popped
    <3> QED BY <2>4, <3>1
  <2>5. \A g \in events' : g.start # d.call
    BY <1>4, <1>6, <2>2, <2>3
  <2> QED BY <1>1, <1>5, <2>1, <2>2, <2>4, <2>5
<1>23. DistinctInv'
    BY <1>5 DEF IInv, DistinctInv
<1>24. ReportInv'
  <2> SUFFICES ASSUME NEW u \in Threads, NEW i \in 1 .. Len(stack'[u]),
                      stack'[u][i].entered, Expected(stack'[u][i])
               PROVE  \/ stack'[u][i].call \in refused' \cup overlapped'
                      \/ u \in DOMAIN op_start' /\ op_start'[u].call = stack'[u][i].call
    BY DEF ReportInv, Expected
  <2>1. i \in 1 .. Len(stack[u]) /\ stack'[u][i] = stack[u][i] /\ (u = t => i # N)
    BY <1>1
  <2>2. \/ stack[u][i].call \in refused \cup overlapped
        \/ u \in DOMAIN op_start /\ op_start[u].call = stack[u][i].call
    BY <2>1 DEF IInv, ReportInv
  <2>3. CASE u = t
    <3>1. stack[u][i].call \in overlapped
      BY <1>1, <2>1, <2>3 DEF IInv, StackInv
    <3> QED BY <1>2, <2>1, <3>1
  <2>4. CASE u # t
    BY <1>2, <1>5, <1>10, <2>1, <2>2, <2>4
  <2> QED BY <2>3, <2>4
<1>25. EventInv'
  <2>1. ASSUME t \in DOMAIN op_start
        PROVE  /\ e.delta_us \in 0 .. (U32 - 1) /\ e.dev \in Devs \cup {0}
               /\ e.start \in 0 .. (calls - 1) /\ e.end \in 0 .. (calls - 1)
    BY <1>1, <1>3, <1>4, <1>8, <2>1, ModBound
  <2> QED BY <1>1, <1>6, <2>1 DEF IInv, EventInv
<1>26. PairedEvents'
  <2>1. ASSUME t \in DOMAIN op_start, c.call # f.call
        PROVE  c.call \in orphans \/ f.call \in overlapped
    <3> SUFFICES ASSUME NEW i \in 1 .. Len(stack[t]), Wrote(stack[t][i], c)
                 PROVE  f.call \in overlapped
      BY <1>8, <2>1
    <3>1. i # N
      BY <1>1, <2>1 DEF Wrote
    <3> QED BY <1>1, <3>1 DEF IInv, StackInv
  <2>2. \A g \in events' : g.start # g.end => g.start \in orphans' \/ g.end \in overlapped'
    BY <1>2, <1>4, <1>5, <1>6, <2>1 DEF IInv, PairedEvents
  <2>3. \A g, h \in events' : g.start = h.start \/ g.end = h.end => g = h
    BY <1>4, <1>6, <1>8, <1>9 DEF IInv, PairedEvents
  <2>4. \A g \in events' : g.start = g.end => g.delta_us = g.took % U32
    BY <1>4, <1>6, <1>12 DEF IInv, PairedEvents
  <2> QED BY <2>2, <2>3, <2>4 DEF PairedEvents
<1>27. SlowExactly'
  <2>1. ASSUME NEW n \in slow' \ (refused' \cup overlapped')
        PROVE  \E g \in events' : g.start = n /\ g.end = n
    <3>1. CASE n \in slow
      BY <1>2, <1>10, <3>1 DEF IInv, SlowExactly
    <3>2. CASE n \notin slow
      <4>1. n = f.call /\ f.entered /\ Expected(f) /\ now - f.ts >= MinUs
        BY <1>7, <3>2
      <4>2. t \in DOMAIN op_start /\ c.call = f.call
        BY <1>1, <1>2, <1>10, <4>1 DEF IInv, ReportInv, c
      <4>3. ~(now - c.ts < threshold_config)
        BY <1>3, <1>11, <1>12, <4>1, <4>2
      <4>4. events' = events \cup {e}
        BY <1>6, <4>1, <4>2, <4>3
      <4> QED BY <1>4, <4>1, <4>2, <4>4
    <3> QED BY <3>1, <3>2
  <2>2. ASSUME t \in DOMAIN op_start, ~(now - c.ts < threshold_config), e.armed, e.start = e.end
        PROVE  e.took >= MinUs
    <3>1. c.ts = f.ts /\ threshold_config = MinUs
      BY <1>4, <1>11, <1>12, <2>2
    <3> QED BY <1>3, <1>4, <1>11, <2>2, <3>1
  <2>3. \A g \in events' : g.armed /\ g.start = g.end => g.took >= MinUs
    BY <1>6, <2>2 DEF IInv, SlowExactly
  <2> QED BY <2>1, <2>3 DEF SlowExactly
<1> QED BY <1>1, <1>20, <1>21, <1>22, <1>23, <1>24, <1>25, <1>26, <1>27 DEF IInv

\* Every return leaves the mappings and vma_dev_map typed.
LEMMA ExitShape ==
    ASSUME IInv, NEW t \in Threads, Exit(t)
    PROVE  Leaves(t) /\ Return(t)
<1>1. Return(t)
    BY DEF Exit, TraceExit, ExitMmap, ExitMapError, ExitMunmap
<1>2. Pop(t) /\ missed' = missed /\ UNCHANGED <<overlapped, threshold_config, configured, now>>
    BY <1>1 DEF Return
<1>3. missed' \in 0 .. MaxMissed
    BY <1>2 DEF IInv, KernelInv
<1>4. vma \in [Pids \X Pages -> Devs \cup {0, Unmapped}] /\ torn \subseteq Pids \X Pages
    BY DEF IInv, KernelInv
<1>5. vma_dev_map \in [DOMAIN vma_dev_map -> Devs \cup {0}] /\ Bounded(vma_dev_map)
    BY DEF IInv, TypeInv
<1>6. Top(t) \in Frame /\ Top(t).dev \in Devs \cup {0}
    BY <1>2, PopStep DEF IInv, Frame
<1>7. CASE UNCHANGED <<vma_dev_map, vma, torn>>
    BY <1>1, <1>2, <1>3, <1>4, <1>5, <1>7 DEF Leaves, Bounded
<1>8. CASE ExitMunmap(t)
  <2>1. vma' \in [Pids \X Pages -> Devs \cup {0, Unmapped}] /\ torn' \subseteq Pids \X Pages
    BY <1>6, <1>8, UnmappedType DEF ExitMunmap, IInv
  <2> QED BY <1>1, <1>2, <1>3, <1>5, <1>8, <2>1 DEF Leaves, Bounded, ExitMunmap
<1>9. CASE ExitMmap(t)
  <2> DEFINE q(r) == VmaKey(PidOf[t], r.start)
             v == op_start[t].dev
  <2>1. PICK range \in Ranges :
          /\ Mapped(t, range, Filed(t, q(range)))
          /\ vma_dev_map' = IF Filed(t, q(range)) = {} THEN vma_dev_map ELSE Put(vma_dev_map, q(range), v)
    BY <1>9 DEF ExitMmap
  <2>2. vma' \in [Pids \X Pages -> Devs \cup {0, Unmapped}] /\ torn' \subseteq Pids \X Pages
    BY <1>6, <2>1, MappedType DEF IInv
  <2>3. t \in DOMAIN op_start => v \in Devs \cup {0}
    BY DEF IInv, TypeInv, Start
  <2>4. CASE vma_dev_map' = vma_dev_map
    BY <1>1, <1>2, <1>3, <1>5, <2>2, <2>4 DEF Leaves, Bounded
  <2>5. CASE vma_dev_map' = Put(vma_dev_map, q(range), v) /\ Filed(t, q(range)) # {}
    <3> HIDE DEF q, v
    <3>1. HasRoom(vma_dev_map, q(range)) /\ v \in Devs \cup {0}
      BY <2>3, <2>5 DEF Filed
    <3>2. Bounded(Put(vma_dev_map, q(range), v))
      BY <1>5, <3>1, PutBounded
    <3>3. Put(vma_dev_map, q(range), v) \in [DOMAIN Put(vma_dev_map, q(range), v) -> Devs \cup {0}]
      BY <1>5, <3>1 DEF Put
    <3> QED BY <1>1, <1>2, <1>3, <2>2, <2>5, <3>2, <3>3 DEF Leaves, Bounded
  <2> QED BY <2>1, <2>4, <2>5
<1> QED BY <1>1, <1>7, <1>8, <1>9 DEF Exit, TraceExit, ExitMapError

\* A missed return does, too.
LEMMA MissShape ==
    ASSUME IInv, NEW t \in Threads, MissedReturn(t)
    PROVE  Leaves(t)
<1>1. /\ Pop(t) /\ missed' \in 0 .. MaxMissed
      /\ UNCHANGED <<vma_dev_map, overlapped, threshold_config, configured, now>>
    BY KernelAssumption DEF MissedReturn, Miss, IInv, KernelInv
<1>2. Top(t) \in Frame /\ Top(t).dev \in Devs \cup {0}
    BY <1>1, PopStep DEF IInv, Frame
<1>3. vma' \in [Pids \X Pages -> Devs \cup {0, Unmapped}] /\ torn' \subseteq Pids \X Pages
  <2>1. CASE UNCHANGED <<vma, torn>>
    BY <2>1 DEF IInv, KernelInv
  <2>2. CASE \E range \in Ranges : Mapped(t, range, {})
    BY <1>2, <2>2, MappedType DEF IInv
  <2>3. CASE UnmappedBy(t)
    BY <1>2, <2>3, UnmappedType DEF IInv
  <2> QED BY <2>1, <2>2, <2>3 DEF MissedReturn, Miss
<1> QED BY <1>1, <1>3 DEF Leaves, IInv, TypeInv, Bounded

\* Every step keeps the invariant.
LEMMA SlowerStep == IInv /\ [Next]_vars => IInv'
<1> SUFFICES ASSUME IInv, [Next]_vars PROVE IInv'
    OBVIOUS
<1>1. ASSUME NEW t \in Threads, Enter(t)
      PROVE  IInv'
    BY <1>1, EnterShape, EnterKeeps DEF IInv
<1>2. ASSUME NEW t \in Threads, Exit(t)
      PROVE  IInv'
  <2>1. Leaves(t) /\ Return(t)
    BY <1>2, ExitShape
  <2>2. CASE ReturnAttached(Top(t).op)
    BY <2>1, <2>2, ReportedShape, ReportedKeeps DEF IInv
  <2>3. CASE ~ReturnAttached(Top(t).op)
    <3>1. orphans' = orphans \cup {Top(t).call} /\ UNCHANGED <<op_start, events, refused, slow>>
      BY <2>1, <2>3 DEF Return
    <3> QED BY <2>1, <3>1, OrphanKeeps
  <2> QED BY <2>2, <2>3
<1>3. ASSUME NEW t \in Threads, MissedReturn(t)
      PROVE  IInv'
  <2>1. Leaves(t)
    BY <1>3, MissShape
  <2> QED BY <1>3, <2>1, OrphanKeeps DEF MissedReturn
<1>4. ASSUME KernelInv', CallsInv', TypeInv', UNCHANGED <<stack, calls, bpfVars>>
      PROVE  IInv'
  <2>1. UNCHANGED <<op_start, events, refused, orphans, overlapped, slow>>
    BY <1>4 DEF bpfVars
  <2>2. StackInv' /\ DistinctInv' /\ EventInv'
    BY <1>4, <2>1 DEF IInv, StackInv, DistinctInv, EventInv
  <2>3. StartInv'
    <3> SUFFICES ASSUME NEW u \in DOMAIN op_start'
                 PROVE  LET d == op_start'[u] IN
                        /\ d.call \in orphans' \/ \E i \in 1 .. Len(stack'[u]) : Wrote(stack'[u][i], d)
                        /\ d.call < calls'
                        /\ PassMountFilter(d.dev)
                        /\ \A e \in events' : e.start # d.call
      BY DEF StartInv, Wrote, PassMountFilter
    <3> QED BY <1>4, <2>1 DEF IInv, StartInv
  <2>4. ReportInv'
    BY <1>4, <2>1 DEF IInv, ReportInv, Expected
  <2>5. PairedEvents' /\ SlowExactly'
    BY <1>4, <2>1 DEF IInv, PairedEvents, SlowExactly
  <2> QED BY <1>4, <2>2, <2>3, <2>4, <2>5 DEF IInv
<1>5. ASSUME UNCHANGED <<calls, bpfVars, threshold_config, configured, now>>
      PROVE  TypeInv'
    BY <1>5 DEF bpfVars, IInv, TypeInv, Bounded
<1>6. CASE AttachNext
  <2>1. Len(Ops) \in Nat
    BY KernelAssumption
  <2>2. KernelInv'
    <3>1. attached \in 0 .. 2 * Len(Ops) /\ attached # 2 * Len(Ops) /\ attached' = attached + 1
      BY <1>6 DEF AttachNext, Attach, AllAttached, IInv, KernelInv
    <3>2. attached' \in 0 .. 2 * Len(Ops)
      BY <2>1, <3>1
    <3> QED BY <1>6, <3>2 DEF AttachNext, Attach, IInv, KernelInv
  <2>3. CallsInv'
    BY <1>6 DEF AttachNext, Attach, IInv, CallsInv
  <2> QED BY <1>4, <1>5, <1>6, <2>2, <2>3 DEF AttachNext, Attach
<1>7. CASE ChangeUnseen
  <2>1. PICK pid \in Pids : Unseen(pid)
    BY <1>7 DEF ChangeUnseen
  <2>2. KernelInv'
    BY <2>1, UnseenType DEF IInv
  <2>3. CallsInv'
    BY <2>1 DEF Unseen, IInv, CallsInv
  <2> QED BY <1>4, <1>5, <1>7, <2>1, <2>2, <2>3 DEF ChangeUnseen, Unseen
<1>8. ASSUME UNCHANGED kernelVars
      PROVE  KernelInv' /\ CallsInv' /\ UNCHANGED <<stack, calls>>
  <2>1. UNCHANGED <<attached, stack, vma, calls, missed, unseen, torn>>
    BY <1>8 DEF kernelVars
  <2>2. KernelInv'
    BY <2>1 DEF IInv, KernelInv
  <2>3. CallsInv'
    BY <2>1 DEF IInv, CallsInv
  <2> QED BY <2>1, <2>2, <2>3
<1>9. CASE SetThreshold
  <2>1. /\ threshold_config' = MinUs /\ configured' = TRUE /\ now' = now
        /\ UNCHANGED <<kernelVars, bpfVars>>
    BY <1>9 DEF SetThreshold
  <2>2. TypeInv'
    BY <1>8, <2>1 DEF bpfVars, IInv, TypeInv, Bounded
  <2> QED BY <1>4, <1>8, <2>1, <2>2
<1>10. CASE Tick
  <2>1. /\ now < MaxTime /\ now' = now + 1
        /\ UNCHANGED <<kernelVars, bpfVars, threshold_config, configured>>
    BY <1>10 DEF Tick
  <2>2. now' \in 0 .. MaxTime
    BY <2>1, SlowerAssumption DEF IInv, TypeInv
  <2>3. \A u \in DOMAIN op_start : op_start[u].ts <= now'
    BY <2>1, SlowerAssumption DEF IInv, TypeInv, Start
  <2>4. TypeInv'
    BY <1>8, <2>1, <2>2, <2>3 DEF bpfVars, IInv, TypeInv, Bounded
  <2> QED BY <1>4, <1>8, <2>1, <2>4
<1>11. CASE UNCHANGED vars
    BY <1>4, <1>5, <1>8, <1>11 DEF vars, kernelVars, bpfVars
<1> QED BY <1>1, <1>2, <1>3, <1>6, <1>7, <1>9, <1>10, <1>11 DEF Next, Loader

\* The invariant holds in every reachable state.
LEMMA SlowerInvariant == Spec => []IInv
    BY SlowerInit, SlowerStep, PTL DEF Spec

\* Every variable keeps its type, the maps their bounds, the latency its 32 bits.
THEOREM SlowerTypeCorrect == Spec => []TypeOK
<1>1. IInv => TypeOK
  <2> SUFFICES ASSUME IInv PROVE TypeOK
    OBVIOUS
  <2>1. calls \in Nat /\ now \in Nat
    BY KernelAssumption, SlowerAssumption DEF IInv, KernelInv, TypeInv
  <2>2. KernelTypeOK
    <3>1. ASSUME NEW t \in Threads, NEW i \in DOMAIN stack[t]
          PROVE  stack[t][i].op \in OpNames /\ stack[t][i].call \in 0 .. (calls - 1)
      <4>1. i \in 1 .. Len(stack[t]) /\ stack[t][i] \in Frame
        BY StackTop DEF IInv
      <4>2. stack[t][i].call < calls
        BY <4>1 DEF IInv, CallsInv
      <4> QED BY <2>1, <4>1, <4>2 DEF Frame
    <3> QED BY <3>1 DEF IInv, KernelInv, KernelTypeOK
  <2>3. ASSUME NEW t \in DOMAIN op_start
        PROVE  /\ op_start[t].dev \in Devs \cup {0} /\ op_start[t].op \in OpNames
               /\ op_start[t].ts \in 0 .. now /\ op_start[t].call \in 0 .. (calls - 1)
    <3>1. op_start[t] \in Start /\ op_start[t].ts <= now /\ op_start[t].call < calls
      BY DEF IInv, TypeInv, StartInv
    <3> QED BY <2>1, <3>1 DEF Start
  <2>4. \A e \in events : e.delta_us \in 0 .. (U32 - 1) /\ e.dev \in Devs \cup {0}
    BY DEF IInv, EventInv
  <2>5. threshold_config \in {0, MinUs}
    BY DEF IInv, TypeInv
  <2> QED BY <2>2, <2>3, <2>4, <2>5 DEF IInv, TypeInv, TypeOK, Bounded
<1> QED BY <1>1, SlowerInvariant, PTL

\* The latency of an event is measured between the entry and the return of one call,
\* but for the starts of orphans and nested calls, and no call is reported twice.
THEOREM SlowerPairedCorrect == Spec => []PairedEvents
<1>1. IInv => PairedEvents
    BY DEF IInv
<1> QED BY <1>1, SlowerInvariant, PTL

\* All slow calls that nothing refused or overlapped are reported, and once the
\* threshold is set only slow calls are.
THEOREM SlowExactlyCorrect == Spec => []SlowExactly
<1>1. IInv => SlowExactly
    BY DEF IInv
<1> QED BY <1>1, SlowerInvariant, PTL

\* op_start holds calls in progress and calls whose return was not traced only.
THEOREM SlowerNoLeftoverCorrect == Spec => []NoLeftover
<1>1. IInv => NoLeftover
  <2> SUFFICES ASSUME IInv, NEW t \in DOMAIN op_start
               PROVE  op_start[t].call \in orphans \cup InProgress(t, OpNames)
    BY DEF NoLeftover
  <2>1. op_start[t].call \in orphans \/ \E i \in 1 .. Len(stack[t]) : Wrote(stack[t][i], op_start[t])
    BY DEF IInv, StartInv
  <2>2. ASSUME NEW i \in 1 .. Len(stack[t]), Wrote(stack[t][i], op_start[t])
        PROVE  op_start[t].call \in InProgress(t, OpNames)
    <3>1. t \in Threads /\ op_start[t].op \in OpNames
      BY DEF IInv, TypeInv, Start
    <3>2. i \in DOMAIN stack[t]
      BY <3>1, StackTop DEF IInv
    <3> QED BY <2>2, <3>1, <3>2 DEF Wrote, InProgress
  <2> QED BY <2>1, <2>2
<1> QED BY <1>1, SlowerInvariant, PTL

(***************************************************************************)
(* With -p, vm_munmap goes by the device that do_mmap filed; on machines   *)
(* where no two pages share a key (the bits of a page number do not reach  *)
(* into the pids there are).                                               *)
(***************************************************************************)
keyOf == [m \in PidPages |-> VmaKey(m[1], m[2])]

Injective ==
    \A p, q \in Pids, a, b \in Pages : VmaKey(p, a) = VmaKey(q, b) => p = q /\ a = b

\* An element is right or its cell is torn; the first page of a vm_munmap under way
\* has no element, or one that was filed since.
MapInv ==
    /\ DevOK(vma_dev_map, keyOf, vma, torn)
    /\ UnmapOK(vma_dev_map, keyOf, Unmapping, torn)

\* A vm_munmap under way whose start passed the filter is of a file of the mount,
\* or began where the element was of another mapping.
OfMount(f) == f.op = "munmap" => f.torn \/ f.dev = FilterDev

PassedInv ==
    \A t \in DOMAIN op_start : \A i \in 1 .. Len(stack[t]) :
        stack[t][i].call = op_start[t].call => OfMount(stack[t][i])

VmaInv == MapInv /\ PassedInv /\ MunmapOnMount

LEMMA KeyOf ==
    ASSUME Injective
    PROVE  OneToOne(keyOf)
<1>1. \A m \in PidPages : m = <<m[1], m[2]>> /\ m[1] \in Pids /\ m[2] \in Pages /\ keyOf[m] = VmaKey(m[1], m[2])
    BY DEF PidPages, keyOf
<1> QED BY <1>1 DEF OneToOne, Injective

\* The key of a thread's page.
LEMMA KeyOfCell ==
    ASSUME NEW t \in Threads, NEW range \in Ranges
    PROVE  keyOf[Cell(t, range.start)] = VmaKey(PidOf[t], range.start)
<1>1. Cell(t, range.start) \in PidPages /\ Cell(t, range.start) = <<PidOf[t], range.start>>
    BY RangeType DEF Cell
<1> QED BY <1>1 DEF keyOf

\* The map after an entry probe: vm_munmap takes the element out.
LEMMA MapEnter ==
    ASSUME IInv, MapInv, NEW t \in Threads, Enter(t)
    PROVE  MapInv'
<1>1. ASSUME NEW op, NEW dev \in Devs \cup {0}, NEW range \in Ranges \cup {NoRange}, CallOf(t, op, dev, range),
             vma_dev_map' = IF op = "munmap" /\ EntryAttached(op)
                            THEN Drop(vma_dev_map, keyOf[Cell(t, range.start)]) ELSE vma_dev_map
      PROVE  MapInv'
  <2>1. Call(t, op, dev, range, now) /\ now \in Nat
    BY <1>1, SlowerAssumption DEF CallOf, IInv, TypeInv
  <2> QED BY <1>1, <2>1, CallOK DEF IInv, MapInv
<1>2. ASSUME NEW op, NEW dev \in Devs, TraceEnter(t, op, dev), op # "munmap"
      PROVE  MapInv'
    BY <1>1, <1>2 DEF TraceEnter
<1>3. CASE \/ EnterOpenReadWrite(t) \/ EnterNamespace(t) \/ EnterMetadata(t) \/ EnterVector(t)
           \/ EnterKprobed(t) \/ EnterDirectory(t) \/ EnterLock(t)
    BY <1>2, <1>3 DEF EnterOpenReadWrite, EnterNamespace, EnterMetadata, EnterVector, EnterKprobed,
                      EnterDirectory, EnterLock
<1>4. CASE EnterMmap(t)
  <2>1. PICK dev \in Devs \cup {0} : CallOf(t, "mmap", dev, NoRange) /\ UNCHANGED vma_dev_map
    BY <1>4 DEF EnterMmap
  <2> QED BY <1>1, <2>1
<1>5. CASE EnterMunmap(t)
  <2>1. PICK range \in Ranges :
          /\ CallOf(t, "munmap", DevOf(Cell(t, range.start)), range)
          /\ vma_dev_map' = IF EntryAttached("munmap")
                            THEN Drop(vma_dev_map, VmaKey(PidOf[t], range.start)) ELSE vma_dev_map
    BY <1>5 DEF EnterMunmap
  <2>2. DevOf(Cell(t, range.start)) \in Devs \cup {0}
    BY RangeType DEF IInv, KernelInv, DevOf, PidPages
  <2>3. VmaKey(PidOf[t], range.start) = keyOf[Cell(t, range.start)]
    BY KeyOfCell
  <2> QED BY <1>1, <2>1, <2>2, <2>3
<1> QED BY <1>3, <1>4, <1>5 DEF Enter

\* What the entry probe of vm_munmap lets through under -p: the element it finds is
\* the device of the mount, so the mapping is of the mount or its cell is torn.
LEMMA PassedMunmap ==
    ASSUME IInv, MapInv, FilterDev # 0, NEW t \in Threads, NEW range \in Ranges,
           PassMountFilter(VmaDev(t, range.start))
    PROVE  Cell(t, range.start) \in torn \/ DevOf(Cell(t, range.start)) = FilterDev
<1> DEFINE m == Cell(t, range.start)
<1>1. m \in PidPages /\ keyOf[m] = VmaKey(PidOf[t], range.start)
    BY RangeType, KeyOfCell
<1>2. keyOf[m] \in DOMAIN vma_dev_map /\ vma_dev_map[keyOf[m]] = FilterDev
    BY <1>1 DEF PassMountFilter, VmaDev
<1> HIDE DEF m
<1>3. m \in torn \/ (vma[m] = FilterDev /\ vma[m] \in Devs)
    BY <1>1, <1>2 DEF MapInv, DevOK, Noted
<1> QED BY <1>3, KernelAssumption DEF DevOf, Unmapped, m

\* An entry probe keeps what is known of the starts.
LEMMA PassedEnter ==
    ASSUME IInv, MapInv, PassedInv, FilterDev # 0, NEW t \in Threads, Enter(t)
    PROVE  PassedInv'
<1>1. PICK op \in OpNames, dev \in Devs \cup {0}, range \in Ranges \cup {NoRange}, sdev \in Devs \cup {0} :
        /\ EnterAs(t, op, dev, range, sdev)
        /\ op = "munmap" => /\ range \in Ranges /\ sdev = VmaDev(t, range.start)
                            /\ dev = DevOf(Cell(t, range.start))
    BY EnterShape DEF IInv
<1> DEFINE f == NewFrame(t, op, dev, range, now)
<1>2. now \in Nat /\ Call(t, op, dev, range, now)
    BY <1>1, SlowerAssumption DEF IInv, TypeInv, EnterAs, CallOf
<1>3. Pushed(t, f)
    BY <1>1, <1>2, CallStep DEF IInv
<1>4. f.op = op /\ f.dev = dev /\ f.call = calls /\ f.torn = (Cell(t, range.start) \in torn)
    BY DEF NewFrame
<1>5. Stored(t, op, dev, sdev) \/ Skipped(f)
    BY <1>1, EnterEffect
<1>6. Stored(t, op, dev, sdev) => OfMount(f)
    BY <1>1, <1>4, PassedMunmap DEF Stored, OfMount
<1> HIDE DEF f
<1>7. ASSUME NEW u \in DOMAIN op_start', NEW i \in 1 .. Len(stack'[u]),
             stack'[u][i].call = op_start'[u].call
      PROVE  OfMount(stack'[u][i])
  <2>1. \/ u \in DOMAIN op_start /\ op_start'[u] = op_start[u]
        \/ u = t /\ op_start'[u].call = calls /\ Stored(t, op, dev, sdev)
    BY <1>5 DEF Stored, Skipped, Put
  <2>2. u \in Threads
    BY <2>1 DEF IInv, TypeInv
  <2>3. CASE i \in 1 .. Len(stack[u]) /\ stack'[u][i] = stack[u][i]
    <3>1. stack[u][i].call < calls /\ calls \in Nat
      BY <2>2, <2>3, KernelAssumption DEF IInv, CallsInv, KernelInv
    <3>2. u \in DOMAIN op_start /\ op_start'[u] = op_start[u]
      BY <1>7, <2>1, <2>3, <3>1
    <3> QED BY <1>7, <2>3, <3>2 DEF PassedInv
  <2>4. CASE u = t /\ stack'[u][i] = f
    <3>1. u \in DOMAIN op_start => op_start[u].call < calls
      BY DEF IInv, StartInv
    <3>2. calls \in Nat
      BY KernelAssumption DEF IInv, KernelInv
    <3>3. Stored(t, op, dev, sdev)
      BY <1>4, <1>7, <2>1, <2>4, <3>1, <3>2
    <3> QED BY <1>6, <2>4, <3>3
  <2> QED BY <1>3, <2>2, <2>3, <2>4 DEF Pushed
<1> QED BY <1>7 DEF PassedInv, OfMount

\* A start of a call in progress was written by it.
LEMMA OwnWrote ==
    ASSUME IInv, NEW t \in DOMAIN op_start, NEW n \in 1 .. Len(stack[t]),
           op_start[t].call = stack[t][n].call
    PROVE  Wrote(stack[t][n], op_start[t])
<1>1. /\ op_start[t].call \in orphans \/ \E i \in 1 .. Len(stack[t]) : Wrote(stack[t][i], op_start[t])
      /\ t \in Threads
    BY DEF IInv, StartInv, TypeInv
<1>2. op_start[t].call \notin orphans
    BY <1>1 DEF IInv, StackInv
<1>3. PICK i \in 1 .. Len(stack[t]) : Wrote(stack[t][i], op_start[t])
    BY <1>1, <1>2
<1>4. i = n
    BY <1>1, <1>3 DEF Wrote, IInv, CallsInv
<1> QED BY <1>3, <1>4

\* A start found by the return of its own do_mmap has the device of that call.
LEMMA OwnStart ==
    ASSUME IInv, FilterDev # 0, NEW t \in DOMAIN op_start, Top(t).op = "mmap",
           Top(t) = stack[t][Len(stack[t])], Len(stack[t]) \in 1 .. Len(stack[t]),
           op_start[t].call = Top(t).call
    PROVE  op_start[t].dev = Top(t).dev /\ op_start[t].dev \in Noted
<1>1. PassMountFilter(op_start[t].dev) /\ op_start[t].dev \in Devs \cup {0}
    BY DEF IInv, StartInv, TypeInv, Start
<1>2. op_start[t].dev = Top(t).dev
    BY OwnWrote DEF Wrote
<1> QED BY <1>1, <1>2 DEF Noted, PassMountFilter

\* The map after a return probe: do_mmap files its own device, or its page is torn.
LEMMA MapExit ==
    ASSUME IInv, MapInv, Injective, FilterDev # 0, NEW t \in Threads, Exit(t)
    PROVE  MapInv'
<1>1. Leaves(t)
    BY ExitShape
<1>2. /\ Popped(t) /\ Top(t) \in Frame /\ Top(t) = stack[t][Len(stack[t])]
      /\ Len(stack[t]) \in 1 .. Len(stack[t])
    BY <1>1, LeavesStack
<1>3. ASSUME UNCHANGED vma_dev_map,
             \/ UNCHANGED <<vma, torn>>
             \/ \E range \in Ranges : Mapped(t, range, {})
             \/ UnmappedBy(t)
      PROVE  MapInv'
    BY <1>2, <1>3, QuietOK DEF IInv, MapInv
<1>4. CASE TraceExit(t) \/ ExitMapError(t) \/ ExitMunmap(t)
    BY <1>3, <1>4 DEF TraceExit, ExitMapError, ExitMunmap
<1>5. CASE ExitMmap(t)
  <2> DEFINE q(r) == VmaKey(PidOf[t], r.start)
             c == op_start[t]
  <2>1. PICK range \in Ranges :
          /\ Mapped(t, range, Filed(t, q(range)))
          /\ vma_dev_map' = IF Filed(t, q(range)) = {} THEN vma_dev_map ELSE Put(vma_dev_map, q(range), c.dev)
    BY <1>5 DEF ExitMmap
  <2>2. CASE Filed(t, q(range)) = {}
    BY <1>3, <2>1, <2>2
  <2>3. CASE Filed(t, q(range)) # {}
    <3>1. t \in DOMAIN op_start /\ Filed(t, q(range)) = {c.call} /\ Top(t).op = "mmap"
      BY <2>1, <2>3 DEF Filed, Mapped
    <3>2. c.call = Top(t).call => c.dev = Top(t).dev /\ c.dev \in Noted
      BY <1>2, <3>1, OwnStart
    <3>3. Mapped(t, range, {c.call}) /\ vma_dev_map' = Put(vma_dev_map, keyOf[Cell(t, range.start)], c.dev)
      BY <2>1, <2>3, <3>1, KeyOfCell
    <3> HIDE DEF c
    <3>4. OneToOne(keyOf)
      BY KeyOf
    <3> QED BY <1>2, <3>2, <3>3, <3>4, FiledOK DEF IInv, MapInv
  <2> QED BY <2>2, <2>3
<1> QED BY <1>4, <1>5 DEF Exit

\* A return takes starts away and adds none.
LEMMA PassedExit ==
    ASSUME IInv, PassedInv, NEW t \in Threads, Leaves(t), DOMAIN op_start' \subseteq DOMAIN op_start,
           \A u \in DOMAIN op_start' : op_start'[u] = op_start[u]
    PROVE  PassedInv'
<1> SUFFICES ASSUME NEW u \in DOMAIN op_start', NEW i \in 1 .. Len(stack'[u]),
                    stack'[u][i].call = op_start'[u].call
             PROVE  OfMount(stack'[u][i])
    BY DEF PassedInv, OfMount
<1>1. u \in DOMAIN op_start /\ op_start'[u] = op_start[u] /\ u \in Threads
    BY DEF IInv, TypeInv
<1>2. i \in 1 .. Len(stack[u]) /\ stack'[u][i] = stack[u][i]
    BY <1>1, LeavesStack
<1> QED BY <1>1, <1>2 DEF PassedInv

\* An event made of the start of the call that returns is of the mount.
LEMMA MunmapExit ==
    ASSUME IInv, VmaInv, FilterDev # 0, NEW t \in Threads, Exit(t)
    PROVE  PassedInv' /\ MunmapOnMount'
<1> DEFINE f == Top(t)
<1>1. Leaves(t) /\ Return(t)
    BY ExitShape
<1>2. f = stack[t][Len(stack[t])] /\ Len(stack[t]) \in 1 .. Len(stack[t])
    BY <1>1, LeavesStack
<1>3. CASE ~ReturnAttached(f.op)
  <2>1. UNCHANGED <<op_start, events>>
    BY <1>1, <1>3 DEF Return
  <2>2. PassedInv'
    BY <1>1, <2>1, PassedExit DEF VmaInv
  <2> QED BY <2>1, <2>2 DEF VmaInv, MunmapOnMount
<1>4. CASE ReturnAttached(f.op)
  <2>1. Reported(t, f)
    BY <1>1, <1>4, ReportedShape DEF IInv
  <2> HIDE DEF f
  <2>2. PassedInv'
    BY <1>1, <2>1, PassedExit DEF VmaInv, Reported
  <2>3. ASSUME NEW e \in events', e.op = "munmap", e.start = e.end, ~e.torn
        PROVE  e.dev = FilterDev
    <3>1. CASE e \in events
      BY <2>3, <3>1 DEF VmaInv, MunmapOnMount
    <3>2. CASE t \in DOMAIN op_start /\ e = EventOf(t, f)
      <4>1. /\ e.op = op_start[t].op /\ e.start = op_start[t].call /\ e.end = f.call
            /\ e.dev = f.dev /\ e.torn = f.torn
        BY <3>2 DEF EventOf
      <4>2. OfMount(f)
        BY <1>2, <2>3, <3>2, <4>1 DEF VmaInv, PassedInv
      <4>3. f.op = op_start[t].op
        BY <1>2, <2>3, <3>2, <4>1, OwnWrote DEF Wrote
      <4> QED BY <2>3, <4>1, <4>2, <4>3 DEF OfMount
    <3> QED BY <2>1, <3>1, <3>2 DEF Reported
  <2> QED BY <2>2, <2>3 DEF MunmapOnMount
<1> QED BY <1>3, <1>4

\* Every step keeps it.
LEMMA VmaStep ==
    IInv /\ (Injective /\ FilterDev # 0 => VmaInv) /\ [Next]_vars => (Injective /\ FilterDev # 0 => VmaInv')
<1> SUFFICES ASSUME IInv, VmaInv, Injective, FilterDev # 0, [Next]_vars PROVE VmaInv'
    OBVIOUS
<1>1. ASSUME NEW t \in Threads, Enter(t)
      PROVE  VmaInv'
  <2>1. MapInv' /\ PassedInv'
    BY <1>1, MapEnter, PassedEnter DEF VmaInv
  <2>2. UNCHANGED events
    BY <1>1 DEF Enter, EnterOpenReadWrite, EnterNamespace, EnterMetadata, EnterVector, EnterKprobed,
                EnterDirectory, EnterLock, EnterMmap, EnterMunmap, TraceEnter, CallOf
  <2> QED BY <2>1, <2>2 DEF VmaInv, MunmapOnMount
<1>2. ASSUME NEW t \in Threads, Exit(t)
      PROVE  VmaInv'
    BY <1>2, MapExit, MunmapExit DEF VmaInv
<1>3. ASSUME NEW t \in Threads, MissedReturn(t)
      PROVE  VmaInv'
  <2>1. Leaves(t)
    BY <1>3, MissShape
  <2>2. Popped(t) /\ Top(t) \in Frame /\ Top(t) = stack[t][Len(stack[t])] /\ Len(stack[t]) \in 1 .. Len(stack[t])
    BY <2>1, LeavesStack
  <2>3. /\ UNCHANGED <<vma_dev_map, op_start, events>>
        /\ \/ UNCHANGED <<vma, torn>>
           \/ \E range \in Ranges : Mapped(t, range, {})
           \/ UnmappedBy(t)
    BY <1>3 DEF MissedReturn, Miss
  <2>4. MapInv'
    BY <2>2, <2>3, QuietOK DEF IInv, VmaInv, MapInv
  <2>5. PassedInv'
    BY <2>1, <2>3, PassedExit DEF VmaInv
  <2> QED BY <2>3, <2>4, <2>5 DEF VmaInv, MunmapOnMount
<1>4. ASSUME UNCHANGED <<stack, vma, torn, bpfVars>>
      PROVE  VmaInv'
  <2>1. Unmapping' = Unmapping
    BY <1>4 DEF Unmapping, Cell, PidPages
  <2> QED BY <1>4, <2>1 DEF bpfVars, VmaInv, MapInv, PassedInv, OfMount, MunmapOnMount
<1>5. CASE AttachNext
    BY <1>4, <1>5 DEF AttachNext, Attach
<1>6. CASE ChangeUnseen
  <2>1. PICK pid \in Pids : Unseen(pid)
    BY <1>6 DEF ChangeUnseen
  <2>2. UNCHANGED <<stack, bpfVars>>
    BY <1>6, <2>1 DEF ChangeUnseen, Unseen
  <2>3. MapInv'
    BY <2>1, <2>2, UnseenOK DEF IInv, VmaInv, MapInv, bpfVars
  <2> QED BY <2>2, <2>3 DEF bpfVars, VmaInv, PassedInv, OfMount, MunmapOnMount
<1>7. CASE SetThreshold \/ Tick
    BY <1>4, <1>7 DEF SetThreshold, Tick, kernelVars
<1>8. CASE UNCHANGED vars
    BY <1>4, <1>8 DEF vars, kernelVars, bpfVars
<1> QED BY <1>1, <1>2, <1>3, <1>5, <1>6, <1>7, <1>8 DEF Next, Loader

\* On machines where no two pages share a key, with ranged and fixed mappings, unseen
\* changes, missed returns and programs attached while threads run, a munmap that is
\* reported under -p with its own start unmapped a file of that mount, unless it began
\* at a torn cell (trace_vm_munmap_kp, trace_do_mmap_krp).
THEOREM MunmapCorrect == Spec => [](Injective => MunmapOnMount)
<1> DEFINE Guard == Injective /\ FilterDev # 0
<1>1. Init => (Guard => VmaInv)
  <2> SUFFICES ASSUME Init PROVE VmaInv
    OBVIOUS
  <2>1. DOMAIN vma_dev_map = {} /\ DOMAIN op_start = {} /\ events = {}
    BY DEF Init
  <2> QED BY <2>1 DEF VmaInv, MapInv, DevOK, UnmapOK, PassedInv, MunmapOnMount
<1>2. (Guard => VmaInv) => (Injective => MunmapOnMount)
    BY DEF VmaInv, MunmapOnMount
<1>3. (Guard => VmaInv') <=> (Guard => VmaInv)'
    BY DEF Injective
<1>4. IInv /\ (Guard => VmaInv) /\ [Next]_vars => (Guard => VmaInv')
    BY VmaStep
<1> HIDE DEF Guard
<1> QED BY <1>1, <1>2, <1>3, <1>4, SlowerInvariant, PTL DEF Spec
=============================================================================
