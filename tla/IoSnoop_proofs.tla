--------------------------- MODULE IoSnoop_proofs ---------------------------
(***************************************************************************)
(* Proofs about IoSnoop, for any threads, operations, nesting, map size    *)
(* and number of calls, with or without -m. The proof follows the number   *)
(* of a call: it is in progress in one place of one stack, or over. A      *)
(* context in op_state belongs to a call that is in progress on the thread *)
(* of its key, with the operation of its key, or whose return was not      *)
(* traced; so no number is in two contexts or gets into two events.        *)
(***************************************************************************)
EXTENDS IoSnoop, VfsKernel_proofs

Context == [dev : Devs \cup {0}, call : Nat]
Event == [op : OpNames, start : Nat, end : Nat, dev : Devs \cup {0}]

\* Types in the form the provers need.
TypeInv ==
    /\ DOMAIN op_state \subseteq Threads \X OpNames
    /\ op_state \in [DOMAIN op_state -> Context]
    /\ vma_dev_map \in [DOMAIN vma_dev_map -> Devs]
    /\ Bounded(op_state) /\ Bounded(vma_dev_map)
    /\ refused \cup orphans \cup overlapped \cup traced \subseteq 0 .. (calls - 1)
    /\ events \subseteq Event

\* Two calls of one operation on one stack are noted as overlapped; a call in
\* progress is no orphan and ends no event.
StackInv ==
    \A t \in Threads : \A i \in 1 .. Len(stack[t]) :
      /\ \A j \in 1 .. Len(stack[t]) :
           i # j /\ stack[t][i].op = stack[t][j].op => stack[t][i].call \in overlapped
      /\ stack[t][i].call \notin orphans
      /\ \A e \in events : e.end # stack[t][i].call

\* f is the frame that wrote context c for operation op.
Wrote(f, op, c) == f.call = c.call /\ f.op = op /\ (op # "munmap" => f.dev = c.dev)

\* A context is that of a call in progress or of an orphan, passed the filter, and
\* has not been used.
ContextInv ==
    \A t \in Threads, op \in OpNames : <<t, op>> \in DOMAIN op_state =>
      LET c == op_state[<<t, op>>] IN
      /\ c.call \in orphans \/ \E i \in 1 .. Len(stack[t]) : Wrote(stack[t][i], op, c)
      /\ c.call < calls
      /\ PassMountFilter(c.dev) /\ (op # "munmap" => c.dev \in Devs)
      /\ \A e \in events : e.start # c.call

\* No call has two contexts.
DistinctInv == \A k, l \in DOMAIN op_state : op_state[k].call = op_state[l].call => k = l

\* A call in progress that is to be reported has its context in op_state.
ReportInv ==
    \A t \in Threads : \A i \in 1 .. Len(stack[t]) :
      stack[t][i].entered /\ Expected(stack[t][i]) =>
        \/ stack[t][i].call \in refused \cup overlapped
        \/ <<t, stack[t][i].op>> \in DOMAIN op_state /\ op_state[<<t, stack[t][i].op>>].call = stack[t][i].call

EventInv == \A e \in events : e.start < calls /\ e.end < calls

IInv == /\ KernelInv /\ CallsInv /\ TypeInv /\ StackInv /\ ContextInv /\ DistinctInv /\ ReportInv
        /\ EventInv /\ PairedEvents /\ EventsOnMount /\ EveryCallReported

\* Nothing has been called in the initial state.
LEMMA SnoopInit == Init => IInv
<1> SUFFICES ASSUME Init PROVE IInv
    OBVIOUS
<1>1. \A t \in Threads : stack[t] = << >> /\ Len(stack[t]) = 0
    BY DEF Init, KernelInit
<1>2. KernelInv
  <2>1. << >> \in Seq(Frame)
    OBVIOUS
  <2> QED BY <2>1, KernelAssumption DEF Init, KernelInit, KernelInv
<1>3. CallsInv /\ StackInv /\ ReportInv
    BY <1>1 DEF CallsInv, StackInv, ReportInv
<1>4. DOMAIN op_state = {} /\ DOMAIN vma_dev_map = {}
    BY DEF Init
<1>5. TypeInv
  <2>1. Bounded(op_state) /\ Bounded(vma_dev_map)
    BY <1>4, FS_EmptySet, KernelAssumption DEF Bounded
  <2> QED BY <1>4, <2>1 DEF TypeInv, Init
<1>6. ContextInv /\ DistinctInv
    BY <1>4 DEF ContextInv, DistinctInv
<1>7. EventInv /\ PairedEvents /\ EventsOnMount /\ EveryCallReported
    BY DEF Init, EventInv, PairedEvents, EventsOnMount, EveryCallReported
<1> QED BY <1>2, <1>3, <1>5, <1>6, <1>7 DEF IInv

(***************************************************************************)
(* Entry probes.                                                           *)
(***************************************************************************)

\* What the entry probes have in common: sdev is the device that goes into the
\* context, that of the call but for vm_munmap.
EnterAs(t, op, dev, range, sdev) ==
    /\ CallOf(t, op, dev, range)
    /\ op # "munmap" => sdev = dev
    /\ op \notin {"mmap", "munmap"} => dev \in Devs
    /\ \/ EntryAttached(op) /\ SubmitOrDrop(t, op, sdev) /\ (op = "mmap" => dev # 0)
       \/ UNCHANGED <<op_state, refused>> /\ (EntryAttached(op) => op = "mmap" /\ dev = 0)
    /\ vma_dev_map' = vma_dev_map \/ \E k : vma_dev_map' = Drop(vma_dev_map, k)

LEMMA EnterShape ==
    ASSUME KernelInv, TypeInv, NEW t \in Threads, Enter(t)
    PROVE  \E op \in OpNames, dev \in Devs \cup {0}, range \in Ranges \cup {NoRange}, sdev \in Devs \cup {0} :
             EnterAs(t, op, dev, range, sdev)
<1>1. ASSUME NEW op, NEW dev \in Devs, TraceEnter(t, op, dev), op \notin {"mmap", "munmap"}
      PROVE  EnterAs(t, op, dev, NoRange, dev)
    BY <1>1 DEF TraceEnter, EnterAs
<1>2. CASE \/ EnterOpenReadWrite(t) \/ EnterNamespace(t) \/ EnterMetadata(t) \/ EnterVector(t)
           \/ EnterKprobed(t) \/ EnterDirectory(t) \/ EnterLock(t)
  <2>a. \A op, dev : TraceEnter(t, op, dev) => op \in OpNames
    BY DEF TraceEnter, CallOf, Call
  <2>1. \E op \in OpNames, dev \in Devs : TraceEnter(t, op, dev) /\ op \notin {"mmap", "munmap"}
    BY <1>2, <2>a DEF EnterOpenReadWrite, EnterNamespace, EnterMetadata, EnterVector, EnterKprobed,
                      EnterDirectory, EnterLock
  <2> QED BY <1>1, <2>1
<1>3. CASE EnterMmap(t)
  <2>1. PICK dev \in Devs \cup {0} :
          /\ CallOf(t, "mmap", dev, NoRange)
          /\ IF EntryAttached("mmap") /\ dev # 0
             THEN SubmitOrDrop(t, "mmap", dev) ELSE UNCHANGED <<op_state, refused>>
          /\ UNCHANGED vma_dev_map
    BY <1>3 DEF EnterMmap
  <2>2. EnterAs(t, "mmap", dev, NoRange, dev)
    BY <2>1 DEF EnterAs
  <2>3. "mmap" \in OpNames
    BY <2>1 DEF CallOf, Call
  <2> QED BY <2>2, <2>3
<1>4. CASE EnterMunmap(t)
  <2>1. PICK range \in Ranges :
          /\ CallOf(t, "munmap", DevOf(Cell(t, range.start)), range)
          /\ IF EntryAttached("munmap")
             THEN /\ SubmitOrDrop(t, "munmap", VmaDev(t, range.start))
                  /\ vma_dev_map' = Drop(vma_dev_map, VmaKey(PidOf[t], range.start))
             ELSE UNCHANGED <<op_state, refused, vma_dev_map>>
    BY <1>4 DEF EnterMunmap
  <2>2. VmaDev(t, range.start) \in Devs \cup {0}
    BY DEF VmaDev, TypeInv
  <2>3. DevOf(Cell(t, range.start)) \in Devs \cup {0}
    BY RangeType DEF KernelInv, DevOf, PidPages
  <2>4. EnterAs(t, "munmap", DevOf(Cell(t, range.start)), range, VmaDev(t, range.start))
    BY <2>1 DEF EnterAs
  <2>5. "munmap" \in OpNames
    BY <2>1 DEF CallOf, Call
  <2> QED BY <2>2, <2>3, <2>4, <2>5
<1> QED BY <1>2, <1>3, <1>4 DEF Enter

\* The context of the call goes into op_state, or the call is refused there or is
\* none that is to be reported.
Stored(t, op, dev, sdev) ==
    /\ HasRoom(op_state, <<t, op>>)
    /\ op_state' = Put(op_state, <<t, op>>, [dev |-> sdev, call |-> calls])
    /\ refused' = refused
    /\ PassMountFilter(sdev) /\ (op # "munmap" => sdev = dev /\ dev \in Devs)

Skipped(f) ==
    /\ op_state' = op_state
    /\ refused \subseteq refused' /\ refused' \subseteq refused \cup {calls}
    /\ f.entered /\ Expected(f) => calls \in refused'

LEMMA EnterEffect ==
    ASSUME NEW t, NEW op, NEW dev \in Devs \cup {0}, NEW range, NEW sdev \in Devs \cup {0},
           EnterAs(t, op, dev, range, sdev)
    PROVE  Stored(t, op, dev, sdev) \/ Skipped(NewFrame(t, op, dev, range, 0))
<1> DEFINE f == NewFrame(t, op, dev, range, 0)
<1>1. f.op = op /\ f.dev = dev /\ (f.entered <=> EntryAttached(op))
    BY DEF NewFrame
<1> HIDE DEF f
<1>2. CASE UNCHANGED <<op_state, refused>> /\ (EntryAttached(op) => op = "mmap" /\ dev = 0)
  <2>1. Skipped(f)
    BY <1>1, <1>2 DEF Skipped, Expected
  <2> QED BY <2>1 DEF f
<1>3. CASE EntryAttached(op) /\ SubmitOrDrop(t, op, sdev) /\ (op = "mmap" => dev # 0)
  <2>1. CASE PassMountFilter(sdev) /\ HasRoom(op_state, OpKey(t, op))
    BY <1>3, <2>1 DEF Stored, SubmitOrDrop, OpKey, EnterAs
  <2>2. CASE ~HasRoom(op_state, OpKey(t, op))
    BY <1>3, <2>2 DEF Skipped, SubmitOrDrop
  <2>3. CASE ~PassMountFilter(sdev)
    <3>1. ~Expected(f)
      BY <1>1, <2>3 DEF Expected, PassMountFilter, EnterAs
    <3>2. op_state' = op_state /\ refused \subseteq refused' /\ refused' \subseteq refused \cup {calls}
      BY <1>3, <2>3 DEF SubmitOrDrop
    <3> QED BY <3>1, <3>2 DEF Skipped, f
  <2> QED BY <2>1, <2>2, <2>3
<1> QED BY <1>2, <1>3 DEF EnterAs, f

\* An entry probe keeps the invariant.
LEMMA EnterKeeps ==
    ASSUME IInv, NEW t \in Threads, NEW op \in OpNames, NEW dev \in Devs \cup {0},
           NEW range \in Ranges \cup {NoRange}, NEW sdev \in Devs \cup {0},
           EnterAs(t, op, dev, range, sdev)
    PROVE  IInv'
<1> DEFINE f == NewFrame(t, op, dev, range, 0)
           k == <<t, op>>
           n == Len(stack[t]) + 1
           c == [dev |-> sdev, call |-> calls]
<1>1. /\ Pushed(t, f) /\ calls' = calls + 1 /\ KernelInv' /\ CallsInv'
    BY CallStep DEF IInv, EnterAs, CallOf
<1>2. f.op = op /\ f.dev = dev /\ f.call = calls
    BY DEF NewFrame
<1>3. Stored(t, op, dev, sdev) \/ Skipped(f)
    BY EnterEffect
<1>4. UNCHANGED <<events, orphans, traced>>
    BY DEF EnterAs, CallOf
<1>5. calls \in Nat /\ \A u \in Threads : Len(stack[u]) \in Nat
    BY KernelAssumption DEF IInv, KernelInv
<1>6. \A u \in Threads : \A i \in 1 .. Len(stack[u]) : stack[u][i].call < calls
    BY DEF IInv, CallsInv
<1>7. /\ overlapped \subseteq overlapped' /\ overlapped' \subseteq 0 .. calls
      /\ \A i \in 1 .. Len(stack[t]) :
           stack[t][i].op = op => stack[t][i].call \in overlapped' /\ calls \in overlapped'
  <2>1. DOMAIN stack[t] = 1 .. Len(stack[t])
    BY StackTop DEF IInv
  <2>2. \A i \in 1 .. Len(stack[t]) : stack[t][i].call \in 0 .. calls
    BY <1>5, <1>6, StackTop DEF IInv, Frame
  <2>3. \A i \in 1 .. Len(stack[t]) : stack[t][i].op = op => stack[t][i].call \in InProgress(t, {op})
    BY <2>1 DEF InProgress
  <2>4. InProgress(t, {op}) \subseteq 0 .. calls
    BY <2>1, <2>2 DEF InProgress
  <2>5. overlapped \subseteq 0 .. calls
    BY <1>5 DEF IInv, TypeInv
  <2>6. overlapped' = IF InProgress(t, {op}) = {} THEN overlapped
                      ELSE overlapped \cup InProgress(t, {op}) \cup {calls}
    BY DEF EnterAs, CallOf
  <2>7. overlapped \subseteq overlapped' /\ overlapped' \subseteq 0 .. calls
    <3>1. CASE InProgress(t, {op}) = {}
      BY <2>5, <2>6, <3>1
    <3>2. CASE InProgress(t, {op}) # {}
      <4>1. overlapped' = overlapped \cup InProgress(t, {op}) \cup {calls}
        BY <2>6, <3>2
      <4>2. calls \in 0 .. calls
        BY <1>5
      <4> QED BY <2>4, <2>5, <4>1, <4>2
    <3> QED BY <3>1, <3>2
  <2>8. ASSUME NEW i \in 1 .. Len(stack[t]), stack[t][i].op = op
        PROVE  stack[t][i].call \in overlapped' /\ calls \in overlapped'
    <3>1. stack[t][i].call \in InProgress(t, {op})
      BY <2>3, <2>8
    <3>2. overlapped' = overlapped \cup InProgress(t, {op}) \cup {calls}
      BY <2>6, <3>1
    <3> QED BY <3>1, <3>2
  <2> QED BY <2>7, <2>8
<1>8. \A l \in DOMAIN op_state : op_state[l].call # calls /\ op_state[l].call < calls
  <2>1. \A u \in Threads, o \in OpNames : <<u, o>> \in DOMAIN op_state =>
          op_state[<<u, o>>].call < calls /\ op_state[<<u, o>>].call \in Nat
    BY DEF IInv, ContextInv, TypeInv, Context
  <2>2. \A l \in DOMAIN op_state : \E u \in Threads, o \in OpNames : l = <<u, o>>
    BY DEF IInv, TypeInv
  <2> QED BY <1>5, <2>1, <2>2
<1>9. \A e \in events : e.start < calls /\ e.end < calls /\ e.start # calls /\ e.end # calls
    BY <1>5 DEF IInv, EventInv, TypeInv, Event
<1>10. /\ DOMAIN op_state \subseteq DOMAIN op_state' /\ DOMAIN op_state' \subseteq DOMAIN op_state \cup {k}
       /\ \A l \in DOMAIN op_state' : op_state'[l] = c \/ (l \in DOMAIN op_state /\ op_state'[l] = op_state[l])
       /\ \A l \in DOMAIN op_state' \ {k} : op_state'[l] = op_state[l]
       /\ \A l \in DOMAIN op_state' : op_state'[l] = c => l = k /\ Stored(t, op, dev, sdev)
  <2>1. \A l \in DOMAIN op_state : op_state[l] # c
    BY <1>8
  <2>2. CASE Stored(t, op, dev, sdev)
    <3>1. op_state' = Put(op_state, k, c)
      BY <2>2 DEF Stored
    <3> HIDE DEF k, c
    <3>2. /\ DOMAIN op_state' = DOMAIN op_state \cup {k} /\ op_state'[k] = c
          /\ \A l \in DOMAIN op_state \ {k} : op_state'[l] = op_state[l]
      BY <3>1 DEF Put
    <3> QED BY <2>1, <2>2, <3>2
  <2>3. CASE Skipped(f)
    BY <2>1, <2>3 DEF Skipped
  <2> QED BY <1>3, <2>2, <2>3
<1>11. refused \subseteq refused' /\ refused' \subseteq refused \cup {calls}
    BY <1>3 DEF Stored, Skipped
<1> HIDE DEF f, k, n, c
<1>20. TypeInv'
  <2>1. DOMAIN op_state' \subseteq Threads \X OpNames
    BY <1>10 DEF k, IInv, TypeInv
  <2>2. op_state' \in [DOMAIN op_state' -> Context]
    <3>1. c \in Context
      BY <1>5 DEF c, Context
    <3>2. \A l \in DOMAIN op_state' : op_state'[l] \in Context
      BY <1>10, <3>1 DEF IInv, TypeInv
    <3>3. op_state' = [l \in DOMAIN op_state' |-> op_state'[l]]
      BY <1>3 DEF Stored, Skipped, Put, IInv, TypeInv
    <3> QED BY <3>2, <3>3
  <2>3. Bounded(op_state)'
    <3>1. Bounded(op_state)
      BY DEF IInv, TypeInv
    <3>2. CASE Stored(t, op, dev, sdev)
      <4>1. Bounded(Put(op_state, <<t, op>>, [dev |-> sdev, call |-> calls]))
        BY <3>1, <3>2, PutBounded DEF Stored
      <4> QED BY <3>2, <4>1 DEF Stored, Bounded
    <3>3. CASE Skipped(f)
      BY <3>1, <3>3 DEF Skipped, Bounded
    <3> QED BY <1>3, <3>2, <3>3
  <2>4. Bounded(vma_dev_map)' /\ vma_dev_map' \in [DOMAIN vma_dev_map' -> Devs]
    <3>1. Bounded(vma_dev_map) /\ vma_dev_map \in [DOMAIN vma_dev_map -> Devs]
      BY DEF IInv, TypeInv
    <3>2. CASE vma_dev_map' = vma_dev_map
      BY <3>1, <3>2 DEF Bounded
    <3>3. CASE \E q : vma_dev_map' = Drop(vma_dev_map, q)
      <4>1. PICK q : vma_dev_map' = Drop(vma_dev_map, q)
        BY <3>3
      <4>2. Bounded(Drop(vma_dev_map, q))
        BY <3>1, DropBounded
      <4>3. Drop(vma_dev_map, q) \in [DOMAIN Drop(vma_dev_map, q) -> Devs]
        BY <3>1 DEF Drop
      <4> QED BY <4>1, <4>2, <4>3 DEF Bounded
    <3> QED BY <3>2, <3>3 DEF EnterAs
  <2>5. (refused \cup orphans \cup overlapped \cup traced)' \subseteq 0 .. (calls' - 1)
    BY <1>1, <1>4, <1>5, <1>7, <1>11 DEF IInv, TypeInv
  <2> QED BY <1>4, <2>1, <2>2, <2>3, <2>4, <2>5 DEF IInv, TypeInv
<1>21. StackInv'
  <2> SUFFICES ASSUME NEW u \in Threads, NEW i \in 1 .. Len(stack'[u])
               PROVE  /\ \A j \in 1 .. Len(stack'[u]) :
                           i # j /\ stack'[u][i].op = stack'[u][j].op => stack'[u][i].call \in overlapped'
                      /\ stack'[u][i].call \notin orphans'
                      /\ \A e \in events' : e.end # stack'[u][i].call
    BY DEF StackInv
  <2>1. orphans \subseteq 0 .. (calls - 1)
    BY DEF IInv, TypeInv
  <2>2. CASE i \in 1 .. Len(stack[u]) /\ stack'[u][i] = stack[u][i]
    <3>1. ASSUME NEW j \in 1 .. Len(stack'[u]), i # j, stack'[u][i].op = stack'[u][j].op
          PROVE  stack'[u][i].call \in overlapped'
      <4>1. CASE j \in 1 .. Len(stack[u]) /\ stack'[u][j] = stack[u][j]
        BY <1>7, <2>2, <3>1, <4>1 DEF IInv, StackInv
      <4>2. CASE u = t /\ j = n
        BY <1>1, <1>2, <1>7, <2>2, <3>1, <4>2 DEF Pushed, n
      <4> QED BY <1>1, <4>1, <4>2 DEF Pushed, n
    <3> QED BY <1>4, <2>2, <3>1 DEF IInv, StackInv
  <2>3. CASE u = t /\ i = n
    <3>1. stack'[u][i] = f
      BY <1>1, <2>3 DEF Pushed, n
    <3>2. ASSUME NEW j \in 1 .. Len(stack'[u]), i # j, stack'[u][i].op = stack'[u][j].op
          PROVE  stack'[u][i].call \in overlapped'
      <4>1. j \in 1 .. Len(stack[u]) /\ stack'[u][j] = stack[u][j]
        BY <1>1, <2>3, <3>2 DEF Pushed, n
      <4> QED BY <1>2, <1>7, <2>3, <3>1, <3>2, <4>1
    <3> QED BY <1>2, <1>4, <1>5, <1>9, <2>1, <3>1, <3>2
  <2> QED BY <1>1, <2>2, <2>3 DEF Pushed, n
<1>22. ContextInv'
  <2> SUFFICES ASSUME NEW u \in Threads, NEW o \in OpNames, <<u, o>> \in DOMAIN op_state'
               PROVE  LET d == op_state'[<<u, o>>] IN
                      /\ d.call \in orphans' \/ \E i \in 1 .. Len(stack'[u]) : Wrote(stack'[u][i], o, d)
                      /\ d.call < calls'
                      /\ PassMountFilter(d.dev) /\ (o # "munmap" => d.dev \in Devs)
                      /\ \A e \in events' : e.start # d.call
    BY DEF ContextInv, Wrote, PassMountFilter
  <2>1. CASE op_state'[<<u, o>>] = c
    <3>1. u = t /\ o = op /\ Stored(t, op, dev, sdev)
      BY <1>10, <2>1 DEF k
    <3>2. c.call = calls /\ c.dev = sdev
      BY DEF c
    <3>3. n \in 1 .. Len(stack'[u]) /\ Wrote(stack'[u][n], o, c)
      BY <1>1, <1>2, <3>1, <3>2 DEF Pushed, n, Wrote, Stored
    <3> QED BY <1>1, <1>4, <1>5, <1>9, <2>1, <3>1, <3>2, <3>3 DEF Stored
  <2>2. CASE <<u, o>> \in DOMAIN op_state /\ op_state'[<<u, o>>] = op_state[<<u, o>>]
    <3> DEFINE d == op_state[<<u, o>>]
    <3>1. /\ d.call \in orphans \/ \E i \in 1 .. Len(stack[u]) : Wrote(stack[u][i], o, d)
          /\ PassMountFilter(d.dev) /\ (o # "munmap" => d.dev \in Devs)
          /\ \A e \in events : e.start # d.call
      BY <2>2 DEF IInv, ContextInv
    <3>2. d.call \in Nat /\ d.call < calls
      BY <1>8, <2>2 DEF IInv, TypeInv, Context
    <3> HIDE DEF d
    <3>3. (\E i \in 1 .. Len(stack[u]) : Wrote(stack[u][i], o, d))
            => \E i \in 1 .. Len(stack'[u]) : Wrote(stack'[u][i], o, d)
      BY <1>1 DEF Pushed
    <3>4. op_state'[<<u, o>>] = d
      BY <2>2 DEF d
    <3> QED BY <1>1, <1>4, <1>5, <3>1, <3>2, <3>3, <3>4
  <2> QED BY <1>10, <2>1, <2>2
<1>23. DistinctInv'
  <2> SUFFICES ASSUME NEW l \in DOMAIN op_state', NEW m \in DOMAIN op_state',
                      op_state'[l].call = op_state'[m].call
               PROVE  l = m
    BY DEF DistinctInv
  <2>1. c.call = calls
    BY DEF c
  <2> QED BY <1>8, <1>10, <2>1 DEF IInv, DistinctInv
<1>24. ReportInv'
  <2> SUFFICES ASSUME NEW u \in Threads, NEW i \in 1 .. Len(stack'[u]),
                      stack'[u][i].entered, Expected(stack'[u][i])
               PROVE  \/ stack'[u][i].call \in refused' \cup overlapped'
                      \/ /\ <<u, stack'[u][i].op>> \in DOMAIN op_state'
                         /\ op_state'[<<u, stack'[u][i].op>>].call = stack'[u][i].call
    BY DEF ReportInv, Expected
  <2>1. CASE i \in 1 .. Len(stack[u]) /\ stack'[u][i] = stack[u][i]
    <3>1. CASE u = t /\ stack[u][i].op = op
      BY <1>7, <2>1, <3>1
    <3>2. CASE <<u, stack[u][i].op>> # k
      <4>1. stack[u][i].entered /\ Expected(stack[u][i])
        BY <2>1
      <4>2. \/ stack[u][i].call \in refused \cup overlapped
            \/ /\ <<u, stack[u][i].op>> \in DOMAIN op_state
               /\ op_state[<<u, stack[u][i].op>>].call = stack[u][i].call
        BY <2>1, <4>1 DEF IInv, ReportInv
      <4>3. <<u, stack[u][i].op>> \in DOMAIN op_state =>
              /\ <<u, stack[u][i].op>> \in DOMAIN op_state'
              /\ op_state'[<<u, stack[u][i].op>>] = op_state[<<u, stack[u][i].op>>]
        BY <1>10, <3>2
      <4> QED BY <1>7, <1>11, <2>1, <4>2, <4>3
    <3> QED BY <3>1, <3>2 DEF k
  <2>2. CASE u = t /\ i = n
    <3>1. stack'[u][i] = f
      BY <1>1, <2>2 DEF Pushed, n
    <3>2. CASE Skipped(f)
      BY <1>2, <3>1, <3>2 DEF Skipped
    <3>3. CASE Stored(t, op, dev, sdev)
      <4>1. k \in DOMAIN op_state' /\ op_state'[k] = c
        BY <3>3 DEF Stored, Put, k, c
      <4>2. <<u, stack'[u][i].op>> = k /\ c.call = stack'[u][i].call
        BY <1>2, <2>2, <3>1 DEF k, c
      <4> QED BY <4>1, <4>2
    <3> QED BY <1>3, <3>2, <3>3
  <2> QED BY <1>1, <2>1, <2>2 DEF Pushed, n
<1>25. EventInv'
    BY <1>1, <1>4, <1>5, <1>9 DEF IInv, EventInv, TypeInv, Event
<1>26. PairedEvents' /\ EventsOnMount' /\ EveryCallReported'
    BY <1>4, <1>7, <1>11 DEF IInv, PairedEvents, EventsOnMount, EveryCallReported
<1> QED BY <1>1, <1>20, <1>21, <1>22, <1>23, <1>24, <1>25, <1>26 DEF IInv

(***************************************************************************)
(* Return probes.                                                          *)
(***************************************************************************)

\* What every return has in common: the top of the stack goes, and what it leaves in
\* vma and vma_dev_map has its type.
Leaves(t) ==
    /\ Pop(t)
    /\ missed' \in 0 .. MaxMissed /\ vma' \in [Pids \X Pages -> Devs \cup {0, Unmapped}]
    /\ torn' \subseteq Pids \X Pages
    /\ vma_dev_map' \in [DOMAIN vma_dev_map' -> Devs] /\ Bounded(vma_dev_map)'
    /\ overlapped' = overlapped

\* The calls that stay on the stacks are others than the one that returns.
LEMMA LeavesStack ==
    ASSUME IInv, NEW t \in Threads, Leaves(t)
    PROVE  /\ Popped(t) /\ KernelInv' /\ CallsInv' /\ calls' = calls /\ calls \in Nat
           /\ Len(stack[t]) \in 1 .. Len(stack[t])
           /\ Top(t) = stack[t][Len(stack[t])] /\ Top(t) \in Frame /\ Top(t).call \in 0 .. (calls - 1)
           /\ \A u \in Threads : \A i \in 1 .. Len(stack'[u]) :
                /\ i \in 1 .. Len(stack[u]) /\ stack'[u][i] = stack[u][i]
                /\ stack[u][i].call # Top(t).call
                /\ u = t => i # Len(stack[t])
<1>1. Popped(t) /\ stack' \in [Threads -> Seq(Frame)] /\ UNCHANGED <<attached, calls, unseen>>
      /\ CallsInv' /\ Top(t) \in Frame
    BY PopStep DEF IInv, Leaves
<1>2. KernelInv'
    BY <1>1 DEF IInv, KernelInv, Leaves
<1>3. Top(t) = stack[t][Len(stack[t])] /\ Len(stack[t]) \in 1 .. Len(stack[t])
    BY <1>1 DEF Top, Popped
<1>4. calls \in Nat /\ Top(t).call \in Nat
    BY <1>1, KernelAssumption DEF IInv, KernelInv, Frame
<1>5. Top(t).call < calls
    BY <1>3 DEF IInv, CallsInv
<1>6. ASSUME NEW u \in Threads, NEW i \in 1 .. Len(stack'[u])
      PROVE  /\ i \in 1 .. Len(stack[u]) /\ stack'[u][i] = stack[u][i]
             /\ stack[u][i].call # Top(t).call
             /\ u = t => i # Len(stack[t])
  <2>1. i \in 1 .. Len(stack[u]) /\ stack'[u][i] = stack[u][i]
    BY <1>1 DEF Popped
  <2>2. u = t => i # Len(stack[t])
    BY <1>1 DEF Popped
  <2>3. stack[u][i].call # Top(t).call
    BY <1>3, <2>1, <2>2 DEF IInv, CallsInv
  <2> QED BY <2>1, <2>2, <2>3
<1> QED BY <1>1, <1>2, <1>3, <1>4, <1>5, <1>6

\* A return that is not traced makes its call an orphan.
LEMMA OrphanKeeps ==
    ASSUME IInv, NEW t \in Threads, Leaves(t), orphans' = orphans \cup {Top(t).call},
           UNCHANGED <<op_state, events, refused, traced>>
    PROVE  IInv'
<1> DEFINE f == Top(t)
           N == Len(stack[t])
<1>1. /\ Popped(t) /\ KernelInv' /\ CallsInv' /\ calls' = calls /\ calls \in Nat
      /\ N \in 1 .. Len(stack[t]) /\ f = stack[t][N] /\ f.call \in 0 .. (calls - 1)
      /\ \A u \in Threads : \A i \in 1 .. Len(stack'[u]) :
           i \in 1 .. Len(stack[u]) /\ stack'[u][i] = stack[u][i] /\ stack[u][i].call # f.call
    BY LeavesStack
<1>2. overlapped' = overlapped /\ orphans' = orphans \cup {f.call}
    BY DEF Leaves
<1> HIDE DEF f, N
<1>3. TypeInv'
    BY <1>1, <1>2 DEF IInv, TypeInv, Leaves, Bounded
<1>4. StackInv'
  <2> SUFFICES ASSUME NEW u \in Threads, NEW i \in 1 .. Len(stack'[u])
               PROVE  /\ \A j \in 1 .. Len(stack'[u]) :
                           i # j /\ stack'[u][i].op = stack'[u][j].op => stack'[u][i].call \in overlapped'
                      /\ stack'[u][i].call \notin orphans'
                      /\ \A e \in events' : e.end # stack'[u][i].call
    BY DEF StackInv
  <2>1. \A j \in 1 .. Len(stack'[u]) : j \in 1 .. Len(stack[u]) /\ stack'[u][j] = stack[u][j]
    BY <1>1
  <2>2. stack[u][i].call # f.call
    BY <1>1
  <2> QED BY <1>2, <2>1, <2>2 DEF IInv, StackInv
<1>5. ContextInv'
  <2> SUFFICES ASSUME NEW u \in Threads, NEW o \in OpNames, <<u, o>> \in DOMAIN op_state'
               PROVE  LET d == op_state'[<<u, o>>] IN
                      /\ d.call \in orphans' \/ \E i \in 1 .. Len(stack'[u]) : Wrote(stack'[u][i], o, d)
                      /\ d.call < calls'
                      /\ PassMountFilter(d.dev) /\ (o # "munmap" => d.dev \in Devs)
                      /\ \A e \in events' : e.start # d.call
    BY DEF ContextInv, Wrote, PassMountFilter
  <2> DEFINE d == op_state[<<u, o>>]
  <2>1. /\ d.call \in orphans \/ \E i \in 1 .. Len(stack[u]) : Wrote(stack[u][i], o, d)
        /\ d.call < calls
        /\ PassMountFilter(d.dev) /\ (o # "munmap" => d.dev \in Devs)
        /\ \A e \in events : e.start # d.call
    BY DEF IInv, ContextInv
  <2>2. op_state'[<<u, o>>] = d
    OBVIOUS
  <2> HIDE DEF d
  <2>3. ASSUME NEW i \in 1 .. Len(stack[u]), Wrote(stack[u][i], o, d)
        PROVE  d.call \in orphans' \/ \E j \in 1 .. Len(stack'[u]) : Wrote(stack'[u][j], o, d)
    <3>1. CASE i \in 1 .. Len(stack'[u]) /\ stack'[u][i] = stack[u][i]
      BY <2>3, <3>1
    <3>2. CASE u = t /\ i = N
      BY <1>1, <1>2, <2>3, <3>2 DEF Wrote
    <3> QED BY <1>1, <3>1, <3>2 DEF Popped, N
  <2> QED BY <1>1, <1>2, <2>1, <2>2, <2>3
<1>6. DistinctInv' /\ EventInv' /\ EventsOnMount' /\ EveryCallReported'
    BY <1>1, <1>2 DEF IInv, DistinctInv, EventInv, EventsOnMount, EveryCallReported
<1>7. ReportInv'
  <2> SUFFICES ASSUME NEW u \in Threads, NEW i \in 1 .. Len(stack'[u]),
                      stack'[u][i].entered, Expected(stack'[u][i])
               PROVE  \/ stack'[u][i].call \in refused' \cup overlapped'
                      \/ /\ <<u, stack'[u][i].op>> \in DOMAIN op_state'
                         /\ op_state'[<<u, stack'[u][i].op>>].call = stack'[u][i].call
    BY DEF ReportInv, Expected
  <2>1. i \in 1 .. Len(stack[u]) /\ stack'[u][i] = stack[u][i]
    BY <1>1
  <2>2. \/ stack[u][i].call \in refused \cup overlapped
        \/ /\ <<u, stack[u][i].op>> \in DOMAIN op_state
           /\ op_state[<<u, stack[u][i].op>>].call = stack[u][i].call
    BY <2>1 DEF IInv, ReportInv
  <2> QED BY <1>2, <2>1, <2>2
<1>8. PairedEvents'
    BY <1>2 DEF IInv, PairedEvents
<1> QED BY <1>1, <1>3, <1>4, <1>5, <1>6, <1>7, <1>8 DEF IInv

\* The event that the return of call f makes of the context found.
EventOf(t, f) == [op |-> f.op, start |-> op_state[<<t, f.op>>].call, end |-> f.call, dev |-> f.dev]

\* What a return probe does: the context goes, with an event, a loss, or neither.
Reported(t, f) ==
    /\ DOMAIN op_state' = DOMAIN op_state \ {<<t, f.op>>}
    /\ \A l \in DOMAIN op_state' : op_state'[l] = op_state[l]
    /\ op_state' = [l \in DOMAIN op_state' |-> op_state'[l]]
    /\ \/ /\ <<t, f.op>> \in DOMAIN op_state
          /\ events' = events \cup {EventOf(t, f)} /\ refused' = refused
       \/ events' = events /\ refused' = refused \cup {f.call}
       \/ <<t, f.op>> \notin DOMAIN op_state /\ events' = events /\ refused' = refused
    /\ \/ traced' = traced
       \/ f.entered /\ Expected(f) /\ traced' = traced \cup {f.call}
    /\ orphans' = orphans

LEMMA ReportedShape ==
    ASSUME TypeInv, NEW t \in Threads, Return(t), ReturnAttached(Top(t).op)
    PROVE  Reported(t, Top(t))
<1> DEFINE f == Top(t)
           k == <<t, f.op>>
<1>1. FinishEvent(t, f.op, f) /\ orphans' = orphans
      /\ traced' = IF f.entered /\ Expected(f) THEN traced \cup {f.call} ELSE traced
    BY DEF Return
<1>2. op_state = [l \in DOMAIN op_state |-> op_state[l]]
    BY DEF TypeInv
<1> HIDE DEF f
<1>3. CASE k \notin DOMAIN op_state
  <2>1. UNCHANGED <<events, refused, op_state>>
    BY <1>1, <1>3 DEF FinishEvent, OpKey
  <2> QED BY <1>1, <1>2, <1>3, <2>1 DEF Reported, f
<1>4. CASE k \in DOMAIN op_state
  <2>1. EmitEvent(f.op, op_state[k].call, f) /\ op_state' = [l \in DOMAIN op_state \ {k} |-> op_state[l]]
    BY <1>1, <1>4 DEF FinishEvent, OpKey, Drop
  <2>2. /\ DOMAIN op_state' = DOMAIN op_state \ {k}
        /\ \A l \in DOMAIN op_state' : op_state'[l] = op_state[l]
        /\ op_state' = [l \in DOMAIN op_state' |-> op_state'[l]]
    BY <2>1
  <2>3. \/ events' = events \cup {EventOf(t, f)} /\ refused' = refused
        \/ events' = events /\ refused' = refused \cup {f.call}
    BY <2>1 DEF EmitEvent, EventOf
  <2> QED BY <1>1, <1>4, <2>2, <2>3 DEF Reported, f
<1> QED BY <1>3, <1>4

LEMMA ReportedKeeps ==
    ASSUME IInv, NEW t \in Threads, Leaves(t), Reported(t, Top(t))
    PROVE  IInv'
<1> DEFINE f == Top(t)
           N == Len(stack[t])
           k == <<t, f.op>>
           c == op_state[k]
           e == EventOf(t, f)
<1>1. /\ Popped(t) /\ KernelInv' /\ CallsInv' /\ calls' = calls /\ calls \in Nat
      /\ N \in 1 .. Len(stack[t]) /\ f = stack[t][N] /\ f \in Frame /\ f.call \in 0 .. (calls - 1)
      /\ \A u \in Threads : \A i \in 1 .. Len(stack'[u]) :
           /\ i \in 1 .. Len(stack[u]) /\ stack'[u][i] = stack[u][i] /\ stack[u][i].call # f.call
           /\ u = t => i # N
    BY LeavesStack
<1>2. overlapped' = overlapped
    BY DEF Leaves
<1>3. f.op \in OpNames /\ f.dev \in Devs \cup {0}
    BY <1>1 DEF Frame
<1>4. e.op = f.op /\ e.start = c.call /\ e.end = f.call /\ e.dev = f.dev
    BY DEF EventOf
<1>5. /\ DOMAIN op_state' = DOMAIN op_state \ {k}
      /\ \A l \in DOMAIN op_state' : op_state'[l] = op_state[l]
      /\ op_state' = [l \in DOMAIN op_state' |-> op_state'[l]]
      /\ orphans' = orphans
    BY DEF Reported
<1>6. \/ k \in DOMAIN op_state /\ events' = events \cup {e} /\ refused' = refused
      \/ events' = events /\ refused' = refused \cup {f.call}
      \/ k \notin DOMAIN op_state /\ events' = events /\ refused' = refused
    BY DEF Reported
<1>7. \/ traced' = traced
      \/ f.entered /\ Expected(f) /\ traced' = traced \cup {f.call}
    BY DEF Reported
<1>8. k \in DOMAIN op_state =>
        /\ c \in Context
        /\ c.call \in orphans \/ \E i \in 1 .. Len(stack[t]) : Wrote(stack[t][i], f.op, c)
        /\ c.call < calls
        /\ PassMountFilter(c.dev) /\ (f.op # "munmap" => c.dev \in Devs)
        /\ \A g \in events : g.start # c.call
  <2> SUFFICES ASSUME k \in DOMAIN op_state
               PROVE  /\ c \in Context
                      /\ c.call \in orphans \/ \E i \in 1 .. Len(stack[t]) : Wrote(stack[t][i], f.op, c)
                      /\ c.call < calls
                      /\ PassMountFilter(c.dev) /\ (f.op # "munmap" => c.dev \in Devs)
                      /\ \A g \in events : g.start # c.call
    OBVIOUS
  <2>1. c \in Context
    BY DEF IInv, TypeInv
  <2> QED BY <1>3, <2>1 DEF IInv, ContextInv
<1>9. f.call \notin orphans /\ \A g \in events : g.end # f.call
    BY <1>1 DEF IInv, StackInv
<1>10. events \subseteq events' /\ events' \subseteq events \cup {e}
       /\ refused \subseteq refused' /\ refused' \subseteq refused \cup {f.call}
       /\ (e \in events' => e \in events \/ k \in DOMAIN op_state)
    BY <1>6
<1> HIDE DEF f, N, k, c, e
<1>20. TypeInv'
  <2>1. DOMAIN op_state' \subseteq Threads \X OpNames
    BY <1>5 DEF IInv, TypeInv
  <2>2. op_state' \in [DOMAIN op_state' -> Context]
    <3>1. \A l \in DOMAIN op_state' : op_state'[l] \in Context
      BY <1>5 DEF IInv, TypeInv
    <3> QED BY <1>5, <3>1
  <2>3. Bounded(op_state)'
    <3>1. Bounded(Drop(op_state, k))
      BY DropBounded DEF IInv, TypeInv
    <3>2. DOMAIN op_state' = DOMAIN Drop(op_state, k)
      BY <1>5 DEF Drop
    <3> QED BY <3>1, <3>2 DEF Bounded
  <2>4. (refused \cup orphans \cup overlapped \cup traced)' \subseteq 0 .. (calls' - 1)
    BY <1>1, <1>2, <1>5, <1>7, <1>10 DEF IInv, TypeInv
  <2>5. events' \subseteq Event
    <3>1. k \in DOMAIN op_state => e \in Event
      <4>1. k \in DOMAIN op_state => c.call \in Nat
        BY <1>8 DEF Context
      <4>2. f.call \in Nat
        BY <1>1
      <4>3. e = [op |-> f.op, start |-> c.call, end |-> f.call, dev |-> f.dev]
        BY DEF e, EventOf, c, k
      <4> QED BY <1>3, <4>1, <4>2, <4>3 DEF Event
    <3> QED BY <1>6, <3>1 DEF IInv, TypeInv
  <2> QED BY <2>1, <2>2, <2>3, <2>4, <2>5 DEF TypeInv, Leaves
<1>21. StackInv'
  <2> SUFFICES ASSUME NEW u \in Threads, NEW i \in 1 .. Len(stack'[u])
               PROVE  /\ \A j \in 1 .. Len(stack'[u]) :
                           i # j /\ stack'[u][i].op = stack'[u][j].op => stack'[u][i].call \in overlapped'
                      /\ stack'[u][i].call \notin orphans'
                      /\ \A g \in events' : g.end # stack'[u][i].call
    BY DEF StackInv
  <2>1. \A j \in 1 .. Len(stack'[u]) : j \in 1 .. Len(stack[u]) /\ stack'[u][j] = stack[u][j]
    BY <1>1
  <2>2. stack[u][i].call # f.call
    BY <1>1
  <2>3. \A g \in events' : g.end # stack'[u][i].call
    BY <1>4, <1>10, <2>1, <2>2 DEF IInv, StackInv
  <2> QED BY <1>2, <1>5, <2>1, <2>3 DEF IInv, StackInv
<1>22. ContextInv'
  <2> SUFFICES ASSUME NEW u \in Threads, NEW o \in OpNames, <<u, o>> \in DOMAIN op_state'
               PROVE  LET d == op_state'[<<u, o>>] IN
                      /\ d.call \in orphans' \/ \E i \in 1 .. Len(stack'[u]) : Wrote(stack'[u][i], o, d)
                      /\ d.call < calls'
                      /\ PassMountFilter(d.dev) /\ (o # "munmap" => d.dev \in Devs)
                      /\ \A g \in events' : g.start # d.call
    BY DEF ContextInv, Wrote, PassMountFilter
  <2> DEFINE d == op_state[<<u, o>>]
  <2>1. op_state'[<<u, o>>] = d /\ <<u, o>> \in DOMAIN op_state /\ <<u, o>> # k
    BY <1>5
  <2>2. /\ d.call \in orphans \/ \E i \in 1 .. Len(stack[u]) : Wrote(stack[u][i], o, d)
        /\ d.call < calls
        /\ PassMountFilter(d.dev) /\ (o # "munmap" => d.dev \in Devs)
        /\ \A g \in events : g.start # d.call
    BY <2>1 DEF IInv, ContextInv
  <2>3. k \in DOMAIN op_state => c.call # d.call
    BY <2>1 DEF IInv, DistinctInv, c
  <2> HIDE DEF d
  <2>4. ASSUME NEW i \in 1 .. Len(stack[u]), Wrote(stack[u][i], o, d)
        PROVE  \E j \in 1 .. Len(stack'[u]) : Wrote(stack'[u][j], o, d)
    <3>1. ~(u = t /\ i = N)
      BY <1>1, <2>1, <2>4 DEF Wrote, k
    <3>2. i \in 1 .. Len(stack'[u]) /\ stack'[u][i] = stack[u][i]
      BY <1>1, <3>1 DEF Popped, N
    <3> QED BY <2>4, <3>2
  <2>5. \A g \in events' : g.start # d.call
    BY <1>4, <1>6, <2>2, <2>3
  <2> QED BY <1>1, <1>5, <2>1, <2>2, <2>4, <2>5
<1>23. DistinctInv'
    BY <1>5 DEF IInv, DistinctInv
<1>24. ReportInv'
  <2> SUFFICES ASSUME NEW u \in Threads, NEW i \in 1 .. Len(stack'[u]),
                      stack'[u][i].entered, Expected(stack'[u][i])
               PROVE  \/ stack'[u][i].call \in refused' \cup overlapped'
                      \/ /\ <<u, stack'[u][i].op>> \in DOMAIN op_state'
                         /\ op_state'[<<u, stack'[u][i].op>>].call = stack'[u][i].call
    BY DEF ReportInv, Expected
  <2>1. i \in 1 .. Len(stack[u]) /\ stack'[u][i] = stack[u][i] /\ (u = t => i # N)
    BY <1>1
  <2>2. \/ stack[u][i].call \in refused \cup overlapped
        \/ /\ <<u, stack[u][i].op>> \in DOMAIN op_state
           /\ op_state[<<u, stack[u][i].op>>].call = stack[u][i].call
    BY <2>1 DEF IInv, ReportInv
  <2>3. CASE u = t /\ stack[u][i].op = f.op
    <3>1. stack[u][i].call \in overlapped
      BY <1>1, <2>1, <2>3 DEF IInv, StackInv
    <3> QED BY <1>2, <2>1, <3>1
  <2>4. CASE <<u, stack[u][i].op>> # k
    BY <1>2, <1>5, <1>10, <2>1, <2>2, <2>4
  <2> QED BY <2>3, <2>4 DEF k
<1>25. EventInv'
    BY <1>1, <1>4, <1>6, <1>8 DEF IInv, EventInv
<1>26. PairedEvents'
  <2>1. ASSUME k \in DOMAIN op_state, c.call # f.call
        PROVE  c.call \in orphans \/ f.call \in overlapped
    <3> SUFFICES ASSUME NEW i \in 1 .. Len(stack[t]), Wrote(stack[t][i], f.op, c)
                 PROVE  f.call \in overlapped
      BY <1>8, <2>1
    <3>1. i # N /\ stack[t][i].op = stack[t][N].op
      BY <1>1, <2>1 DEF Wrote
    <3> QED BY <1>1, <3>1 DEF IInv, StackInv
  <2>2. \A g \in events' : g.start # g.end => g.start \in orphans' \/ g.end \in overlapped'
    BY <1>2, <1>4, <1>5, <1>6, <2>1 DEF IInv, PairedEvents
  <2>3. \A g, h \in events' : g.start = h.start \/ g.end = h.end => g = h
    BY <1>4, <1>6, <1>8, <1>9 DEF IInv, PairedEvents
  <2> QED BY <2>2, <2>3 DEF PairedEvents
<1>27. EventsOnMount'
  <2>1. ASSUME k \in DOMAIN op_state, c.call = f.call, f.op # "munmap", FilterDev # 0
        PROVE  f.dev = FilterDev
    <3>1. PICK i \in 1 .. Len(stack[t]) : Wrote(stack[t][i], f.op, c)
      BY <1>8, <1>9, <2>1
    <3>2. i = N
      BY <1>1, <2>1, <3>1 DEF Wrote, IInv, CallsInv
    <3>3. f.dev = c.dev /\ c.dev # 0
      BY <1>1, <1>8, <2>1, <3>1, <3>2, KernelAssumption DEF Wrote
    <3> QED BY <1>8, <2>1, <3>3 DEF PassMountFilter
  <2> QED BY <1>4, <1>6, <2>1 DEF IInv, EventsOnMount
<1>28. EveryCallReported'
  <2> SUFFICES ASSUME NEW n \in traced' \ (refused' \cup overlapped')
               PROVE  \E g \in events' : g.start = n /\ g.end = n
    BY DEF EveryCallReported
  <2>1. CASE n \in traced
    BY <1>2, <1>10, <2>1 DEF IInv, EveryCallReported
  <2>2. CASE n \notin traced
    <3>1. n = f.call /\ f.entered /\ Expected(f)
      BY <1>7, <2>2
    <3>2. k \in DOMAIN op_state /\ c.call = f.call
      BY <1>1, <1>2, <1>10, <3>1 DEF IInv, ReportInv, k, c
    <3>3. events' = events \cup {e}
      BY <1>6, <3>1, <3>2
    <3> QED BY <1>4, <3>1, <3>2, <3>3
  <2> QED BY <2>1, <2>2
<1> QED BY <1>1, <1>20, <1>21, <1>22, <1>23, <1>24, <1>25, <1>26, <1>27, <1>28 DEF IInv

\* Every return leaves the mappings and vma_dev_map typed.
LEMMA ExitShape ==
    ASSUME IInv, NEW t \in Threads, Exit(t)
    PROVE  Leaves(t) /\ Return(t)
<1>1. Return(t)
    BY DEF Exit, TraceExit, ExitMmap, ExitMapError, ExitMunmap
<1>2. Pop(t) /\ missed' = missed /\ overlapped' = overlapped
    BY <1>1 DEF Return
<1>3. missed' \in 0 .. MaxMissed
    BY <1>2 DEF IInv, KernelInv
<1>4. vma \in [Pids \X Pages -> Devs \cup {0, Unmapped}] /\ torn \subseteq Pids \X Pages
    BY DEF IInv, KernelInv
<1>5. vma_dev_map \in [DOMAIN vma_dev_map -> Devs] /\ Bounded(vma_dev_map)
    BY DEF IInv, TypeInv
<1>6. Top(t) \in Frame /\ Top(t).op \in OpNames /\ Top(t).dev \in Devs \cup {0}
    BY <1>2, PopStep DEF IInv, Frame
<1>7. CASE UNCHANGED <<vma_dev_map, vma, torn>>
    BY <1>1, <1>2, <1>3, <1>4, <1>5, <1>7 DEF Leaves, Bounded
<1>8. CASE ExitMunmap(t)
  <2>1. vma' \in [Pids \X Pages -> Devs \cup {0, Unmapped}] /\ torn' \subseteq Pids \X Pages
    BY <1>6, <1>8, UnmappedType DEF ExitMunmap, IInv
  <2> QED BY <1>1, <1>2, <1>3, <1>5, <1>8, <2>1 DEF Leaves, Bounded, ExitMunmap
<1>9. CASE ExitMmap(t)
  <2> DEFINE q(r) == VmaKey(PidOf[t], r.start)
             v == op_state[OpKey(t, "mmap")].dev
  <2>1. PICK range \in Ranges :
          /\ Mapped(t, range, Filed(t, q(range)))
          /\ vma_dev_map' = IF Filed(t, q(range)) = {} THEN vma_dev_map ELSE Put(vma_dev_map, q(range), v)
    BY <1>9 DEF ExitMmap
  <2>2. vma' \in [Pids \X Pages -> Devs \cup {0, Unmapped}] /\ torn' \subseteq Pids \X Pages
    BY <1>6, <2>1, MappedType DEF IInv
  <2>3. "mmap" \in OpNames
    BY <1>6, <2>1 DEF Mapped
  <2>4. OpKey(t, "mmap") \in DOMAIN op_state => v \in Devs
    BY <2>3 DEF IInv, ContextInv, OpKey
  <2>5. CASE vma_dev_map' = vma_dev_map
    BY <1>1, <1>2, <1>3, <1>5, <2>2, <2>5 DEF Leaves, Bounded
  <2>6. CASE vma_dev_map' = Put(vma_dev_map, q(range), v) /\ Filed(t, q(range)) # {}
    <3> HIDE DEF q, v
    <3>1. HasRoom(vma_dev_map, q(range)) /\ v \in Devs
      BY <2>4, <2>6 DEF Filed
    <3>2. Bounded(Put(vma_dev_map, q(range), v))
      BY <1>5, <3>1, PutBounded
    <3>3. Put(vma_dev_map, q(range), v) \in [DOMAIN Put(vma_dev_map, q(range), v) -> Devs]
      BY <1>5, <3>1 DEF Put
    <3> QED BY <1>1, <1>2, <1>3, <2>2, <2>6, <3>2, <3>3 DEF Leaves, Bounded
  <2> QED BY <2>1, <2>5, <2>6
<1> QED BY <1>1, <1>7, <1>8, <1>9 DEF Exit, TraceExit, ExitMapError

\* A missed return does, too.
LEMMA MissShape ==
    ASSUME IInv, NEW t \in Threads, MissedReturn(t)
    PROVE  Leaves(t)
<1>1. Pop(t) /\ missed' \in 0 .. MaxMissed /\ UNCHANGED <<vma_dev_map, overlapped>>
    BY KernelAssumption DEF MissedReturn, Miss, IInv, KernelInv
<1>2. Top(t) \in Frame /\ Top(t).dev \in Devs \cup {0}
    BY <1>1, PopStep DEF IInv, Frame
<1>3. vma' \in [Pids \X Pages -> Devs \cup {0, Unmapped}] /\ torn' \subseteq Pids \X Pages
  <2>1. CASE UNCHANGED <<vma, torn>>
    BY <2>1 DEF IInv, KernelInv
  <2>2. CASE \E range \in Ranges : Mapped(t, range, {})
    BY <1>2, <2>2, MappedType DEF IInv
  <2>3. CASE UnmappedBy(t)
    BY <1>2, <2>3, UnmappedType DEF IInv
  <2> QED BY <2>1, <2>2, <2>3 DEF MissedReturn, Miss
<1> QED BY <1>1, <1>3 DEF Leaves, IInv, TypeInv, Bounded

\* Every step keeps the invariant.
LEMMA SnoopStep == IInv /\ [Next]_vars => IInv'
<1> SUFFICES ASSUME IInv, [Next]_vars PROVE IInv'
    OBVIOUS
<1>1. ASSUME NEW t \in Threads, Enter(t)
      PROVE  IInv'
    BY <1>1, EnterShape, EnterKeeps DEF IInv
<1>2. ASSUME NEW t \in Threads, Exit(t)
      PROVE  IInv'
  <2>1. Leaves(t) /\ Return(t)
    BY <1>2, ExitShape
  <2>2. CASE ReturnAttached(Top(t).op)
    BY <2>1, <2>2, ReportedShape, ReportedKeeps DEF IInv
  <2>3. CASE ~ReturnAttached(Top(t).op)
    <3>1. orphans' = orphans \cup {Top(t).call} /\ UNCHANGED <<op_state, events, refused, traced>>
      BY <2>1, <2>3 DEF Return
    <3> QED BY <2>1, <3>1, OrphanKeeps
  <2> QED BY <2>2, <2>3
<1>3. ASSUME NEW t \in Threads, MissedReturn(t)
      PROVE  IInv'
  <2>1. Leaves(t)
    BY <1>3, MissShape
  <2> QED BY <1>3, <2>1, OrphanKeeps DEF MissedReturn
<1>4. ASSUME KernelInv', CallsInv',
             UNCHANGED <<stack, calls, op_state, vma_dev_map, events, refused, orphans, overlapped, traced>>
      PROVE  IInv'
  <2>1. TypeInv'
    BY <1>4 DEF IInv, TypeInv, Bounded
  <2>2. StackInv' /\ DistinctInv' /\ EventInv'
    BY <1>4 DEF IInv, StackInv, DistinctInv, EventInv
  <2>3. ContextInv'
    <3> SUFFICES ASSUME NEW u \in Threads, NEW o \in OpNames, <<u, o>> \in DOMAIN op_state'
                 PROVE  LET d == op_state'[<<u, o>>] IN
                        /\ d.call \in orphans' \/ \E i \in 1 .. Len(stack'[u]) : Wrote(stack'[u][i], o, d)
                        /\ d.call < calls'
                        /\ PassMountFilter(d.dev) /\ (o # "munmap" => d.dev \in Devs)
                        /\ \A e \in events' : e.start # d.call
      BY DEF ContextInv, Wrote, PassMountFilter
    <3> QED BY <1>4 DEF IInv, ContextInv
  <2>4. ReportInv'
    BY <1>4 DEF IInv, ReportInv, Expected
  <2>5. PairedEvents' /\ EventsOnMount' /\ EveryCallReported'
    BY <1>4 DEF IInv, PairedEvents, EventsOnMount, EveryCallReported
  <2> QED BY <1>4, <2>1, <2>2, <2>3, <2>4, <2>5 DEF IInv
<1>5. CASE AttachNext
  <2>1. Len(Ops) \in Nat
    BY KernelAssumption
  <2>2. KernelInv'
    <3>1. attached \in 0 .. 2 * Len(Ops) /\ attached # 2 * Len(Ops) /\ attached' = attached + 1
      BY <1>5 DEF AttachNext, Attach, AllAttached, IInv, KernelInv
    <3>2. attached' \in 0 .. 2 * Len(Ops)
      BY <2>1, <3>1
    <3> QED BY <1>5, <3>2 DEF AttachNext, Attach, IInv, KernelInv
  <2>3. CallsInv'
    BY <1>5 DEF AttachNext, Attach, IInv, CallsInv
  <2> QED BY <1>4, <1>5, <2>2, <2>3 DEF AttachNext, Attach
<1>6. CASE ChangeUnseen
  <2>1. PICK pid \in Pids : Unseen(pid)
    BY <1>6 DEF ChangeUnseen
  <2>2. KernelInv'
    BY <2>1, UnseenType DEF IInv
  <2>3. CallsInv'
    BY <2>1 DEF Unseen, IInv, CallsInv
  <2> QED BY <1>4, <1>6, <2>1, <2>2, <2>3 DEF ChangeUnseen, Unseen
<1>7. CASE UNCHANGED vars
  <2>1. KernelInv' /\ CallsInv'
    BY <1>7 DEF vars, kernelVars, IInv, KernelInv, CallsInv
  <2> QED BY <1>4, <1>7, <2>1 DEF vars, kernelVars
<1> QED BY <1>1, <1>2, <1>3, <1>5, <1>6, <1>7 DEF Next

\* The invariant holds in every reachable state.
LEMMA SnoopInvariant == Spec => []IInv
    BY SnoopInit, SnoopStep, PTL DEF Spec

\* Every variable keeps its type, and neither map grows beyond its max_entries.
THEOREM SnoopTypeCorrect == Spec => []TypeOK
<1>1. IInv => TypeOK
  <2> SUFFICES ASSUME IInv PROVE TypeOK
    OBVIOUS
  <2>1. calls \in Nat
    BY KernelAssumption DEF IInv, KernelInv
  <2>2. KernelTypeOK
    <3>1. ASSUME NEW t \in Threads, NEW i \in DOMAIN stack[t]
          PROVE  stack[t][i].op \in OpNames /\ stack[t][i].call \in 0 .. (calls - 1)
      <4>1. i \in 1 .. Len(stack[t]) /\ stack[t][i] \in Frame
        BY StackTop DEF IInv
      <4>2. stack[t][i].call < calls
        BY <4>1 DEF IInv, CallsInv
      <4> QED BY <2>1, <4>1, <4>2 DEF Frame
    <3> QED BY <3>1 DEF IInv, KernelInv, KernelTypeOK
  <2>3. ASSUME NEW k \in DOMAIN op_state
        PROVE  op_state[k].dev \in Devs \cup {0} /\ op_state[k].call \in 0 .. (calls - 1)
    <3>1. PICK t \in Threads, op \in OpNames : k = <<t, op>>
      BY DEF IInv, TypeInv
    <3>2. op_state[k].call < calls
      BY <3>1 DEF IInv, ContextInv
    <3>3. op_state[k] \in Context
      BY DEF IInv, TypeInv
    <3> QED BY <2>1, <3>2, <3>3 DEF Context
  <2>4. \A e \in events : e.start \in 0 .. (calls - 1) /\ e.end \in 0 .. (calls - 1)
    BY <2>1 DEF IInv, TypeInv, EventInv, Event
  <2> QED BY <2>2, <2>3, <2>4 DEF IInv, TypeInv, TypeOK, Bounded
<1> QED BY <1>1, SnoopInvariant, PTL

\* An event joins the entry and the return of one call, but for the contexts of
\* orphans and nested calls of one operation, and no call is reported twice.
THEOREM SnoopPairedCorrect == Spec => []PairedEvents
<1>1. IInv => PairedEvents
    BY DEF IInv
<1> QED BY <1>1, SnoopInvariant, PTL

\* With -m, an event whose halves belong together is of a call on the mount.
THEOREM SnoopMountCorrect == Spec => []EventsOnMount
<1>1. IInv => EventsOnMount
    BY DEF IInv
<1> QED BY <1>1, SnoopInvariant, PTL

\* A call traced from entry to return is reported unless refused or overlapped.
THEOREM SnoopReportedCorrect == Spec => []EveryCallReported
<1>1. IInv => EveryCallReported
    BY DEF IInv
<1> QED BY <1>1, SnoopInvariant, PTL

\* op_state holds calls in progress and calls whose return was not traced only.
THEOREM SnoopNoLeftoverCorrect == Spec => []NoLeftover
<1>1. IInv => NoLeftover
  <2> SUFFICES ASSUME IInv, NEW k \in DOMAIN op_state
               PROVE  op_state[k].call \in orphans \cup InProgress(k[1], OpNames)
    BY DEF NoLeftover
  <2>1. PICK t \in Threads, op \in OpNames : k = <<t, op>>
    BY DEF IInv, TypeInv
  <2>2. \/ op_state[k].call \in orphans
        \/ \E i \in 1 .. Len(stack[t]) : Wrote(stack[t][i], op, op_state[k])
    BY <2>1 DEF IInv, ContextInv
  <2>3. ASSUME NEW i \in 1 .. Len(stack[t]), Wrote(stack[t][i], op, op_state[k])
        PROVE  op_state[k].call \in InProgress(t, OpNames)
    <3>1. i \in DOMAIN stack[t]
      BY StackTop DEF IInv
    <3> QED BY <2>3, <3>1 DEF Wrote, InProgress
  <2> QED BY <2>1, <2>2, <2>3
<1> QED BY <1>1, SnoopInvariant, PTL

(***************************************************************************)
(* vma_dev_map, on machines where no two pages share a key (the bits of a  *)
(* page number do not reach into the pids there are).                      *)
(***************************************************************************)
keyOf == [m \in PidPages |-> VmaKey(m[1], m[2])]

Injective ==
    \A p, q \in Pids, a, b \in Pages : VmaKey(p, a) = VmaKey(q, b) => p = q /\ a = b

\* An element is right or its cell is torn; the first page of a vm_munmap under way
\* has no element, or one that was filed since.
VmaInv ==
    /\ DevOK(vma_dev_map, keyOf, vma, torn)
    /\ UnmapOK(vma_dev_map, keyOf, Unmapping, torn)

LEMMA KeyOf ==
    ASSUME Injective
    PROVE  OneToOne(keyOf) /\ \A p \in Pids, a \in Pages : keyOf[<<p, a>>] = VmaKey(p, a)
<1>1. \A m \in PidPages : m = <<m[1], m[2]>> /\ m[1] \in Pids /\ m[2] \in Pages /\ keyOf[m] = VmaKey(m[1], m[2])
    BY DEF PidPages, keyOf
<1>2. \A p \in Pids, a \in Pages : <<p, a>> \in PidPages /\ <<p, a>>[1] = p /\ <<p, a>>[2] = a
    BY DEF PidPages
<1> QED BY <1>1, <1>2 DEF OneToOne, Injective

\* The key of a thread's page.
LEMMA KeyOfCell ==
    ASSUME NEW t \in Threads, NEW range \in Ranges
    PROVE  keyOf[Cell(t, range.start)] = VmaKey(PidOf[t], range.start)
<1>1. Cell(t, range.start) \in PidPages /\ Cell(t, range.start) = <<PidOf[t], range.start>>
    BY RangeType DEF Cell
<1> QED BY <1>1 DEF keyOf

\* An entry probe keeps it: vm_munmap takes the element out.
LEMMA VmaEnter ==
    ASSUME IInv, VmaInv, NEW t \in Threads, Enter(t)
    PROVE  VmaInv'
<1>1. ASSUME NEW op, NEW dev \in Devs \cup {0}, NEW range \in Ranges \cup {NoRange}, CallOf(t, op, dev, range),
             vma_dev_map' = IF op = "munmap" /\ EntryAttached(op)
                            THEN Drop(vma_dev_map, keyOf[Cell(t, range.start)]) ELSE vma_dev_map
      PROVE  VmaInv'
  <2>1. Call(t, op, dev, range, 0)
    BY <1>1 DEF CallOf
  <2> QED BY <1>1, <2>1, CallOK DEF IInv, VmaInv
<1>2. ASSUME NEW op, NEW dev \in Devs, TraceEnter(t, op, dev), op # "munmap"
      PROVE  VmaInv'
    BY <1>1, <1>2 DEF TraceEnter
<1>3. CASE \/ EnterOpenReadWrite(t) \/ EnterNamespace(t) \/ EnterMetadata(t) \/ EnterVector(t)
           \/ EnterKprobed(t) \/ EnterDirectory(t) \/ EnterLock(t)
    BY <1>2, <1>3 DEF EnterOpenReadWrite, EnterNamespace, EnterMetadata, EnterVector, EnterKprobed,
                      EnterDirectory, EnterLock
<1>4. CASE EnterMmap(t)
  <2>1. PICK dev \in Devs \cup {0} : CallOf(t, "mmap", dev, NoRange) /\ UNCHANGED vma_dev_map
    BY <1>4 DEF EnterMmap
  <2> QED BY <1>1, <2>1
<1>5. CASE EnterMunmap(t)
  <2>1. PICK range \in Ranges :
          /\ CallOf(t, "munmap", DevOf(Cell(t, range.start)), range)
          /\ vma_dev_map' = IF EntryAttached("munmap")
                            THEN Drop(vma_dev_map, VmaKey(PidOf[t], range.start)) ELSE vma_dev_map
    BY <1>5 DEF EnterMunmap
  <2>2. DevOf(Cell(t, range.start)) \in Devs \cup {0}
    BY RangeType DEF IInv, KernelInv, DevOf, PidPages
  <2>3. VmaKey(PidOf[t], range.start) = keyOf[Cell(t, range.start)]
    BY KeyOfCell
  <2> QED BY <1>1, <2>1, <2>2, <2>3
<1> QED BY <1>3, <1>4, <1>5 DEF Enter

\* A context found by the return of its own call has the device of that call.
LEMMA OwnContext ==
    ASSUME IInv, NEW t \in Threads, Top(t) \in Frame, Top(t).op = "mmap",
           Top(t) = stack[t][Len(stack[t])], Len(stack[t]) \in 1 .. Len(stack[t]),
           <<t, "mmap">> \in DOMAIN op_state, op_state[<<t, "mmap">>].call = Top(t).call
    PROVE  op_state[<<t, "mmap">>].dev = Top(t).dev /\ Top(t).dev \in Noted
<1> DEFINE c == op_state[<<t, "mmap">>]
           N == Len(stack[t])
<1>1. "mmap" \in OpNames
    BY DEF Frame
<1>2. /\ c.call \in orphans \/ \E i \in 1 .. Len(stack[t]) : Wrote(stack[t][i], "mmap", c)
      /\ PassMountFilter(c.dev) /\ c.dev \in Devs
    BY <1>1 DEF IInv, ContextInv
<1>3. c.call \notin orphans
    BY DEF IInv, StackInv
<1>4. PICK i \in 1 .. Len(stack[t]) : Wrote(stack[t][i], "mmap", c)
    BY <1>2, <1>3
<1>5. i = N
    BY <1>4 DEF Wrote, IInv, CallsInv
<1>6. c.dev = Top(t).dev
    BY <1>4, <1>5 DEF Wrote
<1> QED BY <1>2, <1>6, KernelAssumption DEF Noted, PassMountFilter

\* A return probe keeps it: do_mmap files its own device, or its page is torn.
LEMMA VmaExit ==
    ASSUME IInv, VmaInv, Injective, NEW t \in Threads, Exit(t)
    PROVE  VmaInv'
<1>1. Leaves(t)
    BY ExitShape
<1>2. /\ Popped(t) /\ Top(t) \in Frame /\ Top(t) = stack[t][Len(stack[t])]
      /\ Len(stack[t]) \in 1 .. Len(stack[t])
    BY <1>1, LeavesStack
<1>3. ASSUME UNCHANGED vma_dev_map,
             \/ UNCHANGED <<vma, torn>>
             \/ \E range \in Ranges : Mapped(t, range, {})
             \/ UnmappedBy(t)
      PROVE  VmaInv'
    BY <1>2, <1>3, QuietOK DEF IInv, VmaInv
<1>4. CASE TraceExit(t) \/ ExitMapError(t) \/ ExitMunmap(t)
    BY <1>3, <1>4 DEF TraceExit, ExitMapError, ExitMunmap
<1>5. CASE ExitMmap(t)
  <2> DEFINE q(r) == VmaKey(PidOf[t], r.start)
             c == op_state[<<t, "mmap">>]
  <2>1. PICK range \in Ranges :
          /\ Mapped(t, range, Filed(t, q(range)))
          /\ vma_dev_map' = IF Filed(t, q(range)) = {} THEN vma_dev_map ELSE Put(vma_dev_map, q(range), c.dev)
    BY <1>5 DEF ExitMmap, OpKey
  <2>2. CASE Filed(t, q(range)) = {}
    BY <1>3, <2>1, <2>2
  <2>3. CASE Filed(t, q(range)) # {}
    <3>1. <<t, "mmap">> \in DOMAIN op_state /\ Filed(t, q(range)) = {c.call} /\ Top(t).op = "mmap"
      BY <2>1, <2>3 DEF Filed, OpKey, Mapped
    <3>2. c.call = Top(t).call => c.dev = Top(t).dev /\ c.dev \in Noted
      BY <1>2, <3>1, OwnContext
    <3>3. Mapped(t, range, {c.call}) /\ vma_dev_map' = Put(vma_dev_map, keyOf[Cell(t, range.start)], c.dev)
      BY <2>1, <2>3, <3>1, KeyOfCell
    <3> HIDE DEF c
    <3>4. OneToOne(keyOf)
      BY KeyOf
    <3> QED BY <1>2, <3>2, <3>3, <3>4, FiledOK DEF IInv, VmaInv
  <2> QED BY <2>2, <2>3
<1> QED BY <1>4, <1>5 DEF Exit

\* Every step keeps it.
LEMMA VmaStep == IInv /\ (Injective => VmaInv) /\ [Next]_vars => (Injective => VmaInv')
<1> SUFFICES ASSUME IInv, VmaInv, Injective, [Next]_vars PROVE VmaInv'
    OBVIOUS
<1>1. ASSUME NEW t \in Threads, Enter(t) \/ Exit(t)
      PROVE  VmaInv'
    BY <1>1, VmaEnter, VmaExit
<1>2. ASSUME NEW t \in Threads, MissedReturn(t)
      PROVE  VmaInv'
  <2>1. Leaves(t)
    BY <1>2, MissShape
  <2>2. Popped(t) /\ Top(t) \in Frame /\ Top(t) = stack[t][Len(stack[t])] /\ Len(stack[t]) \in 1 .. Len(stack[t])
    BY <2>1, LeavesStack
  <2>3. /\ UNCHANGED vma_dev_map
        /\ \/ UNCHANGED <<vma, torn>>
           \/ \E range \in Ranges : Mapped(t, range, {})
           \/ UnmappedBy(t)
    BY <1>2 DEF MissedReturn, Miss
  <2> QED BY <2>2, <2>3, QuietOK DEF IInv, VmaInv
<1>3. ASSUME UNCHANGED <<stack, vma, torn, vma_dev_map>>
      PROVE  VmaInv'
  <2>1. Unmapping' = Unmapping
    BY <1>3 DEF Unmapping, Cell, PidPages
  <2> QED BY <1>3, <2>1 DEF VmaInv
<1>4. CASE AttachNext
    BY <1>3, <1>4 DEF AttachNext, Attach
<1>5. CASE ChangeUnseen
  <2>1. PICK pid \in Pids : Unseen(pid)
    BY <1>5 DEF ChangeUnseen
  <2>2. UNCHANGED vma_dev_map
    BY <1>5 DEF ChangeUnseen
  <2> QED BY <2>1, <2>2, UnseenOK DEF IInv, VmaInv
<1>6. CASE UNCHANGED vars
    BY <1>3, <1>6 DEF vars, kernelVars
<1> QED BY <1>1, <1>2, <1>4, <1>5, <1>6 DEF Next

\* On machines where no two pages share a key, with ranged and fixed mappings, unseen
\* changes, missed returns and programs attached while threads run, every element of
\* vma_dev_map is the device of what is mapped there, but in torn cells
\* (trace_do_mmap_krp, trace_vm_munmap_kp).
THEOREM VmaDevCorrect == Spec => [](Injective => VmaDevTrue)
<1>1. Init => (Injective => VmaInv)
  <2> SUFFICES ASSUME Init PROVE VmaInv
    OBVIOUS
  <2>1. DOMAIN vma_dev_map = {}
    BY DEF Init
  <2> QED BY <2>1 DEF VmaInv, DevOK, UnmapOK
<1>2. (Injective => VmaInv) => (Injective => VmaDevTrue)
  <2> SUFFICES ASSUME Injective, VmaInv, NEW p \in Pids, NEW a \in Pages,
                      VmaKey(p, a) \in DOMAIN vma_dev_map, <<p, a>> \notin torn
               PROVE  vma_dev_map[VmaKey(p, a)] = vma[<<p, a>>]
    BY DEF VmaDevTrue
  <2>1. <<p, a>> \in PidPages /\ keyOf[<<p, a>>] = VmaKey(p, a)
    BY KeyOf DEF PidPages
  <2> QED BY <2>1 DEF VmaInv, DevOK
<1>3. (Injective => VmaInv') <=> (Injective => VmaInv)'
    BY DEF Injective
<1> QED BY <1>1, <1>2, <1>3, SnoopInvariant, VmaStep, PTL DEF Spec
=============================================================================
