-------------------------- MODULE VfsKernel_proofs --------------------------
(***************************************************************************)
(* What the steps of the environment do to the stacks of calls and to a    *)
(* BPF map, for any number of threads, operations and calls: the lemmas    *)
(* that the proofs about iosnoop and ioslower share.                       *)
(***************************************************************************)
EXTENDS VfsKernel, FiniteSetTheorems, TLAPS

Frame == [op : OpNames, dev : Devs \cup {0}, range : Ranges \cup {NoRange},
          call : Nat, ts : Nat, entered : BOOLEAN, torn : BOOLEAN]

\* Types in the form the provers need.
KernelInv ==
    /\ attached \in 0 .. 2 * Len(Ops)
    /\ stack \in [Threads -> Seq(Frame)]
    /\ vma \in [Pids \X Pages -> Devs \cup {0, Unmapped}]
    /\ calls \in 0 .. MaxCalls /\ missed \in 0 .. MaxMissed
    /\ unseen \in 0 .. MaxUnseen /\ torn \subseteq Pids \X Pages

\* A call in progress has been made, and is in one place of one stack.
CallsInv ==
    /\ \A t \in Threads : \A i \in 1 .. Len(stack[t]) : stack[t][i].call < calls
    /\ \A t, u \in Threads : \A i \in 1 .. Len(stack[t]), j \in 1 .. Len(stack[u]) :
         stack[t][i].call = stack[u][j].call => t = u /\ i = j

\* A call f is pushed on the stack of thread t, the others stay where they are.
Pushed(t, f) ==
    /\ Len(stack[t]) + 1 \in 1 .. Len(stack'[t]) /\ stack'[t][Len(stack[t]) + 1] = f
    /\ \A u \in Threads : \A i \in 1 .. Len(stack[u]) :
         i \in 1 .. Len(stack'[u]) /\ stack'[u][i] = stack[u][i]
    /\ \A u \in Threads : \A i \in 1 .. Len(stack'[u]) :
         \/ i \in 1 .. Len(stack[u]) /\ stack'[u][i] = stack[u][i]
         \/ u = t /\ i = Len(stack[t]) + 1 /\ i \notin 1 .. Len(stack[u])

\* The innermost call of thread t is gone, the others stay where they are.
Popped(t) ==
    /\ Len(stack[t]) \in 1 .. Len(stack[t]) /\ Len(stack[t]) \notin 1 .. Len(stack'[t])
    /\ \A u \in Threads : \A i \in 1 .. Len(stack[u]) :
         \/ i \in 1 .. Len(stack'[u]) /\ stack'[u][i] = stack[u][i]
         \/ u = t /\ i = Len(stack[t])
    /\ \A u \in Threads : \A i \in 1 .. Len(stack'[u]) :
         i \in 1 .. Len(stack[u]) /\ stack'[u][i] = stack[u][i]

\* A map with at most MapMax elements.
Bounded(f) == IsFiniteSet(DOMAIN f) /\ Cardinality(DOMAIN f) <= MapMax

\* A frame of the call that thread t makes now.
NewFrame(t, op, dev, range, ts) ==
    [op |-> op, dev |-> dev, range |-> range, call |-> calls, ts |-> ts, entered |-> EntryAttached(op),
     torn |-> Cell(t, range.start) \in torn]

\* The index of an operation in Ops is one of Ops.
LEMMA IndexType ==
    ASSUME NEW op \in OpNames
    PROVE  IndexOf(op) \in 1 .. Len(Ops) /\ Ops[IndexOf(op)] = op
<1>1. \E i \in DOMAIN Ops : Ops[i] = op
    BY DEF OpNames
<1>2. IndexOf(op) \in DOMAIN Ops /\ Ops[IndexOf(op)] = op
    BY <1>1 DEF IndexOf
<1> QED BY <1>2, KernelAssumption

\* The frame of a call is a frame.
LEMMA FrameType ==
    ASSUME KernelInv, NEW op \in OpNames, NEW dev \in Devs \cup {0},
           NEW range \in Ranges \cup {NoRange}, NEW ts \in Nat, NEW t
    PROVE  NewFrame(t, op, dev, range, ts) \in Frame
<1> EntryAttached(op) \in BOOLEAN
    BY IndexType DEF EntryAttached, KernelInv
<1> calls \in Nat
    BY KernelAssumption DEF KernelInv
<1> QED BY DEF NewFrame, Frame

\* An empty stack has no frame, and the top of another is its last.
LEMMA StackTop ==
    ASSUME KernelInv, NEW t \in Threads
    PROVE  /\ Len(stack[t]) \in Nat
           /\ DOMAIN stack[t] = 1 .. Len(stack[t])
           /\ \A i \in 1 .. Len(stack[t]) : stack[t][i] \in Frame
           /\ stack[t] # << >> <=> Len(stack[t]) >= 1
           /\ Top(t) = stack[t][Len(stack[t])]
    BY DEF KernelInv, Top

\* A call goes on top of the stack of its thread.
LEMMA CallStep ==
    ASSUME KernelInv, CallsInv, NEW t \in Threads, NEW op, NEW dev \in Devs \cup {0},
           NEW range \in Ranges \cup {NoRange}, NEW ts \in Nat,
           Call(t, op, dev, range, ts)
    PROVE  /\ op \in OpNames
           /\ Pushed(t, NewFrame(t, op, dev, range, ts))
           /\ calls' = calls + 1
           /\ KernelInv' /\ CallsInv'
<1> DEFINE f == NewFrame(t, op, dev, range, ts)
<1>1. op \in OpNames /\ f \in Frame
    BY FrameType DEF Call
<1>2. stack[t] \in Seq(Frame) /\ stack' = [stack EXCEPT ![t] = Append(@, f)]
    BY DEF KernelInv, Call, NewFrame
<1> HIDE DEF f
<1>3. Pushed(t, f) /\ stack' \in [Threads -> Seq(Frame)]
  <2>1. stack' \in [Threads -> Seq(Frame)]
    BY <1>1, <1>2 DEF KernelInv
  <2>2. \A u \in Threads : Len(stack[u]) \in Nat
    BY DEF KernelInv
  <2>3. stack'[t] = Append(stack[t], f) /\ \A u \in Threads \ {t} : stack'[u] = stack[u]
    BY <1>2 DEF KernelInv
  <2>4. Len(stack'[t]) = Len(stack[t]) + 1 /\ stack'[t][Len(stack[t]) + 1] = f
    BY <1>1, <1>2, <2>3
  <2>5. \A i \in 1 .. Len(stack[t]) : stack'[t][i] = stack[t][i]
    BY <1>1, <1>2, <2>3
  <2>6. \A u \in Threads : \A i \in 1 .. Len(stack[u]) :
          i \in 1 .. Len(stack'[u]) /\ stack'[u][i] = stack[u][i]
    BY <2>2, <2>3, <2>4, <2>5, SMTT(40)
  <2>7. ASSUME NEW u \in Threads, NEW i \in 1 .. Len(stack'[u])
        PROVE  \/ i \in 1 .. Len(stack[u]) /\ stack'[u][i] = stack[u][i]
               \/ u = t /\ i = Len(stack[t]) + 1 /\ i \notin 1 .. Len(stack[u])
    <3>1. CASE u = t
      <4>1. CASE i = Len(stack[t]) + 1
        BY <2>2, <3>1, <4>1
      <4>2. CASE i # Len(stack[t]) + 1
        <5>1. i \in 1 .. Len(stack[t])
          BY <2>2, <2>4, <3>1, <4>2
        <5> QED BY <2>5, <3>1, <5>1
      <4> QED BY <4>1, <4>2
    <3>2. CASE u # t
      BY <2>3, <3>2
    <3> QED BY <3>1, <3>2
  <2>8. Len(stack[t]) + 1 \in 1 .. Len(stack'[t])
    BY <2>2, <2>4
  <2> QED BY <2>1, <2>4, <2>6, <2>7, <2>8 DEF Pushed
<1>4. KernelInv'
    BY <1>3, KernelAssumption DEF KernelInv, Call
<1>5. f.call = calls /\ calls' = calls + 1 /\ calls \in Nat
    BY KernelAssumption DEF f, NewFrame, Call, KernelInv
<1>6. \A u \in Threads : Len(stack[u]) \in Nat /\ \A i \in 1 .. Len(stack[u]) : stack[u][i].call \in Nat
  <2> TAKE u \in Threads
  <2>1. stack[u] \in Seq(Frame)
    BY DEF KernelInv
  <2>2. Len(stack[u]) \in Nat /\ \A i \in 1 .. Len(stack[u]) : stack[u][i] \in Frame
    BY <2>1
  <2>3. \A g \in Frame : g.call \in Nat
    BY DEF Frame
  <2> QED BY <2>2, <2>3
<1>7. CallsInv'
  <2>1. \A u \in Threads : \A i \in 1 .. Len(stack'[u]) :
          \/ i \in 1 .. Len(stack[u]) /\ stack'[u][i].call = stack[u][i].call
          \/ u = t /\ i = Len(stack[t]) + 1 /\ stack'[u][i].call = calls
    <3> TAKE u \in Threads
    <3> TAKE i \in 1 .. Len(stack'[u])
    <3>1. \/ i \in 1 .. Len(stack[u]) /\ stack'[u][i] = stack[u][i]
          \/ u = t /\ i = Len(stack[t]) + 1
      BY <1>3 DEF Pushed
    <3>2. stack'[t][Len(stack[t]) + 1].call = calls
      BY <1>3, <1>5 DEF Pushed
    <3> QED BY <3>1, <3>2
  <2>2. \A u \in Threads : \A i \in 1 .. Len(stack[u]) : stack[u][i].call < calls /\ stack[u][i].call # calls
    BY <1>5, <1>6 DEF CallsInv
  <2>3. \A u \in Threads : \A i \in 1 .. Len(stack'[u]) : stack'[u][i].call < calls'
    BY <1>5, <1>6, <2>1, <2>2
  <2>4. ASSUME NEW u \in Threads, NEW w \in Threads, NEW i \in 1 .. Len(stack'[u]), NEW j \in 1 .. Len(stack'[w]),
               stack'[u][i].call = stack'[w][j].call
        PROVE  u = w /\ i = j
    <3>1. CASE i \in 1 .. Len(stack[u]) /\ j \in 1 .. Len(stack[w])
      <4>1. stack'[u][i] = stack[u][i] /\ stack'[w][j] = stack[w][j]
        BY <1>3, <3>1 DEF Pushed
      <4>2. stack[u][i].call = stack[w][j].call
        BY <2>4, <4>1
      <4> QED BY <3>1, <4>2 DEF CallsInv
    <3>2. CASE i \notin 1 .. Len(stack[u]) \/ j \notin 1 .. Len(stack[w])
      BY <2>1, <2>2, <2>4, <3>2
    <3> QED BY <3>1, <3>2
  <2> QED BY <2>3, <2>4 DEF CallsInv
<1> QED BY <1>1, <1>3, <1>4, <1>5, <1>7 DEF f

\* A return takes the top of the stack of its thread.
LEMMA PopStep ==
    ASSUME KernelInv, CallsInv, NEW t \in Threads, Pop(t)
    PROVE  /\ Popped(t)
           /\ stack' \in [Threads -> Seq(Frame)]
           /\ UNCHANGED <<attached, calls, unseen>>
           /\ CallsInv'
           /\ Top(t) \in Frame
<1>1. stack[t] \in Seq(Frame) /\ stack[t] # << >> /\ stack' = [stack EXCEPT ![t] = SubSeq(@, 1, Len(@) - 1)]
    BY DEF KernelInv, Pop
<1>2. Len(stack[t]) >= 1 /\ Len(stack[t]) \in Nat
    BY <1>1
<1> DEFINE s == SubSeq(stack[t], 1, Len(stack[t]) - 1)
<1>3. s \in Seq(Frame) /\ Len(s) = Len(stack[t]) - 1 /\ \A i \in 1 .. Len(stack[t]) - 1 : s[i] = stack[t][i]
    BY <1>1, <1>2
<1> HIDE DEF s
<1>4. stack'[t] = s /\ stack' \in [Threads -> Seq(Frame)] /\ \A u \in Threads \ {t} : stack'[u] = stack[u]
    BY <1>1, <1>3 DEF KernelInv, s
<1>5. Popped(t)
  <2>1. \A u \in Threads : Len(stack[u]) \in Nat
    BY DEF KernelInv
  <2>2. Len(stack[t]) \in 1 .. Len(stack[t]) /\ Len(stack[t]) \notin 1 .. Len(stack'[t])
    BY <1>2, <1>3, <1>4
  <2>3. ASSUME NEW u \in Threads, NEW i \in 1 .. Len(stack[u])
        PROVE  \/ i \in 1 .. Len(stack'[u]) /\ stack'[u][i] = stack[u][i]
               \/ u = t /\ i = Len(stack[t])
    <3>1. CASE u = t
      BY <1>2, <1>3, <1>4, <3>1
    <3>2. CASE u # t
      BY <1>4, <3>2
    <3> QED BY <3>1, <3>2
  <2>4. ASSUME NEW u \in Threads, NEW i \in 1 .. Len(stack'[u])
        PROVE  i \in 1 .. Len(stack[u]) /\ stack'[u][i] = stack[u][i]
    <3>1. CASE u = t
      BY <1>2, <1>3, <1>4, <3>1
    <3>2. CASE u # t
      BY <1>4, <3>2
    <3> QED BY <3>1, <3>2
  <2> QED BY <2>2, <2>3, <2>4 DEF Popped
<1>6. CallsInv'
  <2>1. ASSUME NEW u \in Threads, NEW w \in Threads, NEW i \in 1 .. Len(stack'[u]), NEW j \in 1 .. Len(stack'[w]),
               stack'[u][i].call = stack'[w][j].call
        PROVE  u = w /\ i = j
    <3>1. i \in 1 .. Len(stack[u]) /\ stack'[u][i] = stack[u][i]
      BY <1>5 DEF Popped
    <3>2. j \in 1 .. Len(stack[w]) /\ stack'[w][j] = stack[w][j]
      BY <1>5 DEF Popped
    <3>3. stack[u][i].call = stack[w][j].call
      BY <2>1, <3>1, <3>2
    <3> QED BY <3>1, <3>2, <3>3 DEF CallsInv
  <2>2. \A u \in Threads : \A i \in 1 .. Len(stack'[u]) : stack'[u][i].call < calls'
    BY <1>5 DEF CallsInv, Popped, Pop
  <2> QED BY <2>1, <2>2 DEF CallsInv
<1> QED BY <1>1, <1>4, <1>5, <1>6 DEF Pop, Top

\* Insertion where there is room and deletion keep a map within MapMax.
LEMMA PutBounded ==
    ASSUME NEW f, NEW k, NEW v, Bounded(f), HasRoom(f, k)
    PROVE  Bounded(Put(f, k, v))
<1>1. DOMAIN Put(f, k, v) = DOMAIN f \cup {k}
    BY DEF Put
<1>2. CASE k \in DOMAIN f
  <2>1. DOMAIN f \cup {k} = DOMAIN f
    BY <1>2
  <2> QED BY <1>1, <2>1 DEF Bounded
<1>3. CASE k \notin DOMAIN f
  <2>1. Cardinality(DOMAIN f) \in Nat
    BY FS_CardinalityType DEF Bounded
  <2>2. IsFiniteSet(DOMAIN f \cup {k}) /\ Cardinality(DOMAIN f \cup {k}) = Cardinality(DOMAIN f) + 1
    BY <1>3, FS_AddElement DEF Bounded
  <2> QED BY <1>1, <1>3, <2>1, <2>2, KernelAssumption DEF Bounded, HasRoom
<1> QED BY <1>2, <1>3

LEMMA DropBounded ==
    ASSUME NEW f, NEW k, Bounded(f)
    PROVE  Bounded(Drop(f, k))
<1>1. DOMAIN Drop(f, k) = DOMAIN f \ {k}
    BY DEF Drop
<1>2. /\ IsFiniteSet(DOMAIN f \ {k}) /\ Cardinality(DOMAIN f) \in Nat
      /\ Cardinality(DOMAIN f \ {k}) <= Cardinality(DOMAIN f)
  <2>1. IsFiniteSet(DOMAIN f) /\ Cardinality(DOMAIN f) \in Nat
    BY FS_CardinalityType DEF Bounded
  <2>2. DOMAIN f \ {k} \in SUBSET DOMAIN f
    OBVIOUS
  <2> QED BY <2>1, <2>2, FS_Subset, FS_CardinalityType
<1>3. Cardinality(DOMAIN f \ {k}) \in Nat
    BY <1>2, FS_CardinalityType
<1> QED BY <1>1, <1>2, <1>3, KernelAssumption DEF Bounded

(***************************************************************************)
(* Mappings.                                                               *)
(***************************************************************************)
PidPages == Pids \X Pages

\* v with dev in the cells of C.
Over(v, C, dev) == [m \in PidPages |-> IF m \in C THEN dev ELSE v[m]]

\* The cells a vm_munmap that was seen and is under way begins at.
Unmapping ==
    {m \in PidPages : \E t \in Threads : \E i \in 1 .. Len(stack[t]) :
       stack[t][i].op = "munmap" /\ stack[t][i].entered /\ Cell(t, stack[t][i].range.start) = m}

\* A range begins at a page and holds pages.
LEMMA RangeType ==
    ASSUME NEW t \in Threads, NEW range \in Ranges
    PROVE  /\ Cell(t, range.start) \in PidPages /\ Cell(t, range.start) \in Cells(PidOf[t], range.pages)
           /\ Cells(PidOf[t], range.pages) \subseteq PidPages
<1>1. range.start \in range.pages /\ range.pages \subseteq Pages /\ PidOf[t] \in Pids
    BY KernelAssumption DEF Pids
<1> QED BY <1>1 DEF Cell, Cells, PidPages

\* A change of the mappings is typed.
LEMMA SetType ==
    ASSUME KernelInv, NEW pid \in Pids, NEW range \in Ranges \cup {NoRange},
           NEW dev \in Devs \cup {0, Unmapped}, SetPages(pid, range.pages, dev)
    PROVE  /\ vma' = Over(vma, Cells(pid, range.pages), dev)
           /\ vma' \in [Pids \X Pages -> Devs \cup {0, Unmapped}]
           /\ \A P \in SUBSET range.pages : Known(pid, P) \subseteq PidPages
<1>1. DOMAIN vma = PidPages /\ vma \in [PidPages -> Devs \cup {0, Unmapped}]
    BY DEF KernelInv, PidPages
<1>2. range.pages \subseteq Pages
    BY KernelAssumption DEF NoRange
<1> QED BY <1>1, <1>2 DEF SetPages, Over, Known, Cells, PidPages

\* do_mmap, vm_munmap and unseen changes leave mappings and torn cells typed.
LEMMA MappedType ==
    ASSUME KernelInv, NEW t \in Threads, NEW range \in Ranges, NEW filed,
           Top(t).dev \in Devs \cup {0}, Mapped(t, range, filed)
    PROVE  /\ vma' = Over(vma, Cells(PidOf[t], range.pages), Top(t).dev)
           /\ vma' \in [Pids \X Pages -> Devs \cup {0, Unmapped}] /\ torn' \subseteq Pids \X Pages
<1>1. PidOf[t] \in Pids /\ SetPages(PidOf[t], range.pages, Top(t).dev)
    BY DEF Pids, Mapped
<1>2. Known(PidOf[t], range.pages) \subseteq PidPages /\ Cell(t, range.start) \in PidPages
    BY <1>1, SetType, RangeType
<1>3. torn \subseteq PidPages
    BY DEF KernelInv, PidPages
<1>4. torn' \subseteq PidPages
    BY <1>2, <1>3 DEF Mapped
<1> QED BY <1>1, <1>4, SetType DEF PidPages

LEMMA UnmappedType ==
    ASSUME KernelInv, NEW t \in Threads, Top(t) \in Frame, UnmappedBy(t)
    PROVE  /\ vma' = Over(vma, Cells(PidOf[t], Top(t).range.pages), Unmapped)
           /\ vma' \in [Pids \X Pages -> Devs \cup {0, Unmapped}] /\ torn' \subseteq Pids \X Pages
<1> DEFINE r == Top(t).range
           P == r.pages \ (IF Top(t).entered THEN {r.start} ELSE {})
<1>1. PidOf[t] \in Pids /\ SetPages(PidOf[t], r.pages, Unmapped) /\ torn' = torn \cup Known(PidOf[t], P)
    BY DEF Pids, UnmappedBy
<1>2. P \in SUBSET r.pages /\ r \in Ranges \cup {NoRange}
    BY DEF Frame
<1> HIDE DEF P, r
<1>3. Known(PidOf[t], P) \subseteq PidPages
    BY <1>1, <1>2, SetType
<1> QED BY <1>1, <1>2, <1>3, SetType DEF PidPages, KernelInv, r

LEMMA UnseenType ==
    ASSUME KernelInv, NEW pid \in Pids, Unseen(pid)
    PROVE  KernelInv'
<1>1. PICK range \in Ranges, dev \in Devs \cup {0, Unmapped} :
        SetPages(pid, range.pages, dev) /\ torn' = torn \cup Known(pid, range.pages)
    BY DEF Unseen
<1>2. Known(pid, range.pages) \subseteq PidPages
    BY <1>1, SetType
<1>3. torn' \subseteq Pids \X Pages /\ vma' \in [Pids \X Pages -> Devs \cup {0, Unmapped}]
    BY <1>1, <1>2, SetType DEF KernelInv, PidPages
<1>4. unseen' \in 0 .. MaxUnseen
    BY KernelAssumption DEF Unseen, KernelInv
<1> QED BY <1>3, <1>4 DEF KernelInv, Unseen

\* What a call and a return do to the cells under way.
LEMMA UnmappingCall ==
    ASSUME NEW t \in Threads, NEW f, Pushed(t, f)
    PROVE  /\ Unmapping' \subseteq Unmapping \cup {Cell(t, f.range.start)}
           /\ ~(f.op = "munmap" /\ f.entered) => Unmapping' \subseteq Unmapping
<1> SUFFICES ASSUME NEW m \in Unmapping', m \notin Unmapping
             PROVE  m = Cell(t, f.range.start) /\ f.op = "munmap" /\ f.entered
    OBVIOUS
<1>a. PICK u \in Threads : \E i \in 1 .. Len(stack'[u]) :
        stack'[u][i].op = "munmap" /\ stack'[u][i].entered /\ Cell(u, stack'[u][i].range.start) = m
    BY DEF Unmapping, Cell
<1>1. PICK i \in 1 .. Len(stack'[u]) :
        stack'[u][i].op = "munmap" /\ stack'[u][i].entered /\ Cell(u, stack'[u][i].range.start) = m
    BY <1>a
<1>2. m \in PidPages
    BY DEF Unmapping, PidPages
<1>3. CASE i \in 1 .. Len(stack[u]) /\ stack'[u][i] = stack[u][i]
    BY <1>1, <1>2, <1>3 DEF Unmapping
<1>4. CASE u = t /\ stack'[u][i] = f
    BY <1>1, <1>4
<1> QED BY <1>3, <1>4 DEF Pushed

LEMMA UnmappingPop ==
    ASSUME NEW t \in Threads, Popped(t)
    PROVE  Unmapping' \subseteq Unmapping
<1> SUFFICES ASSUME NEW m \in Unmapping'
             PROVE  m \in Unmapping
    OBVIOUS
<1>a. PICK u \in Threads : \E i \in 1 .. Len(stack'[u]) :
        stack'[u][i].op = "munmap" /\ stack'[u][i].entered /\ Cell(u, stack'[u][i].range.start) = m
    BY DEF Unmapping, Cell
<1>1. PICK i \in 1 .. Len(stack'[u]) :
        stack'[u][i].op = "munmap" /\ stack'[u][i].entered /\ Cell(u, stack'[u][i].range.start) = m
    BY <1>a
<1>2. m \in PidPages
    BY DEF Unmapping, PidPages
<1>3. i \in 1 .. Len(stack[u]) /\ stack'[u][i] = stack[u][i]
    BY DEF Popped
<1> QED BY <1>1, <1>2, <1>3 DEF Unmapping

LEMMA NotThreatened ==
    ASSUME KernelInv, NEW m, ~Threatened(m)
    PROVE  m \notin Unmapping
<1> SUFFICES ASSUME m \in Unmapping PROVE FALSE
    OBVIOUS
<1>a. PICK t \in Threads : \E i \in 1 .. Len(stack[t]) :
        stack[t][i].op = "munmap" /\ Cell(t, stack[t][i].range.start) = m
    BY DEF Unmapping
<1>1. PICK i \in 1 .. Len(stack[t]) :
        stack[t][i].op = "munmap" /\ Cell(t, stack[t][i].range.start) = m
    BY <1>a
<1>2. i \in DOMAIN stack[t]
    BY StackTop
<1> QED BY <1>1, <1>2 DEF Threatened

(***************************************************************************)
(* A map d from keys to devices, kept by probes on do_mmap and vm_munmap   *)
(* under key[m] for the mapping in m, against the mappings v and the set   *)
(* tn of cells where it may be wrong. S holds the cells a vm_munmap under  *)
(* way begins at: their element is gone, or made since and in tn.          *)
(***************************************************************************)
Noted == {x \in Devs : FilterDev = 0 \/ x = FilterDev}

DevOK(d, key, v, tn) ==
    \A m \in PidPages : key[m] \in DOMAIN d /\ m \notin tn => d[key[m]] = v[m] /\ v[m] \in Noted

UnmapOK(d, key, S, tn) == \A m \in S : key[m] \in DOMAIN d => m \in tn

OneToOne(key) == \A m, n \in PidPages : key[m] = key[n] => m = n

\* vm_munmap is entered at m: its element goes.
LEMMA EnterOK ==
    ASSUME NEW d, NEW key, NEW v, NEW tn, NEW S, NEW m, NEW S2 \in SUBSET (S \cup {m}),
           DevOK(d, key, v, tn), UnmapOK(d, key, S, tn)
    PROVE  DevOK(Drop(d, key[m]), key, v, tn \ {m}) /\ UnmapOK(Drop(d, key[m]), key, S2, tn \ {m})
<1> DEFINE d2 == Drop(d, key[m])
<1>1. DOMAIN d2 = DOMAIN d \ {key[m]} /\ \A k \in DOMAIN d2 : d2[k] = d[k]
    BY DEF Drop
<1> HIDE DEF d2
<1>2. DevOK(d2, key, v, tn \ {m})
    BY <1>1 DEF DevOK
<1>3. UnmapOK(d2, key, S2, tn \ {m})
    BY <1>1 DEF UnmapOK
<1> QED BY <1>2, <1>3 DEF d2

\* Mappings change in C and the probes file nothing.
LEMMA ChangeOK ==
    ASSUME NEW d, NEW key, NEW v, NEW tn, NEW S, NEW S2 \in SUBSET S, NEW C, NEW dev,
           NEW K, \A m \in C : v[m] \in Noted => m \in K,
           DevOK(d, key, v, tn), UnmapOK(d, key, S, tn)
    PROVE  DevOK(d, key, Over(v, C, dev), tn \cup K) /\ UnmapOK(d, key, S2, tn \cup K)
    BY DEF DevOK, UnmapOK, Over

\* vm_munmap returns: the cell m it began at is in S, and needs no mention in K.
LEMMA UnmapChangeOK ==
    ASSUME NEW d, NEW key, NEW v, NEW tn, NEW S, NEW S2 \in SUBSET S, NEW C, NEW dev,
           NEW K, NEW m \in S, \A n \in C \ {m} : v[n] \in Noted => n \in K,
           DevOK(d, key, v, tn), UnmapOK(d, key, S, tn)
    PROVE  DevOK(d, key, Over(v, C, dev), tn \cup K) /\ UnmapOK(d, key, S2, tn \cup K)
    BY DEF DevOK, UnmapOK, Over

\* do_mmap returns and its device is filed under m, which no vm_munmap begins at.
LEMMA FileOK ==
    ASSUME NEW d, NEW key, NEW v, NEW tn, NEW S, NEW S2 \in SUBSET S, NEW C, NEW dev \in Noted,
           NEW K, NEW m \in C, \A n \in C : v[n] \in Noted => n \in K, m \in PidPages, m \notin S,
           S \subseteq PidPages, OneToOne(key), DevOK(d, key, v, tn), UnmapOK(d, key, S, tn)
    PROVE  /\ DevOK(Put(d, key[m], dev), key, Over(v, C, dev), (tn \cup K) \ {m})
           /\ UnmapOK(Put(d, key[m], dev), key, S2, (tn \cup K) \ {m})
<1> DEFINE d2 == Put(d, key[m], dev)
<1>1. /\ DOMAIN d2 = DOMAIN d \cup {key[m]} /\ d2[key[m]] = dev
      /\ \A k \in DOMAIN d \ {key[m]} : d2[k] = d[k]
    BY DEF Put
<1>2. \A n \in PidPages \ {m} : key[n] # key[m]
    BY DEF OneToOne
<1> HIDE DEF d2
<1>3. ASSUME NEW n \in PidPages, key[n] \in DOMAIN d2, n \notin (tn \cup K) \ {m}
      PROVE  d2[key[n]] = Over(v, C, dev)[n] /\ Over(v, C, dev)[n] \in Noted
  <2>1. CASE n = m
    BY <1>1, <2>1 DEF Over
  <2>2. CASE n # m
    <3>1. key[n] \in DOMAIN d /\ d2[key[n]] = d[key[n]] /\ n \notin tn /\ n \notin K
      BY <1>1, <1>2, <1>3, <2>2
    <3>2. d[key[n]] = v[n] /\ v[n] \in Noted
      BY <3>1 DEF DevOK
    <3> QED BY <3>1, <3>2 DEF Over
  <2> QED BY <2>1, <2>2
<1>4. UnmapOK(d2, key, S2, (tn \cup K) \ {m})
    BY <1>1, <1>2 DEF UnmapOK
<1> QED BY <1>3, <1>4 DEF DevOK, d2

\* do_mmap returns and some device is filed under m, which joins tn.
LEMMA MisfileOK ==
    ASSUME NEW d, NEW key, NEW v, NEW tn, NEW S, NEW S2 \in SUBSET S, NEW C, NEW dev, NEW x,
           NEW K, NEW m \in PidPages, \A n \in C : v[n] \in Noted => n \in K,
           S \subseteq PidPages, OneToOne(key), DevOK(d, key, v, tn), UnmapOK(d, key, S, tn)
    PROVE  /\ DevOK(Put(d, key[m], x), key, Over(v, C, dev), tn \cup K \cup {m})
           /\ UnmapOK(Put(d, key[m], x), key, S2, tn \cup K \cup {m})
<1> DEFINE d2 == Put(d, key[m], x)
<1>1. /\ DOMAIN d2 = DOMAIN d \cup {key[m]}
      /\ \A k \in DOMAIN d \ {key[m]} : d2[k] = d[k]
    BY DEF Put
<1>2. \A n \in PidPages \ {m} : key[n] # key[m]
    BY DEF OneToOne
<1> HIDE DEF d2
<1>3. DevOK(d2, key, Over(v, C, dev), tn \cup K \cup {m})
    BY <1>1, <1>2 DEF DevOK, Over
<1>4. UnmapOK(d2, key, S2, tn \cup K \cup {m})
    BY <1>1, <1>2 DEF UnmapOK
<1> QED BY <1>3, <1>4 DEF d2

\* What is mapped is known or unknown to the tools by its device.
LEMMA KnownNoted ==
    ASSUME NEW pid, NEW P, NEW m \in Cells(pid, P), vma[m] \in Noted
    PROVE  m \in Known(pid, P)
    BY DEF Known, Noted

\* A call keeps it, when vm_munmap takes the element of its first page out.
LEMMA CallOK ==
    ASSUME KernelInv, CallsInv, NEW t \in Threads, NEW op, NEW dev \in Devs \cup {0},
           NEW range \in Ranges \cup {NoRange}, NEW ts \in Nat, Call(t, op, dev, range, ts),
           NEW d, NEW key, NEW d2, DevOK(d, key, vma, torn), UnmapOK(d, key, Unmapping, torn),
           d2 = IF op = "munmap" /\ EntryAttached(op) THEN Drop(d, key[Cell(t, range.start)]) ELSE d
    PROVE  DevOK(d2, key, vma', torn') /\ UnmapOK(d2, key, Unmapping', torn')
<1> DEFINE f == NewFrame(t, op, dev, range, ts)
           m == Cell(t, range.start)
<1>1. Pushed(t, f)
    BY CallStep
<1>2. f.op = op /\ f.range = range /\ (f.entered <=> EntryAttached(op))
    BY DEF NewFrame
<1> HIDE DEF f
<1>3. /\ Unmapping' \subseteq Unmapping \cup {m}
      /\ ~(op = "munmap" /\ EntryAttached(op)) => Unmapping' \subseteq Unmapping
    BY <1>1, <1>2, UnmappingCall
<1>4. vma' = vma /\ torn' = IF op = "munmap" /\ EntryAttached(op) THEN torn \ {m} ELSE torn
    BY DEF Call
<1> HIDE DEF m
<1>5. CASE op = "munmap" /\ EntryAttached(op)
  <2>1. d2 = Drop(d, key[m]) /\ torn' = torn \ {m}
    BY <1>4, <1>5 DEF m
  <2>2. /\ DevOK(Drop(d, key[m]), key, vma, torn \ {m})
        /\ UnmapOK(Drop(d, key[m]), key, Unmapping', torn \ {m})
    BY <1>3, EnterOK
  <2> QED BY <1>4, <2>1, <2>2
<1>6. CASE ~(op = "munmap" /\ EntryAttached(op))
    BY <1>3, <1>4, <1>6 DEF UnmapOK
<1> QED BY <1>5, <1>6

\* A return that files nothing keeps it, whatever the kernel did.
LEMMA QuietOK ==
    ASSUME KernelInv, NEW t \in Threads, Popped(t), Top(t) \in Frame,
           Top(t) = stack[t][Len(stack[t])], Len(stack[t]) \in 1 .. Len(stack[t]),
           \/ UNCHANGED <<vma, torn>>
           \/ \E range \in Ranges : Mapped(t, range, {})
           \/ UnmappedBy(t),
           NEW d, NEW key, DevOK(d, key, vma, torn), UnmapOK(d, key, Unmapping, torn)
    PROVE  DevOK(d, key, vma', torn') /\ UnmapOK(d, key, Unmapping', torn')
<1>1. Unmapping' \subseteq Unmapping
    BY UnmappingPop
<1>2. CASE UNCHANGED <<vma, torn>>
    BY <1>1, <1>2 DEF UnmapOK
<1>3. CASE \E range \in Ranges : Mapped(t, range, {})
  <2>1. PICK range \in Ranges : Mapped(t, range, {})
    BY <1>3
  <2> DEFINE C == Cells(PidOf[t], range.pages)
             K == Known(PidOf[t], range.pages)
  <2>2. vma' = Over(vma, C, Top(t).dev) /\ torn' = torn \cup K
    BY <2>1, MappedType DEF Frame, Mapped
  <2>3. \A m \in C : vma[m] \in Noted => m \in K
    BY KnownNoted
  <2> HIDE DEF C, K
  <2> QED BY <1>1, <2>2, <2>3, ChangeOK
<1>4. CASE UnmappedBy(t)
  <2> DEFINE f == Top(t)
             m == Cell(t, f.range.start)
             C == Cells(PidOf[t], f.range.pages)
             P == f.range.pages \ (IF f.entered THEN {f.range.start} ELSE {})
             K == Known(PidOf[t], P)
  <2>1. vma' = Over(vma, C, Unmapped) /\ torn' = torn \cup K /\ f.op = "munmap"
    BY <1>4, UnmappedType DEF UnmappedBy
  <2>2. C \subseteq PidPages
    BY KernelAssumption DEF Frame, NoRange, Cells, PidPages, Pids
  <2>3. f.entered /\ m \in C => m \in Unmapping
    BY <2>1, <2>2 DEF Unmapping
  <2>4. \A n \in C : vma[n] \in Noted /\ n \notin K => f.entered /\ n = m
    <3> SUFFICES ASSUME NEW n \in C, vma[n] \in Noted, ~(f.entered /\ n = m)
                 PROVE  n \in Cells(PidOf[t], P)
      BY KnownNoted
    <3> QED BY DEF Cells, Cell
  <2> HIDE DEF f, m, C, P, K
  <2>5. CASE f.entered /\ m \in C
    <3>1. m \in Unmapping /\ \A n \in C \ {m} : vma[n] \in Noted => n \in K
      BY <2>3, <2>4, <2>5
    <3> QED BY <1>1, <2>1, <3>1, UnmapChangeOK
  <2>6. CASE ~(f.entered /\ m \in C)
    <3>1. \A n \in C : vma[n] \in Noted => n \in K
      BY <2>4, <2>6
    <3> QED BY <1>1, <2>1, <3>1, ChangeOK
  <2> QED BY <2>5, <2>6
<1> QED BY <1>2, <1>3, <1>4

\* A return of do_mmap that files the device x of call c keeps it: x is the device of
\* the call that returns, or the page is torn.
LEMMA FiledOK ==
    ASSUME KernelInv, NEW t \in Threads, Popped(t), Top(t) \in Frame, NEW range \in Ranges,
           NEW c, NEW x, Mapped(t, range, {c}), c = Top(t).call => x = Top(t).dev /\ x \in Noted,
           NEW d, NEW key, OneToOne(key), DevOK(d, key, vma, torn), UnmapOK(d, key, Unmapping, torn)
    PROVE  LET d2 == Put(d, key[Cell(t, range.start)], x) IN
           DevOK(d2, key, vma', torn') /\ UnmapOK(d2, key, Unmapping', torn')
<1> DEFINE f == Top(t)
           m == Cell(t, range.start)
           C == Cells(PidOf[t], range.pages)
           K == Known(PidOf[t], range.pages)
           d2 == Put(d, key[m], x)
<1>1. /\ vma' = Over(vma, C, f.dev) /\ f.op = "mmap" /\ m \in C /\ m \in PidPages
      /\ Unmapping' \subseteq Unmapping /\ Unmapping \subseteq PidPages
    BY MappedType, RangeType, UnmappingPop DEF Frame, Mapped, Unmapping
<1>2. \A n \in C : vma[n] \in Noted => n \in K
    BY KnownNoted
<1>3. CASE c = f.call /\ ~Threatened(m)
  <2>1. torn' = (torn \cup K) \ {m}
    BY <1>3 DEF Mapped
  <2>2. x = f.dev /\ x \in Noted /\ m \notin Unmapping
    BY <1>3, NotThreatened
  <2> HIDE DEF m, C, K, f
  <2>3. /\ DevOK(Put(d, key[m], x), key, Over(vma, C, x), (torn \cup K) \ {m})
        /\ UnmapOK(Put(d, key[m], x), key, Unmapping', (torn \cup K) \ {m})
    BY <1>1, <1>2, <2>2, FileOK
  <2> QED BY <1>1, <2>1, <2>2, <2>3 DEF m
<1>4. CASE ~(c = f.call /\ ~Threatened(m))
  <2>1. torn' = torn \cup K \cup {m}
    BY <1>4 DEF Mapped
  <2> HIDE DEF m, C, K, f
  <2>2. /\ DevOK(Put(d, key[m], x), key, Over(vma, C, f.dev), torn \cup K \cup {m})
        /\ UnmapOK(Put(d, key[m], x), key, Unmapping', torn \cup K \cup {m})
    BY <1>1, <1>2, MisfileOK
  <2> QED BY <1>1, <2>1, <2>2 DEF m
<1> QED BY <1>3, <1>4

\* A change that no probe sees keeps it.
LEMMA UnseenOK ==
    ASSUME KernelInv, NEW pid \in Pids, Unseen(pid),
           NEW d, NEW key, DevOK(d, key, vma, torn), UnmapOK(d, key, Unmapping, torn)
    PROVE  DevOK(d, key, vma', torn') /\ UnmapOK(d, key, Unmapping', torn')
<1>1. PICK range \in Ranges, dev \in Devs \cup {0, Unmapped} :
        SetPages(pid, range.pages, dev) /\ torn' = torn \cup Known(pid, range.pages)
    BY DEF Unseen
<1> DEFINE C == Cells(pid, range.pages)
           K == Known(pid, range.pages)
<1>2. vma' = Over(vma, C, dev) /\ torn' = torn \cup K /\ stack' = stack
    BY <1>1, SetType DEF Unseen
<1>3. Unmapping' = Unmapping
    BY <1>2 DEF Unmapping, Cell, PidPages
<1>4. \A m \in C : vma[m] \in Noted => m \in K
    BY KnownNoted
<1> HIDE DEF C, K
<1> QED BY <1>2, <1>3, <1>4, ChangeOK
=============================================================================
