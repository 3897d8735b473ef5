------------------------------ MODULE VfsKernel ------------------------------
(***************************************************************************)
(* The environment iosnoop and ioslower run in, modelled from the way      *)
(* their probes and loaders use it: threads call hooked VFS functions, may *)
(* nest them (a stacked filesystem calls the VFS from inside a VFS         *)
(* function), map and unmap ranges of pages, over mappings that are there  *)
(* (MAP_FIXED) or several at once; the kernel changes mappings without any *)
(* hooked call (exec, exit, mremap, a munmap that does not come through    *)
(* vm_munmap); the loader attaches one program after the other while they  *)
(* run; a kretprobe may miss a return.                                     *)
(*                                                                         *)
(* Every call has a number: names, arguments and return values are carried *)
(* by the number of the call they came from.                               *)
(***************************************************************************)
EXTENDS Integers, Sequences, FiniteSets

CONSTANTS
    Threads,     \* kernel threads (pid_tgid)
    PidOf,       \* PidOf[t]: the thread's process, as the set of its 1-bits
    Pages,       \* page numbers: hi = 1-bits of addr >> 44, lo = the 32 bits below
    Ranges,      \* [start, pages]: what one do_mmap or vm_munmap works on
    Devs,        \* device numbers, all above 0
    FilterDev,   \* the device of -m, or 0 without -m
    Ops,         \* the hooked operations, in the order their programs appear
    Nests,       \* pairs <<outer, inner>> of operations the kernel may nest
    Fallback,    \* the kprobe/kretprobe family is in use
    MapMax,      \* max_entries of each BPF hash map
    Quiesced,    \* no hooked call is made before the loader is done
    MaxCalls,    \* bound: hooked calls
    MaxMissed,   \* bound: returns a kretprobe misses
    MaxUnseen    \* bound: changes of mappings without a hooked call

OpNames == {Ops[i] : i \in DOMAIN Ops}

ASSUME KernelAssumption ==
    /\ Ops \in Seq(STRING)
    /\ \A i, j \in DOMAIN Ops : Ops[i] = Ops[j] => i = j
    /\ \A r \in Ranges : r.start \in r.pages /\ r.pages \subseteq Pages
    /\ Devs \subseteq Nat \ {0}
    /\ FilterDev \in Nat
    /\ Nests \subseteq OpNames \X OpNames
    /\ Fallback \in BOOLEAN /\ Quiesced \in BOOLEAN
    /\ MapMax \in Nat /\ MaxCalls \in Nat
    /\ MaxMissed \in Nat /\ MaxUnseen \in Nat

VARIABLES
    attached,     \* programs attached so far: entry, return, entry, return, ...
    stack,        \* the hooked calls each thread is in, outermost first
    vma,          \* the kernel's mappings: device, 0 for anonymous, Unmapped
    calls,        \* history: calls made
    missed,       \* history: returns missed by a kretprobe
    unseen,       \* history: changes of mappings without a hooked call
    torn          \* history: <<pid, page>> where a probe on do_mmap and vm_munmap is misled

kernelVars == <<attached, stack, vma, calls, missed, unseen, torn>>

Unmapped == -1
NoRange == [start |-> [hi |-> {}, lo |-> 0], pages |-> {}]
Pids == {PidOf[t] : t \in Threads}

KernelInit ==
    /\ attached = 0
    /\ stack = [t \in Threads |-> << >>]
    /\ vma = [m \in Pids \X Pages |-> Unmapped]
    /\ calls = 0 /\ missed = 0 /\ unseen = 0 /\ torn = {}

\* BPF hash maps as functions with a changing domain.
Put(f, k, v) == [x \in DOMAIN f \cup {k} |-> IF x = k THEN v ELSE f[x]]
Drop(f, k) == [x \in DOMAIN f \ {k} |-> f[x]]

\* bpf_map_update_elem(.., BPF_ANY) replaces, or inserts while there is room.
HasRoom(f, k) == k \in DOMAIN f \/ Cardinality(DOMAIN f) < MapMax

\* The skeleton attaches the programs in the order of the object file, where
\* the entry program of a hook stands before its return program.
IndexOf(op) == CHOOSE i \in DOMAIN Ops : Ops[i] = op
EntryAttached(op) == attached >= 2 * IndexOf(op) - 1
ReturnAttached(op) == attached >= 2 * IndexOf(op)
AllAttached == attached = 2 * Len(Ops)

Attach ==
    /\ ~AllAttached
    /\ attached' = attached + 1
    /\ UNCHANGED <<stack, vma, calls, missed, unseen, torn>>

Top(t) == stack[t][Len(stack[t])]

Cell(t, page) == <<PidOf[t], page>>
Cells(pid, pages) == {pid} \X pages

\* The device of what is mapped in a page, 0 when nothing is.
DevOf(m) == IF vma[m] = Unmapped THEN 0 ELSE vma[m]

\* The mappings of pid in pages that the tools are to know of: files, on the mount
\* of the filter.
Known(pid, pages) ==
    {m \in Cells(pid, pages) : vma[m] \in Devs /\ (FilterDev = 0 \/ vma[m] = FilterDev)}

\* A thread calls op from user context or from inside the call it is in;
\* dev is the device the call really works on, now the time of the call.  An
\* entry probe on vm_munmap sees the first page go.
Call(t, op, dev, range, now) ==
    /\ op \in OpNames
    /\ calls < MaxCalls
    /\ stack[t] # << >> => <<Top(t).op, op>> \in Nests
    /\ calls' = calls + 1
    /\ stack' = [stack EXCEPT ![t] = Append(@, [op |-> op, dev |-> dev, range |-> range,
                    call |-> calls, ts |-> now, entered |-> EntryAttached(op),
                    torn |-> Cell(t, range.start) \in torn])]
    /\ torn' = IF op = "munmap" /\ EntryAttached(op) THEN torn \ {Cell(t, range.start)} ELSE torn
    /\ UNCHANGED <<attached, vma, missed, unseen>>

\* The calls of thread t in progress whose operation is in S.
InProgress(t, S) == {stack[t][i].call : i \in {j \in DOMAIN stack[t] : stack[t][j].op \in S}}

Pop(t) ==
    /\ stack[t] # << >>
    /\ stack' = [stack EXCEPT ![t] = SubSeq(@, 1, Len(@) - 1)]
    /\ UNCHANGED <<attached, calls, unseen>>

\* The kernel puts dev in the pages, in place of what is there.
SetPages(pid, pages, dev) ==
    vma' = [m \in DOMAIN vma |-> IF m \in Cells(pid, pages) THEN dev ELSE vma[m]]

\* A vm_munmap that begins at m is under way: it will take what is mapped there
\* later too.
Threatened(m) ==
    \E u \in Threads : \E i \in DOMAIN stack[u] :
        stack[u][i].op = "munmap" /\ Cell(u, stack[u][i].range.start) = m

\* do_mmap maps the range, with MAP_FIXED over what is mapped there.  filed is
\* the call, if any, whose device the return probe files under the first page.
Mapped(t, range, filed) ==
    LET m == Cell(t, range.start)
        over == torn \cup Known(PidOf[t], range.pages) IN
    /\ Top(t).op = "mmap"
    /\ SetPages(PidOf[t], range.pages, Top(t).dev)
    /\ torn' = IF filed = {} THEN over
               ELSE IF filed = {Top(t).call} /\ ~Threatened(m) THEN over \ {m}
               ELSE over \cup {m}

\* vm_munmap frees its whole range; its entry probe knew of the first page.
UnmappedBy(t) ==
    LET f == Top(t) IN
    /\ f.op = "munmap"
    /\ SetPages(PidOf[t], f.range.pages, Unmapped)
    /\ torn' = torn \cup Known(PidOf[t], f.range.pages \ (IF f.entered THEN {f.range.start} ELSE {}))

\* The operations whose return is caught by a kretprobe, which misses returns
\* when all its instances are taken by calls in progress.
Kret(op) == Fallback \/ op \in {"unlink", "link", "fallocate", "mmap", "munmap"}

Miss(t) ==
    /\ Pop(t)
    /\ Kret(Top(t).op) /\ missed < MaxMissed
    /\ missed' = missed + 1
    /\ \/ UNCHANGED <<vma, torn>>
       \/ \E range \in Ranges : Mapped(t, range, {})
       \/ UnmappedBy(t)

\* A change of a process's mappings in which no hooked call has a part: exec, an
\* exit whose pid is used again, fork, mremap, munmap(2) where the kernel does
\* not route it through vm_munmap.
Unseen(pid) ==
    /\ unseen < MaxUnseen
    /\ unseen' = unseen + 1
    /\ \E range \in Ranges, dev \in Devs \cup {0, Unmapped} :
        /\ SetPages(pid, range.pages, dev)
        /\ torn' = torn \cup Known(pid, range.pages)
    /\ UNCHANGED <<attached, stack, calls, missed>>

\* Every variable of the environment keeps its type.
KernelTypeOK ==
    /\ attached \in 0 .. 2 * Len(Ops)
    /\ \A t \in Threads : \A i \in DOMAIN stack[t] :
          stack[t][i].op \in OpNames /\ stack[t][i].call \in 0 .. (calls - 1)
    /\ vma \in [Pids \X Pages -> Devs \cup {0, Unmapped}]
    /\ calls \in 0 .. MaxCalls /\ missed \in 0 .. MaxMissed
    /\ unseen \in 0 .. MaxUnseen /\ torn \subseteq Pids \X Pages
=============================================================================
