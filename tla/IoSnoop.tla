------------------------------- MODULE IoSnoop -------------------------------
(***************************************************************************)
(* bpf/iosnoop.bpf.c: the VFS probes that turn a pair (entry, return) of a *)
(* kernel function into one event.  op_state carries the context from the  *)
(* entry probe to the return probe of the same thread and operation,       *)
(* vma_dev_map the device of a file mapping from do_mmap to vm_munmap.     *)
(***************************************************************************)
EXTENDS VfsKernel

VARIABLES
    op_state,     \* BPF map {id, type} -> [dev, call]
    vma_dev_map,  \* BPF map key -> dev
    events,       \* history: events submitted
    refused,      \* history: calls that a full map or a full ring lost
    orphans,      \* history: calls whose return was not traced
    overlapped,   \* history: calls inside, or around, a call of the same operation
    traced        \* history: calls to be reported with entry and return traced

vars == <<kernelVars, op_state, vma_dev_map, events, refused, orphans, overlapped, traced>>

Init ==
    /\ KernelInit
    /\ op_state = << >> /\ vma_dev_map = << >>
    /\ events = {} /\ refused = {} /\ orphans = {} /\ overlapped = {} /\ traced = {}

(***************************************************************************)
(* Helpers of the BPF program.                                             *)
(***************************************************************************)
\* Mutant: the filter is not consulted.
PassAll(dev) == TRUE

\* A device of 0 (unknown) passes any filter.
PassMountFilter(dev) == FilterDev = 0 \/ dev = 0 \/ dev = FilterDev

\* Mutant: the key of ioslower, without the operation.
OpKeyThread(t, op) == <<t, "any">>

\* struct op_key: the thread and the operation.
OpKey(t, op) == <<t, op>>

\* (pid << 32) | (addr >> 12): the bits of the page number above 32 fall on
\* the low bits of the pid, and or-ing is a union of 1-bits.
VmaKey(pid, page) == <<pid \cup page.hi, page.lo>>

\* Mutant: the update does not replace an entry that is already there.
SubmitNoExist(t, op, dev) ==
    /\ op_state' = IF PassMountFilter(dev) /\ HasRoom(op_state, OpKey(t, op))
                      /\ OpKey(t, op) \notin DOMAIN op_state
                   THEN Put(op_state, OpKey(t, op), [dev |-> dev, call |-> calls])
                   ELSE op_state
    /\ refused' = IF HasRoom(op_state, OpKey(t, op)) THEN refused ELSE refused \cup {calls}

\* Mutant: an update that overlooks max_entries.
SubmitUnbounded(t, op, dev) ==
    /\ op_state' = IF PassMountFilter(dev)
                   THEN Put(op_state, OpKey(t, op), [dev |-> dev, call |-> calls])
                   ELSE op_state
    /\ UNCHANGED refused

\* submit_or_drop: the context of the call being made goes into op_state.
SubmitOrDrop(t, op, dev) ==
    /\ op_state' = IF PassMountFilter(dev) /\ HasRoom(op_state, OpKey(t, op))
                   THEN Put(op_state, OpKey(t, op), [dev |-> dev, call |-> calls])
                   ELSE op_state
    /\ refused' = IF HasRoom(op_state, OpKey(t, op)) THEN refused ELSE refused \cup {calls}

\* emit_event: reserve fails when the ring is full, and the event is lost.
EmitEvent(op, start, frame) ==
    \/ /\ events' = events \cup {[op |-> op, start |-> start, end |-> frame.call, dev |-> frame.dev]}
       /\ UNCHANGED refused
    \/ /\ refused' = refused \cup {frame.call}
       /\ UNCHANGED events

\* Mutant: the context stays in op_state.
FinishEventKeep(t, op, frame) ==
    IF OpKey(t, op) \notin DOMAIN op_state
    THEN UNCHANGED <<events, refused, op_state>>
    ELSE EmitEvent(op, op_state[OpKey(t, op)].call, frame) /\ UNCHANGED op_state

\* finish_event: emit with the context found under the key, then delete it.
FinishEvent(t, op, frame) ==
    IF OpKey(t, op) \notin DOMAIN op_state
    THEN UNCHANGED <<events, refused, op_state>>
    ELSE /\ EmitEvent(op, op_state[OpKey(t, op)].call, frame)
         /\ op_state' = Drop(op_state, OpKey(t, op))

(***************************************************************************)
(* Entry probes.                                                           *)
(***************************************************************************)
CallOf(t, op, dev, range) ==
    /\ Quiesced => AllAttached
    /\ Call(t, op, dev, range, 0)
    /\ overlapped' = IF InProgress(t, {op}) = {} THEN overlapped
                     ELSE overlapped \cup InProgress(t, {op}) \cup {calls}
    /\ UNCHANGED <<events, orphans, traced>>

\* The entry probe of an operation on a file, path, dentry or directory inode:
\* dev_from_* reads the s_dev of the superblock it belongs to.
TraceEnter(t, op, dev) ==
    /\ CallOf(t, op, dev, NoRange)
    /\ IF EntryAttached(op) THEN SubmitOrDrop(t, op, dev) ELSE UNCHANGED <<op_state, refused>>
    /\ UNCHANGED vma_dev_map

EnterOpenReadWrite(t) ==
    \E op \in {"open", "read", "write"}, dev \in Devs : TraceEnter(t, op, dev)
EnterNamespace(t) ==
    \E op \in {"create", "mkdir", "rmdir", "symlink", "rename"}, dev \in Devs : TraceEnter(t, op, dev)
EnterMetadata(t) ==
    \E op \in {"getattr", "truncate", "fchmod", "readlink"}, dev \in Devs : TraceEnter(t, op, dev)
EnterVector(t) == \E op \in {"readv", "writev"}, dev \in Devs : TraceEnter(t, op, dev)
EnterKprobed(t) == \E op \in {"unlink", "link", "fallocate"}, dev \in Devs : TraceEnter(t, op, dev)
EnterDirectory(t) == \E dev \in Devs : TraceEnter(t, "getdents", dev)
EnterLock(t) == \E dev \in Devs : TraceEnter(t, "lock_fcntl", dev)

\* do_mmap: an anonymous mapping (no file) is not recorded.
EnterMmap(t) ==
    \E dev \in Devs \cup {0} :
        /\ CallOf(t, "mmap", dev, NoRange)
        /\ IF EntryAttached("mmap") /\ dev # 0
           THEN SubmitOrDrop(t, "mmap", dev) ELSE UNCHANGED <<op_state, refused>>
        /\ UNCHANGED vma_dev_map

VmaDev(t, page) ==
    LET k == VmaKey(PidOf[t], page) IN IF k \in DOMAIN vma_dev_map THEN vma_dev_map[k] ELSE 0

\* Mutant: the mapping's device is looked up and left in vma_dev_map.
EnterMunmapKeep(t) ==
    \E range \in Ranges :
        /\ CallOf(t, "munmap", DevOf(Cell(t, range.start)), range)
        /\ IF EntryAttached("munmap")
           THEN SubmitOrDrop(t, "munmap", VmaDev(t, range.start)) ELSE UNCHANGED <<op_state, refused>>
        /\ UNCHANGED vma_dev_map

\* vm_munmap: the device of the first page comes from vma_dev_map, 0 when it is
\* not there, and the entry is deleted before the filter is applied; the length
\* goes into the arguments of the event only.
EnterMunmap(t) ==
    \E range \in Ranges :
        /\ CallOf(t, "munmap", DevOf(Cell(t, range.start)), range)
        /\ IF EntryAttached("munmap")
           THEN /\ SubmitOrDrop(t, "munmap", VmaDev(t, range.start))
                /\ vma_dev_map' = Drop(vma_dev_map, VmaKey(PidOf[t], range.start))
           ELSE UNCHANGED <<op_state, refused, vma_dev_map>>

(***************************************************************************)
(* Return probes.                                                          *)
(***************************************************************************)
\* The calls that are to be reported: those on the mount, but for an anonymous
\* mapping; vm_munmap goes by vma_dev_map under -m (VmaDevTrue).
Expected(frame) ==
    /\ FilterDev = 0 \/ (frame.dev = FilterDev /\ frame.op # "munmap")
    /\ frame.op = "mmap" => frame.dev # 0

\* The innermost call of t returns and its return probe, when attached, runs.
Return(t) ==
    /\ Pop(t)
    /\ LET f == Top(t) IN
       IF ReturnAttached(f.op)
       THEN /\ FinishEvent(t, f.op, f)
            /\ traced' = IF f.entered /\ Expected(f) THEN traced \cup {f.call} ELSE traced
            /\ UNCHANGED orphans
       ELSE /\ orphans' = orphans \cup {f.call}
            /\ UNCHANGED <<op_state, events, refused, traced>>
    /\ UNCHANGED <<missed, overlapped>>

TraceExit(t) ==
    /\ stack[t] # << >> /\ Top(t).op \notin {"mmap", "munmap"}
    /\ Return(t)
    /\ UNCHANGED <<vma_dev_map, vma, torn>>

\* The call whose context the return probe of do_mmap finds under the key, when
\* vma_dev_map has room for its device.
Filed(t, k) ==
    IF ReturnAttached("mmap") /\ OpKey(t, "mmap") \in DOMAIN op_state /\ HasRoom(vma_dev_map, k)
    THEN {op_state[OpKey(t, "mmap")].call} ELSE {}

\* do_mmap returns an address: the device of the context found under the key is
\* filed under the new mapping, then the event finished.
ExitMmap(t) ==
    /\ stack[t] # << >>
    /\ \E range \in Ranges :
        LET k == VmaKey(PidOf[t], range.start) IN
        /\ Mapped(t, range, Filed(t, k))
        /\ vma_dev_map' = IF Filed(t, k) = {} THEN vma_dev_map
                          ELSE Put(vma_dev_map, k, op_state[OpKey(t, "mmap")].dev)
    /\ Return(t)

\* A do_mmap or vm_munmap that fails changes no mapping.
ExitMapError(t) ==
    /\ stack[t] # << >> /\ Top(t).op \in {"mmap", "munmap"}
    /\ Return(t)
    /\ UNCHANGED <<vma_dev_map, vma, torn>>

ExitMunmap(t) ==
    /\ stack[t] # << >>
    /\ UnmappedBy(t)
    /\ Return(t)
    /\ UNCHANGED vma_dev_map

MissedReturn(t) ==
    /\ Miss(t)
    /\ orphans' = orphans \cup {Top(t).call}
    /\ UNCHANGED <<op_state, vma_dev_map, events, refused, overlapped, traced>>

\* iosnoop_bpf__attach: one program after the other, while threads run.
AttachNext ==
    /\ Attach
    /\ UNCHANGED <<op_state, vma_dev_map, events, refused, orphans, overlapped, traced>>

ChangeUnseen ==
    /\ \E pid \in Pids : Unseen(pid)
    /\ UNCHANGED <<op_state, vma_dev_map, events, refused, orphans, overlapped, traced>>

-----------------------------------------------------------------------------
Enter(t) == \/ EnterOpenReadWrite(t) \/ EnterNamespace(t) \/ EnterMetadata(t)
            \/ EnterVector(t) \/ EnterKprobed(t) \/ EnterDirectory(t) \/ EnterLock(t)
            \/ EnterMmap(t) \/ EnterMunmap(t)
Exit(t) == TraceExit(t) \/ ExitMmap(t) \/ ExitMapError(t) \/ ExitMunmap(t)
Next == AttachNext \/ ChangeUnseen \/ \E t \in Threads : Enter(t) \/ Exit(t) \/ MissedReturn(t)
Spec == Init /\ [][Next]_vars

-----------------------------------------------------------------------------
\* Every variable keeps its type; the maps stay within their max_entries.
TypeOK ==
    /\ KernelTypeOK
    /\ \A k \in DOMAIN op_state :
          op_state[k].dev \in Devs \cup {0} /\ op_state[k].call \in 0 .. (calls - 1)
    /\ Cardinality(DOMAIN op_state) <= MapMax /\ Cardinality(DOMAIN vma_dev_map) <= MapMax
    /\ \A k \in DOMAIN vma_dev_map : vma_dev_map[k] \in Devs
    /\ refused \cup orphans \cup overlapped \cup traced \subseteq 0 .. (calls - 1)
    /\ \A e \in events : e.start \in 0 .. (calls - 1) /\ e.end \in 0 .. (calls - 1)

\* An event joins the name and arguments of one call to the return value of
\* the same call.  The exceptions are exactly two: the context of a call whose
\* return was never traced (missed by a kretprobe, or made while the programs
\* were being attached), and a call nested in one of the same operation.  No
\* call is reported twice, neither by its entry nor by its return.
PairedEvents ==
    /\ \A e \in events : e.start # e.end => e.start \in orphans \/ e.end \in overlapped
    /\ \A e, f \in events : e.start = f.start \/ e.end = f.end => e = f

\* With -m, an event whose two halves belong together reports a call on that
\* mount (vm_munmap has a property of its own).
EventsOnMount ==
    FilterDev # 0 => \A e \in events : e.start = e.end /\ e.op # "munmap" => e.dev = FilterDev

\* op_state holds the contexts of calls in progress and of calls whose return
\* was not traced, nothing else: finished calls leave no entry behind.
NoLeftover ==
    \A k \in DOMAIN op_state :
        op_state[k].call \in orphans \cup InProgress(k[1], OpNames)

\* A call on the mount that was traced from entry to return is reported (an
\* anonymous mmap is not meant to be, and under -m a munmap only if vma_dev_map
\* has the device of its mapping), unless a full ring or a full op_state lost it
\* or a call of the same operation was nested with it.
EveryCallReported ==
    \A c \in traced \ (refused \cup overlapped) : \E e \in events : e.start = c /\ e.end = c

\* With -m, a munmap of a mapped file is reported only for a file on that mount
\* (the purpose the comment on vma_dev_map states).
MunmapOnMount ==
    FilterDev # 0 => \A e \in events : e.op = "munmap" /\ e.dev # 0 => e.dev = FilterDev

\* An element of vma_dev_map is the device of the file that is mapped there now;
\* no element outlives its mapping.  The exceptions are the pages (torn) whose
\* mapping went inside a longer vm_munmap, under a MAP_FIXED, or unseen, those
\* mapped while a vm_munmap from there was under way, and those filed with the
\* device of another call, until the next do_mmap or vm_munmap there that the
\* probes see puts them right.
VmaDevTrue ==
    \A pid \in Pids, page \in Pages :
        VmaKey(pid, page) \in DOMAIN vma_dev_map /\ <<pid, page>> \notin torn
        => vma_dev_map[VmaKey(pid, page)] = vma[<<pid, page>>]
=============================================================================
