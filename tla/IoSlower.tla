------------------------------ MODULE IoSlower ------------------------------
(***************************************************************************)
(* bpf/ioslower.bpf.c and the part of user/ioslower.c that configures it:  *)
(* the VFS probes that time a call and report it when it took at least the *)
(* threshold.  Unlike iosnoop, op_start has one entry per thread, whatever *)
(* the operation, and a device of 0 passes no filter.                      *)
(***************************************************************************)
EXTENDS VfsKernel

CONSTANTS
    MinUs,        \* opts.min_us, the threshold in microseconds
    U32,          \* number of values of a __u32, scaled down
    MaxTime       \* bound: ticks of the clock

ASSUME SlowerAssumption == MinUs \in Nat /\ U32 \in Nat \ {0} /\ MaxTime \in Nat

VARIABLES
    op_start,         \* BPF map id -> [ts, op, dev, call]
    vma_dev_map,      \* BPF map key -> dev
    threshold_config, \* BPF array, 0 until the loader writes it
    configured,       \* the loader has written it
    now,              \* bpf_ktime_get_ns() / 1000
    events,           \* history: events submitted
    refused,          \* history: calls that a full map or a full ring lost
    orphans,          \* history: calls whose return was not traced
    overlapped,       \* history: calls inside, or around, another call of the thread
    slow              \* history: calls on the mount, traced, that took MinUs or more

vars == <<kernelVars, op_start, vma_dev_map, threshold_config, configured, now,
          events, refused, orphans, overlapped, slow>>

Init ==
    /\ KernelInit
    /\ op_start = << >> /\ vma_dev_map = << >>
    /\ threshold_config = 0 /\ configured = FALSE /\ now = 0
    /\ events = {} /\ refused = {} /\ orphans = {} /\ overlapped = {} /\ slow = {}

(***************************************************************************)
(* Helpers of the BPF program.                                             *)
(***************************************************************************)
\* Mutant: the filter of iosnoop, which lets an unknown device pass.
PassUnknown(dev) == FilterDev = 0 \/ dev = 0 \/ dev = FilterDev

\* Only the device of the mount passes; the unknown device 0 does not.
PassMountFilter(dev) == FilterDev = 0 \/ dev = FilterDev

\* (pid << 32) | (addr >> 12), as in iosnoop.
VmaKey(pid, page) == <<pid \cup page.hi, page.lo>>

\* Mutant: an update that overlooks max_entries.
StartUnbounded(t, op, dev) ==
    /\ op_start' = IF PassMountFilter(dev)
                   THEN Put(op_start, t, [ts |-> now, op |-> op, dev |-> dev, call |-> calls])
                   ELSE op_start
    /\ UNCHANGED refused

\* Mutant: the first of two entries stays.
StartNoExist(t, op, dev) ==
    /\ op_start' = IF PassMountFilter(dev) /\ HasRoom(op_start, t) /\ t \notin DOMAIN op_start
                   THEN Put(op_start, t, [ts |-> now, op |-> op, dev |-> dev, call |-> calls])
                   ELSE op_start
    /\ refused' = IF HasRoom(op_start, t) THEN refused ELSE refused \cup {calls}

\* start_or_drop: the start of the call being made replaces the thread's entry.
StartOrDrop(t, op, dev) ==
    /\ op_start' = IF PassMountFilter(dev) /\ HasRoom(op_start, t)
                   THEN Put(op_start, t, [ts |-> now, op |-> op, dev |-> dev, call |-> calls])
                   ELSE op_start
    /\ refused' = IF HasRoom(op_start, t) THEN refused ELSE refused \cup {calls}

Lose(frame) == refused' = refused \cup {frame.call} /\ UNCHANGED events

\* emit_event: a latency below the threshold is not exported, a full ring loses
\* the event, and the field delta_us keeps 32 bits of the latency.
EmitEvent(start, frame) ==
    LET delta == now - start.ts IN
    IF delta < threshold_config THEN UNCHANGED <<events, refused>>
    ELSE \/ /\ events' = events \cup {[op |-> start.op, start |-> start.call, end |-> frame.call,
                 dev |-> frame.dev, delta_us |-> delta % U32, took |-> now - frame.ts,
                 torn |-> frame.torn, armed |-> configured]}
            /\ UNCHANGED refused
         \/ Lose(frame)

\* Mutant: the entry of a call that was not slow stays in op_start.
FinishEventKeepFast(t, frame) ==
    IF t \notin DOMAIN op_start
    THEN UNCHANGED <<events, refused, op_start>>
    ELSE /\ EmitEvent(op_start[t], frame)
         /\ op_start' = IF now - op_start[t].ts < threshold_config THEN op_start ELSE Drop(op_start, t)

\* Mutant: the entry stays in op_start.
FinishEventKeep(t, frame) ==
    IF t \notin DOMAIN op_start
    THEN UNCHANGED <<events, refused, op_start>>
    ELSE EmitEvent(op_start[t], frame) /\ UNCHANGED op_start

\* finish_event: report with the start found for the thread, then delete it.
FinishEvent(t, frame) ==
    IF t \notin DOMAIN op_start
    THEN UNCHANGED <<events, refused, op_start>>
    ELSE EmitEvent(op_start[t], frame) /\ op_start' = Drop(op_start, t)

(***************************************************************************)
(* Entry probes.                                                           *)
(***************************************************************************)
CallOf(t, op, dev, range) ==
    /\ Quiesced => AllAttached /\ configured
    /\ Call(t, op, dev, range, now)
    /\ overlapped' = IF stack[t] = << >> THEN overlapped
                     ELSE overlapped \cup InProgress(t, OpNames) \cup {calls}
    /\ UNCHANGED <<threshold_config, configured, now, events, orphans, slow>>

\* The entry probe of an operation on a file, path, dentry or directory inode.
TraceEnter(t, op, dev) ==
    /\ CallOf(t, op, dev, NoRange)
    /\ IF EntryAttached(op) THEN StartOrDrop(t, op, dev) ELSE UNCHANGED <<op_start, refused>>
    /\ UNCHANGED vma_dev_map

EnterOpenReadWrite(t) ==
    \E op \in {"open", "read", "write"}, dev \in Devs : TraceEnter(t, op, dev)
EnterNamespace(t) ==
    \E op \in {"create", "mkdir", "rmdir", "symlink", "rename"}, dev \in Devs : TraceEnter(t, op, dev)
EnterMetadata(t) ==
    \E op \in {"getattr", "truncate", "fchmod", "readlink"}, dev \in Devs : TraceEnter(t, op, dev)
EnterVector(t) == \E op \in {"readv", "writev"}, dev \in Devs : TraceEnter(t, op, dev)
EnterKprobed(t) == \E op \in {"unlink", "link", "fallocate"}, dev \in Devs : TraceEnter(t, op, dev)
EnterDirectory(t) == \E dev \in Devs : TraceEnter(t, "getdents", dev)
EnterLock(t) == \E dev \in Devs : TraceEnter(t, "lock_fcntl", dev)

\* do_mmap: an anonymous mapping (no file) is not timed.
EnterMmap(t) ==
    \E dev \in Devs \cup {0} :
        /\ CallOf(t, "mmap", dev, NoRange)
        /\ IF EntryAttached("mmap") /\ dev # 0
           THEN StartOrDrop(t, "mmap", dev) ELSE UNCHANGED <<op_start, refused>>
        /\ UNCHANGED vma_dev_map

VmaDev(t, page) ==
    LET k == VmaKey(PidOf[t], page) IN IF k \in DOMAIN vma_dev_map THEN vma_dev_map[k] ELSE 0

\* vm_munmap: the device recorded for the first page, else 0; the record goes.
EnterMunmap(t) ==
    \E range \in Ranges :
        /\ CallOf(t, "munmap", DevOf(Cell(t, range.start)), range)
        /\ IF EntryAttached("munmap")
           THEN /\ StartOrDrop(t, "munmap", VmaDev(t, range.start))
                /\ vma_dev_map' = Drop(vma_dev_map, VmaKey(PidOf[t], range.start))
           ELSE UNCHANGED <<op_start, refused, vma_dev_map>>

(***************************************************************************)
(* Return probes.                                                          *)
(***************************************************************************)
\* The calls that are to be reported when slow: those on the mount, but for an
\* anonymous mapping; vm_munmap goes by vma_dev_map under -p (MunmapOnMount).
Expected(frame) ==
    /\ FilterDev = 0 \/ (frame.dev = FilterDev /\ frame.op # "munmap")
    /\ frame.op = "mmap" => frame.dev # 0

\* The innermost call of t returns and its return probe, when attached, runs.
\* The probe of an anonymous do_mmap runs too: it finds no entry of its own.
Return(t) ==
    /\ Pop(t)
    /\ LET f == Top(t) IN
       IF ReturnAttached(f.op)
       THEN /\ FinishEvent(t, f)
            /\ slow' = IF f.entered /\ Expected(f) /\ now - f.ts >= MinUs
                       THEN slow \cup {f.call} ELSE slow
            /\ UNCHANGED orphans
       ELSE /\ orphans' = orphans \cup {f.call}
            /\ UNCHANGED <<op_start, events, refused, slow>>
    /\ UNCHANGED <<missed, overlapped, threshold_config, configured, now>>

TraceExit(t) ==
    /\ stack[t] # << >> /\ Top(t).op \notin {"mmap", "munmap"}
    /\ Return(t)
    /\ UNCHANGED <<vma_dev_map, vma, torn>>

\* The call whose start the return probe of do_mmap finds for the thread, when
\* vma_dev_map has room for its device.
Filed(t, k) ==
    IF ReturnAttached("mmap") /\ t \in DOMAIN op_start /\ HasRoom(vma_dev_map, k)
    THEN {op_start[t].call} ELSE {}

\* do_mmap returns an address: the device of the thread's entry is filed under
\* the new mapping, then the event finished.
ExitMmap(t) ==
    /\ stack[t] # << >>
    /\ \E range \in Ranges :
        LET k == VmaKey(PidOf[t], range.start) IN
        /\ Mapped(t, range, Filed(t, k))
        /\ vma_dev_map' = IF Filed(t, k) = {} THEN vma_dev_map
                          ELSE Put(vma_dev_map, k, op_start[t].dev)
    /\ Return(t)

\* A do_mmap or vm_munmap that fails changes no mapping.
ExitMapError(t) ==
    /\ stack[t] # << >> /\ Top(t).op \in {"mmap", "munmap"}
    /\ Return(t)
    /\ UNCHANGED <<vma_dev_map, vma, torn>>

ExitMunmap(t) ==
    /\ stack[t] # << >>
    /\ UnmappedBy(t)
    /\ Return(t)
    /\ UNCHANGED vma_dev_map

MissedReturn(t) ==
    /\ Miss(t)
    /\ orphans' = orphans \cup {Top(t).call}
    /\ UNCHANGED <<op_start, vma_dev_map, threshold_config, configured, now,
                   events, refused, overlapped, slow>>

(***************************************************************************)
(* Loader, clock and processes.                                            *)
(***************************************************************************)
bpfVars == <<op_start, vma_dev_map, events, refused, orphans, overlapped, slow>>

\* ioslower_bpf__attach: one program after the other, while threads run.
AttachNext ==
    /\ Attach
    /\ UNCHANGED <<bpfVars, threshold_config, configured, now>>

\* main writes the threshold after all programs are attached.
SetThreshold ==
    /\ AllAttached /\ ~configured
    /\ threshold_config' = MinUs /\ configured' = TRUE
    /\ UNCHANGED <<kernelVars, bpfVars, now>>

Tick ==
    /\ now < MaxTime
    /\ now' = now + 1
    /\ UNCHANGED <<kernelVars, bpfVars, threshold_config, configured>>

ChangeUnseen ==
    /\ \E pid \in Pids : Unseen(pid)
    /\ UNCHANGED <<bpfVars, threshold_config, configured, now>>

-----------------------------------------------------------------------------
Enter(t) == \/ EnterOpenReadWrite(t) \/ EnterNamespace(t) \/ EnterMetadata(t)
            \/ EnterVector(t) \/ EnterKprobed(t) \/ EnterDirectory(t) \/ EnterLock(t)
            \/ EnterMmap(t) \/ EnterMunmap(t)
Exit(t) == TraceExit(t) \/ ExitMmap(t) \/ ExitMapError(t) \/ ExitMunmap(t)
Loader == AttachNext \/ SetThreshold
Next == \/ Loader \/ Tick \/ ChangeUnseen
        \/ \E t \in Threads : Enter(t) \/ Exit(t) \/ MissedReturn(t)
Spec == Init /\ [][Next]_vars

-----------------------------------------------------------------------------
\* Every variable keeps its type; the maps stay within their max_entries.
TypeOK ==
    /\ KernelTypeOK
    /\ \A t \in DOMAIN op_start :
          /\ op_start[t].dev \in Devs \cup {0} /\ op_start[t].op \in OpNames
          /\ op_start[t].ts \in 0 .. now /\ op_start[t].call \in 0 .. (calls - 1)
    /\ Cardinality(DOMAIN op_start) <= MapMax /\ Cardinality(DOMAIN vma_dev_map) <= MapMax
    /\ threshold_config \in {0, MinUs} /\ configured \in BOOLEAN /\ now \in 0 .. MaxTime
    /\ refused \cup orphans \cup overlapped \cup slow \subseteq 0 .. (calls - 1)
    /\ \A e \in events : e.delta_us \in 0 .. (U32 - 1) /\ e.dev \in Devs \cup {0}

\* The latency in an event is measured between the entry and the return of one
\* call.  The exceptions are exactly two: the start of a call whose return was
\* never traced, and a call nested with another hooked call of the thread.  The
\* latency shown is then that of the call, but for the bits above 32, and no start
\* and no return goes into two events.
PairedEvents ==
    /\ \A e \in events : e.start = e.end => e.delta_us = e.took % U32
    /\ \A e \in events : e.start # e.end => e.start \in orphans \/ e.end \in overlapped
    /\ \A e, f \in events : e.start = f.start \/ e.end = f.end => e = f

\* All and only slow calls are reported: a call on the mount that was traced from
\* entry to return and took at least the threshold, unless a full map or a full
\* ring lost it or it was nested with another hooked call of its thread; and once
\* the loader has set the threshold no call that took less, unless the start is
\* that of another call (PairedEvents says when).
SlowExactly ==
    /\ \A c \in slow \ (refused \cup overlapped) : \E e \in events : e.start = c /\ e.end = c
    /\ \A e \in events : e.armed /\ e.start = e.end => e.took >= MinUs

\* op_start holds the starts of calls in progress and of calls whose return was
\* not traced: a call that was not slow leaves nothing behind either.
NoLeftover ==
    \A t \in DOMAIN op_start : op_start[t].call \in orphans \cup InProgress(t, OpNames)

\* With -p, a munmap whose event belongs together is of a file of that mount (the
\* purpose the comment on vma_dev_map states), but for a page where the element
\* left is that of another mapping (torn): its mapping went inside a longer
\* vm_munmap, under a MAP_FIXED, or unseen; it was made while a vm_munmap from
\* there was under way; or it was filed from the start of another call.
MunmapOnMount ==
    FilterDev # 0 => \A e \in events :
        e.op = "munmap" /\ e.start = e.end /\ ~e.torn => e.dev = FilterDev
=============================================================================
