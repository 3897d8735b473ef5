# TLA+ models of the monitoring tools

The repository holds six eBPF tracing tools for filesystems and two consumers of
their events. This directory models the parts of them that keep state or take
decisions, checks the models with TLC on small instances, and proves with TLAPS,
for every value of the parameters, the safety properties that the passing runs
check. `PROJECT.json` maps every definition to the source
lines it models.

## 1. Inventory

| Component | State it keeps | Operations | What makes it correct |
| --- | --- | --- | --- |
| Ring `aodrb` (pinned, shared by smbslower, smbiosnoop, nfsslower, nfsiosnoop) | producer and consumer position, busy bit per record | `get_flags`, reserve, fill, submit | records are not lost, repeated or read half-written; the consumer is woken |
| `ringbuf_shim.c`, `shim_consumer.py` | `rb_context`: buffer, capacity, count | `rb_open`, `rb_poll_into`, `_copy_event`, `rb_close`, poll loop | what left the ring is handed on, but for the one record that the comment on `_copy_event` gives up |
| `sample_consumer.py` | none of its own; the consumer position lives in the ring | open, poll with one callback per event, exit | every record is printed, even when a consumer is killed |
| `detach` in both consumers | pins under /sys/fs/bpf | unpin links, then the ring | the ring goes only when no tool uses it |
| `iosnoop.bpf.c` | `op_state` {thread, operation}, `vma_dev_map`, mount filter | entry and return probe of 21 operations, in an fentry and a kprobe family | an event joins the two halves of one call, on the mount asked for; every call is reported |
| `ioslower.bpf.c` | `op_start` {thread}, `vma_dev_map`, threshold, mount filter | the same hooks | the latency is that of the call; all and only slow calls are reported |
| `nfsslower.bpf.c` | `temp` {rpc_task address}, denylist | `probe_entry`, `probe_exit` | latency and command belong to one request; denied commands never appear |
| `smbslower.bpf.c` | `temp` {mid address}, `trace_temp` {tid, sesid, mid}, denylist | mid alloc / release, `smb3_cmd_enter` / `_done` / `_err` | as above |
| `nfsiosnoop.bpf.c`, `smbiosnoop.bpf.c` | allowlists | one program per hook | the failed requests that pass the filters are reported |
| Loaders `user/*.c` | options, filter maps, attached programs, `exiting`, `err` | parse, open, select programs, load, configure, attach, wait for a signal, destroy | configured before attached; leave on a signal; the exit code tells what happened |
| `trace_helpers.c` | none | BTF and tracefs look-ups, trial attach | exactly one fitting variant of a hook is loaded |

How they interact: BPF programs run in the context of any kernel thread, on all
CPUs at once, and share maps with one another; the four aod tools write into one
ring that is read by a separate consumer process, whose position lives in the
ring and survives it; a loader attaches its programs one by one to a running
kernel, so that a request can be caught at one end only. Loaders and consumers
find each other through the pin alone. Hard to test: programs that overlap on
several CPUs, returns that are missed, keys (thread, address, page) that the
kernel uses again, maps and ring at their limits, tools with different wakeup
sizes on one ring, a consumer that sleeps, dies or restarts, a signal between two
statements, kernels nobody has at hand, and widths of numbers. `hazards` in
`PROJECT.json` lists each of these at its line.

## 2. Modules

| Module | Models |
| --- | --- |
| `AodRingbuf` | ring, `get_flags`, emit sequence, libbpf poll, shim and consumer loop |
| `EventChannel` | what the transport promises: the abstract specification of `AodRingbuf` |
| `AodRingbuf_proofs`, `AodChannel_proofs` | theorems on the ring; that it implements `EventChannel` |
| `AodLifecycle` | the pin, several loaders, `sample_consumer.py`, `--detach` |
| `AodLifecycle_proofs` | its theorems |
| `VfsKernel` | environment of the two io tools: threads, nested calls, mappings, attachment, missed returns, changes of mappings that no hook sees (external) |
| `IoSnoop` | `iosnoop.bpf.c`, extends `VfsKernel` |
| `IoSlower` | `ioslower.bpf.c` and the loader's threshold, extends `VfsKernel` |
| `VfsKernel_proofs`, `IoSnoop_proofs`, `IoSlower_proofs` | shared lemmas on stacks of calls and bounded maps; the theorems on the two programs |
| `AodSlower` | the request maps of `nfsslower.bpf.c` and `smbslower.bpf.c` |
| `AodSlower_proofs` | its theorems |
| `HookSelection` | `trace_helpers.c` and the choice of programs in the six `main()` functions |
| `CommandFilter` | `-c`, `-x`, `-e`: parsing, filter maps, and their use in the BPF programs |
| `Loader` | one loader process from command line to exit code; extends the two modules above |
| `Loader_proofs` | theorems on `Loader` and the two modules it extends |
| `MC*` | instances for TLC |

Definitions under a comment that starts with `Mutant` are faulty variants of the
definition that follows them. No specification uses them; they are kept to show
that each property notices a plausible mistake in the code.

### AodRingbuf and EventChannel

A record is named by its ring position, and positions count records. A probe
goes `idle - reserve - fill - submit - commit`; `Request` is a request that has
passed the tool's filters. The snoop tools (`Snoops`) evaluate `get_flags()` as
an argument of reserve, the slower tools pass 0. The kernel's commit is two
steps (clear the busy bit; compare with `consumer_pos` and queue the irq_work),
because the consumer can run in between. The consumer goes `closed - idle - wait
- process - return`; epoll's ready list is the variable `ready`. As in libbpf,
only an fd that epoll reports is processed, so a record without wakeup stays. A
full batch is the action `CopyEventFull`: the callback returns -1 after libbpf
has moved past the record. `ConsumerDies` may happen anywhere in a poll.

`EventChannel` knows nothing of rings, batches or wakeups: events are numbered as
they are accepted, handed over in runs that start at the first event not settled
yet, or dropped, never both and never twice. The refinement mapping takes
`accepted` to `producer_pos`, `delivered` to `delivered`, and `dropped` to the
records lost behind a full batch or abandoned by a consumer that died. A whole
batch is one `Deliver`; reserve is `Accept`; most other steps stutter.

### AodLifecycle

The step from one ring to many. `LoaderLoad` takes the pinned ring or creates and
pins one (`LIBBPF_PIN_BY_NAME`); the pin appears at load, programs attach later,
and the loader's exit leaves both pin and records behind. The consumer's callback
and the position libbpf stores after it are two steps, between which a kill may
fall. `Detach` removes the pin whatever loaders are running, because the link
pins it looks for (`PinnedLinks`) are created by no loader. The history `epoch`
counts removals; each party remembers the one in which it came. There is one
consumer at a time, as the scripts ask for. A line counts as printed once
`print()` has taken it.

### VfsKernel, IoSnoop, IoSlower

A call has a number that stands for its names, arguments and return value: an
event pairs the number found in the map (`start`) with the number of the call
that returns (`end`), so `start = end` says that the event's two halves belong
together. `Ops` lists the hooked operations in the order of their programs;
`attached` counts programs. The handlers differ in how they find the device;
they are grouped by that (`EnterOpenReadWrite`, `EnterNamespace`, ...). A pid
and the upper part of a page number are sets of 1-bits, so that or-ing them is a
union. The histories `orphans` (return not traced), `overlapped` (nested),
`refused` (full map or ring) and `torn` (below) name the circumstances in which an
event or an element may be wrong or missing, and the properties say that, within
the environment modelled here, it is so in no other; `Expected` says which calls
are meant to be reported at all.

A process's mappings are a function `vma` from its pages. `do_mmap` and `vm_munmap`
work on a range of pages (`Ranges`), whose first page gives the key: `do_mmap` puts
its file there in place of what is mapped (`MAP_FIXED`), `vm_munmap` frees the whole
range, with any number of mappings in it, and either may fail. `Unseen` changes
pages with no hooked call at all (exec, exit and a pid that is used again, fork,
mremap, `munmap(2)` on kernels where it does not go through `vm_munmap`). The
programs know of the first page only. `torn` is the set of pages about which that
misleads them: a file of the mount was mapped there and went inside a longer
`vm_munmap` or one whose entry was not traced, under another `do_mmap`, or unseen;
a mapping was made while a `vm_munmap` from the same page was under way, which then
takes it; or the return probe of `do_mmap` filed the device of a call other than the
one that returns. The next traced `do_mmap` that is filed there, or `vm_munmap` that
starts there, puts the page right.

The two modules differ as the two
programs do: key with and without operation, device 0 passing the filter or not,
threshold and 32-bit latency. The ring of these tools is private to each; an
event is submitted or lost. The syscall programs of iosnoop (lines 398-658) are
switched off by the loader, which `HookSelection` models, and have no actions.

### AodSlower

`tool` is one of the three hook pairs, chosen in `Init`. Keys are used again as
soon as the request is gone. The hash map is preallocated, so a map element is a
slot that a delete frees at once; an exit program is two steps, up to the delete
and the threshold (`LookupDelete`), and from reserve to submit (`Report`), since
another CPU can take the slot in between. nfsslower reads the command in the
second step, smbslower in the first.

### HookSelection, CommandFilter, Loader

A kernel is a record of what there is to find out about it (functions and their
prototypes, BTF, functions that take fentry programs, structures, tracepoints,
release and cifs srcversion). A prototype is the sequence of what the parameters
are; the loaders only see its length (`get_func_param_count`). A program is a record
of the section it sits in, the event it reports, the side of the call it sees, the
arguments it takes in their order, and the structure and layout it was written for:
`TakesArguments` compares what it takes with what the function has. The probes of `trace_helpers.c` and the selection code are functions
from kernels to sets of programs. Whether a program then loads and attaches
(`Loads`, `Attaches`) is the kernel's part and external.

`CommandFilter` follows the four parsers: the slowers skip bad tokens, nfsiosnoop
stops at an error code that is no number, smbiosnoop at anything it does not
know. The parsed lists are sets of places: `<<i, j>>` is token `j` of option `i`.
`MapWrites` is the set of map updates, `Passes` the test at the start of the BPF
programs, `Wanted` what the `--help` texts promise.

`Loader` runs `main()` in phases, the six functions merged: where they differ
the action says so by tool. `ParseArg` is one call of `parse_arg` by
`argp_parse`, `UpdateFilter` one map update, in any order: no program runs
before the last. Every library call may fail. `err` is the C variable as far as
the return statement tells its values apart; `fault` is a history of the step
that failed. A signal may come between any two steps; `window` is the place
between the test of `exiting` and `pause()`.

## 3. Runs

Passing runs:

| Run | Instance | Shows |
| --- | --- | --- |
| `ring_adaptive` | a slower and a snoop probe, ring of 4 records, batch of 2, 5 requests, 1 restart, fairness | `Accounted`, price of a full batch, no read of unfinished records, no sleep on committed ones; `ImplementsChannel` (order and no repetition follow from it); every accepted record is settled |
| `ring_mixed` | 2 slower probes with `-w` of 2 records (symmetric) and 1 without, 5 requests | each tool's own wakeup bound, a full ring wakes but in one named case, drops only when full |
| `lifecycle` | 2 loaders, 2 rings of 2 records, 3 consumers, 3 records, fairness | who shares a ring, nothing skipped, repeats only after a kill, delivery goes on across detach and exits |
| `snoop_pairing` | 1 thread, one operation of each handler group, nested operations, kretprobes, attach window, 1 missed return, map of 2 | pairing, filter, no leftovers, no loss |
| `snoop_vma` | 2 threads of a process, ranges of 1 or 2 pages, 2 devices, map of 2, attach window, 1 missed return, 1 change that no hook sees | `vma_dev_map` tells the truth, but for `torn` pages |
| `slower_pairing` | 2 threads, nested operations, attach window, 1 missed return, map of 1, `U32` = 2 | pairing and latency, slow calls exactly, no leftovers |
| `slower_vma` | 1 thread, ranges of 1 or 2 pages, 2 devices, calls of the other handler groups in between, map of 1, 1 missed return, 1 change that no hook sees | reported munmaps are on the mount, but for `torn` pages |
| `requests` | each of the three hook pairs, 2 keys, 1 slot, both NFS versions, 1 request that ends unseen | start, latency and command belong together; completeness, denylist, no leftovers |
| `loader` | six loaders, some 200 kernels, the command lines of `MCLoader`, every call failing, 2 signals, fairness | programs per hook, programs fit the kernel, filters exact from the first attach on, exit code, a signal ends the process |

Three runs show the code to differ from what the repository says of it (see
`findings`): `ring_snoop_wakeup` (a snoop tool with a wakeup size emits nothing),
`snoop_munmap` (munmaps of other mounts pass `-m`) and `loader_create` (on kernels
without idmapped mounts the legacy program of `vfs_create` is one parameter off).

Other differences met while modelling have no run of their own. The properties
leave these cases out by name; they do not catch them:

* ioslower's `op_start` is keyed by the thread alone (ioslower.bpf.c:292): when a
  hooked call nests in another, the inner return takes the start it finds and the
  outer return finds none. `PairedEvents` and `SlowExactly` exclude `overlapped`.
* nfsslower reads the command after it has deleted the element
  (nfsslower.bpf.c:94); another task may have it by then. `CommandOfTheStart` is
  about smbslower; `DeniedNeverShown` holds for both.
* nfsslower's only entry hook is `nfs4_setup_sequence` (nfsslower.bpf.c:102):
  NFSv3 tasks are not reported. `SlowReported` leaves them out.
* `vma_dev_map`'s key `(pid << 32) | (addr >> 12)` (iosnoop.bpf.c:1197,
  ioslower.bpf.c:753): a user page number has up to 35 bits, so processes whose
  pids differ only in bits 0 to 2 can share a key. `VmaDevTrue` and `MunmapOnMount`
  are checked for one process, and their theorems assume that no two pages share a
  key; with pids 2^5 and 2^5 + 1 TLC finds `VmaDevTrue` violated.
* `vm_munmap(start, len)` deletes the element of `start` and no other
  (iosnoop.bpf.c:1193, ioslower.bpf.c:749), and a `MAP_FIXED` `do_mmap`
  (iosnoop.bpf.c:1169, ioslower.bpf.c:729) none at all. An element of the filtered
  device then stays behind; the next file mapped there, from another mount, does not
  pass the filter and so does not replace it, and its munmap is reported. The same
  follows from every other way in which a page becomes `torn`. `VmaDevTrue` and
  `MunmapOnMount` leave out `torn` pages and hold for all others.
* ioslower's return probe of `do_mmap` files the device of whatever start the thread
  has (ioslower.bpf.c:738), so that one left by a missed return of any operation
  is filed for the new mapping, an anonymous one too. Such a page is `torn`.
* `threshold_config` is 0 between attach and the write at ioslower.c:458.
  `SlowExactly` starts at the write.
* `delta_us` keeps 32 bits of a latency that was compared with 64
  (ioslower.bpf.c:270): a call of 71.6 minutes or more is reported, with a
  latency that has wrapped.
* Tools with different wakeup sizes on one ring: a record committed without
  wakeup at the head silences the adaptive wakeups behind it. `FullRingWakes`
  names the one combination in which even a full ring stays unread. A wakeup
  size above the ring's is accepted by every loader (`WakeupFits` is assumed).
* `--detach` removes the ring's name while tools are attached, although its
  docstring says "only when no links remain" (shim_consumer.py:75-76): `SharedRing`
  says who still meets afterwards.
* A filter map that cannot be written ends every aod loader but smbiosnoop with
  exit code 0, as do a mount path that does not resolve and a handler that cannot
  be installed in the VFS tools; Ctrl-C inside `ring_buffer__poll()` makes a good
  run exit with 1. `ExitStatusHonest` lists exactly these.
* A signal between the test of `exiting` and `pause()` waits for the next one
  (smbslower.c:457). `SignalStops` leaves out this window only.
* In the fallback family `vfs_rename` keeps two return programs; the second finds
  the entry taken. `release_mid` with two parameters is answered with the program
  of `__release_mid`, which cannot load: smbslower refuses to start.
* `create_legacy` (iosnoop.bpf.c:1293, ioslower.bpf.c:841) takes `(idmap, dir,
  dentry, mode)` and is chosen for four parameters. Where these are `(dir, dentry,
  mode, want_excl)` every argument is another one: the run `loader_create`, and a
  case that `ReadsRightArguments` names.
* The loaders do not check the prototypes of VFS kprobes other than create and
  rename (on kernels without idmapped mounts unlink, mkdir and others have one
  parameter less), nor the header of the SMB tracepoints, for which there is no variant
  with `preempt_lazy_count` (`Unchecked`).
* Options that src/README.md describes and the parsers lack: `nfsiosnoop` without
  options (exits with 1), `-d` on the aod tools, error names for `-e`,
  `nfsslower -v 4` as a version filter (`-v` is verbose).

Bounds. Records, calls and requests are bounded by `MaxEvents`, `MaxCalls`,
`MaxRequests`; restarts, missed returns, unseen ends, unseen changes of
mappings (`MaxUnseen`), rings, consumers, signals and time by constants of their own. They are chosen so
that each limit is hit: the ring holds four records and five are requested,
batches of two fill up, maps of one or two elements are full with two threads, a range
spans the only two pages and so covers any mapping beside its first, an
address is used three times, a second ring exists beside the first, a list is
longer than its table. Two threads or keys are enough for the request models,
since map entries of different keys meet only through the map's capacity and, in
nfsslower, through one slot. Two signals are enough for a loader: one to be missed
in the window and one to end it. `U32` scales 2^32 down to a value that the clock
reaches in `slower_pairing`. The kernels of `MCLoader` vary each fact that some
test in the selection code looks at, with old and new prototypes and release and
srcversion pairs that only look like a verified one.

Deadlock is checked for the ring (a consumer can always be polled). The other
cfgs switch it off: threads may stop making calls, and processes end.

Fairness.
`ring_adaptive`: a BPF program, once started, runs to its end (the kernel does not
suspend it for good), a queued irq_work runs, and the consumer is scheduled, and
started when there is none. `loader`: a process that can run does (`WF_vars(Step)`,
which a `pause()` without a signal does not enable). `lifecycle`: a consumer whose
ring has records goes on (`handle_event`, `AdvancePosition`); that it is woken is
what `ring_adaptive` shows for wakeup size 0. Requests, restarts, deaths, signals,
detaches and exits are never fair.

## 4. Proofs

All theorems hold for every number of probes or loaders and every size that the
modules' `ASSUME`s admit; no bound of the runs is used as such, and a run's
invariants were checked by TLC before they were proved.

`AodRingbuf_proofs` (from `ConstantsAssumption`):

* `TypeCorrect`: `Spec => []TypeOK`, with `Len(batch) <= Capacity`: the memcpy of
  `_copy_event` stays inside the caller's buffer.
* `CommittedConsumed`: not inductive alone. `HoldersInv` says that busy records
  are exactly those held by probes in `fill` or `submit`, one each, and ahead of
  the consumer.
* `DeliveryCorrect`, and from it `DeliveryOrder` and `LossBound`: accounting,
  order and the price of a full batch. `BatchInv` says that during a poll the
  batch is the run of records just below `consumer_pos`, all above what was
  delivered before; that a lost record has the whole batch directly below it
  follows from this.
* `WakeupCorrect`: `UniformWakeup => (Spec => []WakeupBound)`. `WakeInv` says that
  whenever the fd is not on the ready list there is either nothing that needs a
  wakeup, or a wakeup queued, or a probe that is bound to queue one: in adaptive
  mode the one that holds the record at `consumer_pos`, else the one that
  reserved last and therefore sees all the data.
* `OwnThresholdCorrect`: what is left without that assumption, for tools with
  any mixture of sizes (`OwnInv`, the second half of the argument above, probe by
  probe). `FullRingCorrect` follows: it assumes that the sizes fit the ring.
* `DropsCorrect`: an action property, `[][...]_vars`, from `ReserveInv`, which
  keeps the flags a snoop tool passes to reserve at 0 when none of them has `-w`.

`AodChannel_proofs`: `RingImplementsChannel`, the refinement. `RunInv` says that a
batch has no gaps and holds nothing abandoned; with `Accounted` and `BatchInv` a
returned batch is then a run that starts at the first unsettled event, and a dead
consumer's batch a run that can be dropped.

`AodLifecycle_proofs` (from `LifecycleAssumption`): `LifecycleTypeCorrect`;
`SharedRingCorrect` by `PlacedInv` (a party of the current epoch has the pinned
ring, and epochs never come back); `NothingSkippedCorrect` by `CalledInv` (inside
the callback the line is out and the position still points at its record).
`RepeatsCorrect` needs two more facts: `LastInv` (the last line of a ring is the
record before its position or the one at it) and `CountInv`: the repetitions so
far and the rings whose next record is out already are together no more than the
deaths. The second set is what makes the count inductive: a death in the callback
adds a ring to it, and only a record of such a ring becomes a repetition.

`AodSlower_proofs` (from `SlowerAssumption`): seven theorems, one for each property
of the run `requests`, for any number of keys, map elements, commands and requests.
The argument follows the number of a request. `ReqInv`: it is live under one key, or
over. `MapInv`: a map element carries the number of the request that wrote it, which
is live under the element's key or ended unseen, and no number is in two elements or
both in the map and in an event. `ExitInv` and `EventInv` carry this over the two
halves of the exit program, between which the element may change hands: what
nfsslower then reads is another request's command, but never a denied one
(`SlotInv`: denied commands get into no element). `TimedInv` is what the latency and
the completeness rest on.

`IoSnoop_proofs` and `IoSlower_proofs` (from `KernelAssumption` and IoSlower's
`SlowerAssumption`), for any threads, operations, nesting, map sizes, missed returns
and attach windows, with and without a mount filter. Again a number is followed:
`CallsInv` (a call is in one place of one stack), `StackInv` (nested calls that share
a key are noted as overlapped), `ContextInv` / `StartInv` (a map element is that of a
call in progress on the thread of its key, or of an orphan, and has not been used),
`DistinctInv` (no call has two) and `ReportInv` (a call in progress that is to be
reported has its element, unless it was refused or overlapped). The last one gives
`EveryCallReported` and `SlowExactly` at the return.

`VmaDevCorrect` and `MunmapCorrect` have one hypothesis, `Injective`: no two pages of
the processes there are have the same key. Nesting, missed returns, the attach
window, ranges, concurrent unmaps and unseen changes are all admitted; what they do
to a page is in `torn`. Two facts make the argument inductive. `DevOK`: an element is
the device of what is mapped in its page, or the page is `torn`. `UnmapOK`: the first
page of a `vm_munmap` under way has no element or is `torn`; it covers the time between
the entry probe, which deletes the element, and the kernel, which frees the range
later, and is why `Mapped` looks at unmaps under way (`Threatened`). IoSlower has
`PassedInv` besides: the start of a `vm_munmap` in progress passed the filter with
an element that was right, or its frame noted that the page was `torn`.

`Loader_proofs` (from `LoaderAssumption` and `FilterAssumption`), for any kernels and
command lines. `LoaderTypeCorrect`, `ExitStatusCorrect` (`ExitInv`: what each error
path leaves in `err` and `fault`) and `OneProgramCorrect` have no further hypothesis;
the last goes through the selection of each tool, over all kernels. For
`FilterExactCorrect`, `ParseInv` says that the lists hold places of valid tokens that
were handed over, and all of them when they fit; `FilterInv` that the whole command
line is in the maps before the first attach. It assumes `TableCoversErrors`: the
errors that nfsiosnoop meets are in `nfs4_errors[]`, since `-e` accepts no other.
`SelectionLoadsCorrect` and `ReadsRightCorrect` assume `KnownAbi(kernel)`, which says
which prototypes there are: `vfs_create`, `vfs_rename` and the cifs release functions
have one of those known from kernels, the two old ones (`OldCreate`, `OldRename`)
included; another VFS hook with as many parameters as its fentry program has the
parameters of that program; the cifs and NFS functions with one program have its
prototype; and the BTF of a module brings its functions and structures. That the
count which the loader reads then tells the prototypes apart, but for `OldCreate` and
the four parameters of `create_legacy`, is what the proof shows (`ReleaseCases`,
`VfsFentryFits`, `VfsFallbackFits`). All kernels of `MCLoader` satisfy it.

Only model-checked: liveness (`AcceptedIsSettled`, `SignalStops`, `SharedDelivery`),
which is out of the prover's reach. The three violation runs need no proof.

## 5. Not modelled, and the plan

Not modelled:

* the generated headers `vmlinux.h` and `cifs_btf.h` (325 000 lines of types, and
  so nearly all lines of the tree); the map covers more than half of the
  hand-written lines;
* printing and formatting, names and paths read by the probes;
* iosnoop's list of paths by descriptor (iosnoop.c:509): the VFS programs send no
  event that reads it;
* torn reads inside a record: a probe owns its record until it commits;
* two consumers at once, which libbpf does not support;
* the padding of `struct smb_trace_key`: keys are equal when their fields are;
* the tests.

What could still be proved:

1. action properties: `filter` and the maps never change while a program is
   attached, an event once submitted is never taken back, `epoch` only grows;
2. an abstract specification of the request maps, in which an event is made from
   one request in one step, as `EventChannel` is for the ring.
