------------------------------ MODULE AodSlower ------------------------------
(***************************************************************************)
(* bpf/nfsslower.bpf.c and bpf/smbslower.bpf.c: a hash map takes the start *)
(* time and the command of a request from the hook where it begins to the  *)
(* hook where it ends, under a key that the kernel uses again:             *)
(*   nfs    the rpc_task pointer, nfs4_setup_sequence to rpc_exit_task;    *)
(*   mid    the mid_q_entry pointer, smb2_mid_entry_alloc to the release;  *)
(*   trace  {tid, sesid, mid}, smb3_cmd_enter to smb3_cmd_done or _err.    *)
(*                                                                         *)
(* The map is preallocated: an element is a slot, and a deleted element is *)
(* handed out again at once, under a program that still points to it.      *)
(* Where the event goes from here is AodRingbuf's matter.                  *)
(***************************************************************************)
EXTENDS Integers, Sequences, FiniteSets

CONSTANTS
    Tools,        \* the hook pairs to look at: "nfs", "mid", "trace"
    Keys,         \* addresses of requests, or trace keys
    Commands,     \* command codes
    Denied,       \* the commands in denylist, filled before attach
    NfsVersions,  \* NFS versions in use; nfs4_setup_sequence sees "v4" only
    Slots,        \* elements of the map
    MinLat,       \* min_lat_ns
    MaxRequests,  \* bound: requests
    MaxLost,      \* bound: requests that end past the exit hook
    MaxTime       \* bound: ticks of the clock

ASSUME SlowerAssumption ==
    /\ Tools \subseteq {"nfs", "mid", "trace"}
    /\ NfsVersions \subseteq {"v3", "v4"}
    /\ Denied \subseteq Commands
    /\ MinLat \in Nat /\ MaxRequests \in Nat /\ MaxLost \in Nat /\ MaxTime \in Nat

VARIABLES
    tool,         \* the hook pair in use, the same for the whole run
    attached,     \* programs attached so far
    now,          \* bpf_ktime_get_ns()
    req,          \* the kernel's request under each key
    temp,         \* the BPF map (temp, trace_temp): key -> slot
    slot,         \* slot -> [ts, cmd, n], kept after a delete
    exiting,      \* exit programs past the delete: key -> their local variables
    made,         \* history: command and version of the requests made
    events,       \* history: events submitted
    refused,      \* history: requests that a full map or a full ring lost
    unended,      \* history: requests that ended without the exit program
    due           \* history: slow requests, not denied, made and ended under the tool's eyes

vars == <<tool, attached, now, req, temp, slot, exiting, made, events, refused, unended, due>>

NoReq == [n |-> 0, cmd |-> "none", version |-> "none", first |-> -1, timed |-> FALSE]

Init ==
    /\ tool \in Tools
    /\ attached = 0 /\ now = 0
    /\ req = [k \in Keys |-> NoReq]
    /\ temp = << >> /\ slot = [s \in Slots |-> [ts |-> 0, cmd |-> "none", n |-> 0]]
    /\ exiting = << >>
    /\ made = << >> /\ events = {} /\ refused = {} /\ unended = {} /\ due = {}

(***************************************************************************)
(* Map updates.                                                            *)
(***************************************************************************)
Put(f, k, v) == [x \in DOMAIN f \cup {k} |-> IF x = k THEN v ELSE f[x]]
Drop(f, k) == [x \in DOMAIN f \ {k} |-> f[x]]

Free == Slots \ {temp[k] : k \in DOMAIN temp}
Partial(cmd, n) == [ts |-> now, cmd |-> cmd, n |-> n]

\* A new element takes any free slot; without one the update fails.
Insert(k, cmd, n) ==
    \/ \E s \in Free :
          /\ temp' = Put(temp, k, s)
          /\ slot' = [slot EXCEPT ![s] = Partial(cmd, n)]
          /\ UNCHANGED refused
    \/ /\ Free = {}
       /\ refused' = refused \cup {n}
       /\ UNCHANGED <<temp, slot>>

\* BPF_NOEXIST leaves an element that is there; BPF_ANY writes over it.
UpdateNoExist(k, cmd, n) ==
    IF k \in DOMAIN temp THEN UNCHANGED <<temp, slot, refused>> ELSE Insert(k, cmd, n)
UpdateAny(k, cmd, n) ==
    IF k \in DOMAIN temp
    THEN slot' = [slot EXCEPT ![temp[k]] = Partial(cmd, n)] /\ UNCHANGED <<temp, refused>>
    ELSE Insert(k, cmd, n)

(***************************************************************************)
(* Hooks where a request begins.                                           *)
(***************************************************************************)
\* The kernel has a new request under a key that no request uses.
NewRequest(k, cmd, version, first) ==
    /\ Len(made) < MaxRequests
    /\ req[k] = NoReq /\ k \notin DOMAIN exiting
    /\ made' = Append(made, [cmd |-> cmd, version |-> version])
    /\ req' = [req EXCEPT ![k] = [n |-> Len(made) + 1, cmd |-> cmd, version |-> version,
                  first |-> first, timed |-> first >= 0 /\ attached >= 1]]
    /\ UNCHANGED <<tool, attached, now, exiting, events, unended, due>>

\* Mutants: the denylist is not consulted; a retry starts the clock again.
ProbeEntryAll(k, cmd, n) == UpdateNoExist(k, cmd, n)
ProbeEntryAny(k, cmd, n) ==
    IF cmd \in Denied THEN UNCHANGED <<temp, slot, refused>> ELSE UpdateAny(k, cmd, n)

\* probe_entry of nfsslower.
ProbeEntry(k, cmd, n) ==
    IF cmd \in Denied THEN UNCHANGED <<temp, slot, refused>> ELSE UpdateNoExist(k, cmd, n)

\* A task of version 4 starts to count at its first nfs4_setup_sequence; one of
\* version 3 has no such step.
NewTask(k) ==
    /\ tool = "nfs"
    /\ \E cmd \in Commands, v \in NfsVersions : NewRequest(k, cmd, v, IF v = "v4" THEN -1 ELSE now)
    /\ UNCHANGED <<temp, slot, refused>>

\* nfs4_setup_sequence runs again whenever the task has waited for a session slot.
SetupSequence(k) ==
    /\ tool = "nfs" /\ req[k].version = "v4"
    /\ req' = [req EXCEPT ![k].first = IF @ = -1 THEN now ELSE @,
                          ![k].timed = @ \/ (attached >= 1 /\ req[k].first = -1)]
    /\ IF attached >= 1 THEN ProbeEntry(k, req[k].cmd, req[k].n) ELSE UNCHANGED <<temp, slot, refused>>
    /\ UNCHANGED <<tool, attached, now, exiting, made, events, unended, due>>

\* mid_alloc_fexit and the three mid_alloc kretprobes.
MidEntry(k, cmd, n) ==
    IF cmd \in Denied THEN UNCHANGED <<temp, slot, refused>> ELSE UpdateNoExist(k, cmd, n)

MidAlloc(k) ==
    /\ tool = "mid"
    /\ \E cmd \in Commands :
        /\ NewRequest(k, cmd, "smb", now)
        /\ IF attached >= 1 THEN MidEntry(k, cmd, Len(made) + 1) ELSE UNCHANGED <<temp, slot, refused>>

\* Mutant: the entry of an earlier request is not replaced.
CmdEnterNoExist(k, cmd, n) ==
    IF cmd \in Denied THEN UNCHANGED <<temp, slot, refused>> ELSE UpdateNoExist(k, cmd, n)

\* trace_smb3_cmd_enter.
CmdEnter(k, cmd, n) ==
    IF cmd \in Denied THEN UNCHANGED <<temp, slot, refused>> ELSE UpdateAny(k, cmd, n)

TraceSmb3CmdEnter(k) ==
    /\ tool = "trace"
    /\ \E cmd \in Commands :
        /\ NewRequest(k, cmd, "smb", now)
        /\ IF attached >= 1 THEN CmdEnter(k, cmd, Len(made) + 1) ELSE UNCHANGED <<temp, slot, refused>>

(***************************************************************************)
(* Hooks where a request ends.                                             *)
(***************************************************************************)
\* Mutant: the operands of the subtraction are swapped.
LocalsSwapped(k) == [pe |-> temp[k], partial |-> slot[temp[k]].cmd, start |-> slot[temp[k]].n,
              latency |-> slot[temp[k]].ts - now, n |-> req[k].n, cmd |-> req[k].cmd,
              took |-> now - req[k].first]

\* The local variables of an exit program that has an event to report.
Locals(k) == [pe |-> temp[k], partial |-> slot[temp[k]].cmd, start |-> slot[temp[k]].n,
              latency |-> now - slot[temp[k]].ts, n |-> req[k].n, cmd |-> req[k].cmd,
              took |-> now - req[k].first]

\* Mutant: an element is deleted only when its request is reported.
LookupDeleteSlow(k) ==
    IF k \notin DOMAIN temp \/ now - slot[temp[k]].ts < MinLat THEN UNCHANGED <<temp, exiting>>
    ELSE temp' = Drop(temp, k) /\ exiting' = Put(exiting, k, Locals(k))

\* Mutant: the threshold itself is not slow.
LookupDeleteStrict(k) ==
    IF k \notin DOMAIN temp THEN UNCHANGED <<temp, exiting>>
    ELSE /\ temp' = Drop(temp, k)
         /\ exiting' = IF now - slot[temp[k]].ts <= MinLat THEN exiting ELSE Put(exiting, k, Locals(k))

\* Lookup, latency, delete, then the threshold: nothing is left in the map
\* whether or not the request was slow.
LookupDelete(k) ==
    IF k \notin DOMAIN temp THEN UNCHANGED <<temp, exiting>>
    ELSE /\ temp' = Drop(temp, k)
         /\ exiting' = IF now - slot[temp[k]].ts < MinLat THEN exiting ELSE Put(exiting, k, Locals(k))

\* A request ends in a function or tracepoint whose program is number p.
End(k, p) ==
    /\ req[k] # NoReq
    /\ req' = [req EXCEPT ![k] = NoReq]
    /\ IF attached >= p
       THEN /\ LookupDelete(k)
            /\ due' = IF req[k].timed /\ req[k].cmd \notin Denied /\ now - req[k].first >= MinLat
                      THEN due \cup {req[k].n} ELSE due
            /\ UNCHANGED unended
       ELSE /\ unended' = unended \cup {req[k].n}
            /\ UNCHANGED <<temp, exiting, due>>
    /\ UNCHANGED <<tool, attached, now, slot, made, events, refused>>

RpcExitTask(k) == tool = "nfs" /\ End(k, 2)
MidRelease(k) == tool = "mid" /\ End(k, 2)
TraceSmb3CmdDone(k) == tool = "trace" /\ End(k, 2)
TraceSmb3CmdErr(k) == tool = "trace" /\ End(k, 3)

\* A kprobe is missed, or no response ever comes: the exit program does not run.
EndUnseen(k) ==
    /\ req[k] # NoReq /\ Cardinality(unended) < MaxLost
    /\ req' = [req EXCEPT ![k] = NoReq]
    /\ unended' = unended \cup {req[k].n}
    /\ UNCHANGED <<tool, attached, now, temp, slot, exiting, made, events, refused, due>>

\* Reserve, fill in and submit; a full ring loses the event.
Report(k, command) ==
    /\ LET x == exiting[k] IN
       \/ /\ events' = events \cup {[n |-> x.n, start |-> x.start, cmd |-> x.cmd,
                           command |-> command, latency |-> x.latency, took |-> x.took]}
          /\ UNCHANGED refused
       \/ /\ refused' = refused \cup {x.n}
          /\ UNCHANGED events
    /\ exiting' = Drop(exiting, k)
    /\ UNCHANGED <<tool, attached, now, req, temp, slot, made, unended, due>>

\* nfsslower reads pe->nfscommand here, after the delete.
ReportNfs(k) == tool = "nfs" /\ k \in DOMAIN exiting /\ Report(k, slot[exiting[k].pe].cmd)

\* Mutant: smbslower reads through the pointer, as nfsslower does.
ReportSmbLate(k) == tool # "nfs" /\ k \in DOMAIN exiting /\ Report(k, slot[exiting[k].pe].cmd)

\* smbslower reads the copy it took before the delete.
ReportSmb(k) == tool # "nfs" /\ k \in DOMAIN exiting /\ Report(k, exiting[k].partial)

(***************************************************************************)
(* Loader and clock.                                                       *)
(***************************************************************************)
AttachNext ==
    /\ attached < (IF tool = "trace" THEN 3 ELSE 2)
    /\ attached' = attached + 1
    /\ UNCHANGED <<tool, now, req, temp, slot, exiting, made, events, refused, unended, due>>

Tick ==
    /\ now < MaxTime
    /\ now' = now + 1
    /\ UNCHANGED <<tool, attached, req, temp, slot, exiting, made, events, refused, unended, due>>

-----------------------------------------------------------------------------
Nfs(k) == NewTask(k) \/ SetupSequence(k) \/ RpcExitTask(k) \/ ReportNfs(k)
Smb(k) == MidAlloc(k) \/ MidRelease(k) \/ ReportSmb(k)
          \/ TraceSmb3CmdEnter(k) \/ TraceSmb3CmdDone(k) \/ TraceSmb3CmdErr(k)
Next == AttachNext \/ Tick \/ \E k \in Keys : Nfs(k) \/ Smb(k) \/ EndUnseen(k)
Spec == Init /\ [][Next]_vars

-----------------------------------------------------------------------------
\* Every variable keeps its type; no two keys share an element of the map.
TypeOK ==
    /\ attached \in 0 .. 3 /\ now \in 0 .. MaxTime
    /\ \A k \in Keys : req[k].n \in 0 .. Len(made) /\ req[k].first \in -1 .. now
    /\ DOMAIN temp \subseteq Keys /\ \A k \in DOMAIN temp : temp[k] \in Slots
    /\ \A j, k \in DOMAIN temp : temp[j] = temp[k] => j = k
    /\ \A s \in Slots : slot[s].ts \in 0 .. now /\ slot[s].n \in 0 .. Len(made)
    /\ DOMAIN exiting \subseteq Keys
    /\ \A e \in events : e.latency \in 0 .. now

\* The start time in an event is that of the request whose end is reported, or
\* of one that ended unseen under the same key; with BPF_ANY (smb3_cmd_enter)
\* the latter can only happen to a request that denylist kept out of the map.
\* A request is reported at most once, and a start time used at most once.
PairedStart ==
    /\ \A e \in events : e.start # e.n =>
         e.start \in unended /\ (tool = "trace" => e.cmd \in Denied)
    /\ \A e, f \in events : e.n = f.n \/ e.start = f.start => e = f

\* The latency runs from the first hook of the request to its end, however often
\* nfs4_setup_sequence ran in between.
LatencyFromFirst ==
    \A e \in events : e.start = e.n /\ e.n \notin refused /\ e.n \in due => e.latency = e.took

\* A request that both hooks saw, that is not denied and took min_lat_ns or more
\* is reported once its exit program is done, unless a full map or ring lost it.
Reported(n) == (\E k \in DOMAIN exiting : exiting[k].n = n) \/ (\E e \in events : e.n = n)
SlowReported ==
    \A n \in due \ refused : made[n].version # "v3" => Reported(n)

\* A denied command never shows up in an event, whichever element of the map the
\* command was read from.
DeniedNeverShown == \A e \in events : e.command \notin Denied

\* The map holds requests under way and requests that ended unseen; a request
\* that was seen to end leaves nothing behind, slow or not.
NoLeftover ==
    \A k \in DOMAIN temp : slot[temp[k]].n = req[k].n \/ slot[temp[k]].n \in unended

\* smbslower: the command in an event is the command of the request whose start
\* the latency is measured from, although another CPU may take the map element
\* between the delete and the submit.  nfsslower reads the command after the
\* delete, from whatever the element holds by then.
CommandOfTheStart == tool # "nfs" => \A e \in events : e.command = made[e.start].cmd
=============================================================================
