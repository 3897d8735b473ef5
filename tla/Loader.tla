------------------------------- MODULE Loader -------------------------------
(***************************************************************************)
(* The life of one loader process, from its command line to its exit code: *)
(* the six main functions of src/user, with HookSelection for the choice   *)
(* of programs and CommandFilter for the filter maps. Every library call   *)
(* may fail, and a signal may arrive between any two steps.                *)
(*                                                                         *)
(* err is the variable of that name at its last assignment: main() returns *)
(* failure exactly when it is negative, so a step that fails without       *)
(* setting it ends in exit code zero.                                      *)
(***************************************************************************)
EXTENDS HookSelection, CommandFilter

CONSTANTS
    Tools,       \* the loaders to look at
    Kernels,     \* loader -> the kernels it may meet
    Lines,       \* loader -> the command lines it may be given
    Errors,      \* failures that a request may end with, zero for success
    MaxSignals   \* bound: signals sent to the process

VfsTools == {"iosnoop", "ioslower"}

ASSUME LoaderAssumption ==
    /\ Tools \subseteq VfsTools \cup AodTools
    /\ Errors \subseteq Nat /\ MaxSignals \in Nat
    /\ \A t \in Tools : \A k \in Kernels[t] :
         /\ DOMAIN k = {"fn", "btf", "desc", "fentry", "types", "tp", "lazy", "release", "src"}
         /\ k.desc \cup k.fentry \subseteq DOMAIN k.fn /\ k.fn \in [DOMAIN k.fn -> Seq(STRING)]
    /\ \A t \in Tools : \A l \in Lines[t] :
         l.options \in Seq([key : STRING, list : Seq([val : Int, whole : BOOLEAN])])

VARIABLES
    tool, kernel, line,  \* who runs, where, and how it was called: fixed
    cifs,       \* cifs.ko is loaded
    phase,      \* where main() is
    argi,       \* options that argp_parse has handed to parse_arg
    filter,     \* the parsed lists
    todo,       \* programs enabled and not attached yet
    attached,   \* programs attached
    writes,     \* filter map entries still to write
    map,        \* entries of the filter maps
    mountSet,   \* mount_filter_cfg is written
    handler,    \* sig_int is installed
    exiting,    \* the flag of that name
    err,        \* "zero", "negative" or "positive"
    status,     \* exit: "none", "zero", "failure", "usage", "killed"
    fault,      \* history: the step that failed, "none"
    signals     \* history: how many signals were sent

vars == <<tool, kernel, line, cifs, phase, argi, filter, todo, attached, writes, map,
          mountSet, handler, exiting, err, status, fault, signals>>

fixed == <<tool, kernel, line, argi, signals>>

Init ==
    /\ tool \in Tools
    /\ kernel \in Kernels[tool]
    /\ line \in Lines[tool]
    /\ cifs \in IF tool \in {"smbslower", "smbiosnoop"} THEN BOOLEAN ELSE {TRUE}
    /\ phase = "parse" /\ argi = 0
    /\ filter = NoFilter
    /\ todo = {} /\ attached = {} /\ writes = {} /\ map = {} /\ mountSet = FALSE
    /\ handler = FALSE /\ exiting = FALSE
    /\ err = "zero" /\ status = "none" /\ fault = "none" /\ signals = 0

\* What cifs.ko brings with it is not there before the module is.
CifsFunctions == {"smb2_mid_entry_alloc", "__release_mid", "release_mid", "_cifs_mid_q_entry_release"}

Seen ==
    IF cifs THEN kernel
    ELSE LET fns == DOMAIN kernel.fn \ CifsFunctions
         IN  [kernel EXCEPT !.fn = [f \in fns |-> kernel.fn[f]], !.btf = @ \ {"cifs"},
                            !.desc = @ \ CifsFunctions, !.fentry = @ \ CifsFunctions,
                            !.types = @ \ {"mid_q_entry"},
                            !.tp = @ \ {p.target : p \in SmbTracepoints}, !.src = "none"]

Phases == {"parse", "open", "modprobe", "select", "load", "mount", "maps", "attach", "threshold",
           "ring", "signal", "test", "window", "pause", "poll", "polled", "cleanup", "done"}

Goto(from, to) == phase = from /\ phase' = to

\* goto cleanup, err as it is.
Abort(step) == phase' = "cleanup" /\ fault' = step

\* Leaving main() before there is anything to clean up.
Leave(code) == phase' = "done" /\ status' = code

(***************************************************************************)
(* Starting up                                                             *)
(***************************************************************************)

\* argp_parse calls parse_arg for one option after the other; argp_usage() exits.
ParseArg ==
    /\ phase = "parse" /\ tool \in AodTools /\ argi < Len(line.options)
    /\ LET f == parse_arg(tool, filter, line.options, argi + 1)
       IN  \/ f.usage /\ Leave("usage") /\ UNCHANGED <<argi, filter>>
           \/ ~f.usage /\ argi' = argi + 1 /\ filter' = f /\ UNCHANGED <<phase, status>>
    /\ UNCHANGED <<tool, kernel, line, signals, cifs, todo, attached, writes, map, mountSet, handler,
                   exiting, err, fault>>

\* The test for at least one list, and the handlers of the aod tools.
Parsed ==
    /\ phase = "parse" /\ (tool \in AodTools => argi = Len(line.options))
    /\ \/ ~MustSpecify(tool, filter) /\ Leave("failure") /\ UNCHANGED handler
       \/ /\ MustSpecify(tool, filter)
          /\ phase' = "open" /\ handler' = (tool \in AodTools) /\ UNCHANGED status
    /\ UNCHANGED <<fixed, cifs, filter, todo, attached, writes, map, mountSet, exiting, err, fault>>

Open ==
    /\ phase = "open"
    /\ \/ /\ phase' = IF tool = "smbslower" THEN "modprobe" ELSE "select"
          /\ UNCHANGED <<status, fault>>
       \/ Leave("failure") /\ fault' = "open"
    /\ UNCHANGED <<fixed, cifs, filter, todo, attached, writes, map, mountSet, handler, exiting, err>>

\* run_modprobe for each path: a failure is only logged.
ensure_cifs_module_loaded ==
    /\ Goto("modprobe", "select")
    /\ cifs' \in {cifs, TRUE}
    /\ UNCHANGED <<fixed, filter, todo, attached, writes, map, mountSet, handler, exiting, err, status, fault>>

Selected ==
    CASE tool \in VfsTools -> select_vfs_hook_family(Seen)
      [] tool = "smbslower" -> select_smbslower(Seen, line.skip)
      [] tool = "nfsslower" -> select_nfsslower(Seen)
      [] tool = "nfsiosnoop" -> select_nfsiosnoop(Seen)
      [] tool = "smbiosnoop" -> smbiosnoop_programs

Unsupported == tool = "smbslower" /\ ~use_tracepoints(Seen, line.skip) /\ ~SmbSupported(Seen)

Select ==
    /\ \/ ~Unsupported /\ Goto("select", "load") /\ todo' = Selected /\ UNCHANGED <<err, fault>>
       \/ Unsupported /\ phase = "select" /\ Abort("select") /\ err' = "negative" /\ UNCHANGED todo
    /\ UNCHANGED <<fixed, cifs, filter, attached, writes, map, mountSet, handler, exiting, status>>

\* smbiosnoop is the one object without a CO-RE relocation.
Loadable ==
    /\ tool # "smbiosnoop" => "vmlinux" \in Seen.btf
    /\ \A p \in todo : Loads(Seen, p)

Load ==
    /\ phase = "load"
    /\ \/ /\ Loadable
          /\ phase' = IF tool \in AodTools THEN "maps" ELSE IF line.mount = "none" THEN "attach" ELSE "mount"
          /\ writes' = IF tool \in AodTools THEN MapWrites(tool, line.options, filter) ELSE {}
          /\ UNCHANGED <<err, fault>>
       \/ Abort("load") /\ err' = "negative" /\ UNCHANGED writes
    /\ UNCHANGED <<fixed, cifs, filter, todo, attached, map, mountSet, handler, exiting, status>>

\* realpath(), stat(), then the update of mount_filter_cfg: only the last one sets err.
SetMountFilter ==
    /\ phase = "mount"
    /\ \/ line.mount = "bad" /\ Abort("realpath") /\ UNCHANGED <<mountSet, err>>
       \/ line.mount = "good" /\ Abort("map") /\ err' = "negative" /\ UNCHANGED mountSet
       \/ line.mount = "good" /\ phase' = "attach" /\ mountSet' = TRUE /\ UNCHANGED <<err, fault>>
    /\ UNCHANGED <<fixed, cifs, filter, todo, attached, writes, map, handler, exiting, status>>

\* Mutant: a failed update is passed over.
UpdateFilterSkips ==
    /\ phase = "maps"
    /\ \E w \in writes : map' \in {map, map \cup {w}} /\ writes' = writes \ {w}
    /\ UNCHANGED <<fixed, cifs, phase, filter, todo, attached, mountSet, handler, exiting, err, status, fault>>

\* One bpf_map_update_elem() of a filter list, in any order. A failure sets err in
\* smbiosnoop alone.
UpdateFilter ==
    /\ phase = "maps"
    /\ \E w \in writes :
         \/ map' = map \cup {w} /\ writes' = writes \ {w} /\ UNCHANGED <<phase, err, fault>>
         \/ Abort("map") /\ err' = (IF tool = "smbiosnoop" THEN "negative" ELSE err) /\ UNCHANGED <<map, writes>>
    /\ UNCHANGED <<fixed, cifs, filter, todo, attached, mountSet, handler, exiting, status>>

FilterDone ==
    /\ writes = {} /\ Goto("maps", "attach")
    /\ UNCHANGED <<fixed, cifs, filter, todo, attached, writes, map, mountSet, handler, exiting, err, status, fault>>

\* Mutant: the program stays on the list and is attached again.
AttachAgain ==
    /\ phase = "attach" /\ todo # {}
    /\ \E p \in todo :
         /\ Attaches(Seen, p) /\ attached' = attached \cup {p}
         /\ todo' \in {todo, todo \ {p}}
    /\ UNCHANGED <<fixed, cifs, phase, filter, writes, map, mountSet, handler, exiting, err, status, fault>>

\* One program of bpf_object__attach_skeleton().
AttachProgram ==
    /\ phase = "attach" /\ todo # {}
    /\ LET p == CHOOSE q \in todo : TRUE
       IN  \/ /\ Attaches(Seen, p) /\ attached' = attached \cup {p} /\ todo' = todo \ {p}
              /\ UNCHANGED <<phase, err, fault>>
           \/ Abort("attach") /\ err' = "negative" /\ UNCHANGED <<attached, todo>>
    /\ UNCHANGED <<fixed, cifs, filter, writes, map, mountSet, handler, exiting, status>>

AttachDone ==
    /\ todo = {}
    /\ Goto("attach", IF tool = "ioslower" THEN "threshold" ELSE IF tool = "iosnoop" THEN "ring" ELSE "test")
    /\ UNCHANGED <<fixed, cifs, filter, todo, attached, writes, map, mountSet, handler, exiting, err, status, fault>>

\* The threshold map (ioslower) and the ring buffer reader of the VFS tools.
SetThreshold ==
    /\ \/ Goto("threshold", "ring") /\ UNCHANGED <<err, fault>>
       \/ phase = "threshold" /\ Abort("map") /\ err' = "negative"
    /\ UNCHANGED <<fixed, cifs, filter, todo, attached, writes, map, mountSet, handler, exiting, status>>

NewRing ==
    /\ \/ Goto("ring", "signal") /\ UNCHANGED <<err, fault>>
       \/ phase = "ring" /\ Abort("ring") /\ err' = "negative"
    /\ UNCHANGED <<fixed, cifs, filter, todo, attached, writes, map, mountSet, handler, exiting, status>>

\* signal(SIGINT, sig_int), last of all in the VFS tools; err = 1 if it fails.
InstallHandler ==
    /\ \/ Goto("signal", "test") /\ handler' = TRUE /\ UNCHANGED <<err, fault>>
       \/ phase = "signal" /\ Abort("signal") /\ err' = "positive" /\ UNCHANGED handler
    /\ UNCHANGED <<fixed, cifs, filter, todo, attached, writes, map, mountSet, exiting, status>>

(***************************************************************************)
(* Running: while (!exiting) pause(), or ring_buffer__poll() with a limit  *)
(***************************************************************************)

\* Mutant: the flag is tested once, before the loop.
TestExitingOnce ==
    /\ Goto("test", IF exiting /\ signals = 1 THEN "cleanup" ELSE IF tool \in AodTools THEN "window" ELSE "poll")
    /\ UNCHANGED <<fixed, cifs, filter, todo, attached, writes, map, mountSet, handler, exiting, err, status, fault>>

TestExiting ==
    /\ Goto("test", IF exiting THEN "cleanup" ELSE IF tool \in AodTools THEN "window" ELSE "poll")
    /\ UNCHANGED <<fixed, cifs, filter, todo, attached, writes, map, mountSet, handler, exiting, err, status, fault>>

\* pause() begins: a signal handled before this point does not end it.
Pause ==
    /\ Goto("window", "pause")
    /\ UNCHANGED <<fixed, cifs, filter, todo, attached, writes, map, mountSet, handler, exiting, err, status, fault>>

Poll ==
    /\ phase = "poll"
    /\ \/ phase' = "polled" /\ err' = "zero" /\ UNCHANGED fault
       \/ Abort("poll") /\ err' = "negative"
    /\ UNCHANGED <<fixed, cifs, filter, todo, attached, writes, map, mountSet, handler, exiting, status>>

\* The deadline of -d, or back to the test.
TestDeadline ==
    /\ phase = "polled"
    /\ phase' \in {"test"} \cup IF line.duration THEN {"cleanup"} ELSE {}
    /\ UNCHANGED <<fixed, cifs, filter, todo, attached, writes, map, mountSet, handler, exiting, err, status, fault>>

\* SIGINT or SIGTERM. pause() returns, ring_buffer__poll() returns -EINTR; the VFS
\* tools handle SIGINT only, and without a handler the process is gone.
Signal ==
    /\ phase # "done" /\ signals < MaxSignals
    /\ signals' = signals + 1
    /\ \E sig \in {"INT", "TERM"} :
         IF handler /\ (sig = "INT" \/ tool \in AodTools)
         THEN /\ exiting' = TRUE
              /\ phase' = CASE phase = "pause" -> "test" [] phase = "poll" -> "polled" [] OTHER -> phase
              /\ err' = IF phase = "poll" THEN "negative" ELSE err
              /\ UNCHANGED <<status, attached, todo>>
         ELSE Leave("killed") /\ attached' = {} /\ todo' = {} /\ UNCHANGED <<exiting, err>>
    /\ UNCHANGED <<tool, kernel, line, argi, cifs, filter, writes, map, mountSet, handler, fault>>

\* Mutant: main() returns zero whatever happened.
CleanupZero ==
    /\ Goto("cleanup", "done")
    /\ attached' = {} /\ todo' = {} /\ status' = "zero"
    /\ UNCHANGED <<fixed, cifs, filter, writes, map, mountSet, handler, exiting, err, fault>>

\* destroy() and the return statement.
Cleanup ==
    /\ Goto("cleanup", "done")
    /\ attached' = {} /\ todo' = {}
    /\ status' = IF err = "negative" THEN "failure" ELSE "zero"
    /\ UNCHANGED <<fixed, cifs, filter, writes, map, mountSet, handler, exiting, err, fault>>

Step ==
    \/ ParseArg \/ Parsed \/ Open \/ ensure_cifs_module_loaded \/ Select \/ Load
    \/ SetMountFilter \/ UpdateFilter \/ FilterDone \/ AttachProgram \/ AttachDone
    \/ SetThreshold \/ NewRing \/ InstallHandler
    \/ TestExiting \/ Pause \/ Poll \/ TestDeadline \/ Cleanup

Next == Step \/ Signal

\* A process that can run does; nothing makes a user send a signal.
Spec == Init /\ [][Next]_vars /\ WF_vars(Step)

(***************************************************************************)
(* Properties                                                              *)
(***************************************************************************)

\* Types of the variables.
TypeOK ==
    /\ tool \in Tools /\ kernel \in Kernels[tool] /\ line \in Lines[tool]
    /\ phase \in Phases /\ argi \in 0 .. Len(line.options)
    /\ cifs \in BOOLEAN /\ mountSet \in BOOLEAN /\ handler \in BOOLEAN /\ exiting \in BOOLEAN
    /\ todo \cap attached = {}
    /\ map \subseteq {"cmd", "err"} \X Nat
    /\ err \in {"zero", "negative", "positive"}
    /\ status \in {"none", "zero", "failure", "usage", "killed"}
    /\ (phase = "done") = (status # "none")
    /\ signals \in 0 .. MaxSignals

Running == phase \in {"test", "window", "pause", "poll", "polled"}

TracedEvents ==
    IF tool \in VfsTools THEN (VfsHooks \cup DOMAIN FixedHooks) \cap DOMAIN kernel.fn
    ELSE IF tool \in {"smbslower", "smbiosnoop"} THEN {"smb"} ELSE {"nfs"}

Attached(event, side) == {p \in attached : p.event = event /\ p.side = side}

\* A loader that runs has every call that it traces covered once on any kernel: one
\* program at the entry of a pair and at least one at the exit, never two that both
\* see the same exit. vfs_rename alone has two return programs in the fallback
\* family, and the second finds the entry already taken (select_vfs_hook_family).
OneProgramPerHook ==
    Running =>
      \A e \in TracedEvents :
        /\ Cardinality(Attached(e, "enter")) = (IF tool \in Snoopers THEN 0 ELSE 1)
        /\ Attached(e, "exit") # {}
        /\ \A p, q \in Attached(e, "exit") :
             p = q \/ e = "vfs_rename" \/ (p.kind = "tracepoint" /\ q.kind = "tracepoint" /\ p.target # q.target)

\* What the loaders do not check before they enable a program: the prototype of a VFS
\* kprobe other than vfs_create and vfs_rename, or of a function that BTF does not
\* describe, and the tracepoint header under the two SMB tools. Of vfs_create they count
\* four parameters and take the first for an idmap.
Unchecked(p) ==
    \/ tool \in VfsTools /\ p.kind = "kprobe"
         /\ (p.target \notin {"vfs_create", "vfs_rename"} \/ p.target \notin kernel.desc)
    \/ tool \in VfsTools /\ p = create_legacy /\ kernel.fn["vfs_create"][1] # "idmap"
    \/ p.kind = "tracepoint" /\ tool \in {"smbslower", "smbiosnoop"}

\* Otherwise an attached program takes the arguments that the function has on the kernel
\* it runs on, in their order, and was written for its tracepoint header or cifs
\* structure, although the loader knows only how many parameters there are, whether BTF
\* names the function and which module is loaded: smbslower.c "Fail closed for every
\* unverified pair instead of guessing an ABI".
ReadsRightArguments ==
    Running =>
      \A p \in attached :
        \/ Unchecked(p)
        \/ p.kind = "tracepoint" /\ p.layout = (IF kernel.lazy THEN "lazy" ELSE "std")
        \/ /\ p.kind # "tracepoint" /\ TakesArguments(p, kernel.fn[p.target])
           /\ p.layout \in {"args", "core", "any", "legacy", TrueLayout(kernel)}

\* The two functions whose parameters the loaders of the VFS tools count: the program
\* they then enable takes the arguments the kernel has. iosnoop.c and ioslower.c: "Older
\* enterprise kernels expose vfs_create with four arguments and vfs_rename with six
\* direct arguments [...] This is kernel ABI compatibility [...] select from BTF
\* parameter counts".
LegacyAbiCompatible ==
    Running =>
      \A p \in attached :
        p.target \in {"vfs_create", "vfs_rename"} \cap kernel.desc =>
          TakesArguments(p, kernel.fn[p.target])

\* An fentry program that was selected will load ("callers select the kprobe fallback
\* instead of attempting an fentry program that will fail during the final skeleton
\* load", trace_helpers.c). The exception is release_mid with two parameters, which
\* smbslower answers with the program of __release_mid and so refuses to start.
SelectionLoads ==
    phase = "load" =>
      \A p \in todo :
        IsFentry(p) =>
          \/ Loads(Seen, p)
          \/ tool = "smbslower" /\ ReleaseFunction(Seen) = "release_mid" /\ ReleaseParams(Seen) = 2

\* No program runs with half a filter: from the first program attached on, the tool
\* reports exactly the requests that its command line asks for, when the lists are
\* numbers and fit the tables; the VFS tools have their mount filter set.
FilterExact ==
    /\ attached # {} /\ tool \in VfsTools /\ line.mount # "none" => mountSet
    /\ attached # {} /\ tool \in AodTools /\ Clean(line.options) /\ Fits(line.options) =>
         \A p \in attached, c \in 0 .. (MaxCommands - 1), e \in Errors :
           Passes(tool, filter, map, c, LookedUp(p, IF p.kind = "tracepoint" THEN e ELSE -e))
             <=> Wanted(tool, line.options, c, e)

\* The exit code tells whether the loader did its work, up to the paths that leave err
\* alone: a filter map that could not be written (the aod tools but smbiosnoop), a
\* mount path that does not resolve and a handler that cannot be installed all exit
\* with zero, and Ctrl-C inside ring_buffer__poll() makes a good run of iosnoop or
\* ioslower exit with one.
ExitStatusHonest ==
    /\ status = "zero" =>
         \/ fault \in {"none", "realpath", "signal"}
         \/ fault = "map" /\ tool \in AodTools \ {"smbiosnoop"}
    /\ status = "failure" =>
         \/ fault # "none"
         \/ tool \in Snoopers /\ line.options = << >>
         \/ tool \in VfsTools /\ exiting

\* A signal that a handler has taken ends the process, wherever main() is, except in
\* the window between the test of the flag and pause(): there it waits for the next.
SignalStops == (exiting /\ phase \notin {"window", "pause"}) ~> (phase = "done")
=============================================================================
