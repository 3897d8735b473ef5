---------------------------- MODULE HookSelection ----------------------------
(***************************************************************************)
(* Which BPF programs a loader enables on a given kernel: the probes of    *)
(* trace_helpers.c and the selection code of the six main functions.       *)
(*                                                                         *)
(* A kernel k is what the loader can find out about it:                    *)
(*   k.fn       function in /proc/kallsyms -> its prototype, the sequence  *)
(*              of what its parameters are                                 *)
(*   k.btf      the objects with BTF: "vmlinux", "cifs", "nfsv4", "sunrpc" *)
(*   k.desc     the functions that the BTF of their object describes       *)
(*   k.fentry   the functions that take an fentry program                  *)
(*   k.types    the structures that CO-RE finds in the BTF it can read     *)
(*   k.tp       the tracepoints                                            *)
(*   k.lazy     common_preempt_lazy_count is in the tracepoint header      *)
(*   k.release, k.src   uname -r, and srcversion of cifs.ko                *)
(* A program is the section it sits in, the event it reports, the side of  *)
(* the call it sees, the arguments that it takes from it in their order,   *)
(* the structure and the layout it was written for. The loaders count      *)
(* parameters; what they are only the programs know.                       *)
(***************************************************************************)
EXTENDS Integers, Sequences, FiniteSets

ENOENT == -2
EINVAL == -22

(***************************************************************************)
(* trace_helpers.c                                                         *)
(***************************************************************************)

tracepoint_exists(k, t) == t \in k.tp

kernel_function_exists(k, f) == f \in DOMAIN k.fn

\* The probe program reads every argument, and holds at most twelve loads.
fentry_try_attach(k, f) == f \in k.fentry /\ Len(k.fn[f]) <= 12

fentry_can_attach(k, f, mod) ==
    /\ {"vmlinux", mod} \subseteq k.btf
    /\ f \in k.desc
    /\ fentry_try_attach(k, f)

get_func_param_count(k, f, mod) ==
    IF ~({"vmlinux", mod} \subseteq k.btf) THEN EINVAL
    ELSE IF f \in k.desc THEN Len(k.fn[f]) ELSE ENOENT

(***************************************************************************)
(* Programs                                                                *)
(***************************************************************************)

Program(kind, target, event, side, reads, needs, layout) ==
    [kind |-> kind, target |-> target, event |-> event, side |-> side,
     reads |-> reads, needs |-> needs, layout |-> layout]

IsFentry(p) == p.kind \in {"fentry", "fexit"}

\* The table of the loaders: parameters that the fentry programs expect.
vfs_hooks ==
    [vfs_open |-> 2, vfs_read |-> 4, vfs_write |-> 4, vfs_create |-> 5, vfs_mkdir |-> 4,
     vfs_rmdir |-> 3, vfs_symlink |-> 4, vfs_rename |-> 1, vfs_getattr |-> 4,
     vfs_truncate |-> 2, vfs_fchmod |-> 2, vfs_readlink |-> 3, vfs_readv |-> 5,
     vfs_writev |-> 5, iterate_dir |-> 2, vfs_lock_file |-> 4]

VfsHooks == DOMAIN vfs_hooks

\* The arguments in the signatures of those programs; their fallbacks have the same.
VfsArgs ==
    [vfs_open |-> <<"path", "file">>,
     vfs_read |-> <<"file", "buf", "count", "pos">>, vfs_write |-> <<"file", "buf", "count", "pos">>,
     vfs_create |-> <<"idmap", "dir", "dentry", "mode", "excl">>,
     vfs_mkdir |-> <<"idmap", "dir", "dentry", "mode">>, vfs_rmdir |-> <<"idmap", "dir", "dentry">>,
     vfs_symlink |-> <<"idmap", "dir", "dentry", "name">>, vfs_rename |-> <<"renamedata">>,
     vfs_getattr |-> <<"path", "stat", "mask", "flags">>, vfs_truncate |-> <<"path", "length">>,
     vfs_fchmod |-> <<"file", "mode">>, vfs_readlink |-> <<"dentry", "buf", "count">>,
     vfs_readv |-> <<"file", "vec", "vlen", "pos", "flags">>,
     vfs_writev |-> <<"file", "vec", "vlen", "pos", "flags">>,
     iterate_dir |-> <<"file", "ctx">>, vfs_lock_file |-> <<"file", "cmd", "lock", "conf">>]

\* The kprobes that have no fentry form: never switched off.
FixedHooks ==
    [vfs_unlink |-> <<"idmap", "dir", "dentry", "delegated">>,
     vfs_link |-> <<"dentry", "idmap", "dir", "dentry", "delegated">>,
     vfs_fallocate |-> <<"file", "mode", "offset", "length">>,
     do_mmap |-> <<"file", "addr", "length", "prot", "flags">>, vm_munmap |-> <<"addr", "length">>]

\* Some of the system call programs that iosnoop.bpf.c still holds.
SyscallHooks == [__x64_sys_read |-> "vfs_read", __x64_sys_mkdir |-> "vfs_mkdir", __x64_sys_rename |-> "vfs_rename"]

Enter(kind, h) == Program(kind, h, h, "enter", VfsArgs[h], "file", "args")
FixedEnter(h) == Program("kprobe", h, h, "enter", FixedHooks[h], "file", "args")
FentryExit(h) == Program("fexit", h, h, "exit", VfsArgs[h], "none", "args")
Return(h) == Program("kretprobe", h, h, "exit", << >>, "none", "any")

VfsFentry == UNION {{Enter("fentry", h), FentryExit(h)} : h \in VfsHooks}

VfsFallback == UNION {{Enter("kprobe", h), Return(h)} : h \in VfsHooks}

\* Written for four parameters, of which the first is still an idmap.
create_legacy ==
    Program("kprobe", "vfs_create", "vfs_create", "enter", <<"idmap", "dir", "dentry", "mode">>, "file", "args")

\* Written for six parameters, of which it takes the first four.
rename_legacy ==
    Program("kprobe", "vfs_rename", "vfs_rename", "enter", <<"dir", "dentry", "dir", "dentry">>, "file", "args")

\* The second return program of vfs_rename does what the first does; its layout tells them apart.
rename_legacy_ret == Program("kretprobe", "vfs_rename", "vfs_rename", "exit", << >>, "none", "legacy")

VfsFixed == UNION {{FixedEnter(h), Return(h)} : h \in DOMAIN FixedHooks}

VfsSyscalls ==
    UNION {{Program("kprobe", s, SyscallHooks[s], "enter", <<"regs">>, "none", "args"),
            Program("kretprobe", s, SyscallHooks[s], "exit", << >>, "none", "any")} : s \in DOMAIN SyscallHooks}

(***************************************************************************)
(* iosnoop.c, ioslower.c                                                   *)
(***************************************************************************)

\* Mutant: the prototypes are compared, the probe program is not tried.
VfsFamilyUntried(k) ==
    \A h \in VfsHooks : get_func_param_count(k, h, "vmlinux") = vfs_hooks[h]

vfs_fentry_family_supported(k) ==
    \A h \in VfsHooks :
      fentry_can_attach(k, h, "vmlinux") /\ get_func_param_count(k, h, "vmlinux") = vfs_hooks[h]

\* What the loop over the programs does to a fallback program.
FallbackEnabled(k, p) ==
    /\ kernel_function_exists(k, p.target)
    /\ p = rename_legacy => get_func_param_count(k, "vfs_rename", "vmlinux") = 6
    /\ p = Enter("kprobe", "vfs_rename") => get_func_param_count(k, "vfs_rename", "vmlinux") # 6
    /\ p = create_legacy => get_func_param_count(k, "vfs_create", "vmlinux") = 4
    /\ p = Enter("kprobe", "vfs_create") => get_func_param_count(k, "vfs_create", "vmlinux") # 4

VfsPrograms ==
    VfsFentry \cup VfsFallback \cup VfsFixed \cup VfsSyscalls
      \cup {create_legacy, rename_legacy, rename_legacy_ret}

\* Mutant: the system call programs are left enabled beside the VFS programs.
SelectVfsSyscalls(k) ==
    LET use_fentry == vfs_fentry_family_supported(k)
    IN  {p \in VfsPrograms :
           \/ p \in VfsFixed \cup VfsSyscalls
           \/ IF IsFentry(p) THEN use_fentry ELSE ~use_fentry /\ FallbackEnabled(k, p)}

select_vfs_hook_family(k) ==
    LET use_fentry == vfs_fentry_family_supported(k)
    IN  {p \in VfsPrograms \ VfsSyscalls :
           \/ p \in VfsFixed
           \/ IF IsFentry(p) THEN use_fentry ELSE ~use_fentry /\ FallbackEnabled(k, p)}

(***************************************************************************)
(* smbslower.c                                                             *)
(***************************************************************************)

SmbTracepoint(t, side) == Program("tracepoint", t, "smb", side, << >>, "none", "std")

SmbTracepoints ==
    {SmbTracepoint("smb3_cmd_enter", "enter"), SmbTracepoint("smb3_cmd_done", "exit"),
     SmbTracepoint("smb3_cmd_err", "exit")}

MidAlloc(kind, reads, needs, layout) == Program(kind, "smb2_mid_entry_alloc", "smb", "enter", reads, needs, layout)

MidRelease(kind, target, reads, needs, layout) == Program(kind, target, "smb", "exit", reads, needs, layout)

use_tracepoints(k, skip) ==
    ~skip /\ \A p \in SmbTracepoints : tracepoint_exists(k, p.target)

\* Mutant: the release alone decides.
FixedLayoutRelease(k) ==
    CASE k.release = "553" -> "rhel810"
      [] k.release \in {"553.134", "553.164"} -> "rhel810_553_134"
      [] OTHER -> "none"

\* uname -r and srcversion together name a layout checked by hand.
FixedLayout(k) ==
    CASE k.release = "553" /\ k.src = "77983F" -> "rhel810"
      [] k.release = "553.134" /\ k.src = "E89B95" -> "rhel810_553_134"
      [] k.release = "553.164" /\ k.src = "16DF29" -> "rhel810_553_134"
      [] OTHER -> "none"

AllocProgram(k) ==
    IF "cifs" \notin k.btf THEN MidAlloc("kretprobe", << >>, "none", FixedLayout(k))
    ELSE IF fentry_can_attach(k, "smb2_mid_entry_alloc", "cifs")
         THEN MidAlloc("fexit", <<"hdr", "server">>, "mid_q_entry", "core")
         ELSE MidAlloc("kretprobe", << >>, "mid_q_entry", "core")

\* The three names of the release function, each tried when the one before is not in the BTF.
ReleaseFunction(k) ==
    IF FixedLayout(k) # "none" /\ "cifs" \notin k.btf
    THEN IF FixedLayout(k) = "rhel810" THEN "_cifs_mid_q_entry_release" ELSE "__release_mid"
    ELSE IF get_func_param_count(k, "__release_mid", "cifs") # ENOENT THEN "__release_mid"
         ELSE IF get_func_param_count(k, "release_mid", "cifs") # ENOENT THEN "release_mid"
         ELSE "_cifs_mid_q_entry_release"

ReleaseParams(k) ==
    IF "cifs" \notin k.btf THEN 1 ELSE get_func_param_count(k, ReleaseFunction(k), "cifs")

\* release_mid with two parameters is answered with the program of __release_mid.
ReleaseProgram(k) ==
    LET f == ReleaseFunction(k)
        kind == IF fentry_can_attach(k, f, "cifs") THEN "fentry" ELSE "kprobe"
    IN  IF "cifs" \notin k.btf THEN MidRelease("kprobe", f, <<"kref">>, "none", FixedLayout(k))
        ELSE IF f = "__release_mid" /\ ReleaseParams(k) = 1
             THEN MidRelease(kind, f, <<"kref">>, "mid_q_entry", "core")
        ELSE IF f = "_cifs_mid_q_entry_release" THEN MidRelease(kind, f, <<"kref">>, "mid_q_entry", "core")
        ELSE IF ReleaseParams(k) = 2 THEN MidRelease(kind, "__release_mid", <<"server", "mid">>, "none", "core")
        ELSE MidRelease(kind, f, <<"mid">>, "none", "core")

\* The two early exits with -ENOTSUP.
SmbSupported(k) ==
    /\ "cifs" \in k.btf \/ FixedLayout(k) # "none"
    /\ ReleaseParams(k) \in {1, 2}
    /\ ReleaseFunction(k) = "_cifs_mid_q_entry_release" => ReleaseParams(k) = 1

select_smbslower(k, skip) ==
    IF use_tracepoints(k, skip) THEN SmbTracepoints ELSE {AllocProgram(k), ReleaseProgram(k)}

(***************************************************************************)
(* nfsslower.c, nfsiosnoop.c, smbiosnoop.c                                 *)
(***************************************************************************)

select_nfsslower(k) ==
    {Program(IF fentry_can_attach(k, "nfs4_setup_sequence", "nfsv4") THEN "fentry" ELSE "kprobe",
             "nfs4_setup_sequence", "nfs", "enter", <<"client", "args", "res", "task">>, "rpc_task", "args"),
     Program(IF fentry_can_attach(k, "rpc_exit_task", "sunrpc") THEN "fentry" ELSE "kprobe",
             "rpc_exit_task", "nfs", "exit", <<"task">>, "rpc_task", "args")}

XdrStatus(layout) == Program("tracepoint", "nfs4_xdr_status", "nfs", "exit", << >>, "none", layout)

select_nfsiosnoop(k) ==
    IF tracepoint_exists(k, "nfs4_xdr_status")
    THEN {XdrStatus(IF k.lazy THEN "lazy" ELSE "std")}
    ELSE IF fentry_can_attach(k, "rpc_exit_task", "sunrpc")
         THEN {Program("fexit", "rpc_exit_task", "nfs", "exit", <<"task">>, "rpc_task", "args")}
         ELSE {Program("kprobe", "rpc_exit_task", "nfs", "exit", <<"task">>, "rpc_task", "args")}

smbiosnoop_programs == {SmbTracepoint("smb3_cmd_err", "exit")}

(***************************************************************************)
(* libbpf and the kernel                                                   *)
(***************************************************************************)

\* CO-RE relocations need the structure; an fentry program may not read past the last argument.
Loads(k, p) ==
    /\ p.needs = "none" \/ p.needs \in k.types
    /\ IsFentry(p) => p.target \in k.fentry /\ Len(p.reads) <= Len(k.fn[p.target])

Attaches(k, p) ==
    IF p.kind = "tracepoint" THEN tracepoint_exists(k, p.target)
    ELSE kernel_function_exists(k, p.target)

\* The prototypes that kernels without idmapped mounts have for the two functions whose
\* parameters the loaders count before they choose a fallback.
OldCreate == <<"dir", "dentry", "mode", "excl">>
OldRename == <<"dir", "dentry", "dir", "dentry", "delegated", "flags">>

\* The arguments that a program takes are the ones the function is called with; the
\* result that an fexit program reads lies behind the last of them.
TakesArguments(p, prototype) ==
    /\ Len(p.reads) <= Len(prototype)
    /\ p.kind = "fexit" => Len(p.reads) = Len(prototype)
    /\ \A i \in 1 .. Len(p.reads) : p.reads[i] = prototype[i]

\* The cifs layout that a fixed-layout program has to match.
TrueLayout(k) ==
    CASE k.src = "77983F" -> "rhel810" [] k.src \in {"E89B95", "16DF29"} -> "rhel810_553_134" [] OTHER -> "unknown"
=============================================================================
