------------------------------ MODULE MCLoader ------------------------------
\* Kernels and command lines for TLC.
EXTENDS Loader, TLC

Plain == [fn |-> << >>, btf |-> {"vmlinux"}, desc |-> {}, fentry |-> {}, types |-> {"file"},
          tp |-> {}, lazy |-> FALSE, release |-> "other", src |-> "none"]

\* VFS: old and new prototypes of create, rename and mkdir, a hook that is missing,
\* an entry that BTF lacks, no BTF at all, fentry refused for all or for one function.
\* FourCreate is the prototype that the legacy program was written for.
FiveCreate == VfsArgs["vfs_create"]
FourCreate == create_legacy.reads
NewRename == VfsArgs["vfs_rename"]
NewMkdir == VfsArgs["vfs_mkdir"]
OldMkdir == <<"dir", "dentry", "mode">>

VfsFunctions(create, rename, mkdir, absent) ==
    LET all == [h \in VfsHooks \cup DOMAIN FixedHooks \cup DOMAIN SyscallHooks |->
                  CASE h = "vfs_create" -> create [] h = "vfs_rename" -> rename [] h = "vfs_mkdir" -> mkdir
                    [] h \in VfsHooks -> VfsArgs[h]
                    [] h \in DOMAIN FixedHooks -> FixedHooks[h] [] OTHER -> <<"regs">>]
    IN  [h \in DOMAIN all \ absent |-> all[h]]

VfsKernelsWith(fns) ==
    {[Plain EXCEPT !.fn = fn, !.btf = IF btf = "none" THEN {} ELSE @,
                   !.types = IF btf = "none" THEN {} ELSE @,
                   !.desc = CASE btf = "all" -> DOMAIN fn [] btf = "some" -> DOMAIN fn \ {"vfs_create"} [] OTHER -> {},
                   !.fentry = DOMAIN fn \ refused] :
       fn \in fns, btf \in {"all", "some", "none"}, refused \in {{}, {"vfs_read"}, VfsHooks}}

\* Before idmapped mounts: no function has that parameter.
OldFunctions ==
    LET fn == VfsFunctions(OldCreate, OldRename, NewMkdir, {})
    IN  [h \in DOMAIN fn |-> SelectSeq(fn[h], LAMBDA a : a # "idmap")]

VfsKernels ==
    VfsKernelsWith(
      {OldFunctions, VfsFunctions(FiveCreate, NewRename, NewMkdir, {}),
       VfsFunctions(FourCreate, NewRename, NewMkdir, {}), VfsFunctions(FiveCreate, NewRename, OldMkdir, {}),
       VfsFunctions(FiveCreate, OldRename, NewMkdir, {}),
       VfsFunctions(FiveCreate, NewRename, NewMkdir, {"vfs_mkdir"}),
       VfsFunctions(FiveCreate, NewRename, NewMkdir, {"vm_munmap"})})

\* SMB: the release function under its three names, with and without BTF for cifs.ko,
\* the verified pairs of RHEL 8.10 and pairs that only look like one.
ReleaseFunctions ==
    {[__release_mid |-> <<"kref">>], [__release_mid |-> <<"server", "mid">>],
     [release_mid |-> <<"mid">>], [release_mid |-> <<"server", "mid">>],
     [_cifs_mid_q_entry_release |-> <<"kref">>], [other |-> <<"mid">>]}

SmbTp == {p.target : p \in SmbTracepoints}

SmbBtfKernels ==
    {[Plain EXCEPT !.fn = ("smb2_mid_entry_alloc" :> <<"hdr", "server">>) @@ fn, !.btf = {"vmlinux", "cifs"},
                   !.desc = {"smb2_mid_entry_alloc"} \cup DOMAIN fn, !.types = {"file", "mid_q_entry"},
                   !.fentry = fentry \cap ({"smb2_mid_entry_alloc"} \cup DOMAIN fn), !.tp = tp, !.lazy = lazy] :
       fn \in ReleaseFunctions, lazy \in BOOLEAN, tp \in {SmbTp, {}, SmbTp \ {"smb3_cmd_enter"}},
       fentry \in {{}, {"smb2_mid_entry_alloc"}, CifsFunctions}}

SmbFixedKernels ==
    {[Plain EXCEPT !.fn = ("smb2_mid_entry_alloc" :> <<"hdr", "server">>) @@
                          (IF src = "77983F" THEN [_cifs_mid_q_entry_release |-> <<"kref">>] ELSE [__release_mid |-> <<"kref">>]),
                   !.tp = tp, !.release = release, !.src = src] :
       release \in {"553", "553.134", "553.164", "other"}, src \in {"77983F", "E89B95", "16DF29", "none"},
       tp \in {SmbTp, {}}}

\* NFS: sunrpc in the kernel or as a module, the tracepoint in its two layouts or missing.
NfsKernels ==
    {[Plain EXCEPT !.fn = [nfs4_setup_sequence |-> <<"client", "args", "res", "task">>, rpc_exit_task |-> <<"task">>],
                   !.btf = btf, !.types = IF btf = {} THEN {} ELSE {"file", "rpc_task"},
                   !.desc = {f \in {"nfs4_setup_sequence", "rpc_exit_task"} :
                               (IF f = "rpc_exit_task" THEN "sunrpc" ELSE "nfsv4") \in btf},
                   !.fentry = fentry, !.tp = tp, !.lazy = lazy] :
       btf \in {{}, {"vmlinux"}, {"vmlinux", "nfsv4", "sunrpc"}}, lazy \in BOOLEAN,
       fentry \in SUBSET {"nfs4_setup_sequence", "rpc_exit_task"}, tp \in {{}, {"nfs4_xdr_status"}}}

\* The kernels of older enterprise distributions.
OldKernels == [t \in Tools |-> VfsKernelsWith({OldFunctions})]

AllKernels ==
    [t \in Tools |-> CASE t \in VfsTools -> VfsKernels
                       [] t \in {"smbslower", "smbiosnoop"} -> SmbBtfKernels \cup SmbFixedKernels
                       [] OTHER -> NfsKernels]

Num(n) == [val |-> n, whole |-> TRUE]
Junk == [val |-> 0, whole |-> FALSE]
Opt(key, list) == <<[key |-> key, list |-> list]>>
Line(options, mount, skip, duration) ==
    [options |-> options, mount |-> mount, skip |-> skip, duration |-> duration]

\* Include, exclude, both, repeated options, a bad token, a code out of range, a list
\* that is longer than its table.
CommandOptions ==
    {<< >>, Opt("c", <<Num(1)>>), Opt("c", <<Num(1), Num(3)>>), Opt("c", <<Num(9)>>), Opt("c", <<Junk>>),
     Opt("c", <<Num(0), Num(0), Num(0), Num(1)>>), Opt("c", <<Num(0)>>) \o Opt("c", <<Num(2)>>)}

SlowerOptions ==
    CommandOptions \cup {Opt("x", <<Num(0), Num(2)>>), Opt("x", <<Num(0)>>) \o Opt("c", <<Num(1)>>)}

ErrorOptions == {<< >>, Opt("e", <<Num(5)>>), Opt("e", <<Num(5), Num(7)>>), Opt("e", <<Num(0)>>), Opt("e", <<Junk>>)}

AllLines ==
    [t \in Tools |->
       CASE t \in VfsTools -> {Line(<< >>, m, FALSE, FALSE) : m \in {"none", "good", "bad"}}
                                \cup {Line(<< >>, "good", FALSE, TRUE)}
         [] t = "smbslower" -> {Line(o, "none", s, FALSE) : o \in SlowerOptions, s \in BOOLEAN}
         [] t = "nfsslower" -> {Line(o, "none", FALSE, FALSE) : o \in SlowerOptions}
         [] OTHER -> {Line(c \o e, "none", FALSE, FALSE) : c \in CommandOptions, e \in ErrorOptions}]
=============================================================================
