--------------------------- MODULE CommandFilter ----------------------------
(***************************************************************************)
(* The -c, -x and -e lists of the aod tools: how each tool turns its       *)
(* command line into the entries of its filter maps (parse_arg and the     *)
(* parse and update functions), and how its BPF programs use the maps.     *)
(*                                                                         *)
(* An option is [key, list]; a token of a list is [val, whole]: the number *)
(* at its front (zero if there is none, as for atoi) and whether that is   *)
(* the whole token (what strtol's end pointer says).  <<i, j>> is the      *)
(* place of token j of option i, and cmd_filter and err_filter are known   *)
(* by the places that their entries come from.                             *)
(***************************************************************************)
EXTENDS Integers, Sequences, FiniteSets

CONSTANTS
    MaxCommands,  \* MAX_SMB_COMMANDS, MAX_NFS_COMMANDS
    MaxErrors,    \* MAX_ERROR_CODES, MAX_SMB_STATUS_CODES
    KnownErrors   \* nfs4_errors[]

ASSUME FilterAssumption == MaxCommands \in Nat \ {0} /\ MaxErrors \in Nat \ {0} /\ KnownErrors \subseteq Nat

Slowers == {"smbslower", "nfsslower"}
Snoopers == {"nfsiosnoop", "smbiosnoop"}
AodTools == Slowers \cup Snoopers

\* What the parser holds: the modes or the *_filter_set flags, the two lists, and whether it gave up.
NoFilter == [include |-> FALSE, exclude |-> FALSE, setc |-> FALSE, sete |-> FALSE,
             cmds |-> {}, errs |-> {}, usage |-> FALSE]

Tokens(options, i) == {i} \X DOMAIN options[i].list
Token(options, p) == options[p[1]].list[p[2]]

ValidCommand(t) == t.val \in 0 .. (MaxCommands - 1)
ValidStatus(t) == t.whole /\ t.val > 0

Commands(options, i) == {p \in Tokens(options, i) : ValidCommand(Token(options, p))}

\* Of the tokens S of one option, the ones in front that there is room for.
Collect(S, room) == {p \in S : Cardinality({q \in S : q[2] < p[2]}) < room}

(***************************************************************************)
(* parse_arg for option i.  The slowers: count is per option, bad tokens   *)
(* are passed over, an option without a valid token is a usage error.      *)
(***************************************************************************)
SlowerOption(f, options, i) ==
    LET key == options[i].key
        cmds == Collect(Commands(options, i), MaxCommands)
    IN  [f EXCEPT !.include = @ \/ key = "c", !.exclude = @ \/ key = "x",
                  !.cmds = @ \cup cmds,
                  !.usage = \/ key = "c" /\ f.exclude
                            \/ key = "x" /\ f.include
                            \/ key \notin {"c", "x"}
                            \/ cmds = {}]

\* nfsiosnoop: the counts run on over repeated options; an error code that is no number stops it.
NfsIoSnoopOption(f, options, i) ==
    LET key == options[i].key
        known == {p \in Tokens(options, i) : Token(options, p).val \in KnownErrors}
        cmds == f.cmds \cup Collect(Commands(options, i), MaxCommands - Cardinality(f.cmds))
        errs == f.errs \cup Collect(known, MaxErrors - Cardinality(f.errs))
    IN  CASE key = "c" -> [f EXCEPT !.setc = TRUE, !.cmds = cmds, !.usage = (cmds = {})]
          [] key = "e" -> [f EXCEPT !.sete = TRUE, !.errs = errs,
                             !.usage = \/ errs = {}
                                       \/ \E p \in Tokens(options, i) : ~ValidStatus(Token(options, p))]
          [] OTHER -> [f EXCEPT !.usage = TRUE]

\* smbiosnoop: every token has to be valid and has to fit.
SmbIoSnoopOption(f, options, i) ==
    LET key == options[i].key
        cmds == f.cmds \cup Tokens(options, i)
        errs == f.errs \cup Tokens(options, i)
    IN  CASE key = "c" -> [f EXCEPT !.setc = TRUE, !.cmds = cmds,
                             !.usage = \/ cmds = {} \/ Cardinality(cmds) > MaxCommands
                                       \/ \E p \in Tokens(options, i) :
                                            ~(ValidCommand(Token(options, p)) /\ Token(options, p).whole)]
          [] key = "e" -> [f EXCEPT !.sete = TRUE, !.errs = errs,
                             !.usage = \/ errs = {} \/ Cardinality(errs) > MaxErrors
                                       \/ \E p \in Tokens(options, i) : ~ValidStatus(Token(options, p))]
          [] OTHER -> [f EXCEPT !.usage = TRUE]

parse_arg(tool, f, options, i) ==
    CASE tool \in Slowers -> SlowerOption(f, options, i)
      [] tool = "nfsiosnoop" -> NfsIoSnoopOption(f, options, i)
      [] tool = "smbiosnoop" -> SmbIoSnoopOption(f, options, i)

MustSpecify(tool, f) == tool \in Snoopers => f.setc \/ f.sete

Values(options, S) == {Token(options, p).val : p \in S}

\* update_denylist_map: what an include list leaves out, or what an exclude list names.
Denylist(options, f) ==
    {c \in 0 .. (MaxCommands - 1) :
       \/ f.exclude /\ c \in Values(options, f.cmds)
       \/ f.include /\ c \notin Values(options, f.cmds)}

\* The bpf_map_update_elem() calls: update_denylist_map, or the two allowlist functions.
MapWrites(tool, options, f) ==
    IF tool \in Slowers THEN {"cmd"} \X Denylist(options, f)
    ELSE ({"cmd"} \X Values(options, f.cmds)) \cup ({"err"} \X Values(options, f.errs))

\* The start of the BPF programs: is a request with this command and this failure reported?
Passes(tool, f, map, command, error) ==
    IF tool \in Slowers THEN <<"cmd", command>> \notin map
    ELSE /\ error # 0
         /\ f.sete => <<"err", error>> \in map
         /\ f.setc => <<"cmd", command>> \in map

\* probe_entry of nfsiosnoop sees tk_status, which is negative, and drops the sign.
LookedUp(p, status) == IF p.kind # "tracepoint" /\ status < 0 THEN -status ELSE status

(***************************************************************************)
(* What the command line asks for, in the words of the --help texts.       *)
(***************************************************************************)
Places(options) == UNION {Tokens(options, i) : i \in DOMAIN options}
Under(options, key) == {p \in Places(options) : options[p[1]].key = key}

Listed(options, key) == Values(options, Under(options, key))
Given(options, key) == \E i \in DOMAIN options : options[i].key = key

Wanted(tool, options, command, error) ==
    /\ Given(options, "c") => command \in Listed(options, "c")
    /\ Given(options, "x") => command \notin Listed(options, "x")
    /\ Given(options, "e") => error \in Listed(options, "e")
    /\ tool \in Snoopers => error # 0

\* Tokens that are numbers, and lists that fit: beyond that the slowers and
\* nfsiosnoop read garbage as its leading digits and drop the surplus.
Clean(options) == \A p \in Places(options) : Token(options, p).whole

Fits(options) ==
    \A key \in {"c", "x", "e"} :
      Cardinality(Under(options, key)) <= IF key = "e" THEN MaxErrors ELSE MaxCommands
=============================================================================
