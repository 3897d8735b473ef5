---------------------------- MODULE Loader_proofs ---------------------------
(***************************************************************************)
(* Proofs about Loader, for any command lines and any kernels.             *)
(***************************************************************************)
EXTENDS Loader, FiniteSetTheorems, TLAPS

opts == line.options

\* The phases after the selection, after the load, and after the last program.
After == {"threshold", "ring", "signal", "test", "window", "pause", "poll", "polled"}
Loaded == {"mount", "maps", "attach"} \cup After

FilterType == [include : BOOLEAN, exclude : BOOLEAN, setc : BOOLEAN, sete : BOOLEAN,
               cmds : SUBSET Places(opts), errs : SUBSET Places(opts), usage : {FALSE}]

Entry == {"cmd", "err"} \X Nat

TypeInv ==
    /\ tool \in Tools /\ kernel \in Kernels[tool] /\ line \in Lines[tool]
    /\ phase \in Phases /\ argi \in 0 .. Len(opts)
    /\ cifs \in BOOLEAN /\ mountSet \in BOOLEAN /\ handler \in BOOLEAN /\ exiting \in BOOLEAN
    /\ filter \in FilterType
    /\ map \subseteq Entry /\ writes \subseteq Entry
    /\ err \in {"zero", "negative", "positive"}
    /\ status \in {"none", "zero", "failure", "usage", "killed"}
    /\ (phase = "done") <=> (status # "none")
    /\ signals \in 0 .. MaxSignals

\* Only the VFS tools, or only the others, come through these phases.
PhaseInv ==
    /\ phase \in {"mount", "threshold", "ring", "signal", "poll", "polled"} => tool \in VfsTools
    /\ phase \in {"maps", "window", "pause"} => tool \in AodTools
    /\ phase = "modprobe" => tool = "smbslower"
    /\ tool \notin {"smbslower", "smbiosnoop"} => cifs

\* What the error paths do to err and fault.
ExitInv ==
    /\ phase \notin {"cleanup", "done"} => fault = "none"
    /\ err = "negative" /\ fault = "none" => tool \in VfsTools /\ exiting
    /\ phase = "cleanup" /\ err # "negative" =>
         \/ fault \in {"none", "realpath", "signal"}
         \/ fault = "map" /\ tool \in AodTools \ {"smbiosnoop"}

\* The options that parse_arg has seen.
Handed(key) == \E i \in 1 .. argi : opts[i].key = key

HeldCmds == {p \in Under(opts, "c") \cup Under(opts, "x") : p[1] <= argi /\ ValidCommand(Token(opts, p))}
HeldErrs == {p \in Under(opts, "e") : /\ p[1] <= argi
                                      /\ tool = "nfsiosnoop" => Token(opts, p).val \in KnownErrors}

\* The lists hold what the options so far name, all of it when the lists fit.
ParseInv ==
    tool \in AodTools =>
      /\ \A i \in 1 .. argi : opts[i].key \in IF tool \in Slowers THEN {"c", "x"} ELSE {"c", "e"}
      /\ tool \in Slowers => /\ filter.include <=> Handed("c")
                             /\ filter.exclude <=> Handed("x")
                             /\ ~(filter.include /\ filter.exclude)
      /\ tool \in Snoopers => /\ filter.setc <=> Handed("c")
                              /\ filter.sete <=> Handed("e")
      /\ filter.cmds \subseteq HeldCmds /\ filter.errs \subseteq HeldErrs
      /\ \A p \in filter.errs : Token(opts, p).val \in Nat
      /\ Fits(opts) => HeldCmds \subseteq filter.cmds /\ HeldErrs \subseteq filter.errs

\* A program is attached after the whole command line went into the filter maps.
FilterInv ==
    /\ tool \in AodTools /\ phase \notin {"parse", "cleanup", "done"} => argi = Len(opts)
    /\ phase \in {"parse", "open", "modprobe", "select", "load"} => map = {}
    /\ phase = "maps" => map \cup writes = MapWrites(tool, opts, filter)
    /\ phase \in {"attach"} \cup After \/ attached # {} =>
         /\ tool \in AodTools => argi = Len(opts) /\ map = MapWrites(tool, opts, filter)
         /\ tool \in VfsTools /\ line.mount # "none" => mountSet

\* The programs selected are to be attached or are attached.
SelectInv ==
    /\ todo \cap attached = {}
    /\ phase \in {"parse", "open", "modprobe", "select", "done"} => todo = {}
    /\ phase \notin {"attach", "cleanup"} \cup After => attached = {}
    /\ phase \in {"load"} \cup Loaded => todo \cup attached = Selected /\ ~Unsupported
    /\ phase \in Loaded => (tool # "smbiosnoop" => "vmlinux" \in Seen.btf)
    /\ phase \in After => todo = {}
    /\ phase \in Loaded => \A p \in attached : Attaches(Seen, p)

IInv == /\ TypeInv /\ PhaseInv /\ ExitInv /\ ParseInv /\ FilterInv /\ SelectInv /\ ExitStatusHonest

\* What follows when the command line and the parsed lists stay.
LEMMA SameParse ==
    ASSUME IInv, UNCHANGED <<tool, line, argi, filter>>
    PROVE  ParseInv' /\ opts' = opts /\ filter' \in FilterType'
<1>1. opts' = opts
    BY DEF opts
<1>2. HeldCmds' = HeldCmds /\ HeldErrs' = HeldErrs /\ \A key : Handed(key)' <=> Handed(key)
    BY <1>1 DEF HeldCmds, HeldErrs, Handed
<1>3. ParseInv'
    BY <1>1, <1>2 DEF IInv, ParseInv
<1>4. filter' \in FilterType'
    BY <1>1 DEF IInv, TypeInv, FilterType
<1> QED BY <1>1, <1>3, <1>4

\* The same with the kernel.
LEMMA SameLine ==
    ASSUME IInv, UNCHANGED <<tool, kernel, line, argi, filter, cifs>>
    PROVE  /\ ParseInv' /\ opts' = opts /\ filter' \in FilterType'
           /\ Seen' = Seen /\ Selected' = Selected /\ (Unsupported' <=> Unsupported)
<1>1. Seen' = Seen
    BY DEF Seen
<1>2. Selected' = Selected /\ (Unsupported' <=> Unsupported)
    BY <1>1 DEF Selected, Unsupported
<1> QED BY <1>1, <1>2, SameParse

\* A tool traces the VFS or is one of the aod tools.
LEMMA ToolKind == TypeInv => (tool \in VfsTools <=> tool \notin AodTools)
    BY LoaderAssumption DEF TypeInv, VfsTools, AodTools, Slowers, Snoopers

Option == [key : STRING, list : Seq([val : Int, whole : BOOLEAN])]

\* The options are a list of lists.
LEMMA OptionsType == TypeInv => opts \in Seq(Option)
    BY LoaderAssumption DEF TypeInv, opts, Option

\* What goes into the maps are numbers.
LEMMA WritesType ==
    ASSUME TypeInv, ParseInv, tool \in AodTools
    PROVE  MapWrites(tool, opts, filter) \subseteq Entry
<1>1. \A c \in 0 .. (MaxCommands - 1) : c \in Nat
    BY FilterAssumption
<1>2. CASE tool \in Slowers
  <2>1. Denylist(opts, filter) \subseteq Nat
    BY <1>1 DEF Denylist
  <2> QED BY <1>2, <2>1 DEF MapWrites, Entry
<1>3. CASE tool \notin Slowers
  <2>1. Values(opts, filter.cmds) \subseteq Nat
    BY <1>1 DEF ParseInv, HeldCmds, ValidCommand, Values
  <2>2. Values(opts, filter.errs) \subseteq Nat
    BY DEF ParseInv, Values
  <2> QED BY <1>3, <2>1, <2>2 DEF MapWrites, Entry
<1> QED BY <1>2, <1>3

(***************************************************************************)
(* The parser: one option more.                                            *)
(***************************************************************************)

\* A place names one token, and there are finitely many.
LEMMA PlaceType ==
    ASSUME TypeInv
    PROVE  /\ IsFiniteSet(Places(opts)) /\ DOMAIN opts = 1 .. Len(opts) /\ Len(opts) \in Nat
           /\ \A i \in 1 .. Len(opts) : \A p \in Tokens(opts, i) : p \in Places(opts) /\ p[1] = i
           /\ \A p \in Places(opts) :
                /\ p[1] \in 1 .. Len(opts) /\ p \in Tokens(opts, p[1]) /\ p[2] \in Nat
                /\ Token(opts, p).val \in Int
<1>1. opts \in Seq(Option)
    BY OptionsType
<1>2. DOMAIN opts = 1 .. Len(opts) /\ Len(opts) \in Nat /\ \A i \in 1 .. Len(opts) : opts[i] \in Option
    BY <1>1
<1> DEFINE T == [val : Int, whole : BOOLEAN]
<1>3. \A i \in 1 .. Len(opts) : opts[i].list \in Seq(T)
    BY <1>2 DEF Option
<1>4. \A i \in 1 .. Len(opts) : /\ DOMAIN opts[i].list = 1 .. Len(opts[i].list) /\ Len(opts[i].list) \in Nat
                                 /\ \A j \in DOMAIN opts[i].list : opts[i].list[j] \in T
  <2> TAKE i \in 1 .. Len(opts)
  <2> DEFINE s == opts[i].list
  <2>1. s \in Seq(T)
    BY <1>3
  <2> HIDE DEF s, T
  <2>2. DOMAIN s = 1 .. Len(s) /\ Len(s) \in Nat /\ \A j \in DOMAIN s : s[j] \in T
    BY <2>1
  <2> QED BY <2>2 DEF s
<1>5. \A i \in 1 .. Len(opts) : IsFiniteSet(Tokens(opts, i))
  <2> TAKE i \in 1 .. Len(opts)
  <2> DEFINE m == Len(opts[i].list)
  <2>0. m \in Int
    BY <1>4
  <2> HIDE DEF m
  <2>1. IsFiniteSet(1 .. m)
    BY <2>0, FS_Interval
  <2>2. IsFiniteSet({i})
    BY FS_Singleton
  <2> QED BY <1>4, <2>1, <2>2, FS_Product DEF Tokens, m
<1>6. IsFiniteSet(Places(opts))
  <2> DEFINE S == {Tokens(opts, i) : i \in DOMAIN opts}
  <2>1. IsFiniteSet(DOMAIN opts)
    BY <1>2, FS_Interval
  <2>2. IsFiniteSet(S)
    <3> DEFINE tokens == [i \in DOMAIN opts |-> Tokens(opts, i)]
    <3>1. tokens \in Surjection(DOMAIN opts, S)
      BY DEF Surjection
    <3> QED BY <2>1, <3>1, FS_Surjection
  <2>3. \A t \in S : IsFiniteSet(t)
    BY <1>2, <1>5
  <2> HIDE DEF S
  <2>4. IsFiniteSet(UNION S)
    BY <2>2, <2>3, FS_UNION
  <2> QED BY <2>4 DEF S, Places
<1>7. \A i \in 1 .. Len(opts) : \A p \in Tokens(opts, i) : p \in Places(opts) /\ p[1] = i
    BY <1>2 DEF Tokens, Places
<1>8. ASSUME NEW p \in Places(opts)
      PROVE  /\ p[1] \in 1 .. Len(opts) /\ p \in Tokens(opts, p[1]) /\ p[2] \in Nat
             /\ Token(opts, p).val \in Int
  <2>1. PICK i \in 1 .. Len(opts) : p \in Tokens(opts, i)
    BY <1>2 DEF Places
  <2>2. p[1] = i /\ p[2] \in DOMAIN opts[i].list
    BY <2>1 DEF Tokens
  <2>3. Token(opts, p) \in T /\ p[2] \in Nat
    BY <1>4, <2>2 DEF Token
  <2> QED BY <2>1, <2>2, <2>3
<1> QED BY <1>2, <1>6, <1>7, <1>8

\* What fits is stored whole.
LEMMA CollectAll ==
    ASSUME NEW S, NEW room \in Int, IsFiniteSet(S), Cardinality(S) <= room, \A p \in S : p[2] \in Nat
    PROVE  Collect(S, room) = S
<1> SUFFICES ASSUME NEW p \in S
             PROVE  Cardinality({q \in S : q[2] < p[2]}) < room
    BY DEF Collect
<1> DEFINE Q == {q \in S : q[2] < p[2]}
<1>1. Q \in SUBSET S /\ Q # S
  <2>1. p \notin Q
    OBVIOUS
  <2> QED BY <2>1
<1> HIDE DEF Q
<1>2. /\ IsFiniteSet(Q) /\ Cardinality(Q) <= Cardinality(S)
      /\ Cardinality(Q) # Cardinality(S)
    BY <1>1, FS_Subset
<1>3. Cardinality(Q) \in Nat /\ Cardinality(S) \in Nat
    BY <1>2, FS_CardinalityType
<1>4. Cardinality(Q) < room
    BY <1>2, <1>3
<1> QED BY <1>4 DEF Q

\* What option n + 1 = argi + 1 adds to the places that may be held.
LEMMA HeldNext ==
    ASSUME TypeInv, PhaseInv, argi < Len(opts), UNCHANGED <<line, tool>>, argi' = argi + 1
    PROVE  LET n == argi + 1
               key == opts[n].key
               known == {p \in Tokens(opts, n) : tool = "nfsiosnoop" => Token(opts, p).val \in KnownErrors}
           IN  /\ n \in 1 .. Len(opts) /\ opts' = opts
               /\ HeldCmds' = HeldCmds \cup (IF key \in {"c", "x"} THEN Commands(opts, n) ELSE {})
               /\ HeldErrs' = HeldErrs \cup (IF key = "e" THEN known ELSE {})
               /\ \A k : Handed(k)' <=> Handed(k) \/ key = k
               /\ \A i \in 1 .. argi' : i \in 1 .. argi \/ i = n
<1> DEFINE n == argi + 1
           key == opts[n].key
           known == {p \in Tokens(opts, n) : tool = "nfsiosnoop" => Token(opts, p).val \in KnownErrors}
<1>1. argi \in Nat /\ Len(opts) \in Nat /\ n \in 1 .. Len(opts) /\ opts' = opts /\ tool' = tool
    BY PlaceType DEF TypeInv, opts
<1>2. argi' = n /\ \A i \in 1 .. n : i \in 1 .. argi \/ i = n
    BY <1>1
<1>3. \A p \in Places(opts) : p[1] <= n <=> p[1] <= argi \/ p[1] = n
    BY <1>1, PlaceType
<1>4. \A p : p \in Tokens(opts, n) <=> p \in Places(opts) /\ p[1] = n
    BY <1>1, PlaceType
<1> HIDE DEF n
<1>5. \A p : p \in HeldCmds' <=> p \in HeldCmds \/ (key \in {"c", "x"} /\ p \in Commands(opts, n))
    BY <1>1, <1>2, <1>3, <1>4 DEF HeldCmds, Under, Commands
<1>6. \A p : p \in HeldErrs' <=> p \in HeldErrs \/ (key = "e" /\ p \in known)
    BY <1>1, <1>2, <1>3, <1>4 DEF HeldErrs, Under
<1>7. \A k : Handed(k)' <=> Handed(k) \/ key = k
  <2>1. \A i : i \in 1 .. n <=> i \in 1 .. argi \/ i = n
    BY <1>1 DEF n
  <2> QED BY <1>1, <1>2, <2>1 DEF Handed
<1> HIDE DEF key, known
<1>8. HeldCmds' = HeldCmds \cup (IF key \in {"c", "x"} THEN Commands(opts, n) ELSE {})
    BY <1>5
<1>9. HeldErrs' = HeldErrs \cup (IF key = "e" THEN known ELSE {})
    BY <1>6
<1> QED BY <1>1, <1>2, <1>7, <1>8, <1>9 DEF n, key, known

Room(key) == IF key = "e" THEN MaxErrors ELSE MaxCommands

\* When the lists fit, the tokens of an option find room beside those that are held.
LEMMA RoomLeft ==
    ASSUME TypeInv, NEW n \in 1 .. Len(opts), opts[n].key \in {"c", "x", "e"}, Fits(opts),
           NEW S, S \subseteq Tokens(opts, n),
           NEW H, H \subseteq Under(opts, opts[n].key), \A p \in H : p[1] # n
    PROVE  /\ Collect(S, Room(opts[n].key)) = S
           /\ Collect(S, Room(opts[n].key) - Cardinality(H)) = S
<1> DEFINE key == opts[n].key
           max == Room(key)
<1>1. /\ S \subseteq Under(opts, key) /\ S \cap H = {} /\ IsFiniteSet(Under(opts, key))
      /\ \A p \in S : p[2] \in Nat
  <2>1. \A p \in S : p \in Places(opts) /\ p[1] = n /\ p[2] \in Nat
    BY PlaceType
  <2>2. IsFiniteSet(Places(opts)) /\ Under(opts, key) \in SUBSET Places(opts)
    BY PlaceType DEF Under
  <2> QED BY <2>1, <2>2, FS_Subset DEF Under
<1>2. IsFiniteSet(S) /\ IsFiniteSet(H) /\ S \cup H \in SUBSET Under(opts, key)
    BY <1>1, FS_Subset
<1>3. Cardinality(S \cup H) <= Cardinality(Under(opts, key)) /\ Cardinality(S \cup H) = Cardinality(S) + Cardinality(H) - 0
    BY <1>1, <1>2, FS_Subset, FS_Union, FS_EmptySet
<1>4. /\ Cardinality(S) \in Nat /\ Cardinality(H) \in Nat /\ Cardinality(Under(opts, key)) \in Nat
      /\ max \in Nat
    BY <1>1, <1>2, FS_CardinalityType, FilterAssumption DEF Room
<1>5. Cardinality(Under(opts, key)) <= max
    BY DEF Fits, Room
<1> HIDE DEF max, key
<1>6. Cardinality(S) <= max /\ Cardinality(S) <= max - Cardinality(H)
    BY <1>3, <1>4, <1>5
<1> QED BY <1>1, <1>2, <1>4, <1>6, CollectAll DEF max, key

\* What SlowerOption does to the parser's record when it accepts the option.
LEMMA SlowerFields ==
    ASSUME NEW f \in FilterType, NEW n, NEW g, g = SlowerOption(f, opts, n), ~g.usage,
           Commands(opts, n) \subseteq Places(opts)
    PROVE  LET key == opts[n].key
               cmds == Collect(Commands(opts, n), MaxCommands)
           IN  /\ g \in FilterType /\ g.cmds = f.cmds \cup cmds /\ g.errs = f.errs
               /\ g.include <=> f.include \/ key = "c"
               /\ g.exclude <=> f.exclude \/ key = "x"
               /\ key \in {"c", "x"} /\ ~(key = "c" /\ f.exclude) /\ ~(key = "x" /\ f.include)
<1> DEFINE key == opts[n].key
           cmds == Collect(Commands(opts, n), MaxCommands)
           include == f.include \/ key = "c"
           exclude == f.exclude \/ key = "x"
           all == f.cmds \cup cmds
           usage == \/ key = "c" /\ f.exclude
                    \/ key = "x" /\ f.include
                    \/ key \notin {"c", "x"}
                    \/ cmds = {}
<1>1. g = [f EXCEPT !.include = include, !.exclude = exclude, !.cmds = all, !.usage = usage]
    BY DEF SlowerOption
<1>2. include \in BOOLEAN /\ exclude \in BOOLEAN /\ usage \in BOOLEAN
    BY Zenon
<1>3. all \subseteq Places(opts)
    BY DEF FilterType, Collect
<1>4. include <=> f.include \/ key = "c"
    OBVIOUS
<1>5. exclude <=> f.exclude \/ key = "x"
    OBVIOUS
<1>6. ~usage => key \in {"c", "x"} /\ ~(key = "c" /\ f.exclude) /\ ~(key = "x" /\ f.include)
    OBVIOUS
<1>7. all = f.cmds \cup cmds
    OBVIOUS
<1> HIDE DEF key, cmds, include, exclude, all, usage
<1>8. g.usage = usage /\ g.include = include /\ g.exclude = exclude /\ g.cmds = all /\ g.errs = f.errs
    BY <1>1 DEF FilterType
<1>9. usage = FALSE
    BY <1>2, <1>8
<1>10. g \in FilterType
    BY <1>1, <1>2, <1>3, <1>9 DEF FilterType
<1>11. (g.include <=> include) /\ (g.exclude <=> exclude)
    BY <1>8
<1> QED BY <1>4, <1>5, <1>6, <1>7, <1>8, <1>9, <1>10, <1>11 DEF key, cmds

\* The same for nfsiosnoop.
LEMMA NfsFields ==
    ASSUME NEW f \in FilterType, NEW n, NEW g, g = NfsIoSnoopOption(f, opts, n), ~g.usage,
           Tokens(opts, n) \subseteq Places(opts)
    PROVE  LET key == opts[n].key
               known == {p \in Tokens(opts, n) : Token(opts, p).val \in KnownErrors}
           IN  /\ g \in FilterType /\ key \in {"c", "e"}
               /\ g.setc <=> f.setc \/ key = "c"
               /\ g.sete <=> f.sete \/ key = "e"
               /\ g.cmds = f.cmds \cup (IF key = "c" THEN Collect(Commands(opts, n), MaxCommands - Cardinality(f.cmds)) ELSE {})
               /\ g.errs = f.errs \cup (IF key = "e" THEN Collect(known, MaxErrors - Cardinality(f.errs)) ELSE {})
<1> DEFINE key == opts[n].key
           known == {p \in Tokens(opts, n) : Token(opts, p).val \in KnownErrors}
           cmds == f.cmds \cup Collect(Commands(opts, n), MaxCommands - Cardinality(f.cmds))
           errs == f.errs \cup Collect(known, MaxErrors - Cardinality(f.errs))
           usagec == cmds = {}
           usagee == errs = {} \/ \E p \in Tokens(opts, n) : ~ValidStatus(Token(opts, p))
<1>1. g = CASE key = "c" -> [f EXCEPT !.setc = TRUE, !.cmds = cmds, !.usage = usagec]
            [] key = "e" -> [f EXCEPT !.sete = TRUE, !.errs = errs, !.usage = usagee]
            [] OTHER -> [f EXCEPT !.usage = TRUE]
    BY DEF NfsIoSnoopOption
<1>2. usagec \in BOOLEAN /\ usagee \in BOOLEAN
    BY Zenon
<1>3. cmds \subseteq Places(opts) /\ errs \subseteq Places(opts)
    BY DEF FilterType, Collect, Commands
<1>4. /\ cmds = f.cmds \cup Collect(Commands(opts, n), MaxCommands - Cardinality(f.cmds))
      /\ errs = f.errs \cup Collect(known, MaxErrors - Cardinality(f.errs))
    OBVIOUS
<1> HIDE DEF key, cmds, errs, usagec, usagee, known
<1>5. CASE key = "c"
  <2>1. g = [f EXCEPT !.setc = TRUE, !.cmds = cmds, !.usage = usagec]
    BY <1>1, <1>5
  <2>2. g.usage = usagec /\ g.setc = TRUE /\ g.sete = f.sete /\ g.cmds = cmds /\ g.errs = f.errs
    BY <2>1 DEF FilterType
  <2>3. usagec = FALSE
    BY <1>2, <2>2
  <2>4. g \in FilterType
    BY <1>3, <2>1, <2>3 DEF FilterType
  <2> QED BY <1>4, <1>5, <2>2, <2>4 DEF key, known
<1>6. CASE key = "e"
  <2>1. g = [f EXCEPT !.sete = TRUE, !.errs = errs, !.usage = usagee]
    BY <1>1, <1>6
  <2>2. g.usage = usagee /\ g.sete = TRUE /\ g.setc = f.setc /\ g.errs = errs /\ g.cmds = f.cmds
    BY <2>1 DEF FilterType
  <2>3. usagee = FALSE
    BY <1>2, <2>2
  <2>4. g \in FilterType
    BY <1>3, <2>1, <2>3 DEF FilterType
  <2> QED BY <1>4, <1>6, <2>2, <2>4 DEF key, known
<1>7. CASE key \notin {"c", "e"}
  <2>1. g = [f EXCEPT !.usage = TRUE]
    BY <1>1, <1>7
  <2> QED BY <2>1 DEF FilterType
<1> QED BY <1>5, <1>6, <1>7

\* The same for smbiosnoop.
LEMMA SmbFields ==
    ASSUME NEW f \in FilterType, NEW n, NEW g, g = SmbIoSnoopOption(f, opts, n), ~g.usage,
           Tokens(opts, n) \subseteq Places(opts)
    PROVE  LET key == opts[n].key
           IN  /\ g \in FilterType /\ key \in {"c", "e"}
               /\ g.setc <=> f.setc \/ key = "c"
               /\ g.sete <=> f.sete \/ key = "e"
               /\ g.cmds = f.cmds \cup (IF key = "c" THEN Tokens(opts, n) ELSE {})
               /\ g.errs = f.errs \cup (IF key = "e" THEN Tokens(opts, n) ELSE {})
               /\ key = "c" => \A p \in Tokens(opts, n) : ValidCommand(Token(opts, p))
               /\ key = "e" => \A p \in Tokens(opts, n) : ValidStatus(Token(opts, p))
<1> DEFINE key == opts[n].key
           cmds == f.cmds \cup Tokens(opts, n)
           errs == f.errs \cup Tokens(opts, n)
           usagec == \/ cmds = {} \/ Cardinality(cmds) > MaxCommands
                     \/ \E p \in Tokens(opts, n) : ~(ValidCommand(Token(opts, p)) /\ Token(opts, p).whole)
           usagee == \/ errs = {} \/ Cardinality(errs) > MaxErrors
                     \/ \E p \in Tokens(opts, n) : ~ValidStatus(Token(opts, p))
<1>1. g = CASE key = "c" -> [f EXCEPT !.setc = TRUE, !.cmds = cmds, !.usage = usagec]
            [] key = "e" -> [f EXCEPT !.sete = TRUE, !.errs = errs, !.usage = usagee]
            [] OTHER -> [f EXCEPT !.usage = TRUE]
    BY DEF SmbIoSnoopOption
<1>2. usagec \in BOOLEAN /\ usagee \in BOOLEAN
    BY Zenon
<1>3. cmds \subseteq Places(opts) /\ errs \subseteq Places(opts)
    BY DEF FilterType
<1>4. cmds = f.cmds \cup Tokens(opts, n) /\ errs = f.errs \cup Tokens(opts, n)
    OBVIOUS
<1>8. ~usagec => \A p \in Tokens(opts, n) : ValidCommand(Token(opts, p))
    OBVIOUS
<1>9. ~usagee => \A p \in Tokens(opts, n) : ValidStatus(Token(opts, p))
    OBVIOUS
<1> HIDE DEF key, cmds, errs, usagec, usagee
<1>5. CASE key = "c"
  <2>1. g = [f EXCEPT !.setc = TRUE, !.cmds = cmds, !.usage = usagec]
    BY <1>1, <1>5
  <2>2. g.usage = usagec /\ g.setc = TRUE /\ g.sete = f.sete /\ g.cmds = cmds /\ g.errs = f.errs
    BY <2>1 DEF FilterType
  <2>3. usagec = FALSE
    BY <1>2, <2>2
  <2>4. g \in FilterType
    BY <1>3, <2>1, <2>3 DEF FilterType
  <2> QED BY <1>4, <1>5, <1>8, <2>2, <2>3, <2>4 DEF key
<1>6. CASE key = "e"
  <2>1. g = [f EXCEPT !.sete = TRUE, !.errs = errs, !.usage = usagee]
    BY <1>1, <1>6
  <2>2. g.usage = usagee /\ g.sete = TRUE /\ g.setc = f.setc /\ g.errs = errs /\ g.cmds = f.cmds
    BY <2>1 DEF FilterType
  <2>3. usagee = FALSE
    BY <1>2, <2>2
  <2>4. g \in FilterType
    BY <1>3, <2>1, <2>3 DEF FilterType
  <2> QED BY <1>4, <1>6, <1>9, <2>2, <2>3, <2>4 DEF key
<1>7. CASE key \notin {"c", "e"}
  <2>1. g = [f EXCEPT !.usage = TRUE]
    BY <1>1, <1>7
  <2> QED BY <2>1 DEF FilterType
<1> QED BY <1>5, <1>6, <1>7

\* parse_arg keeps the lists true to the options it has seen.
LEMMA ParseKeeps ==
    ASSUME IInv, ParseArg
    PROVE  ParseInv' /\ filter' \in FilterType'
<1> DEFINE n == argi + 1
           key == opts[n].key
           f == parse_arg(tool, filter, opts, n)
           known == {p \in Tokens(opts, n) : tool = "nfsiosnoop" => Token(opts, p).val \in KnownErrors}
<1>1. tool \in AodTools /\ tool' = tool /\ line' = line /\ argi < Len(opts) /\ opts' = opts
    BY DEF ParseArg, opts
<1>2. CASE UNCHANGED <<argi, filter>>
    BY <1>1, <1>2, SameLine DEF ParseArg
<1>3. CASE ~f.usage /\ argi' = n /\ filter' = f
  <2>1. /\ n \in 1 .. Len(opts) /\ opts' = opts
        /\ HeldCmds' = HeldCmds \cup (IF key \in {"c", "x"} THEN Commands(opts, n) ELSE {})
        /\ HeldErrs' = HeldErrs \cup (IF key = "e" THEN known ELSE {})
        /\ \A k : Handed(k)' <=> Handed(k) \/ key = k
        /\ \A i \in 1 .. argi' : i \in 1 .. argi \/ i = n
    BY <1>1, <1>3, HeldNext DEF IInv
  <2>2. filter \in FilterType /\ Tokens(opts, n) \subseteq Places(opts) /\ Commands(opts, n) \subseteq Tokens(opts, n)
    BY <2>1, PlaceType DEF IInv, TypeInv, Commands
  <2> HIDE DEF n, key, f, known
  <2>3. /\ \A i \in 1 .. argi : opts[i].key \in IF tool \in Slowers THEN {"c", "x"} ELSE {"c", "e"}
        /\ filter.cmds \subseteq HeldCmds /\ filter.errs \subseteq HeldErrs
        /\ \A p \in filter.errs : Token(opts, p).val \in Nat
        /\ Fits(opts) => HeldCmds \subseteq filter.cmds /\ HeldErrs \subseteq filter.errs
    BY <1>1 DEF IInv, ParseInv
  <2>4. \A p \in HeldCmds \cup HeldErrs : p \in Places(opts) /\ p[1] # n
    <3>1. \A p \in HeldCmds \cup HeldErrs : p \in Places(opts) /\ p[1] <= argi
      BY DEF HeldCmds, HeldErrs, Under
    <3>2. \A p \in Places(opts) : p[1] \in Int
      BY PlaceType DEF IInv
    <3> QED BY <3>1, <3>2 DEF n, IInv, TypeInv
  <2>5. CASE tool \in Slowers
    <3> DEFINE cmds == Collect(Commands(opts, n), MaxCommands)
    <3>1. f = SlowerOption(filter, opts, n)
      BY <2>5 DEF f, parse_arg, Slowers
    <3>2. /\ f \in FilterType /\ f.cmds = filter.cmds \cup cmds /\ f.errs = filter.errs
          /\ f.include <=> filter.include \/ key = "c"
          /\ f.exclude <=> filter.exclude \/ key = "x"
          /\ key \in {"c", "x"} /\ ~(key = "c" /\ filter.exclude) /\ ~(key = "x" /\ filter.include)
      BY <1>3, <2>2, <3>1, SlowerFields DEF key
    <3>3. cmds \subseteq Commands(opts, n)
      BY DEF Collect
    <3>4. ASSUME Fits(opts) PROVE cmds = Commands(opts, n)
      <4> DEFINE none == {}
      <4>1. none \subseteq Under(opts, key) /\ \A p \in none : p[1] # n
        OBVIOUS
      <4>2. MaxCommands = Room(key)
        BY <3>2 DEF Room
      <4> HIDE DEF none
      <4>3. key = opts[n].key /\ key \in {"c", "x", "e"} /\ TypeInv
        BY <3>2 DEF IInv, key
      <4> QED BY <2>1, <2>2, <3>4, <4>1, <4>2, <4>3, RoomLeft
    <3> HIDE DEF cmds
    <3>5. /\ f.cmds \subseteq HeldCmds' /\ f.errs \subseteq HeldErrs'
          /\ Fits(opts) => HeldCmds' \subseteq f.cmds /\ HeldErrs' \subseteq f.errs
          /\ \A p \in f.errs : Token(opts, p).val \in Nat
      BY <2>1, <2>3, <3>2, <3>3, <3>4
    <3>6. /\ f.include <=> Handed("c")'
          /\ f.exclude <=> Handed("x")'
          /\ ~(f.include /\ f.exclude)
      BY <1>1, <2>1, <2>5, <3>2 DEF IInv, ParseInv
    <3>7. \A i \in 1 .. argi' : opts[i].key \in {"c", "x"}
      BY <2>1, <2>3, <2>5, <3>2 DEF key
    <3>8. tool \notin Snoopers
      BY <2>5 DEF Slowers, Snoopers
    <3>9. ParseInv'
      BY <1>1, <1>3, <2>5, <3>5, <3>6, <3>7, <3>8 DEF ParseInv
    <3> QED BY <1>1, <1>3, <3>2, <3>9 DEF FilterType
  <2>6. CASE tool = "nfsiosnoop"
    <3> DEFINE cmds == Collect(Commands(opts, n), MaxCommands - Cardinality(filter.cmds))
               errs == Collect(known, MaxErrors - Cardinality(filter.errs))
    <3>1. f = NfsIoSnoopOption(filter, opts, n)
      BY <2>6 DEF f, parse_arg, Slowers
    <3>2. known = {p \in Tokens(opts, n) : Token(opts, p).val \in KnownErrors}
      BY <2>6 DEF known
    <3>3. /\ f \in FilterType /\ key \in {"c", "e"}
          /\ f.setc <=> filter.setc \/ key = "c"
          /\ f.sete <=> filter.sete \/ key = "e"
          /\ f.cmds = filter.cmds \cup (IF key = "c" THEN cmds ELSE {})
          /\ f.errs = filter.errs \cup (IF key = "e" THEN errs ELSE {})
      BY <1>3, <2>2, <3>1, <3>2, NfsFields DEF key
    <3>4. cmds \subseteq Commands(opts, n) /\ errs \subseteq known
      BY DEF Collect
    <3>5. tool \notin Slowers /\ tool \in Snoopers
      BY <2>6 DEF Slowers, Snoopers
    <3>6. ASSUME Fits(opts), key = "c" PROVE cmds = Commands(opts, n)
      <4>1. filter.cmds \subseteq Under(opts, key) /\ \A p \in filter.cmds : p[1] # n
        <5>1. \A p \in HeldCmds : p \in Under(opts, "c")
          <6>1. \A p \in HeldCmds : p[1] \in 1 .. argi
            BY PlaceType DEF IInv, TypeInv, HeldCmds, Under
          <6> QED BY <2>3, <3>5, <6>1 DEF HeldCmds, Under
        <5> QED BY <2>3, <2>4, <3>6, <5>1
      <4>2. MaxCommands = Room(key)
        BY <3>6 DEF Room
      <4> DEFINE H == filter.cmds
                 S == Commands(opts, n)
      <4>3. /\ n \in 1 .. Len(opts) /\ opts[n].key \in {"c", "x", "e"} /\ TypeInv
            /\ H \subseteq Under(opts, opts[n].key) /\ S \subseteq Tokens(opts, n)
        BY <2>1, <2>2, <3>3, <4>1 DEF IInv, key
      <4>4. \A p \in H : p[1] # n
        BY <4>1
      <4> HIDE DEF H, S
      <4>5. Collect(S, Room(opts[n].key) - Cardinality(H)) = S
        BY <3>6, <4>3, <4>4, RoomLeft
      <4> QED BY <4>2, <4>5 DEF H, S, key
    <3>7. ASSUME Fits(opts), key = "e" PROVE errs = known
      <4>1. filter.errs \subseteq Under(opts, key) /\ \A p \in filter.errs : p[1] # n
        BY <2>3, <2>4, <3>7 DEF HeldErrs
      <4>2. MaxErrors = Room(key)
        BY <3>7 DEF Room
      <4> DEFINE H == filter.errs
      <4>3. /\ n \in 1 .. Len(opts) /\ opts[n].key \in {"c", "x", "e"} /\ TypeInv
            /\ H \subseteq Under(opts, opts[n].key)
        BY <2>1, <3>3, <4>1 DEF IInv, key
      <4>4. (\A p \in H : p[1] # n) /\ known \subseteq Tokens(opts, n)
        BY <4>1 DEF known
      <4> HIDE DEF H
      <4>5. Collect(known, Room(opts[n].key) - Cardinality(H)) = known
        BY <3>7, <4>3, <4>4, RoomLeft
      <4> QED BY <4>2, <4>5 DEF H, key
    <3> HIDE DEF cmds, errs
    <3>8. /\ f.cmds \subseteq HeldCmds' /\ f.errs \subseteq HeldErrs'
          /\ Fits(opts) => HeldCmds' \subseteq f.cmds /\ HeldErrs' \subseteq f.errs
      BY <2>1, <2>3, <3>3, <3>4, <3>6, <3>7
    <3>9. \A p \in f.errs : Token(opts, p).val \in Nat
      BY <2>3, <3>2, <3>3, <3>4, FilterAssumption
    <3>10. (f.setc <=> Handed("c")') /\ (f.sete <=> Handed("e")')
      BY <1>1, <2>1, <3>5, <3>3 DEF IInv, ParseInv
    <3>11. \A i \in 1 .. argi' : opts[i].key \in {"c", "e"}
      BY <2>1, <2>3, <3>3, <3>5 DEF key
    <3>12. ParseInv'
      BY <1>1, <1>3, <3>5, <3>8, <3>9, <3>10, <3>11 DEF ParseInv
    <3> QED BY <1>1, <1>3, <3>3, <3>12 DEF FilterType
  <2>7. CASE tool = "smbiosnoop"
    <3>1. f = SmbIoSnoopOption(filter, opts, n)
      BY <2>7 DEF f, parse_arg, Slowers
    <3>2. /\ f \in FilterType /\ key \in {"c", "e"}
          /\ f.setc <=> filter.setc \/ key = "c"
          /\ f.sete <=> filter.sete \/ key = "e"
          /\ f.cmds = filter.cmds \cup (IF key = "c" THEN Tokens(opts, n) ELSE {})
          /\ f.errs = filter.errs \cup (IF key = "e" THEN Tokens(opts, n) ELSE {})
          /\ key = "c" => \A p \in Tokens(opts, n) : ValidCommand(Token(opts, p))
          /\ key = "e" => \A p \in Tokens(opts, n) : ValidStatus(Token(opts, p))
      BY <1>3, <2>2, <3>1, SmbFields DEF key
    <3>3. tool \notin Slowers /\ tool \in Snoopers
      BY <2>7 DEF Slowers, Snoopers
    <3>4. known = Tokens(opts, n) /\ (key = "c" => Commands(opts, n) = Tokens(opts, n))
      BY <2>7, <3>2 DEF known, Commands
    <3>5. /\ f.cmds \subseteq HeldCmds' /\ f.errs \subseteq HeldErrs'
          /\ Fits(opts) => HeldCmds' \subseteq f.cmds /\ HeldErrs' \subseteq f.errs
      BY <2>1, <2>3, <3>2, <3>4
    <3>6. \A p \in f.errs : Token(opts, p).val \in Nat
      <4>1. \A p \in Tokens(opts, n) : Token(opts, p).val \in Int
        BY <2>2, PlaceType DEF IInv
      <4> QED BY <2>3, <3>2, <4>1 DEF ValidStatus
    <3>7. (f.setc <=> Handed("c")') /\ (f.sete <=> Handed("e")')
      BY <1>1, <2>1, <3>2, <3>3 DEF IInv, ParseInv
    <3>8. \A i \in 1 .. argi' : opts[i].key \in {"c", "e"}
      BY <2>1, <2>3, <3>2, <3>3 DEF key
    <3>9. ParseInv'
      BY <1>1, <1>3, <3>3, <3>5, <3>6, <3>7, <3>8 DEF ParseInv
    <3> QED BY <1>1, <1>3, <3>2, <3>9 DEF FilterType
  <2> QED BY <1>1, <2>5, <2>6, <2>7 DEF AodTools, Snoopers
<1> QED BY <1>2, <1>3 DEF ParseArg, opts

LEMMA LoaderStep == IInv /\ [Next]_vars => IInv'
<1> SUFFICES ASSUME IInv, [Next]_vars PROVE IInv'
    OBVIOUS
<1> (tool \in VfsTools <=> tool \notin AodTools) /\ opts = line.options
    BY ToolKind DEF IInv, opts
<1>1. CASE Parsed
  <2>1. UNCHANGED <<tool, kernel, line, argi, filter, cifs, signals>>
    BY <1>1 DEF Parsed, fixed
  <2>2. /\ ParseInv' /\ opts' = opts /\ filter' \in FilterType'
        /\ Seen' = Seen /\ Selected' = Selected /\ (Unsupported' <=> Unsupported)
    BY <2>1, SameLine
  <2>3. TypeInv' /\ PhaseInv'
    <3>1. handler' \in BOOLEAN
      <4>1. handler' = handler \/ handler' = (tool \in AodTools)
        BY <1>1 DEF Parsed
      <4>2. (tool \in AodTools) \in BOOLEAN /\ handler \in BOOLEAN
        BY DEF IInv, TypeInv
      <4> QED BY <4>1, <4>2, Zenon
    <3>2. TypeInv'
      BY <1>1, <2>1, <2>2, <3>1 DEF Parsed, Leave, IInv, TypeInv, Phases
    <3> QED BY <1>1, <2>1, <3>2 DEF Parsed, Leave, IInv, PhaseInv
  <2>4. ExitInv' /\ ExitStatusHonest'
    <3>1. ASSUME ~MustSpecify(tool, filter)
          PROVE  tool \in Snoopers /\ line.options = << >>
      <4>1. tool \in Snoopers /\ tool \notin Slowers /\ tool \in AodTools /\ argi = Len(opts)
        BY <1>1, <3>1 DEF MustSpecify, Parsed, Snoopers, Slowers, AodTools
      <4>2. ~Handed("c") /\ ~Handed("e")
        BY <3>1, <4>1 DEF MustSpecify, IInv, ParseInv
      <4>3. \A i \in 1 .. Len(opts) : FALSE
        BY <4>1, <4>2 DEF IInv, ParseInv, Handed
      <4>4. opts \in Seq(Option)
        BY OptionsType DEF IInv
      <4>5. Len(opts) = 0
        BY <4>3, <4>4
      <4> QED BY <4>1, <4>4, <4>5
    <3>2. ExitInv'
      BY <1>1, <2>1 DEF Parsed, Leave, IInv, TypeInv, ExitInv
    <3> QED BY <1>1, <2>1, <3>1, <3>2 DEF Parsed, Leave, IInv, TypeInv, ExitStatusHonest
  <2>5. FilterInv' /\ SelectInv'
    BY <1>1, <2>1, <2>2 DEF Parsed, Goto, Abort, Leave, IInv, PhaseInv, FilterInv, SelectInv, After, Loaded
  <2> QED BY <2>2, <2>3, <2>4, <2>5 DEF IInv
<1>2. CASE Open
  <2>1. UNCHANGED <<tool, kernel, line, argi, filter, cifs, signals>>
    BY <1>2 DEF Open, fixed
  <2>2. /\ ParseInv' /\ opts' = opts /\ filter' \in FilterType'
        /\ Seen' = Seen /\ Selected' = Selected /\ (Unsupported' <=> Unsupported)
    BY <2>1, SameLine
  <2>3. TypeInv' /\ PhaseInv'
    BY <1>2, <2>1, <2>2 DEF Open, Goto, Abort, Leave, IInv, TypeInv, Phases, PhaseInv
  <2>4. ExitInv' /\ ExitStatusHonest'
    BY <1>2, <2>1 DEF Open, Goto, Abort, Leave, IInv, TypeInv, PhaseInv, ExitInv, ExitStatusHonest
  <2>5. FilterInv' /\ SelectInv'
    BY <1>2, <2>1, <2>2 DEF Open, Goto, Abort, Leave, IInv, PhaseInv, FilterInv, SelectInv, After, Loaded
  <2> QED BY <2>2, <2>3, <2>4, <2>5 DEF IInv
<1>3. CASE Select
  <2>1. UNCHANGED <<tool, kernel, line, argi, filter, cifs, signals>>
    BY <1>3 DEF Select, fixed
  <2>2. /\ ParseInv' /\ opts' = opts /\ filter' \in FilterType'
        /\ Seen' = Seen /\ Selected' = Selected /\ (Unsupported' <=> Unsupported)
    BY <2>1, SameLine
  <2>3. TypeInv' /\ PhaseInv'
    BY <1>3, <2>1, <2>2 DEF Select, Goto, Abort, Leave, IInv, TypeInv, Phases, PhaseInv
  <2>4. ExitInv' /\ ExitStatusHonest'
    BY <1>3, <2>1 DEF Select, Goto, Abort, Leave, IInv, TypeInv, PhaseInv, ExitInv, ExitStatusHonest
  <2>5. FilterInv' /\ SelectInv'
    BY <1>3, <2>1, <2>2 DEF Select, Goto, Abort, Leave, IInv, PhaseInv, FilterInv, SelectInv, After, Loaded
  <2> QED BY <2>2, <2>3, <2>4, <2>5 DEF IInv
<1>4. CASE Load
  <2>1. UNCHANGED <<tool, kernel, line, argi, filter, cifs, signals>>
    BY <1>4 DEF Load, fixed
  <2>2. /\ ParseInv' /\ opts' = opts /\ filter' \in FilterType'
        /\ Seen' = Seen /\ Selected' = Selected /\ (Unsupported' <=> Unsupported)
    BY <2>1, SameLine
  <2>3. TypeInv' /\ PhaseInv'
    <3>1. writes' \subseteq Entry
      BY <1>4, WritesType DEF Load, IInv, TypeInv
    <3>2. TypeInv'
      BY <1>4, <2>1, <2>2, <3>1 DEF Load, Abort, IInv, TypeInv, Phases
    <3> QED BY <1>4, <2>1, <3>2 DEF Load, Abort, IInv, PhaseInv
  <2>4. ExitInv' /\ ExitStatusHonest'
    BY <1>4, <2>1 DEF Load, Goto, Abort, Leave, IInv, TypeInv, PhaseInv, ExitInv, ExitStatusHonest
  <2>5. FilterInv'
    BY <1>4, <2>1, <2>2 DEF Load, Abort, IInv, FilterInv, SelectInv, After
  <2>6. SelectInv'
    BY <1>4, <2>1, <2>2 DEF Load, Loadable, Abort, IInv, SelectInv, After, Loaded
  <2> QED BY <2>2, <2>3, <2>4, <2>5, <2>6 DEF IInv
<1>5. CASE SetMountFilter
  <2>1. UNCHANGED <<tool, kernel, line, argi, filter, cifs, signals>>
    BY <1>5 DEF SetMountFilter, fixed
  <2>2. /\ ParseInv' /\ opts' = opts /\ filter' \in FilterType'
        /\ Seen' = Seen /\ Selected' = Selected /\ (Unsupported' <=> Unsupported)
    BY <2>1, SameLine
  <2>3. TypeInv' /\ PhaseInv'
    <3>1. mountSet' \in BOOLEAN
      BY <1>5, Zenon DEF SetMountFilter, IInv, TypeInv
    <3>2. TypeInv'
      BY <1>5, <2>1, <2>2, <3>1 DEF SetMountFilter, Abort, IInv, TypeInv, Phases
    <3> QED BY <1>5, <2>1, <3>2 DEF SetMountFilter, Abort, IInv, PhaseInv
  <2>4. ExitInv' /\ ExitStatusHonest'
    BY <1>5, <2>1 DEF SetMountFilter, Goto, Abort, Leave, IInv, TypeInv, PhaseInv, ExitInv, ExitStatusHonest
  <2>5. FilterInv' /\ SelectInv'
    BY <1>5, <2>1, <2>2 DEF SetMountFilter, Goto, Abort, Leave, IInv, PhaseInv, FilterInv, SelectInv, After, Loaded
  <2> QED BY <2>2, <2>3, <2>4, <2>5 DEF IInv
<1>6. CASE UpdateFilter
  <2>1. UNCHANGED <<tool, kernel, line, argi, filter, cifs, signals>>
    BY <1>6 DEF UpdateFilter, fixed
  <2>2. /\ ParseInv' /\ opts' = opts /\ filter' \in FilterType'
        /\ Seen' = Seen /\ Selected' = Selected /\ (Unsupported' <=> Unsupported)
    BY <2>1, SameLine
  <2>3. TypeInv' /\ PhaseInv'
    BY <1>6, <2>1, <2>2 DEF UpdateFilter, Goto, Abort, Leave, IInv, TypeInv, Phases, PhaseInv
  <2>4. ExitInv' /\ ExitStatusHonest'
    BY <1>6, <2>1 DEF UpdateFilter, Goto, Abort, Leave, IInv, TypeInv, PhaseInv, ExitInv, ExitStatusHonest
  <2>5. FilterInv' /\ SelectInv'
    BY <1>6, <2>1, <2>2 DEF UpdateFilter, Goto, Abort, Leave, IInv, PhaseInv, FilterInv, SelectInv, After, Loaded
  <2> QED BY <2>2, <2>3, <2>4, <2>5 DEF IInv
<1>7. CASE FilterDone
  <2>1. UNCHANGED <<tool, kernel, line, argi, filter, cifs, signals>>
    BY <1>7 DEF FilterDone, fixed
  <2>2. /\ ParseInv' /\ opts' = opts /\ filter' \in FilterType'
        /\ Seen' = Seen /\ Selected' = Selected /\ (Unsupported' <=> Unsupported)
    BY <2>1, SameLine
  <2>3. TypeInv' /\ PhaseInv'
    BY <1>7, <2>1, <2>2 DEF FilterDone, Goto, Abort, Leave, IInv, TypeInv, Phases, PhaseInv
  <2>4. ExitInv' /\ ExitStatusHonest'
    BY <1>7, <2>1 DEF FilterDone, Goto, Abort, Leave, IInv, TypeInv, PhaseInv, ExitInv, ExitStatusHonest
  <2>5. FilterInv' /\ SelectInv'
    BY <1>7, <2>1, <2>2 DEF FilterDone, Goto, Abort, Leave, IInv, PhaseInv, FilterInv, SelectInv, After, Loaded
  <2> QED BY <2>2, <2>3, <2>4, <2>5 DEF IInv
<1>8. CASE AttachProgram
  <2>1. UNCHANGED <<tool, kernel, line, argi, filter, cifs, signals>>
    BY <1>8 DEF AttachProgram, fixed
  <2>2. /\ ParseInv' /\ opts' = opts /\ filter' \in FilterType'
        /\ Seen' = Seen /\ Selected' = Selected /\ (Unsupported' <=> Unsupported)
    BY <2>1, SameLine
  <2>3. TypeInv' /\ PhaseInv'
    BY <1>8, <2>1, <2>2 DEF AttachProgram, Goto, Abort, Leave, IInv, TypeInv, Phases, PhaseInv
  <2>4. ExitInv' /\ ExitStatusHonest'
    BY <1>8, <2>1 DEF AttachProgram, Goto, Abort, Leave, IInv, TypeInv, PhaseInv, ExitInv, ExitStatusHonest
  <2>5. FilterInv' /\ SelectInv'
    BY <1>8, <2>1, <2>2 DEF AttachProgram, Goto, Abort, Leave, IInv, PhaseInv, FilterInv, SelectInv, After, Loaded
  <2> QED BY <2>2, <2>3, <2>4, <2>5 DEF IInv
<1>9. CASE AttachDone
  <2>1. UNCHANGED <<tool, kernel, line, argi, filter, cifs, signals>>
    BY <1>9 DEF AttachDone, fixed
  <2>2. /\ ParseInv' /\ opts' = opts /\ filter' \in FilterType'
        /\ Seen' = Seen /\ Selected' = Selected /\ (Unsupported' <=> Unsupported)
    BY <2>1, SameLine
  <2>3. TypeInv' /\ PhaseInv'
    BY <1>9, <2>1, <2>2 DEF AttachDone, Goto, IInv, TypeInv, Phases, PhaseInv, VfsTools
  <2>4. ExitInv' /\ ExitStatusHonest'
    BY <1>9, <2>1 DEF AttachDone, Goto, Abort, Leave, IInv, TypeInv, PhaseInv, ExitInv, ExitStatusHonest
  <2>5. FilterInv' /\ SelectInv'
    BY <1>9, <2>1, <2>2 DEF AttachDone, Goto, Abort, Leave, IInv, PhaseInv, FilterInv, SelectInv, After, Loaded
  <2> QED BY <2>2, <2>3, <2>4, <2>5 DEF IInv
<1>10. CASE SetThreshold
  <2>1. UNCHANGED <<tool, kernel, line, argi, filter, cifs, signals>>
    BY <1>10 DEF SetThreshold, fixed
  <2>2. /\ ParseInv' /\ opts' = opts /\ filter' \in FilterType'
        /\ Seen' = Seen /\ Selected' = Selected /\ (Unsupported' <=> Unsupported)
    BY <2>1, SameLine
  <2>3. TypeInv' /\ PhaseInv'
    BY <1>10, <2>1, <2>2 DEF SetThreshold, Goto, Abort, Leave, IInv, TypeInv, Phases, PhaseInv
  <2>4. ExitInv' /\ ExitStatusHonest'
    BY <1>10, <2>1 DEF SetThreshold, Goto, Abort, Leave, IInv, TypeInv, PhaseInv, ExitInv, ExitStatusHonest
  <2>5. FilterInv' /\ SelectInv'
    BY <1>10, <2>1, <2>2 DEF SetThreshold, Goto, Abort, Leave, IInv, PhaseInv, FilterInv, SelectInv, After, Loaded
  <2> QED BY <2>2, <2>3, <2>4, <2>5 DEF IInv
<1>11. CASE NewRing
  <2>1. UNCHANGED <<tool, kernel, line, argi, filter, cifs, signals>>
    BY <1>11 DEF NewRing, fixed
  <2>2. /\ ParseInv' /\ opts' = opts /\ filter' \in FilterType'
        /\ Seen' = Seen /\ Selected' = Selected /\ (Unsupported' <=> Unsupported)
    BY <2>1, SameLine
  <2>3. TypeInv' /\ PhaseInv'
    BY <1>11, <2>1, <2>2 DEF NewRing, Goto, Abort, Leave, IInv, TypeInv, Phases, PhaseInv
  <2>4. ExitInv' /\ ExitStatusHonest'
    BY <1>11, <2>1 DEF NewRing, Goto, Abort, Leave, IInv, TypeInv, PhaseInv, ExitInv, ExitStatusHonest
  <2>5. FilterInv' /\ SelectInv'
    BY <1>11, <2>1, <2>2 DEF NewRing, Goto, Abort, Leave, IInv, PhaseInv, FilterInv, SelectInv, After, Loaded
  <2> QED BY <2>2, <2>3, <2>4, <2>5 DEF IInv
<1>12. CASE InstallHandler
  <2>1. UNCHANGED <<tool, kernel, line, argi, filter, cifs, signals>>
    BY <1>12 DEF InstallHandler, fixed
  <2>2. /\ ParseInv' /\ opts' = opts /\ filter' \in FilterType'
        /\ Seen' = Seen /\ Selected' = Selected /\ (Unsupported' <=> Unsupported)
    BY <2>1, SameLine
  <2>3. TypeInv' /\ PhaseInv'
    <3>1. handler' \in BOOLEAN
      BY <1>12, Zenon DEF InstallHandler, IInv, TypeInv
    <3>2. TypeInv'
      BY <1>12, <2>1, <2>2, <3>1 DEF InstallHandler, Goto, Abort, IInv, TypeInv, Phases
    <3> QED BY <1>12, <2>1, <3>2 DEF InstallHandler, Goto, Abort, IInv, PhaseInv
  <2>4. ExitInv' /\ ExitStatusHonest'
    BY <1>12, <2>1 DEF InstallHandler, Goto, Abort, Leave, IInv, TypeInv, PhaseInv, ExitInv, ExitStatusHonest
  <2>5. FilterInv' /\ SelectInv'
    BY <1>12, <2>1, <2>2 DEF InstallHandler, Goto, Abort, Leave, IInv, PhaseInv, FilterInv, SelectInv, After, Loaded
  <2> QED BY <2>2, <2>3, <2>4, <2>5 DEF IInv
<1>13. CASE TestExiting
  <2>1. UNCHANGED <<tool, kernel, line, argi, filter, cifs, signals>>
    BY <1>13 DEF TestExiting, fixed
  <2>2. /\ ParseInv' /\ opts' = opts /\ filter' \in FilterType'
        /\ Seen' = Seen /\ Selected' = Selected /\ (Unsupported' <=> Unsupported)
    BY <2>1, SameLine
  <2>3. TypeInv' /\ PhaseInv'
    BY <1>13, <2>1, <2>2 DEF TestExiting, Goto, Abort, Leave, IInv, TypeInv, Phases, PhaseInv
  <2>4. ExitInv' /\ ExitStatusHonest'
    BY <1>13, <2>1 DEF TestExiting, Goto, Abort, Leave, IInv, TypeInv, PhaseInv, ExitInv, ExitStatusHonest
  <2>5. FilterInv' /\ SelectInv'
    BY <1>13, <2>1, <2>2 DEF TestExiting, Goto, Abort, Leave, IInv, PhaseInv, FilterInv, SelectInv, After, Loaded
  <2> QED BY <2>2, <2>3, <2>4, <2>5 DEF IInv
<1>14. CASE Pause
  <2>1. UNCHANGED <<tool, kernel, line, argi, filter, cifs, signals>>
    BY <1>14 DEF Pause, fixed
  <2>2. /\ ParseInv' /\ opts' = opts /\ filter' \in FilterType'
        /\ Seen' = Seen /\ Selected' = Selected /\ (Unsupported' <=> Unsupported)
    BY <2>1, SameLine
  <2>3. TypeInv' /\ PhaseInv'
    BY <1>14, <2>1, <2>2 DEF Pause, Goto, Abort, Leave, IInv, TypeInv, Phases, PhaseInv
  <2>4. ExitInv' /\ ExitStatusHonest'
    BY <1>14, <2>1 DEF Pause, Goto, Abort, Leave, IInv, TypeInv, PhaseInv, ExitInv, ExitStatusHonest
  <2>5. FilterInv' /\ SelectInv'
    BY <1>14, <2>1, <2>2 DEF Pause, Goto, Abort, Leave, IInv, PhaseInv, FilterInv, SelectInv, After, Loaded
  <2> QED BY <2>2, <2>3, <2>4, <2>5 DEF IInv
<1>15. CASE Poll
  <2>1. UNCHANGED <<tool, kernel, line, argi, filter, cifs, signals>>
    BY <1>15 DEF Poll, fixed
  <2>2. /\ ParseInv' /\ opts' = opts /\ filter' \in FilterType'
        /\ Seen' = Seen /\ Selected' = Selected /\ (Unsupported' <=> Unsupported)
    BY <2>1, SameLine
  <2>3. TypeInv' /\ PhaseInv'
    BY <1>15, <2>1, <2>2 DEF Poll, Goto, Abort, Leave, IInv, TypeInv, Phases, PhaseInv
  <2>4. ExitInv' /\ ExitStatusHonest'
    BY <1>15, <2>1 DEF Poll, Goto, Abort, Leave, IInv, TypeInv, PhaseInv, ExitInv, ExitStatusHonest
  <2>5. FilterInv' /\ SelectInv'
    BY <1>15, <2>1, <2>2 DEF Poll, Goto, Abort, Leave, IInv, PhaseInv, FilterInv, SelectInv, After, Loaded
  <2> QED BY <2>2, <2>3, <2>4, <2>5 DEF IInv
<1>16. CASE TestDeadline
  <2>1. UNCHANGED <<tool, kernel, line, argi, filter, cifs, signals>>
    BY <1>16 DEF TestDeadline, fixed
  <2>2. /\ ParseInv' /\ opts' = opts /\ filter' \in FilterType'
        /\ Seen' = Seen /\ Selected' = Selected /\ (Unsupported' <=> Unsupported)
    BY <2>1, SameLine
  <2>3. TypeInv' /\ PhaseInv'
    BY <1>16, <2>1, <2>2 DEF TestDeadline, Goto, Abort, Leave, IInv, TypeInv, Phases, PhaseInv
  <2>4. ExitInv' /\ ExitStatusHonest'
    BY <1>16, <2>1 DEF TestDeadline, Goto, Abort, Leave, IInv, TypeInv, PhaseInv, ExitInv, ExitStatusHonest
  <2>5. FilterInv' /\ SelectInv'
    BY <1>16, <2>1, <2>2 DEF TestDeadline, Goto, Abort, Leave, IInv, PhaseInv, FilterInv, SelectInv, After, Loaded
  <2> QED BY <2>2, <2>3, <2>4, <2>5 DEF IInv
<1>17. CASE Cleanup
  <2>1. UNCHANGED <<tool, kernel, line, argi, filter, cifs, signals>>
    BY <1>17 DEF Cleanup, fixed
  <2>2. /\ ParseInv' /\ opts' = opts /\ filter' \in FilterType'
        /\ Seen' = Seen /\ Selected' = Selected /\ (Unsupported' <=> Unsupported)
    BY <2>1, SameLine
  <2>3. TypeInv' /\ PhaseInv'
    BY <1>17, <2>1, <2>2 DEF Cleanup, Goto, Abort, Leave, IInv, TypeInv, Phases, PhaseInv
  <2>4. ExitInv' /\ ExitStatusHonest'
    BY <1>17, <2>1 DEF Cleanup, Goto, Abort, Leave, IInv, TypeInv, PhaseInv, ExitInv, ExitStatusHonest
  <2>5. FilterInv' /\ SelectInv'
    BY <1>17, <2>1, <2>2 DEF Cleanup, Goto, Abort, Leave, IInv, PhaseInv, FilterInv, SelectInv, After, Loaded
  <2> QED BY <2>2, <2>3, <2>4, <2>5 DEF IInv
<1>18. CASE ParseArg
  <2>1. ParseInv' /\ filter' \in FilterType'
    BY <1>18, ParseKeeps
  <2>2. /\ UNCHANGED <<tool, kernel, line, cifs, todo, attached, writes, map, mountSet, handler, exiting, err,
                       fault, signals>>
        /\ opts' = opts /\ phase = "parse" /\ tool \in AodTools
        /\ \/ phase' = "done" /\ status' = "usage" /\ argi' = argi
           \/ phase' = phase /\ status' = status /\ argi' = argi + 1 /\ argi < Len(opts)
    BY <1>18 DEF ParseArg, Leave, opts
  <2>3. argi' \in 0 .. Len(opts)
    BY <2>2, PlaceType DEF IInv, TypeInv
  <2>4. TypeInv' /\ PhaseInv'
    BY <2>1, <2>2, <2>3 DEF IInv, TypeInv, Phases, PhaseInv
  <2>5. ExitInv' /\ ExitStatusHonest'
    BY <2>2 DEF IInv, TypeInv, ExitInv, ExitStatusHonest
  <2>6. FilterInv' /\ SelectInv'
    BY <2>2 DEF IInv, FilterInv, SelectInv, After, Loaded
  <2> QED BY <2>1, <2>4, <2>5, <2>6 DEF IInv
<1>19. CASE ensure_cifs_module_loaded
  <2>1. UNCHANGED <<tool, kernel, line, argi, filter, signals, status>>
    BY <1>19 DEF ensure_cifs_module_loaded, fixed
  <2>2. ParseInv' /\ opts' = opts /\ filter' \in FilterType'
    BY <2>1, SameParse
  <2>3. cifs' \in BOOLEAN
    <3>1. cifs' = cifs \/ cifs' = TRUE
      BY <1>19 DEF ensure_cifs_module_loaded
    <3> QED BY <3>1, Zenon DEF IInv, TypeInv
  <2>4. TypeInv' /\ PhaseInv'
    BY <1>19, <2>1, <2>2, <2>3 DEF ensure_cifs_module_loaded, Goto, IInv, TypeInv, Phases, PhaseInv
  <2>5. ExitInv' /\ ExitStatusHonest'
    BY <1>19, <2>1 DEF ensure_cifs_module_loaded, Goto, IInv, TypeInv, ExitInv, ExitStatusHonest
  <2>6. FilterInv' /\ SelectInv'
    BY <1>19, <2>1, <2>2 DEF ensure_cifs_module_loaded, Goto, IInv, FilterInv, SelectInv, After, Loaded
  <2> QED BY <2>2, <2>4, <2>5, <2>6 DEF IInv
<1>20. CASE Signal
  <2>1. UNCHANGED <<tool, kernel, line, argi, filter, cifs, writes, map, mountSet, handler, fault>>
    BY <1>20 DEF Signal
  <2>2. /\ ParseInv' /\ opts' = opts /\ filter' \in FilterType'
        /\ Seen' = Seen /\ Selected' = Selected /\ (Unsupported' <=> Unsupported)
    BY <2>1, SameLine
  <2>3. /\ phase # "done" /\ status = "none" /\ signals' \in 0 .. MaxSignals
    BY <1>20, LoaderAssumption DEF Signal, IInv, TypeInv
  <2>4. CASE /\ exiting' = TRUE
             /\ phase' = (CASE phase = "pause" -> "test" [] phase = "poll" -> "polled" [] OTHER -> phase)
             /\ err' = (IF phase = "poll" THEN "negative" ELSE err)
             /\ UNCHANGED <<status, attached, todo>>
    <3>1. \/ phase = "pause" /\ phase' = "test" /\ err' = err
          \/ phase = "poll" /\ phase' = "polled" /\ err' = "negative"
          \/ phase' = phase /\ err' = err
      BY <2>4
    <3>2. TypeInv' /\ PhaseInv'
      BY <2>1, <2>2, <2>3, <2>4, <3>1 DEF IInv, TypeInv, Phases, PhaseInv
    <3>3. ExitInv' /\ ExitStatusHonest'
      BY <2>1, <2>3, <2>4, <3>1 DEF IInv, PhaseInv, ExitInv, ExitStatusHonest
    <3>4. FilterInv' /\ SelectInv'
      BY <2>1, <2>2, <2>4, <3>1 DEF IInv, FilterInv, SelectInv, After, Loaded
    <3> QED BY <2>2, <3>2, <3>3, <3>4 DEF IInv
  <2>5. CASE Leave("killed") /\ attached' = {} /\ todo' = {} /\ UNCHANGED <<exiting, err>>
    <3>1. TypeInv' /\ PhaseInv'
      BY <2>1, <2>2, <2>3, <2>5 DEF Leave, IInv, TypeInv, Phases, PhaseInv
    <3>2. ExitInv' /\ ExitStatusHonest'
      BY <2>1, <2>3, <2>5 DEF Leave, IInv, PhaseInv, ExitInv, ExitStatusHonest
    <3>3. FilterInv' /\ SelectInv'
      BY <2>1, <2>2, <2>5 DEF Leave, IInv, FilterInv, SelectInv, After, Loaded
    <3> QED BY <2>2, <3>1, <3>2, <3>3 DEF IInv
  <2> QED BY <1>20, <2>4, <2>5 DEF Signal
<1>21. CASE UNCHANGED vars
  <2>1. UNCHANGED <<tool, kernel, line, argi, filter, cifs, phase, todo, attached, writes, map, mountSet,
                    handler, exiting, err, status, fault, signals>>
    BY <1>21 DEF vars
  <2>2. /\ ParseInv' /\ opts' = opts /\ filter' \in FilterType'
        /\ Seen' = Seen /\ Selected' = Selected /\ (Unsupported' <=> Unsupported)
    BY <2>1, SameLine
  <2>3. TypeInv' /\ PhaseInv'
    BY <2>1, <2>2 DEF IInv, TypeInv, PhaseInv
  <2>4. ExitInv' /\ ExitStatusHonest'
    BY <2>1 DEF IInv, ExitInv, ExitStatusHonest
  <2>5. FilterInv' /\ SelectInv'
    BY <2>1, <2>2 DEF IInv, FilterInv, SelectInv
  <2> QED BY <2>2, <2>3, <2>4, <2>5 DEF IInv
<1> QED BY <1>1, <1>2, <1>3, <1>4, <1>5, <1>6, <1>7, <1>8, <1>9, <1>10, <1>11, <1>12, <1>13, <1>14, <1>15, <1>16,
           <1>17, <1>18, <1>19, <1>20, <1>21 DEF Next, Step

\* The loader starts in the invariant.
LEMMA LoaderInit == Init => IInv
<1> SUFFICES ASSUME Init PROVE IInv
    OBVIOUS
<1>1. filter = NoFilter /\ argi = 0 /\ tool \in Tools
    BY DEF Init
<1>2. filter \in FilterType
    BY <1>1 DEF NoFilter, FilterType
<1>3. Len(opts) \in Nat
    BY <1>1, LoaderAssumption DEF Init, opts
<1>4. cifs \in BOOLEAN /\ (tool \notin {"smbslower", "smbiosnoop"} => cifs)
  <2>1. CASE tool \in {"smbslower", "smbiosnoop"}
    BY <2>1, Zenon DEF Init
  <2>2. CASE tool \notin {"smbslower", "smbiosnoop"}
    <3>1. cifs = TRUE
      BY <2>2 DEF Init
    <3> QED BY <3>1, Zenon
  <2> QED BY <2>1, <2>2
<1>5. TypeInv /\ PhaseInv
  <2>1. mountSet \in BOOLEAN /\ handler \in BOOLEAN /\ exiting \in BOOLEAN
    BY Zenon DEF Init
  <2>2. argi \in 0 .. Len(opts) /\ signals \in 0 .. MaxSignals
    BY <1>1, <1>3, LoaderAssumption DEF Init
  <2>3. map \subseteq Entry /\ writes \subseteq Entry
    BY DEF Init
  <2>4. /\ phase = "parse" /\ status = "none" /\ err = "zero"
        /\ kernel \in Kernels[tool] /\ line \in Lines[tool]
    BY DEF Init
  <2> QED BY <1>1, <1>2, <1>4, <2>1, <2>2, <2>3, <2>4 DEF TypeInv, Phases, PhaseInv
<1>6. ExitInv /\ ExitStatusHonest
    BY DEF Init, ExitInv, ExitStatusHonest
<1>7. ParseInv
  <2>1. \A i \in 1 .. argi : FALSE
    BY <1>1
  <2>2. HeldCmds = {} /\ HeldErrs = {}
    BY <1>1, <1>5, PlaceType DEF HeldCmds, HeldErrs, Under
  <2>3. \A key : ~Handed(key)
    BY <2>1 DEF Handed
  <2> QED BY <1>1, <2>1, <2>2, <2>3 DEF ParseInv, NoFilter
<1>8. FilterInv /\ SelectInv
    BY DEF Init, FilterInv, SelectInv, After, Loaded
<1> QED BY <1>5, <1>6, <1>7, <1>8 DEF IInv

\* The inductive invariant of every loader run.
LEMMA LoaderInvariant == Spec => []IInv
<1>1. Init => IInv
    BY LoaderInit
<1>2. IInv /\ [Next]_vars => IInv'
    BY LoaderStep
<1> QED BY <1>1, <1>2, PTL DEF Spec

\* Every loader, on every kernel and with every command line, keeps its variables in
\* their types: main() of the six tools.
THEOREM LoaderTypeCorrect == Spec => []TypeOK
<1>1. IInv => (phase = "done") = (status # "none")
    BY Zenon DEF IInv, TypeInv
<1>2. IInv => TypeOK
    BY <1>1 DEF IInv, TypeInv, SelectInv, TypeOK, Entry, opts
<1> QED BY <1>2, LoaderInvariant, PTL

\* The exit code of main() tells whether the loader did its work, up to the paths that
\* leave err alone.
THEOREM ExitStatusCorrect == Spec => []ExitStatusHonest
<1>1. IInv => ExitStatusHonest
    BY DEF IInv
<1> QED BY <1>1, LoaderInvariant, PTL

(***************************************************************************)
(* The filter maps                                                         *)
(***************************************************************************)

\* What the lists name once the whole command line was read, when they fit.
LEMMA WholeLine ==
    ASSUME TypeInv, ParseInv, tool \in AodTools, argi = Len(opts), Fits(opts)
    PROVE  /\ filter.cmds = {p \in Under(opts, "c") \cup Under(opts, "x") : ValidCommand(Token(opts, p))}
           /\ filter.errs = {p \in Under(opts, "e") : tool = "nfsiosnoop" => Token(opts, p).val \in KnownErrors}
           /\ \A key : Handed(key) <=> Given(opts, key)
           /\ tool \in Slowers => ~Given(opts, "e")
           /\ tool \in Snoopers => ~Given(opts, "x")
           /\ \A key : ~Given(opts, key) => Under(opts, key) = {}
<1>1. \A p \in Places(opts) : p[1] <= argi /\ p[1] \in DOMAIN opts
    BY PlaceType
<1>2. DOMAIN opts = 1 .. argi
    BY PlaceType
<1>3. \A key : Under(opts, key) \subseteq Places(opts)
    BY DEF Under
<1>4. filter.cmds = HeldCmds /\ filter.errs = HeldErrs
    BY DEF ParseInv
<1>5. filter.cmds = {p \in Under(opts, "c") \cup Under(opts, "x") : ValidCommand(Token(opts, p))}
    BY <1>1, <1>3, <1>4 DEF HeldCmds
<1>6. filter.errs = {p \in Under(opts, "e") : tool = "nfsiosnoop" => Token(opts, p).val \in KnownErrors}
    BY <1>1, <1>3, <1>4 DEF HeldErrs
<1>7. \A key : Handed(key) <=> Given(opts, key)
    BY <1>2 DEF Handed, Given
<1>8. /\ tool \in Slowers => ~Given(opts, "e")
      /\ tool \in Snoopers => ~Given(opts, "x")
    BY <1>2 DEF ParseInv, Given, Slowers, Snoopers
<1>9. \A key : ~Given(opts, key) => Under(opts, key) = {}
    BY <1>1 DEF Given, Under
<1> QED BY <1>5, <1>6, <1>7, <1>8, <1>9

\* The errors of a request that nfsiosnoop can be asked for.
TableCoversErrors == tool = "nfsiosnoop" => Errors \subseteq KnownErrors \cup {0}

\* With the maps complete, a program passes what the command line wants.
LEMMA PassesWanted ==
    ASSUME TypeInv, ParseInv, tool \in AodTools, argi = Len(opts), Fits(opts), TableCoversErrors,
           map = MapWrites(tool, opts, filter),
           NEW p, NEW c \in 0 .. (MaxCommands - 1), NEW e \in Errors
    PROVE  Passes(tool, filter, map, c, LookedUp(p, IF p.kind = "tracepoint" THEN e ELSE -e))
             <=> Wanted(tool, opts, c, e)
<1>1. /\ filter.cmds = {q \in Under(opts, "c") \cup Under(opts, "x") : ValidCommand(Token(opts, q))}
      /\ filter.errs = {q \in Under(opts, "e") : tool = "nfsiosnoop" => Token(opts, q).val \in KnownErrors}
      /\ \A key : Handed(key) <=> Given(opts, key)
      /\ tool \in Slowers => ~Given(opts, "e")
      /\ tool \in Snoopers => ~Given(opts, "x")
      /\ \A key : ~Given(opts, key) => Under(opts, key) = {}
    BY WholeLine
<1>2. LookedUp(p, IF p.kind = "tracepoint" THEN e ELSE -e) = e
  <2>1. e \in Nat
    BY LoaderAssumption
  <2> QED BY <2>1 DEF LookedUp
<1>3. \A q : Token(opts, q).val = c => ValidCommand(Token(opts, q))
    BY DEF ValidCommand
<1>4. c \in Values(opts, filter.cmds) <=> c \in Listed(opts, "c") \/ c \in Listed(opts, "x")
    BY <1>1, <1>3 DEF Values, Listed
<1>5. \A key : ~Given(opts, key) => c \notin Listed(opts, key)
    BY <1>1 DEF Values, Listed
<1>6. CASE tool \in Slowers
  <2>1. tool \notin Snoopers
    BY <1>6 DEF Slowers, Snoopers
  <2>2. Passes(tool, filter, map, c, e) <=> c \notin Denylist(opts, filter)
    BY <1>6 DEF Passes, MapWrites
  <2>3. c \in Denylist(opts, filter) <=> \/ filter.exclude /\ c \in Values(opts, filter.cmds)
                                         \/ filter.include /\ c \notin Values(opts, filter.cmds)
    BY DEF Denylist
  <2>4. /\ filter.include <=> Given(opts, "c")
        /\ filter.exclude <=> Given(opts, "x")
        /\ ~(filter.include /\ filter.exclude)
    BY <1>1, <1>6 DEF ParseInv
  <2> QED BY <1>1, <1>2, <1>4, <1>5, <1>6, <2>1, <2>2, <2>3, <2>4 DEF Wanted
<1>7. CASE tool \notin Slowers
  <2>1. tool \in Snoopers
    BY <1>7 DEF AodTools
  <2>2. /\ <<"cmd", c>> \in map <=> c \in Values(opts, filter.cmds)
        /\ <<"err", e>> \in map <=> e \in Values(opts, filter.errs)
    BY <1>7 DEF MapWrites
  <2>3. (filter.setc <=> Given(opts, "c")) /\ (filter.sete <=> Given(opts, "e"))
    BY <1>1, <2>1 DEF ParseInv
  <2>4. e # 0 => (e \in Values(opts, filter.errs) <=> e \in Listed(opts, "e"))
    BY <1>1 DEF Values, Listed, TableCoversErrors
  <2>5. Passes(tool, filter, map, c, e) <=> /\ e # 0
                                            /\ filter.sete => <<"err", e>> \in map
                                            /\ filter.setc => <<"cmd", c>> \in map
    BY <1>7 DEF Passes
  <2> QED BY <1>1, <1>2, <1>4, <1>5, <2>1, <2>2, <2>3, <2>4, <2>5 DEF Wanted
<1> QED BY <1>6, <1>7

\* No program of an aod tool runs with half a filter: once one is attached, the tool
\* reports what its -c, -x and -e lists name and nothing else, whatever the lists and
\* the order of the map updates; the VFS tools have mount_filter_cfg written. For
\* nfsiosnoop the errors are those of nfs4_errors[], which is all that -e accepts.
THEOREM FilterExactCorrect == Spec => [](TableCoversErrors => FilterExact)
<1>1. ASSUME IInv, TableCoversErrors PROVE FilterExact
  <2>1. ASSUME attached # {}, tool \in VfsTools, line.mount # "none" PROVE mountSet
    BY <1>1, <2>1 DEF IInv, FilterInv
  <2>2. ASSUME attached # {}, tool \in AodTools, Fits(line.options),
               NEW p \in attached, NEW c \in 0 .. (MaxCommands - 1), NEW e \in Errors
        PROVE  Passes(tool, filter, map, c, LookedUp(p, IF p.kind = "tracepoint" THEN e ELSE -e))
                 <=> Wanted(tool, line.options, c, e)
    <3>1. argi = Len(opts) /\ map = MapWrites(tool, opts, filter)
      BY <1>1, <2>2 DEF IInv, FilterInv
    <3> QED BY <1>1, <2>2, <3>1, PassesWanted DEF IInv, opts
  <2> QED BY <2>1, <2>2 DEF FilterExact
<1>2. IInv => (TableCoversErrors => FilterExact)
    BY <1>1
<1> QED BY <1>2, LoaderInvariant, PTL

(***************************************************************************)
(* The programs                                                            *)
(***************************************************************************)

\* The functions of the three kinds of VFS programs are different functions.
LEMMA HookNames ==
    /\ VfsHooks = {"vfs_open", "vfs_read", "vfs_write", "vfs_create", "vfs_mkdir", "vfs_rmdir", "vfs_symlink",
                   "vfs_rename", "vfs_getattr", "vfs_truncate", "vfs_fchmod", "vfs_readlink", "vfs_readv",
                   "vfs_writev", "iterate_dir", "vfs_lock_file"}
    /\ DOMAIN FixedHooks = {"vfs_unlink", "vfs_link", "vfs_fallocate", "do_mmap", "vm_munmap"}
    /\ DOMAIN SyscallHooks = {"__x64_sys_read", "__x64_sys_mkdir", "__x64_sys_rename"}
    /\ VfsHooks \cap DOMAIN FixedHooks = {}
    /\ (VfsHooks \cup DOMAIN FixedHooks) \cap DOMAIN SyscallHooks = {}
<1>1. VfsHooks = {"vfs_open", "vfs_read", "vfs_write", "vfs_create", "vfs_mkdir", "vfs_rmdir", "vfs_symlink",
                  "vfs_rename", "vfs_getattr", "vfs_truncate", "vfs_fchmod", "vfs_readlink", "vfs_readv",
                  "vfs_writev", "iterate_dir", "vfs_lock_file"}
    BY DEF VfsHooks, vfs_hooks
<1>2. DOMAIN FixedHooks = {"vfs_unlink", "vfs_link", "vfs_fallocate", "do_mmap", "vm_munmap"}
    BY DEF FixedHooks
<1>3. DOMAIN SyscallHooks = {"__x64_sys_read", "__x64_sys_mkdir", "__x64_sys_rename"}
    BY DEF SyscallHooks
<1> QED BY <1>1, <1>2, <1>3

\* The number of arguments of the programs that the loaders tell apart by a count.
LEMMA ArgumentCounts ==
    /\ VfsArgs["vfs_create"] = <<"idmap", "dir", "dentry", "mode", "excl">>
    /\ VfsArgs["vfs_rename"] = <<"renamedata">>
    /\ Len(VfsArgs["vfs_create"]) = 5 /\ Len(VfsArgs["vfs_rename"]) = 1
    /\ create_legacy.reads = <<"idmap", "dir", "dentry", "mode">> /\ Len(create_legacy.reads) = 4
    /\ rename_legacy.reads = <<"dir", "dentry", "dir", "dentry">> /\ Len(rename_legacy.reads) = 4
    /\ Len(OldCreate) = 4 /\ Len(OldRename) = 6
<1>1. VfsArgs["vfs_create"] = <<"idmap", "dir", "dentry", "mode", "excl">> /\ VfsArgs["vfs_rename"] = <<"renamedata">>
    BY DEF VfsArgs
<1>2. /\ create_legacy.reads = <<"idmap", "dir", "dentry", "mode">>
      /\ rename_legacy.reads = <<"dir", "dentry", "dir", "dentry">>
    BY DEF create_legacy, rename_legacy, Program
<1> QED BY <1>1, <1>2 DEF OldCreate, OldRename

\* What the skeleton of a VFS tool holds beside the system call programs.
LEMMA VfsProgramSet ==
    ASSUME NEW p
    PROVE  p \in VfsPrograms \ VfsSyscalls <=>
             \/ \E h \in VfsHooks : p \in {Enter("fentry", h), FentryExit(h), Enter("kprobe", h), Return(h)}
             \/ \E h \in DOMAIN FixedHooks : p \in {FixedEnter(h), Return(h)}
             \/ p \in {create_legacy, rename_legacy, rename_legacy_ret}
<1>1. p \in VfsSyscalls => p.target \in DOMAIN SyscallHooks
    BY DEF VfsSyscalls, Program
<1>2. ASSUME NEW h PROVE /\ Enter("fentry", h).target = h /\ FentryExit(h).target = h
                          /\ Enter("kprobe", h).target = h /\ Return(h).target = h /\ FixedEnter(h).target = h
    BY DEF Enter, FentryExit, Return, FixedEnter, Program
<1>3. /\ create_legacy.target \in VfsHooks /\ rename_legacy.target \in VfsHooks
      /\ rename_legacy_ret.target \in VfsHooks
    BY HookNames DEF create_legacy, rename_legacy, rename_legacy_ret, Program
<1>4. p \in VfsFentry <=> \E h \in VfsHooks : p \in {Enter("fentry", h), FentryExit(h)}
    BY DEF VfsFentry
<1>5. p \in VfsFallback <=> \E h \in VfsHooks : p \in {Enter("kprobe", h), Return(h)}
    BY DEF VfsFallback
<1>6. p \in VfsFixed <=> \E h \in DOMAIN FixedHooks : p \in {FixedEnter(h), Return(h)}
    BY DEF VfsFixed
<1>7. \A h : h \in VfsHooks \cup DOMAIN FixedHooks => h \notin DOMAIN SyscallHooks
    BY HookNames
<1> QED BY <1>1, <1>2, <1>3, <1>4, <1>5, <1>6, <1>7 DEF VfsPrograms

create_old(k) == get_func_param_count(k, "vfs_create", "vmlinux") = 4
rename_old(k) == get_func_param_count(k, "vfs_rename", "vmlinux") = 6

\* Which of the fallback programs of a function in kallsyms stay enabled.
LEMMA FallbackOf ==
    ASSUME NEW k, NEW h \in VfsHooks, h \in DOMAIN k.fn
    PROVE  /\ FallbackEnabled(k, Enter("kprobe", h)) <=>
                (h = "vfs_create" => ~create_old(k)) /\ (h = "vfs_rename" => ~rename_old(k))
           /\ FallbackEnabled(k, Return(h))
           /\ h = "vfs_create" => (FallbackEnabled(k, create_legacy) <=> create_old(k))
           /\ h = "vfs_rename" => (FallbackEnabled(k, rename_legacy) <=> rename_old(k))
           /\ h = "vfs_rename" => FallbackEnabled(k, rename_legacy_ret)
<1>1. /\ Enter("kprobe", "vfs_create").reads = VfsArgs["vfs_create"]
      /\ Enter("kprobe", "vfs_rename").reads = VfsArgs["vfs_rename"]
    BY DEF Enter, Program
<1>2. /\ Enter("kprobe", h).target = h /\ Enter("kprobe", h).side = "enter"
      /\ Enter("kprobe", "vfs_create").side = "enter" /\ Enter("kprobe", "vfs_create").target = "vfs_create"
      /\ Enter("kprobe", "vfs_rename").side = "enter" /\ Enter("kprobe", "vfs_rename").target = "vfs_rename"
      /\ Return(h).target = h /\ Return(h).side = "exit"
    BY DEF Enter, Return, Program
<1>3. /\ create_legacy.target = "vfs_create" /\ create_legacy.side = "enter"
      /\ rename_legacy.target = "vfs_rename" /\ rename_legacy.side = "enter"
      /\ rename_legacy_ret.target = "vfs_rename" /\ rename_legacy_ret.side = "exit"
    BY DEF create_legacy, rename_legacy, rename_legacy_ret, Program
<1>4. create_legacy # Enter("kprobe", "vfs_create") /\ rename_legacy # Enter("kprobe", "vfs_rename")
    BY <1>1, ArgumentCounts
<1>5. FallbackEnabled(k, Enter("kprobe", h)) <=>
        (h = "vfs_create" => ~create_old(k)) /\ (h = "vfs_rename" => ~rename_old(k))
    BY <1>2, <1>3, <1>4 DEF FallbackEnabled, kernel_function_exists, create_old, rename_old
<1>6. FallbackEnabled(k, Return(h))
    BY <1>2, <1>3 DEF FallbackEnabled, kernel_function_exists
<1>7. h = "vfs_create" => (FallbackEnabled(k, create_legacy) <=> create_old(k))
    BY <1>2, <1>3, <1>4 DEF FallbackEnabled, kernel_function_exists, create_old
<1>8. h = "vfs_rename" => (FallbackEnabled(k, rename_legacy) <=> rename_old(k))
    BY <1>2, <1>3, <1>4 DEF FallbackEnabled, kernel_function_exists, rename_old
<1>9. h = "vfs_rename" => FallbackEnabled(k, rename_legacy_ret)
    BY <1>2, <1>3 DEF FallbackEnabled, kernel_function_exists
<1> QED BY <1>5, <1>6, <1>7, <1>8, <1>9

\* The program at the entry of a function, and those at its exit.
EnterOf(k, h) ==
    IF h \in DOMAIN FixedHooks THEN FixedEnter(h)
    ELSE IF vfs_fentry_family_supported(k) THEN Enter("fentry", h)
    ELSE IF h = "vfs_create" /\ create_old(k) THEN create_legacy
    ELSE IF h = "vfs_rename" /\ rename_old(k) THEN rename_legacy
    ELSE Enter("kprobe", h)

ExitsOf(k, h) ==
    IF h \in DOMAIN FixedHooks THEN {Return(h)}
    ELSE IF vfs_fentry_family_supported(k) THEN {FentryExit(h)}
    ELSE {Return(h)} \cup IF h = "vfs_rename" THEN {rename_legacy_ret} ELSE {}

\* select_vfs_hook_family leaves one entry program to a function that the kernel has.
LEMMA VfsSelection ==
    ASSUME NEW k, NEW e \in VfsHooks \cup DOMAIN FixedHooks, e \in DOMAIN k.fn, NEW p
    PROVE  /\ p \in select_vfs_hook_family(k) /\ p.event = e /\ p.side = "enter" <=> p = EnterOf(k, e)
           /\ p \in select_vfs_hook_family(k) /\ p.event = e /\ p.side = "exit" <=> p \in ExitsOf(k, e)
<1> DEFINE use == vfs_fentry_family_supported(k)
           sel == select_vfs_hook_family(k)
<1>1. p \in sel <=> /\ p \in VfsPrograms \ VfsSyscalls
                    /\ p \in VfsFixed \/ IF IsFentry(p) THEN use ELSE ~use /\ FallbackEnabled(k, p)
    BY DEF select_vfs_hook_family
<1>2. p \in VfsFixed <=> \E h \in DOMAIN FixedHooks : p \in {FixedEnter(h), Return(h)}
    BY DEF VfsFixed
<1>3. p \in VfsPrograms \ VfsSyscalls <=>
             \/ \E h \in VfsHooks : p \in {Enter("fentry", h), FentryExit(h), Enter("kprobe", h), Return(h)}
             \/ \E h \in DOMAIN FixedHooks : p \in {FixedEnter(h), Return(h)}
             \/ p \in {create_legacy, rename_legacy, rename_legacy_ret}
    BY VfsProgramSet
<1>4. \A kind, h : LET q == Enter(kind, h) IN q.kind = kind /\ q.event = h /\ q.side = "enter"
    BY DEF Enter, Program
<1>5. \A h : /\ FixedEnter(h).kind = "kprobe" /\ FixedEnter(h).event = h /\ FixedEnter(h).side = "enter"
             /\ FentryExit(h).kind = "fexit" /\ FentryExit(h).event = h /\ FentryExit(h).side = "exit"
             /\ Return(h).kind = "kretprobe" /\ Return(h).event = h /\ Return(h).side = "exit"
    BY DEF FixedEnter, FentryExit, Return, Program
<1>6. /\ create_legacy.event = "vfs_create" /\ create_legacy.side = "enter" /\ create_legacy.kind = "kprobe"
      /\ rename_legacy.event = "vfs_rename" /\ rename_legacy.side = "enter" /\ rename_legacy.kind = "kprobe"
      /\ rename_legacy_ret.event = "vfs_rename" /\ rename_legacy_ret.side = "exit"
      /\ rename_legacy_ret.kind = "kretprobe"
    BY DEF create_legacy, rename_legacy, rename_legacy_ret, Program
<1>7. \A h \in VfsHooks : h \notin DOMAIN FixedHooks
    BY HookNames
<1>8. "vfs_create" \in VfsHooks /\ "vfs_rename" \in VfsHooks
    BY HookNames
<1> HIDE DEF use, sel
<1>9. CASE e \in DOMAIN FixedHooks
  <2>1. p \in VfsPrograms \ VfsSyscalls /\ p.event = e <=> p \in {FixedEnter(e), Return(e)}
    BY <1>3, <1>4, <1>5, <1>6, <1>7, <1>8, <1>9
  <2>2. p \in {FixedEnter(e), Return(e)} => p \in VfsFixed
    BY <1>2, <1>9
  <2>3. p \in sel /\ p.event = e <=> p \in {FixedEnter(e), Return(e)}
    BY <1>1, <2>1, <2>2
  <2> QED BY <1>5, <1>9, <2>3 DEF EnterOf, ExitsOf, sel
<1>10. CASE e \in VfsHooks
  <2>1. p \in VfsPrograms \ VfsSyscalls /\ p.event = e <=>
           \/ p \in {Enter("fentry", e), FentryExit(e), Enter("kprobe", e), Return(e)}
           \/ e = "vfs_create" /\ p = create_legacy
           \/ e = "vfs_rename" /\ p \in {rename_legacy, rename_legacy_ret}
    BY <1>3, <1>4, <1>5, <1>6, <1>7, <1>10
  <2>2. p.event = e => p \notin VfsFixed
    BY <1>2, <1>5, <1>7, <1>10
  <2>3. p.event = e => (p \in sel <=> /\ p \in VfsPrograms \ VfsSyscalls
                                      /\ IF IsFentry(p) THEN use ELSE ~use /\ FallbackEnabled(k, p))
    BY <1>1, <2>2
  <2>4. CASE use
    <3>1. p \in sel /\ p.event = e <=> p \in {Enter("fentry", e), FentryExit(e)}
      BY <1>4, <1>5, <1>6, <2>1, <2>3, <2>4 DEF IsFentry
    <3> QED BY <1>4, <1>5, <1>7, <1>10, <2>4, <3>1 DEF EnterOf, ExitsOf, sel, use
  <2>5. CASE ~use
    <3>1. /\ FallbackEnabled(k, Enter("kprobe", e)) <=>
                (e = "vfs_create" => ~create_old(k)) /\ (e = "vfs_rename" => ~rename_old(k))
          /\ FallbackEnabled(k, Return(e))
          /\ e = "vfs_create" => (FallbackEnabled(k, create_legacy) <=> create_old(k))
          /\ e = "vfs_rename" => (FallbackEnabled(k, rename_legacy) <=> rename_old(k))
          /\ e = "vfs_rename" => FallbackEnabled(k, rename_legacy_ret)
      BY <1>10, FallbackOf
    <3>2. p \in sel /\ p.event = e <=>
           \/ p = Enter("kprobe", e) /\ (e = "vfs_create" => ~create_old(k)) /\ (e = "vfs_rename" => ~rename_old(k))
           \/ p = Return(e)
           \/ e = "vfs_create" /\ p = create_legacy /\ create_old(k)
           \/ e = "vfs_rename" /\ p = rename_legacy /\ rename_old(k)
           \/ e = "vfs_rename" /\ p = rename_legacy_ret
      BY <1>4, <1>5, <1>6, <2>1, <2>3, <2>5, <3>1 DEF IsFentry
    <3> QED BY <1>4, <1>5, <1>6, <1>7, <1>10, <2>5, <3>2 DEF EnterOf, ExitsOf, sel, use
  <2> QED BY <2>4, <2>5
<1> QED BY <1>9, <1>10

\* A loader that runs has attached what it selected.
LEMMA RunningSelected ==
    ASSUME IInv, Running
    PROVE  attached = Selected /\ ~Unsupported /\ \A p \in attached : Attaches(Seen, p)
    BY DEF IInv, SelectInv, Running, After, Loaded

\* A loader that runs has every call that it traces covered once, on any kernel: one
\* program at the entry and, but for the second return program of vfs_rename and the
\* two SMB tracepoints, one at the exit.
THEOREM OneProgramCorrect == Spec => []OneProgramPerHook
<1>1. ASSUME IInv, Running, NEW e \in TracedEvents
      PROVE  /\ Cardinality(Attached(e, "enter")) = (IF tool \in Snoopers THEN 0 ELSE 1)
             /\ Attached(e, "exit") # {}
             /\ \A p, q \in Attached(e, "exit") :
                  \/ p = q \/ e = "vfs_rename"
                  \/ p.kind = "tracepoint" /\ q.kind = "tracepoint" /\ p.target # q.target
  <2>1. attached = Selected
    BY <1>1, RunningSelected
  <2>2. tool \in VfsTools <=> tool \notin AodTools
    BY <1>1, ToolKind DEF IInv
  <2>3. ASSUME NEW p, Attached(e, "enter") = {p} PROVE Cardinality(Attached(e, "enter")) = 1
    BY <2>3, FS_Singleton
  <2>4. CASE tool \in VfsTools
    <3>1. tool \notin Snoopers /\ cifs /\ tool \notin {"smbslower", "smbiosnoop"}
      BY <1>1, <2>4 DEF IInv, PhaseInv, VfsTools, Snoopers
    <3>2. attached = select_vfs_hook_family(kernel)
      BY <2>1, <2>4, <3>1 DEF Selected, Seen, VfsTools
    <3>3. e \in VfsHooks \cup DOMAIN FixedHooks /\ e \in DOMAIN kernel.fn
      BY <1>1, <2>4 DEF TracedEvents
    <3>4. Attached(e, "enter") = {EnterOf(kernel, e)} /\ Attached(e, "exit") = ExitsOf(kernel, e)
      BY <3>2, <3>3, VfsSelection DEF Attached
    <3>5. /\ ExitsOf(kernel, e) # {}
          /\ e # "vfs_rename" => \A p, q \in ExitsOf(kernel, e) : p = q
      BY DEF ExitsOf
    <3> QED BY <2>3, <3>1, <3>4, <3>5
  <2>5. CASE tool = "smbslower"
    <3>1. tool \notin Snoopers /\ e = "smb" /\ tool \notin VfsTools
      BY <1>1, <2>5 DEF TracedEvents, Snoopers, VfsTools
    <3>2. attached = select_smbslower(Seen, line.skip)
      BY <2>1, <2>5, <3>1 DEF Selected
    <3>3. CASE use_tracepoints(Seen, line.skip)
      <4>1. attached = SmbTracepoints
        BY <3>2, <3>3 DEF select_smbslower
      <4>2. /\ Attached(e, "enter") = {SmbTracepoint("smb3_cmd_enter", "enter")}
            /\ Attached(e, "exit") = {SmbTracepoint("smb3_cmd_done", "exit"), SmbTracepoint("smb3_cmd_err", "exit")}
        BY <3>1, <4>1 DEF Attached, SmbTracepoints, SmbTracepoint, Program
      <4>3. \A t, side : LET q == SmbTracepoint(t, side) IN q.kind = "tracepoint" /\ q.target = t
        BY DEF SmbTracepoint, Program
      <4> QED BY <2>3, <3>1, <4>2, <4>3
    <3>4. CASE ~use_tracepoints(Seen, line.skip)
      <4>1. attached = {AllocProgram(Seen), ReleaseProgram(Seen)}
        BY <3>2, <3>4 DEF select_smbslower
      <4>2. AllocProgram(Seen).event = "smb" /\ AllocProgram(Seen).side = "enter"
        BY DEF AllocProgram, MidAlloc, Program
      <4>3. ReleaseProgram(Seen).event = "smb" /\ ReleaseProgram(Seen).side = "exit"
        BY DEF ReleaseProgram, MidRelease, Program
      <4>4. Attached(e, "enter") = {AllocProgram(Seen)} /\ Attached(e, "exit") = {ReleaseProgram(Seen)}
        BY <3>1, <4>1, <4>2, <4>3 DEF Attached
      <4> QED BY <2>3, <3>1, <4>4
    <3> QED BY <3>3, <3>4
  <2>6. CASE tool = "nfsslower"
    <3>1. tool \notin Snoopers /\ e = "nfs" /\ tool \notin VfsTools
      BY <1>1, <2>6 DEF TracedEvents, Snoopers, VfsTools
    <3> DEFINE a == Program(IF fentry_can_attach(Seen, "nfs4_setup_sequence", "nfsv4") THEN "fentry" ELSE "kprobe",
                            "nfs4_setup_sequence", "nfs", "enter", <<"client", "args", "res", "task">>, "rpc_task", "args")
               b == Program(IF fentry_can_attach(Seen, "rpc_exit_task", "sunrpc") THEN "fentry" ELSE "kprobe",
                            "rpc_exit_task", "nfs", "exit", <<"task">>, "rpc_task", "args")
    <3>2. attached = {a, b}
      BY <2>1, <2>6, <3>1 DEF Selected, select_nfsslower
    <3>3. a.event = "nfs" /\ a.side = "enter" /\ b.event = "nfs" /\ b.side = "exit"
      BY DEF Program
    <3> HIDE DEF a, b
    <3>4. Attached(e, "enter") = {a} /\ Attached(e, "exit") = {b}
      BY <3>1, <3>2, <3>3 DEF Attached
    <3> QED BY <2>3, <3>1, <3>4
  <2>7. CASE tool = "nfsiosnoop"
    <3>1. tool \in Snoopers /\ e = "nfs" /\ tool \notin VfsTools
      BY <1>1, <2>7 DEF TracedEvents, Snoopers, VfsTools
    <3>2. attached = select_nfsiosnoop(Seen)
      BY <2>1, <2>7, <3>1 DEF Selected
    <3>3. \E p : attached = {p} /\ p.event = "nfs" /\ p.side = "exit"
      <4> DEFINE x(l) == XdrStatus(l)
                 r(kind) == Program(kind, "rpc_exit_task", "nfs", "exit", <<"task">>, "rpc_task", "args")
      <4>1. (\E l : attached = {x(l)}) \/ (\E kind : attached = {r(kind)})
        BY <3>2 DEF select_nfsiosnoop
      <4>2. \A l : x(l).event = "nfs" /\ x(l).side = "exit" /\ r(l).event = "nfs" /\ r(l).side = "exit"
        BY DEF XdrStatus, Program
      <4> HIDE DEF x, r
      <4> QED BY <4>1, <4>2
    <3>4. Attached(e, "enter") = {} /\ \E p : Attached(e, "exit") = {p}
      BY <3>1, <3>3 DEF Attached
    <3> QED BY <3>1, <3>4, FS_EmptySet
  <2>8. CASE tool = "smbiosnoop"
    <3>1. tool \in Snoopers /\ e = "smb" /\ tool \notin VfsTools
      BY <1>1, <2>8 DEF TracedEvents, Snoopers, VfsTools
    <3>2. attached = {SmbTracepoint("smb3_cmd_err", "exit")}
      BY <2>1, <2>8, <3>1 DEF Selected, smbiosnoop_programs
    <3>3. Attached(e, "enter") = {} /\ Attached(e, "exit") = {SmbTracepoint("smb3_cmd_err", "exit")}
      BY <3>1, <3>2 DEF Attached, SmbTracepoint, Program
    <3> QED BY <3>1, <3>3, FS_EmptySet
  <2> QED BY <2>2, <2>4, <2>5, <2>6, <2>7, <2>8 DEF AodTools, Slowers, Snoopers
<1>2. IInv => OneProgramPerHook
    BY <1>1 DEF OneProgramPerHook
<1> QED BY <1>2, LoaderInvariant, PTL

\* What the BPF programs take for granted about a kernel: that the prototypes are among
\* those that kernels have had, so that where the VFS tools count parameters the number
\* tells which, but for the two vfs_create of four; that the functions that are hooked
\* without a look have the prototype of the program; and that the BTF of a module brings
\* its structures with it.
VfsAbi(k) ==
    /\ \A h \in VfsHooks \cap DOMAIN k.fn : Len(k.fn[h]) = vfs_hooks[h] => k.fn[h] = VfsArgs[h]
    /\ "vfs_create" \in DOMAIN k.fn => k.fn["vfs_create"] \in {VfsArgs["vfs_create"], create_legacy.reads, OldCreate}
    /\ "vfs_rename" \in DOMAIN k.fn => k.fn["vfs_rename"] \in {VfsArgs["vfs_rename"], OldRename}

CifsAbi(k) ==
    /\ "smb2_mid_entry_alloc" \in DOMAIN k.fn => k.fn["smb2_mid_entry_alloc"] = <<"hdr", "server">>
    /\ "__release_mid" \in DOMAIN k.fn =>
         /\ k.fn["__release_mid"] \in {<<"kref">>, <<"server", "mid">>}
         /\ TrueLayout(k) # "unknown" => k.fn["__release_mid"] = <<"kref">>
    /\ "release_mid" \in DOMAIN k.fn => k.fn["release_mid"] \in {<<"mid">>, <<"server", "mid">>}
    /\ "_cifs_mid_q_entry_release" \in DOMAIN k.fn => k.fn["_cifs_mid_q_entry_release"] = <<"kref">>

NfsAbi(k) ==
    /\ "nfs4_setup_sequence" \in DOMAIN k.fn => k.fn["nfs4_setup_sequence"] = <<"client", "args", "res", "task">>
    /\ "rpc_exit_task" \in DOMAIN k.fn => k.fn["rpc_exit_task"] = <<"task">>

BtfComplete(k) ==
    /\ "cifs" \in k.btf => CifsFunctions \cap DOMAIN k.fn \subseteq k.desc /\ "mid_q_entry" \in k.types
    /\ "vmlinux" \in k.btf => "file" \in k.types
    /\ {"vmlinux", "nfsv4"} \subseteq k.btf \/ {"vmlinux", "sunrpc"} \subseteq k.btf => "rpc_task" \in k.types

KnownAbi(k) == VfsAbi(k) /\ CifsAbi(k) /\ NfsAbi(k) /\ BtfComplete(k)

\* smbslower goes on only with cifs.ko in the kernel.
LEMMA CifsThere ==
    ASSUME IInv, ~Unsupported, tool # "smbiosnoop"
    PROVE  Seen = kernel
<1>1. CASE cifs
    BY <1>1 DEF Seen
<1>2. CASE ~cifs
  <2>1. tool = "smbslower"
    BY <1>2 DEF IInv, PhaseInv
  <2>2. DOMAIN kernel = {"fn", "btf", "desc", "fentry", "types", "tp", "lazy", "release", "src"}
    BY LoaderAssumption DEF IInv, TypeInv
  <2>3. /\ Seen.btf = kernel.btf \ {"cifs"} /\ Seen.src = "none"
        /\ Seen.tp = kernel.tp \ {p.target : p \in SmbTracepoints}
    BY <1>2, <2>2 DEF Seen
  <2>4. ~use_tracepoints(Seen, line.skip)
    BY <2>3 DEF use_tracepoints, tracepoint_exists, SmbTracepoints
  <2>5. FixedLayout(Seen) = "none"
    BY <2>3 DEF FixedLayout
  <2>6. ~SmbSupported(Seen)
    BY <2>3, <2>5 DEF SmbSupported
  <2> QED BY <2>1, <2>4, <2>6 DEF Unsupported
<1> QED BY <1>1, <1>2

\* fentry_can_attach is the truth about the function, and so is a parameter count.
LEMMA ProbeTells ==
    ASSUME NEW k, NEW f, NEW mod
    PROVE  /\ fentry_can_attach(k, f, mod) => f \in k.fentry /\ f \in k.desc /\ {"vmlinux", mod} \subseteq k.btf
           /\ get_func_param_count(k, f, mod) \in Nat =>
                f \in k.desc /\ get_func_param_count(k, f, mod) = Len(k.fn[f])
<1>1. fentry_can_attach(k, f, mod) => f \in k.fentry /\ f \in k.desc /\ {"vmlinux", mod} \subseteq k.btf
    BY DEF fentry_can_attach, fentry_try_attach
<1>2. get_func_param_count(k, f, mod) \in Nat =>
        f \in k.desc /\ get_func_param_count(k, f, mod) = Len(k.fn[f])
    BY DEF get_func_param_count, EINVAL, ENOENT
<1> QED BY <1>1, <1>2

\* An entry or return program whose arguments are the prototype takes the right ones, and
\* one that takes none always does.
LEMMA SameArguments ==
    ASSUME NEW p, NEW proto \in Seq(STRING), p.reads = proto
    PROVE  TakesArguments(p, proto)
    BY DEF TakesArguments

LEMMA NoArguments ==
    ASSUME NEW p, NEW proto \in Seq(STRING), p.reads = << >>, p.kind # "fexit"
    PROVE  TakesArguments(p, proto)
    BY DEF TakesArguments

\* The release program of smbslower, when the BTF of cifs.ko decides on it: the name of
\* the function and the number of its parameters tell its prototype.
LEMMA ReleaseCases ==
    ASSUME NEW k, SmbSupported(k), "cifs" \in k.btf, k.desc \subseteq DOMAIN k.fn,
           k.fn \in [DOMAIN k.fn -> Seq(STRING)], CifsAbi(k)
    PROVE  LET f == ReleaseFunction(k)
               p == ReleaseProgram(k)
           IN  /\ f \in k.desc /\ ReleaseParams(k) = Len(k.fn[f])
               /\ p.kind = (IF fentry_can_attach(k, f, "cifs") THEN "fentry" ELSE "kprobe")
               /\ p.needs \in {"none", "mid_q_entry"} /\ p.layout = "core"
               /\ \/ p.target = f /\ p.reads = k.fn[f]
                  \/ /\ p.target = "__release_mid" /\ f = "release_mid" /\ Len(k.fn[f]) = 2
                     /\ "__release_mid" \notin k.desc
<1> DEFINE f == ReleaseFunction(k)
           p == ReleaseProgram(k)
           kind == IF fentry_can_attach(k, f, "cifs") THEN "fentry" ELSE "kprobe"
           n == ReleaseParams(k)
<1>1. f \in {"__release_mid", "release_mid", "_cifs_mid_q_entry_release"}
    BY DEF ReleaseFunction
<1>2. n = get_func_param_count(k, f, "cifs") /\ n \in {1, 2}
    BY DEF SmbSupported, ReleaseParams
<1>3. f \in k.desc /\ n = Len(k.fn[f])
  <2> HIDE DEF f, n
  <2>1. get_func_param_count(k, f, "cifs") \in Nat
    BY <1>2
  <2> QED BY <1>2, <2>1, ProbeTells
<1>4. f = "_cifs_mid_q_entry_release" => n = 1
    BY DEF SmbSupported
<1>5. f = "release_mid" => "__release_mid" \notin k.desc
  <2>1. f = "release_mid" => get_func_param_count(k, "__release_mid", "cifs") = ENOENT
    BY DEF ReleaseFunction
  <2>2. "__release_mid" \in k.desc => Len(k.fn["__release_mid"]) \in Nat
    OBVIOUS
  <2> QED BY <2>1, <2>2 DEF get_func_param_count, ENOENT, EINVAL
<1>6. p = IF f = "__release_mid" /\ n = 1 THEN MidRelease(kind, f, <<"kref">>, "mid_q_entry", "core")
          ELSE IF f = "_cifs_mid_q_entry_release" THEN MidRelease(kind, f, <<"kref">>, "mid_q_entry", "core")
          ELSE IF n = 2 THEN MidRelease(kind, "__release_mid", <<"server", "mid">>, "none", "core")
          ELSE MidRelease(kind, f, <<"mid">>, "none", "core")
    BY DEF ReleaseProgram
<1> HIDE DEF p, f, n, kind
<1>7. \A k1, t, m, needs, l : LET q == MidRelease(k1, t, m, needs, l)
                              IN  q.kind = k1 /\ q.target = t /\ q.reads = m /\ q.needs = needs /\ q.layout = l
    BY DEF MidRelease, Program
<1>8. p.kind = kind /\ p.needs \in {"none", "mid_q_entry"} /\ p.layout = "core"
    BY <1>6, <1>7
<1>9. /\ f = "__release_mid" => k.fn[f] = IF n = 1 THEN <<"kref">> ELSE <<"server", "mid">>
      /\ f = "release_mid" /\ n = 1 => k.fn[f] = <<"mid">>
      /\ f = "_cifs_mid_q_entry_release" => k.fn[f] = <<"kref">>
  <2>1. \A s \in {<<"kref">>, <<"mid">>} : Len(s) = 1
    OBVIOUS
  <2>2. Len(<<"server", "mid">>) = 2 /\ f \in DOMAIN k.fn
    BY <1>3
  <2>3. f = "__release_mid" => k.fn[f] \in {<<"kref">>, <<"server", "mid">>}
    BY <2>2 DEF CifsAbi
  <2>4. f = "release_mid" => k.fn[f] \in {<<"mid">>, <<"server", "mid">>}
    BY <2>2 DEF CifsAbi
  <2>5. f = "_cifs_mid_q_entry_release" => k.fn[f] = <<"kref">>
    BY <2>2 DEF CifsAbi
  <2>6. f = "__release_mid" => k.fn[f] = IF n = 1 THEN <<"kref">> ELSE <<"server", "mid">>
    <3>1. CASE k.fn[f] = <<"kref">>
      BY <1>3, <2>1, <3>1
    <3>2. CASE k.fn[f] = <<"server", "mid">>
      <4>1. n = 2
        BY <1>3, <2>2, <3>2
      <4> QED BY <3>2, <4>1
    <3> QED BY <2>3, <3>1, <3>2
  <2>7. f = "release_mid" /\ n = 1 => k.fn[f] = <<"mid">>
    <3>1. CASE k.fn[f] = <<"server", "mid">>
      BY <1>3, <2>2, <3>1
    <3> QED BY <2>4, <3>1
  <2> QED BY <2>5, <2>6, <2>7
<1>10. \/ p.target = f /\ p.reads = k.fn[f]
       \/ p.target = "__release_mid" /\ f = "release_mid" /\ n = 2
  <2>1. CASE f = "__release_mid" /\ n = 1
    BY <1>6, <1>7, <1>9, <2>1
  <2>2. CASE f = "__release_mid" /\ n = 2
    BY <1>6, <1>7, <1>9, <2>2
  <2>3. CASE f = "release_mid" /\ n = 1
    BY <1>6, <1>7, <1>9, <2>3
  <2>4. CASE f = "release_mid" /\ n = 2
    BY <1>6, <1>7, <2>4
  <2>5. CASE f = "_cifs_mid_q_entry_release"
    BY <1>6, <1>7, <1>9, <2>5
  <2> QED BY <1>1, <1>2, <2>1, <2>2, <2>3, <2>4, <2>5
<1> QED BY <1>3, <1>5, <1>8, <1>10 DEF p, f, n, kind

\* An fentry program of the VFS family fits its function.
LEMMA VfsFentryFits ==
    ASSUME NEW k, NEW p \in select_vfs_hook_family(k), IsFentry(p), k.desc \subseteq DOMAIN k.fn,
           k.fn \in [DOMAIN k.fn -> Seq(STRING)], VfsAbi(k)
    PROVE  /\ p.target \in k.fentry /\ p.target \in DOMAIN k.fn /\ p.reads = k.fn[p.target]
           /\ p.layout = "args" /\ p.needs \in {"none", "file"} /\ "vmlinux" \in k.btf
<1>1. p \in VfsPrograms \ VfsSyscalls /\ (p \in VfsFixed \/ vfs_fentry_family_supported(k))
    BY DEF select_vfs_hook_family
<1>2. \A h : FixedEnter(h).kind = "kprobe" /\ Return(h).kind = "kretprobe" /\ Enter("kprobe", h).kind = "kprobe"
    BY DEF FixedEnter, Return, Enter, Program
<1>3. create_legacy.kind = "kprobe" /\ rename_legacy.kind = "kprobe" /\ rename_legacy_ret.kind = "kretprobe"
    BY DEF create_legacy, rename_legacy, rename_legacy_ret, Program
<1>4. PICK h \in VfsHooks : p \in {Enter("fentry", h), FentryExit(h)}
    BY <1>1, <1>2, <1>3, VfsProgramSet DEF IsFentry
<1>5. p.target = h /\ p.reads = VfsArgs[h] /\ p.layout = "args" /\ p.needs \in {"none", "file"}
    BY <1>4 DEF Enter, FentryExit, Program
<1>6. p \notin VfsFixed
    BY <1>2 DEF VfsFixed, FixedEnter, Return, IsFentry
<1>7. fentry_can_attach(k, h, "vmlinux") /\ get_func_param_count(k, h, "vmlinux") = vfs_hooks[h]
    BY <1>1, <1>6 DEF vfs_fentry_family_supported
<1>8. h \in k.fentry /\ h \in k.desc /\ "vmlinux" \in k.btf
    BY <1>7, ProbeTells
<1>9. get_func_param_count(k, h, "vmlinux") = Len(k.fn[h])
    BY <1>8 DEF get_func_param_count
<1>10. k.fn[h] = VfsArgs[h]
    BY <1>7, <1>8, <1>9 DEF VfsAbi
<1> QED BY <1>5, <1>8, <1>10

\* An fentry program whose arguments are the prototype loads.
LEMMA FitsLoads ==
    ASSUME NEW k, NEW p, k.fn \in [DOMAIN k.fn -> Seq(STRING)], k.fentry \subseteq DOMAIN k.fn,
           p.target \in k.fentry, p.reads = k.fn[p.target], p.needs = "none" \/ p.needs \in k.types
    PROVE  Loads(k, p)
<1>1. Len(p.reads) = Len(k.fn[p.target]) /\ Len(p.reads) \in Nat
  <2>1. k.fn[p.target] \in Seq(STRING)
    OBVIOUS
  <2> QED BY <2>1
<1> QED BY <1>1 DEF Loads

\* On a kernel of the known ABI, an fentry program that a loader selects will load, so
\* that the final skeleton load does not fail on it; the exception is release_mid with
\* two parameters under smbslower (fentry_can_attach and its callers).
THEOREM SelectionLoadsCorrect == Spec => [](KnownAbi(kernel) => SelectionLoads)
<1>1. ASSUME IInv, KnownAbi(kernel), phase = "load", NEW p \in todo, IsFentry(p)
      PROVE  \/ Loads(Seen, p)
             \/ tool = "smbslower" /\ ReleaseFunction(Seen) = "release_mid" /\ ReleaseParams(Seen) = 2
  <2>1. todo = Selected /\ ~Unsupported
    BY <1>1 DEF IInv, SelectInv, After
  <2>2. kernel.desc \cup kernel.fentry \subseteq DOMAIN kernel.fn /\ kernel.fn \in [DOMAIN kernel.fn -> Seq(STRING)]
    BY <1>1, LoaderAssumption DEF IInv, TypeInv
  <2>3. tool \in VfsTools <=> tool \notin AodTools
    BY <1>1, ToolKind DEF IInv
  <2>4. tool # "smbiosnoop" => Seen = kernel
    BY <1>1, <2>1, CifsThere
  <2>5. CASE tool \in VfsTools
    <3>1. p \in select_vfs_hook_family(kernel) /\ Seen = kernel
      BY <1>1, <2>1, <2>4, <2>5 DEF Selected, VfsTools
    <3>2. /\ p.target \in kernel.fentry /\ p.reads = kernel.fn[p.target] /\ p.target \in DOMAIN kernel.fn
          /\ p.needs \in {"none", "file"} /\ "vmlinux" \in kernel.btf
      BY <1>1, <2>2, <3>1, VfsFentryFits DEF KnownAbi
    <3> QED BY <1>1, <2>2, <3>1, <3>2, FitsLoads DEF KnownAbi, BtfComplete
  <2>6. CASE tool = "smbslower"
    <3>1. p \in select_smbslower(kernel, line.skip) /\ Seen = kernel /\ tool \notin VfsTools
      BY <1>1, <2>1, <2>4, <2>6 DEF Selected, VfsTools
    <3>2. \A q \in SmbTracepoints : ~IsFentry(q)
      BY DEF SmbTracepoints, SmbTracepoint, Program, IsFentry
    <3>3. SmbSupported(kernel) /\ p \in {AllocProgram(kernel), ReleaseProgram(kernel)}
      BY <1>1, <2>1, <2>6, <3>1, <3>2 DEF select_smbslower, Unsupported
    <3>4. "cifs" \in kernel.btf
      BY <1>1, <3>3 DEF AllocProgram, ReleaseProgram, MidAlloc, MidRelease, Program, IsFentry
    <3>5. CASE p = AllocProgram(kernel)
      <4>1. fentry_can_attach(kernel, "smb2_mid_entry_alloc", "cifs")
        BY <1>1, <3>4, <3>5 DEF AllocProgram, MidAlloc, Program, IsFentry
      <4>2. p = MidAlloc("fexit", <<"hdr", "server">>, "mid_q_entry", "core")
        BY <3>4, <3>5, <4>1 DEF AllocProgram
      <4>3. p.needs = "mid_q_entry" /\ p.target = "smb2_mid_entry_alloc" /\ p.reads = <<"hdr", "server">>
        BY <4>2 DEF MidAlloc, Program
      <4>4. "smb2_mid_entry_alloc" \in kernel.fentry
        BY <4>1, ProbeTells
      <4>5. kernel.fn[p.target] = p.reads /\ "mid_q_entry" \in kernel.types
        BY <1>1, <2>2, <3>4, <4>3, <4>4 DEF KnownAbi, CifsAbi, BtfComplete
      <4> QED BY <2>2, <3>1, <4>3, <4>4, <4>5, FitsLoads
    <3>6. CASE p = ReleaseProgram(kernel)
      <4> DEFINE f == ReleaseFunction(kernel)
      <4>1. /\ f \in kernel.desc /\ ReleaseParams(kernel) = Len(kernel.fn[f])
            /\ p.kind = (IF fentry_can_attach(kernel, f, "cifs") THEN "fentry" ELSE "kprobe")
            /\ p.needs \in {"none", "mid_q_entry"}
            /\ \/ p.target = f /\ p.reads = kernel.fn[f]
               \/ f = "release_mid" /\ Len(kernel.fn[f]) = 2
        BY <1>1, <2>2, <3>3, <3>4, <3>6, ReleaseCases DEF KnownAbi
      <4> HIDE DEF f
      <4>2. fentry_can_attach(kernel, f, "cifs")
        BY <1>1, <4>1 DEF IsFentry
      <4>3. f \in kernel.fentry
        BY <4>2, ProbeTells
      <4>4. p.target = f /\ p.reads = kernel.fn[f] => Loads(kernel, p)
        BY <1>1, <2>2, <3>4, <4>1, <4>3, FitsLoads DEF KnownAbi, BtfComplete
      <4> QED BY <2>6, <3>1, <4>1, <4>4 DEF f
    <3> QED BY <3>3, <3>5, <3>6
  <2>7. CASE tool = "nfsslower"
    <3>1. p \in select_nfsslower(kernel) /\ Seen = kernel
      BY <1>1, <2>1, <2>4, <2>7 DEF Selected, VfsTools
    <3> DEFINE first == fentry_can_attach(kernel, "nfs4_setup_sequence", "nfsv4")
               last == fentry_can_attach(kernel, "rpc_exit_task", "sunrpc")
    <3>2. \/ first /\ p.target = "nfs4_setup_sequence" /\ p.reads = <<"client", "args", "res", "task">> /\ p.needs = "rpc_task"
          \/ last /\ p.target = "rpc_exit_task" /\ p.reads = <<"task">> /\ p.needs = "rpc_task"
      BY <1>1, <3>1 DEF select_nfsslower, Program, IsFentry
    <3>3. first => "nfs4_setup_sequence" \in kernel.fentry /\ {"vmlinux", "nfsv4"} \subseteq kernel.btf
      BY ProbeTells
    <3>4. last => "rpc_exit_task" \in kernel.fentry /\ {"vmlinux", "sunrpc"} \subseteq kernel.btf
      BY ProbeTells
    <3> HIDE DEF first, last
    <3>5. p.target \in kernel.fentry /\ kernel.fn[p.target] = p.reads /\ p.needs \in kernel.types
      BY <1>1, <2>2, <3>2, <3>3, <3>4 DEF KnownAbi, NfsAbi, BtfComplete
    <3> QED BY <2>2, <3>1, <3>5, FitsLoads
  <2>8. CASE tool = "nfsiosnoop"
    <3>1. p \in select_nfsiosnoop(kernel) /\ Seen = kernel
      BY <1>1, <2>1, <2>4, <2>8 DEF Selected, VfsTools
    <3>2. /\ fentry_can_attach(kernel, "rpc_exit_task", "sunrpc")
          /\ p.target = "rpc_exit_task" /\ p.reads = <<"task">> /\ p.needs = "rpc_task"
      BY <1>1, <3>1 DEF select_nfsiosnoop, XdrStatus, Program, IsFentry
    <3>3. "rpc_exit_task" \in kernel.fentry /\ {"vmlinux", "sunrpc"} \subseteq kernel.btf
      BY <3>2, ProbeTells
    <3>4. kernel.fn[p.target] = p.reads /\ p.needs \in kernel.types
      BY <1>1, <2>2, <3>2, <3>3 DEF KnownAbi, NfsAbi, BtfComplete
    <3> QED BY <2>2, <3>1, <3>2, <3>3, <3>4, FitsLoads
  <2>9. CASE tool = "smbiosnoop"
    BY <1>1, <2>1, <2>9 DEF Selected, VfsTools, smbiosnoop_programs, SmbTracepoint, Program, IsFentry
  <2> QED BY <2>3, <2>5, <2>6, <2>7, <2>8, <2>9 DEF AodTools, Slowers, Snoopers
<1>2. IInv => (KnownAbi(kernel) => SelectionLoads)
    BY <1>1 DEF SelectionLoads
<1> QED BY <1>2, LoaderInvariant, PTL

\* The fallback programs of the VFS tools, as far as the loaders look: the count of six
\* tells that vfs_rename takes its arguments one by one, the count of four only that
\* vfs_create is an old one.
LEMMA VfsFallbackFits ==
    ASSUME NEW k, NEW p \in select_vfs_hook_family(k), ~IsFentry(p), VfsAbi(k), "vmlinux" \in k.btf,
           k.desc \subseteq DOMAIN k.fn, k.fn \in [DOMAIN k.fn -> Seq(STRING)]
    PROVE  \/ p.kind = "kprobe" /\ (p.target \notin {"vfs_create", "vfs_rename"} \/ p.target \notin k.desc)
           \/ p = create_legacy /\ k.fn["vfs_create"][1] # "idmap"
           \/ p.kind = "kprobe" /\ p.layout = "args" /\ p.target \in DOMAIN k.fn /\ TakesArguments(p, k.fn[p.target])
           \/ p.kind = "kretprobe" /\ p.layout \in {"any", "legacy"} /\ p.reads = << >>
<1>1. p \in VfsPrograms \ VfsSyscalls /\ (p \in VfsFixed \/ FallbackEnabled(k, p))
    BY DEF select_vfs_hook_family
<1>2. \A f \in k.desc : get_func_param_count(k, f, "vmlinux") = Len(k.fn[f]) /\ f \in DOMAIN k.fn
    BY DEF get_func_param_count
<1>3. p.kind # "fentry" /\ p.kind # "fexit"
    BY DEF IsFentry
<1>4. \A h : Enter("fentry", h).kind = "fentry" /\ FentryExit(h).kind = "fexit"
    BY DEF Enter, FentryExit, Program
<1>5. \/ \E h \in VfsHooks : p \in {Enter("kprobe", h), Return(h)}
      \/ \E h \in DOMAIN FixedHooks : p \in {FixedEnter(h), Return(h)}
      \/ p \in {create_legacy, rename_legacy, rename_legacy_ret}
    BY <1>1, <1>3, <1>4, VfsProgramSet
<1>6. CASE \E h : p = Return(h)
    BY <1>6 DEF Return, Program
<1>7. CASE p = rename_legacy_ret
    BY <1>7 DEF rename_legacy_ret, Program
<1>8. CASE \E h \in DOMAIN FixedHooks : p = FixedEnter(h)
  <2>1. PICK h \in DOMAIN FixedHooks : p = FixedEnter(h)
    BY <1>8
  <2>2. p.kind = "kprobe" /\ p.target = h
    BY <2>1 DEF FixedEnter, Program
  <2>3. h \notin {"vfs_create", "vfs_rename"}
    BY HookNames
  <2> QED BY <2>2, <2>3
<1>9. CASE \E h \in VfsHooks : p = Enter("kprobe", h)
  <2>1. PICK h \in VfsHooks : p = Enter("kprobe", h)
    BY <1>9
  <2>2. p.kind = "kprobe" /\ p.target = h /\ p.reads = VfsArgs[h] /\ p.layout = "args"
    BY <2>1 DEF Enter, Program
  <2>3. p \notin VfsFixed
    <3>1. \A g : FixedEnter(g).target = g /\ Return(g).target = g
      BY DEF FixedEnter, Return, Program
    <3>2. h \notin DOMAIN FixedHooks
      BY HookNames
    <3> QED BY <2>2, <3>1, <3>2 DEF VfsFixed, FixedEnter, Return
  <2>4. /\ h = "vfs_create" => get_func_param_count(k, "vfs_create", "vmlinux") # 4
        /\ h = "vfs_rename" => get_func_param_count(k, "vfs_rename", "vmlinux") # 6
    BY <1>1, <2>1, <2>3 DEF FallbackEnabled
  <2>5. CASE h \in {"vfs_create", "vfs_rename"} /\ h \in k.desc
    <3>1. k.fn[h] = VfsArgs[h] /\ h \in DOMAIN k.fn
      BY <1>2, <2>4, <2>5, ArgumentCounts DEF VfsAbi
    <3>2. TakesArguments(p, k.fn[h])
      BY <2>2, <3>1, SameArguments
    <3> QED BY <2>2, <3>1, <3>2
  <2> QED BY <2>2, <2>5
<1>10. CASE p \in {create_legacy, rename_legacy}
  <2>1. /\ create_legacy.kind = "kprobe" /\ create_legacy.target = "vfs_create" /\ create_legacy.layout = "args"
        /\ rename_legacy.kind = "kprobe" /\ rename_legacy.target = "vfs_rename" /\ rename_legacy.layout = "args"
    BY DEF create_legacy, rename_legacy, Program
  <2>2. p \notin VfsFixed
    <3>1. \A g : FixedEnter(g).target = g /\ Return(g).target = g
      BY DEF FixedEnter, Return, Program
    <3>2. "vfs_create" \notin DOMAIN FixedHooks /\ "vfs_rename" \notin DOMAIN FixedHooks
      BY HookNames
    <3> QED BY <1>10, <2>1, <3>1, <3>2 DEF VfsFixed, FixedEnter, Return
  <2>3. /\ p = create_legacy => get_func_param_count(k, "vfs_create", "vmlinux") = 4
        /\ p = rename_legacy => get_func_param_count(k, "vfs_rename", "vmlinux") = 6
    BY <1>1, <2>2 DEF FallbackEnabled
  <2>4. /\ p = create_legacy => "vfs_create" \in DOMAIN k.fn /\ Len(k.fn["vfs_create"]) = 4
        /\ p = rename_legacy => "vfs_rename" \in DOMAIN k.fn /\ Len(k.fn["vfs_rename"]) = 6
    BY <2>3 DEF get_func_param_count, EINVAL, ENOENT
  <2>5. CASE p = create_legacy
    <3>1. k.fn["vfs_create"] \in {create_legacy.reads, OldCreate}
      BY <2>4, <2>5, ArgumentCounts DEF VfsAbi
    <3>2. CASE k.fn["vfs_create"] = create_legacy.reads
      <4>1. k.fn["vfs_create"] \in Seq(STRING)
        BY <2>4, <2>5
      <4>2. TakesArguments(p, k.fn["vfs_create"])
        BY <2>5, <3>2, <4>1, SameArguments
      <4> QED BY <2>1, <2>4, <2>5, <4>2
    <3>3. CASE k.fn["vfs_create"] = OldCreate
      <4>1. OldCreate[1] = "dir"
        BY DEF OldCreate
      <4> QED BY <2>5, <3>3, <4>1
    <3> QED BY <3>1, <3>2, <3>3
  <2>6. CASE p = rename_legacy
    <3>1. k.fn["vfs_rename"] = OldRename
      <4>1. k.fn["vfs_rename"] \in {VfsArgs["vfs_rename"], OldRename}
        BY <2>4, <2>6 DEF VfsAbi
      <4>2. k.fn["vfs_rename"] # VfsArgs["vfs_rename"]
        <5>1. Len(VfsArgs["vfs_rename"]) = 1
          BY ArgumentCounts
        <5>2. Len(k.fn["vfs_rename"]) = 6
          BY <2>4, <2>6
        <5>3. ASSUME NEW a, NEW b, Len(a) = 6, Len(b) = 1 PROVE a # b
          BY <5>3
        <5> QED BY ONLY <5>1, <5>2, <5>3, Zenon
      <4> QED BY <4>1, <4>2
    <3>2. TakesArguments(rename_legacy, OldRename)
      <4>1. rename_legacy.kind # "fexit"
        BY <2>1
      <4>2. \A i \in 1 .. 4 : <<"dir", "dentry", "dir", "dentry">>[i] = OldRename[i]
        BY DEF OldRename
      <4> QED BY <4>1, <4>2, ArgumentCounts DEF TakesArguments
    <3> QED BY <2>1, <2>4, <2>6, <3>1, <3>2
  <2> QED BY <1>10, <2>5, <2>6
<1> QED BY <1>5, <1>6, <1>7, <1>8, <1>9, <1>10

\* The layout that uname -r and srcversion name is the one of the module.
LEMMA LayoutTrue ==
    ASSUME NEW k, FixedLayout(k) # "none"
    PROVE  FixedLayout(k) = TrueLayout(k)
    BY DEF FixedLayout, TrueLayout

\* On a kernel of the known ABI, every program that runs takes the arguments that its
\* function has there and was written for its tracepoint header or structure layout, but
\* for those that the loaders never look at and the vfs_create of four parameters that
\* has no idmap (select_vfs_hook_family, the selection in smbslower.c, nfsslower.c and
\* nfsiosnoop.c).
THEOREM ReadsRightCorrect == Spec => [](KnownAbi(kernel) => ReadsRightArguments)
<1>1. ASSUME IInv, KnownAbi(kernel), Running, NEW p \in attached
      PROVE  \/ Unchecked(p)
             \/ p.kind = "tracepoint" /\ p.layout = (IF kernel.lazy THEN "lazy" ELSE "std")
             \/ /\ p.kind # "tracepoint" /\ TakesArguments(p, kernel.fn[p.target])
                /\ p.layout \in {"args", "core", "any", "legacy", TrueLayout(kernel)}
  <2>1. p \in Selected /\ ~Unsupported /\ Attaches(Seen, p)
    BY <1>1, RunningSelected
  <2>2. kernel.desc \cup kernel.fentry \subseteq DOMAIN kernel.fn /\ kernel.fn \in [DOMAIN kernel.fn -> Seq(STRING)]
    BY <1>1, LoaderAssumption DEF IInv, TypeInv
  <2>3. tool \in VfsTools <=> tool \notin AodTools
    BY <1>1, ToolKind DEF IInv
  <2>4. tool # "smbiosnoop" => Seen = kernel /\ "vmlinux" \in kernel.btf
    BY <1>1, <2>1, CifsThere DEF IInv, SelectInv, Running, After, Loaded
  <2>5. p.kind # "tracepoint" => p.target \in DOMAIN Seen.fn
    BY <2>1 DEF Attaches, kernel_function_exists
  <2>6. \A f \in DOMAIN kernel.fn : kernel.fn[f] \in Seq(STRING)
    BY <2>2
  <2>7. CASE tool \in VfsTools
    <3>1. p \in select_vfs_hook_family(kernel) /\ "vmlinux" \in kernel.btf
      BY <2>1, <2>4, <2>7 DEF Selected, VfsTools
    <3>2. CASE IsFentry(p)
      <4>1. p.reads = kernel.fn[p.target] /\ p.target \in DOMAIN kernel.fn /\ p.layout = "args"
        BY <1>1, <2>2, <3>1, <3>2, VfsFentryFits DEF KnownAbi
      <4>2. TakesArguments(p, kernel.fn[p.target])
        BY <2>6, <4>1, SameArguments
      <4> QED BY <3>2, <4>1, <4>2 DEF IsFentry
    <3>3. CASE ~IsFentry(p)
      <4>1. \/ p.kind = "kprobe" /\ (p.target \notin {"vfs_create", "vfs_rename"} \/ p.target \notin kernel.desc)
            \/ p = create_legacy /\ kernel.fn["vfs_create"][1] # "idmap"
            \/ p.kind = "kprobe" /\ p.layout = "args" /\ TakesArguments(p, kernel.fn[p.target])
            \/ p.kind = "kretprobe" /\ p.layout \in {"any", "legacy"} /\ p.reads = << >>
        BY <1>1, <2>2, <3>1, <3>3, VfsFallbackFits DEF KnownAbi
      <4>2. p.kind = "kretprobe" /\ p.reads = << >> => TakesArguments(p, kernel.fn[p.target])
        BY <2>4, <2>7, <2>5, <2>6, NoArguments DEF VfsTools
      <4> QED BY <2>7, <4>1, <4>2 DEF Unchecked
    <3> QED BY <3>2, <3>3
  <2>8. CASE tool = "smbslower"
    <3>1. p \in select_smbslower(kernel, line.skip) /\ Seen = kernel
      BY <2>1, <2>4, <2>8 DEF Selected, VfsTools
    <3>2. CASE p \in SmbTracepoints
      BY <2>8, <3>2 DEF SmbTracepoints, SmbTracepoint, Program, Unchecked
    <3>3. CASE p \notin SmbTracepoints
      <4>1. SmbSupported(kernel) /\ p \in {AllocProgram(kernel), ReleaseProgram(kernel)}
        BY <2>1, <2>8, <3>1, <3>3 DEF select_smbslower, Unsupported
      <4>2. p.kind # "tracepoint"
        BY <4>1 DEF AllocProgram, ReleaseProgram, MidAlloc, MidRelease, Program
      <4>3. p.target \in DOMAIN kernel.fn /\ kernel.fn[p.target] \in Seq(STRING)
        BY <2>5, <2>6, <3>1, <4>2
      <4>4. CASE p = AllocProgram(kernel)
        <5>1. /\ p.target = "smb2_mid_entry_alloc"
              /\ \/ p.kind = "kretprobe" /\ p.reads = << >>
                 \/ p.kind = "fexit" /\ p.reads = <<"hdr", "server">>
              /\ p.layout = (IF "cifs" \in kernel.btf THEN "core" ELSE FixedLayout(kernel))
          BY <4>4 DEF AllocProgram, MidAlloc, Program
        <5>2. p.kind = "kretprobe" => TakesArguments(p, kernel.fn[p.target])
          BY <4>3, <5>1, NoArguments
        <5>3. p.kind = "fexit" => TakesArguments(p, kernel.fn[p.target])
          <6>1. p.kind = "fexit" => p.reads = kernel.fn[p.target]
            BY <1>1, <4>3, <5>1 DEF KnownAbi, CifsAbi
          <6> QED BY <4>3, <6>1, SameArguments
        <5>4. "cifs" \notin kernel.btf => FixedLayout(kernel) = TrueLayout(kernel)
          BY <4>1, LayoutTrue DEF SmbSupported
        <5> QED BY <4>2, <5>1, <5>2, <5>3, <5>4
      <4>5. CASE "cifs" \notin kernel.btf /\ p = ReleaseProgram(kernel)
        <5>1. FixedLayout(kernel) # "none" /\ FixedLayout(kernel) = TrueLayout(kernel)
          BY <4>1, <4>5, LayoutTrue DEF SmbSupported
        <5>2. /\ ReleaseFunction(kernel) \in {"__release_mid", "_cifs_mid_q_entry_release"}
              /\ TrueLayout(kernel) # "unknown"
          BY <4>5, <5>1 DEF ReleaseFunction, FixedLayout
        <5>3. p.layout = FixedLayout(kernel) /\ p.target = ReleaseFunction(kernel) /\ p.reads = <<"kref">>
          BY <4>5 DEF ReleaseProgram, MidRelease, Program
        <5>4. kernel.fn[p.target] = <<"kref">>
          BY <1>1, <4>3, <5>2, <5>3 DEF KnownAbi, CifsAbi
        <5>5. TakesArguments(p, kernel.fn[p.target])
          BY <4>3, <5>3, <5>4, SameArguments
        <5> QED BY <4>2, <5>1, <5>3, <5>5
      <4>6. CASE "cifs" \in kernel.btf /\ p = ReleaseProgram(kernel)
        <5>1. /\ p.layout = "core"
              /\ \/ p.reads = kernel.fn[p.target]
                 \/ p.target = "__release_mid" /\ "__release_mid" \notin kernel.desc
          BY <1>1, <2>2, <4>1, <4>6, ReleaseCases DEF KnownAbi
        <5>2. p.target = "__release_mid" => "__release_mid" \in kernel.desc
          BY <1>1, <4>3, <4>6 DEF KnownAbi, BtfComplete, CifsFunctions
        <5>3. TakesArguments(p, kernel.fn[p.target])
          BY <4>3, <5>1, <5>2, SameArguments
        <5> QED BY <4>2, <5>1, <5>3
      <4> QED BY <4>1, <4>4, <4>5, <4>6
    <3> QED BY <3>2, <3>3
  <2>9. CASE tool = "nfsslower"
    <3>1. p \in select_nfsslower(kernel) /\ Seen = kernel
      BY <2>1, <2>4, <2>9 DEF Selected, VfsTools
    <3>2. /\ p.kind # "tracepoint" /\ p.layout = "args"
          /\ \/ p.target = "nfs4_setup_sequence" /\ p.reads = <<"client", "args", "res", "task">>
             \/ p.target = "rpc_exit_task" /\ p.reads = <<"task">>
      BY <3>1 DEF select_nfsslower, Program
    <3>3. p.target \in DOMAIN kernel.fn /\ p.reads = kernel.fn[p.target]
      BY <1>1, <2>5, <3>1, <3>2 DEF KnownAbi, NfsAbi
    <3>4. TakesArguments(p, kernel.fn[p.target])
      BY <2>6, <3>3, SameArguments
    <3> QED BY <3>2, <3>4
  <2>10. CASE tool = "nfsiosnoop"
    <3>1. p \in select_nfsiosnoop(kernel) /\ Seen = kernel
      BY <2>1, <2>4, <2>10 DEF Selected, VfsTools
    <3>2. \/ p.kind = "tracepoint" /\ p.layout = (IF kernel.lazy THEN "lazy" ELSE "std")
          \/ p.kind # "tracepoint" /\ p.layout = "args" /\ p.target = "rpc_exit_task" /\ p.reads = <<"task">>
      BY <3>1 DEF select_nfsiosnoop, XdrStatus, Program
    <3>3. p.kind # "tracepoint" => p.target \in DOMAIN kernel.fn /\ p.reads = kernel.fn[p.target]
      BY <1>1, <2>5, <3>1, <3>2 DEF KnownAbi, NfsAbi
    <3>4. p.kind # "tracepoint" => TakesArguments(p, kernel.fn[p.target])
      BY <2>6, <3>3, SameArguments
    <3> QED BY <3>2, <3>4
  <2>11. CASE tool = "smbiosnoop"
    BY <2>1, <2>11 DEF Selected, VfsTools, smbiosnoop_programs, SmbTracepoint, Program, Unchecked
  <2> QED BY <2>3, <2>7, <2>8, <2>9, <2>10, <2>11 DEF AodTools, Slowers, Snoopers
<1>2. IInv => (KnownAbi(kernel) => ReadsRightArguments)
    BY <1>1 DEF ReadsRightArguments
<1> QED BY <1>2, LoaderInvariant, PTL
=============================================================================
