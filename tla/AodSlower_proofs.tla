-------------------------- MODULE AodSlower_proofs --------------------------
(***************************************************************************)
(* Proofs about AodSlower, for any number of keys, map elements, commands  *)
(* and requests and any threshold. A request has a number, and the proof   *)
(* follows the number: it is live under one key, or over. A map element    *)
(* carries the number of the request that started it, which is live under  *)
(* the element's key or ended unseen; so no number can sit in two elements *)
(* or get from the map into two events.                                    *)
(***************************************************************************)
EXTENDS AodSlower, TLAPS

Live(k) == req[k].n # 0

\* The requests that have ended, as far as anybody has noted it.
Over == unended \cup due \cup {exiting[j].n : j \in DOMAIN exiting} \cup {e.n : e \in events}

\* The requests whose start time has left the map.
Used == {exiting[j].start : j \in DOMAIN exiting} \cup {e.start : e \in events}

Made(n) == n \in 1 .. Len(made)

Request == [n : Nat, cmd : Commands \cup {"none"}, version : {"none", "smb", "v3", "v4"},
            first : Int, timed : BOOLEAN]
Element == [ts : Nat, cmd : Commands \cup {"none"}, n : Nat]
Local   == [pe : Slots, partial : Commands \cup {"none"}, start : Nat, latency : Int,
            n : Nat, cmd : Commands \cup {"none"}, took : Int]

\* Types in the form the provers need.
TypeInv ==
    /\ tool \in Tools /\ attached \in 0 .. 3 /\ now \in 0 .. MaxTime
    /\ req \in [Keys -> Request]
    /\ temp \in [DOMAIN temp -> Slots] /\ DOMAIN temp \subseteq Keys
    /\ slot \in [Slots -> Element]
    /\ exiting \in [DOMAIN exiting -> Local] /\ DOMAIN exiting \subseteq Keys
    /\ made \in Seq([cmd : Commands, version : {"smb", "v3", "v4"}])

\* A key holds no request, or one that was made and is not over; no two keys the same.
ReqInv ==
    /\ \A k \in Keys : ~Live(k) <=> req[k] = NoReq
    /\ \A k \in Keys : Live(k) =>
         /\ Made(req[k].n)
         /\ made[req[k].n].cmd = req[k].cmd /\ made[req[k].n].version = req[k].version
         /\ req[k].n \notin Over
         /\ k \notin DOMAIN exiting
    /\ \A k \in Keys : req[k].first \in -1 .. now /\ (req[k].timed => req[k].first >= 0)
    /\ \A j, k \in Keys : Live(j) /\ req[j].n = req[k].n => j = k
    /\ \A n \in Over \cup Used : Made(n)

\* A written element holds the command of a request that is not denied.
SlotInv ==
    /\ \A s \in Slots : slot[s].ts <= now
    /\ \A s \in Slots : slot[s].n # 0 =>
         Made(slot[s].n) /\ slot[s].cmd = made[slot[s].n].cmd /\ slot[s].cmd \notin Denied

\* An element of the map belongs to the live request of its key or to one that ended
\* unseen; keys share neither elements nor requests; a start time leaves the map once.
MapInv ==
    /\ attached = 0 => DOMAIN temp = {}
    /\ \A j, k \in DOMAIN temp : temp[j] = temp[k] => j = k
    /\ \A k \in DOMAIN temp :
         LET n == slot[temp[k]].n
         IN  n # 0 /\ (n = req[k].n \/ n \in unended) /\ n \notin Used
    /\ \A j, k \in DOMAIN temp : slot[temp[j]].n = slot[temp[k]].n => j = k

\* smb3_cmd_enter replaces what it finds, so only a denied request leaves an older element.
TraceInv ==
    tool = "trace" =>
      \A k \in DOMAIN temp : Live(k) /\ slot[temp[k]].n # req[k].n => req[k].cmd \in Denied

\* A request that the entry hook has timed is in the map, with the time of its first
\* hook or an older one.
TimedInv ==
    /\ \A k \in Keys :
         Live(k) /\ req[k].timed /\ req[k].version # "v3" /\ req[k].cmd \notin Denied /\ req[k].n \notin refused =>
           k \in DOMAIN temp /\ slot[temp[k]].ts <= req[k].first
    /\ \A k \in DOMAIN temp :
         Live(k) /\ req[k].timed /\ req[k].n \notin refused /\ slot[temp[k]].n = req[k].n =>
           slot[temp[k]].ts = req[k].first
    /\ \A k \in DOMAIN temp : Live(k) /\ slot[temp[k]].n = req[k].n => req[k].first >= 0

\* What an exit program carries over the delete, or has put into an event.
Sound(n, start, cmd) == start # n => start \in unended /\ (tool = "trace" => cmd \in Denied)
Timely(n, start, latency, took) ==
    latency \in 0 .. now /\ (start = n /\ n \notin refused /\ n \in due => latency = took)

ExitInv ==
    /\ \A k \in DOMAIN exiting :
         /\ Sound(exiting[k].n, exiting[k].start, exiting[k].cmd)
         /\ Timely(exiting[k].n, exiting[k].start, exiting[k].latency, exiting[k].took)
         /\ exiting[k].partial = made[exiting[k].start].cmd /\ exiting[k].partial \notin Denied
         /\ slot[exiting[k].pe].n # 0
         /\ \A e \in events : e.n # exiting[k].n /\ e.start # exiting[k].start
    /\ \A j, k \in DOMAIN exiting :
         exiting[j].n = exiting[k].n \/ exiting[j].start = exiting[k].start => j = k

EventInv ==
    /\ \A e \in events :
         /\ Sound(e.n, e.start, e.cmd)
         /\ Timely(e.n, e.start, e.latency, e.took)
         /\ e.command \notin Denied
         /\ tool # "nfs" => e.command = made[e.start].cmd
    /\ \A e, f \in events : e.n = f.n \/ e.start = f.start => e = f

IInv == /\ TypeInv /\ ReqInv /\ SlotInv /\ MapInv /\ TraceInv /\ TimedInv
        /\ ExitInv /\ EventInv /\ SlowReported

\* Nothing has begun in the initial state.
LEMMA SlowerInit == Init => IInv
<1> SUFFICES ASSUME Init PROVE IInv
    OBVIOUS
<1> USE SlowerAssumption DEF Init
<1>1. TypeInv
    BY DEF TypeInv, NoReq, Request, Element
<1>2. ReqInv
    BY DEF ReqInv, NoReq, Live, Over, Used, Made
<1>3. SlotInv
    BY DEF SlotInv
<1>4. MapInv /\ TraceInv /\ TimedInv
    BY DEF MapInv, TraceInv, TimedInv, Live, NoReq
<1>5. ExitInv /\ EventInv /\ SlowReported
    BY DEF ExitInv, EventInv, SlowReported
<1> QED BY <1>1, <1>2, <1>3, <1>4, <1>5 DEF IInv

(***************************************************************************)
(* What the entry hooks do to the map.                                     *)
(***************************************************************************)

\* The element of key k is written anew, in a slot that no other key uses.
Wrote(k, cmd, n) ==
    /\ cmd \notin Denied
    /\ DOMAIN temp' = DOMAIN temp \cup {k} /\ temp' \in [DOMAIN temp' -> Slots]
    /\ slot' = [slot EXCEPT ![temp'[k]] = [ts |-> now, cmd |-> cmd, n |-> n]]
    /\ \A j \in DOMAIN temp \ {k} : temp'[j] = temp[j] /\ temp[j] # temp'[k]
    /\ refused' = refused

\* The map stays as it is: the command is denied, the element is kept, or there is no room.
Kept(k, cmd, n) ==
    /\ temp' = temp /\ slot' = slot
    /\ \/ refused' = refused /\ (cmd \in Denied \/ k \in DOMAIN temp)
       \/ refused' = refused \cup {n} /\ k \notin DOMAIN temp

LEMMA InsertStep ==
    ASSUME TypeInv, NEW k \in Keys, NEW cmd, cmd \notin Denied, NEW n,
           k \notin DOMAIN temp, Insert(k, cmd, n)
    PROVE  Wrote(k, cmd, n) \/ Kept(k, cmd, n)
<1>1. CASE Free = {} /\ refused' = refused \cup {n} /\ UNCHANGED <<temp, slot>>
    BY <1>1 DEF Kept
<1>2. ASSUME NEW s \in Free, temp' = Put(temp, k, s), slot' = [slot EXCEPT ![s] = Partial(cmd, n)], UNCHANGED refused
      PROVE  Wrote(k, cmd, n)
    <2>1. s \in Slots /\ \A j \in DOMAIN temp : temp[j] # s
        BY <1>2 DEF Free
    <2>2. DOMAIN temp' = DOMAIN temp \cup {k} /\ temp'[k] = s /\ \A j \in DOMAIN temp \ {k} : temp'[j] = temp[j]
        BY <1>2 DEF Put
    <2>3. temp' \in [DOMAIN temp' -> Slots]
        BY <1>2, <2>1, <2>2 DEF Put, TypeInv
    <2> QED BY <1>2, <2>1, <2>2, <2>3 DEF Wrote, Partial
<1> QED BY <1>1, <1>2 DEF Insert

\* BPF_NOEXIST.
LEMMA NoExistStep ==
    ASSUME TypeInv, NEW k \in Keys, NEW cmd, NEW n,
           IF cmd \in Denied THEN UNCHANGED <<temp, slot, refused>> ELSE UpdateNoExist(k, cmd, n)
    PROVE  Kept(k, cmd, n) \/ (k \notin DOMAIN temp /\ Wrote(k, cmd, n))
<1>1. CASE cmd \in Denied \/ k \in DOMAIN temp
    BY <1>1 DEF Kept, UpdateNoExist
<1>2. CASE cmd \notin Denied /\ k \notin DOMAIN temp
    BY <1>2, InsertStep DEF UpdateNoExist
<1> QED BY <1>1, <1>2

\* BPF_ANY.
LEMMA AnyStep ==
    ASSUME TypeInv, MapInv, NEW k \in Keys, NEW cmd, NEW n,
           IF cmd \in Denied THEN UNCHANGED <<temp, slot, refused>> ELSE UpdateAny(k, cmd, n)
    PROVE  (Kept(k, cmd, n) /\ (cmd \in Denied \/ k \notin DOMAIN temp)) \/ Wrote(k, cmd, n)
<1>1. CASE cmd \in Denied
    BY <1>1 DEF Kept
<1>2. CASE cmd \notin Denied /\ k \notin DOMAIN temp
    BY <1>2, InsertStep DEF UpdateAny
<1>3. CASE cmd \notin Denied /\ k \in DOMAIN temp
    <2>1. slot' = [slot EXCEPT ![temp[k]] = Partial(cmd, n)] /\ temp' = temp /\ refused' = refused
        BY <1>3 DEF UpdateAny
    <2>2. \A j \in DOMAIN temp \ {k} : temp[j] # temp[k]
        BY <1>3 DEF MapInv
    <2> QED BY <1>3, <2>1, <2>2 DEF Wrote, Partial, TypeInv
<1> QED BY <1>1, <1>2, <1>3

(***************************************************************************)
(* The steps. What an entry hook may do to the map, and the request that   *)
(* it belongs to, in the three ways that the tools combine them.           *)
(***************************************************************************)
EntryStep(k, cmd, n, version, first) ==
    \/ /\ UNCHANGED <<temp, slot, refused>>
       /\ attached = 0 \/ (tool = "nfs" /\ (version = "v3" \/ first = -1))
    \/ attached >= 1 /\ first = now /\ Wrote(k, cmd, n)
    \/ /\ attached >= 1 /\ first = now /\ Kept(k, cmd, n)
       /\ tool = "trace" => cmd \in Denied \/ k \notin DOMAIN temp

\* A new request (NewTask, MidAlloc, TraceSmb3CmdEnter).
LEMMA NewStep ==
    ASSUME IInv, NEW k \in Keys, NEW cmd \in Commands, NEW version \in {"smb", "v3", "v4"},
           NEW first \in {-1, now}, NewRequest(k, cmd, version, first),
           EntryStep(k, cmd, Len(made) + 1, version, first)
    PROVE  IInv'
<1> DEFINE N == Len(made) + 1
           r == [n |-> N, cmd |-> cmd, version |-> version, first |-> first,
                 timed |-> first >= 0 /\ attached >= 1]
<1>0. TypeInv /\ ReqInv /\ SlotInv /\ MapInv /\ TraceInv /\ TimedInv /\ ExitInv /\ EventInv /\ SlowReported
    BY DEF IInv
<1> USE SlowerAssumption
<1>1. /\ ~Live(k) /\ k \notin DOMAIN exiting
      /\ made' = Append(made, [cmd |-> cmd, version |-> version])
      /\ req' = [req EXCEPT ![k] = r]
      /\ UNCHANGED <<tool, attached, now, exiting, events, unended, due>>
    BY <1>0 DEF NewRequest, ReqInv
<1>2. /\ now \in Nat /\ attached \in 0 .. 3 /\ N \in Nat \ {0} /\ Len(made) \in Nat
      /\ r \in Request /\ first \in -1 .. now
    BY <1>0 DEF TypeInv, Request
<1>3. /\ Len(made') = N /\ made'[N].cmd = cmd /\ made'[N].version = version
      /\ \A n \in 1 .. Len(made) : made'[n] = made[n]
      /\ made' \in Seq([cmd : Commands, version : {"smb", "v3", "v4"}])
    BY <1>0, <1>1 DEF TypeInv
<1>4. req'[k] = r /\ (\A j \in Keys \ {k} : req'[j] = req[j]) /\ req' \in [Keys -> Request]
    BY <1>0, <1>1, <1>2 DEF TypeInv
<1>5. Over' = Over /\ Used' = Used
    BY <1>1 DEF Over, Used
<1>6. /\ N \notin Over /\ N \notin Used
      /\ \A n \in Over \cup Used : n \in 1 .. Len(made)
      /\ \A j \in Keys : req[j].n # N
      /\ \A s \in Slots : slot[s].n # N
    BY <1>0, <1>2 DEF ReqInv, SlotInv, Made, Live
<1>7. \A n : Made(n) => Made(n)'
    BY <1>2, <1>3 DEF Made
<1> HIDE DEF r
<1>8. r.n = N /\ r.cmd = cmd /\ r.version = version /\ r.first = first /\ (r.timed <=> first >= 0 /\ attached >= 1)
    BY DEF r
<1>9. temp' \in [DOMAIN temp' -> Slots] /\ DOMAIN temp' \subseteq Keys /\ slot' \in [Slots -> Element]
    BY <1>0, <1>2, SMTT(40) DEF EntryStep, Kept, Wrote, TypeInv, Element
<1> HIDE DEF N
<1>10. TypeInv'
    BY <1>0, <1>1, <1>3, <1>4, <1>9 DEF TypeInv
<1>11. ReqInv'
    <2>1. r # NoReq
        BY <1>2, <1>8 DEF NoReq
    <2>2. \A j \in Keys : ~Live(j)' <=> req'[j] = NoReq
        BY <1>0, <1>2, <1>4, <1>8, <2>1 DEF ReqInv, Live
    <2>3. ASSUME NEW j \in Keys, Live(j)'
          PROVE /\ Made(req[j].n)'
                /\ made'[req'[j].n].cmd = req'[j].cmd /\ made'[req'[j].n].version = req'[j].version
                /\ req'[j].n \notin Over /\ j \notin DOMAIN exiting
        <3>1. CASE j = k
            BY <1>1, <1>2, <1>3, <1>4, <1>6, <1>8, <3>1 DEF Made
        <3>2. CASE j # k
            BY <1>0, <1>3, <1>4, <1>7, <2>3, <3>2 DEF ReqInv, Live, Made
        <3> QED BY <3>1, <3>2
    <2>4. \A j \in Keys : req'[j].first \in -1 .. now' /\ (req'[j].timed => req'[j].first >= 0)
        BY <1>0, <1>1, <1>2, <1>4, <1>8 DEF ReqInv
    <2>5. \A i, j \in Keys : Live(i)' /\ req'[i].n = req'[j].n => i = j
        BY <1>0, <1>4, <1>6, <1>8 DEF ReqInv, Live
    <2> QED BY <1>0, <1>1, <1>5, <1>7, <2>2, <2>3, <2>4, <2>5 DEF ReqInv
<1>12. SlotInv'
    <2>1. \A s \in Slots : slot'[s] = slot[s] \/ (slot'[s] = [ts |-> now, cmd |-> cmd, n |-> N] /\ cmd \notin Denied)
        BY <1>0 DEF EntryStep, Kept, Wrote, TypeInv, N
    <2>2. \A s \in Slots : slot'[s].ts <= now'
        BY <1>0, <1>1, <1>2, <2>1 DEF SlotInv
    <2>3. ASSUME NEW s \in Slots, slot'[s].n # 0
          PROVE  Made(slot[s].n)' /\ slot'[s].cmd = made'[slot'[s].n].cmd /\ slot'[s].cmd \notin Denied
        BY <1>0, <1>2, <1>3, <1>7, <2>1, <2>3 DEF SlotInv, Made
    <2> QED BY <2>2, <2>3 DEF SlotInv
<1>13. MapInv' /\ TraceInv' /\ TimedInv'
    <2>0. \A j \in DOMAIN temp : j \in Keys /\ temp[j] \in Slots /\ slot[temp[j]].n \notin {0, N}
                                /\ (slot[temp[j]].n = req[j].n \/ slot[temp[j]].n \in unended)
                                /\ slot[temp[j]].n \notin Used /\ slot[temp[j]].ts <= now
        BY <1>0, <1>6 DEF MapInv, TypeInv, SlotInv
    <2>1. CASE temp' = temp /\ slot' = slot /\ ~(attached >= 1 /\ first = now /\ Wrote(k, cmd, N))
        <3>1. MapInv'
            <4>1. \A j \in DOMAIN temp : slot[temp[j]].n = req'[j].n \/ slot[temp[j]].n \in unended
                BY <1>1, <1>4, <2>0 DEF Live
            <4> QED BY <1>0, <1>1, <1>5, <2>0, <2>1, <4>1 DEF MapInv
        <3>2. TraceInv'
            <4>1. ASSUME tool = "trace", k \in DOMAIN temp PROVE cmd \in Denied
                BY <1>0, <2>1, <4>1 DEF EntryStep, Kept, MapInv, N
            <4> QED BY <1>0, <1>1, <1>4, <1>8, <2>0, <2>1, <4>1 DEF TraceInv, Live
        <3>3. TimedInv'
            <4>1. refused' = refused \/ refused' = refused \cup {N}
                BY <2>1 DEF EntryStep, Kept, N
            <4>2. ASSUME first >= 0, attached >= 1, version # "v3", cmd \notin Denied, N \notin refused'
                  PROVE  k \in DOMAIN temp /\ slot[temp[k]].ts <= first
                BY <1>2, <2>0, <2>1, <4>2 DEF EntryStep, Kept, N
            <4>3. ASSUME NEW j \in Keys \ {k}
                  PROVE  req'[j] = req[j] /\ (req[j].n \notin refused' => req[j].n \notin refused)
                BY <1>4, <1>6, <4>1
            <4> QED BY <1>0, <1>4, <1>8, <2>0, <2>1, <4>2, <4>3 DEF TimedInv, Live
        <3> QED BY <3>1, <3>2, <3>3
    <2>2. CASE Wrote(k, cmd, N) /\ attached >= 1 /\ first = now
        <3>1. /\ DOMAIN temp' = DOMAIN temp \cup {k} /\ temp'[k] \in Slots
              /\ slot'[temp'[k]].n = N /\ slot'[temp'[k]].ts = now /\ refused' = refused
            BY <1>0, <2>2 DEF Wrote, TypeInv
        <3>2. \A j \in DOMAIN temp \ {k} : temp'[j] = temp[j] /\ temp[j] # temp'[k] /\ slot'[temp'[j]] = slot[temp[j]]
            BY <1>0, <2>0, <2>2 DEF Wrote, TypeInv
        <3>3. MapInv'
            <4>1. \A j \in DOMAIN temp' : slot'[temp'[j]].n # 0 /\ (slot'[temp'[j]].n = req'[j].n \/ slot'[temp'[j]].n \in unended)
                                            /\ slot'[temp'[j]].n \notin Used
                BY <1>2, <1>4, <1>6, <1>8, <2>0, <3>1, <3>2
            <4>2. \A i, j \in DOMAIN temp' : temp'[i] = temp'[j] => i = j
                BY <1>0, <3>1, <3>2 DEF MapInv
            <4>3. \A i, j \in DOMAIN temp' : slot'[temp'[i]].n = slot'[temp'[j]].n => i = j
                BY <1>0, <2>0, <3>1, <3>2 DEF MapInv
            <4> QED BY <1>1, <1>2, <1>5, <2>2, <4>1, <4>2, <4>3 DEF MapInv
        <3>4. TraceInv'
            BY <1>0, <1>1, <1>4, <1>8, <2>0, <3>1, <3>2 DEF TraceInv, Live
        <3>5. TimedInv'
            BY <1>0, <1>2, <1>4, <1>8, <2>0, <2>2, <3>1, <3>2 DEF TimedInv, Live
        <3> QED BY <3>3, <3>4, <3>5
    <2> QED BY <2>1, <2>2 DEF EntryStep, Kept, N
<1>14. ExitInv'
    <2>1. \A s \in Slots : slot[s].n # 0 => slot'[s].n # 0
        BY <1>0, <1>2 DEF EntryStep, Kept, Wrote, TypeInv, N
    <2>2. \A j \in DOMAIN exiting : exiting[j].pe \in Slots /\ exiting[j].start \in 1 .. Len(made) /\ exiting[j].n # N
        BY <1>0, <1>6 DEF TypeInv, Local, Used, Over
    <2>3. refused \subseteq refused'
        BY DEF EntryStep, Kept, Wrote
    <2> QED BY <1>0, <1>1, <1>3, <2>1, <2>2, <2>3 DEF ExitInv, Sound, Timely
<1>15. EventInv'
    <2>1. \A e \in events : e.start \in 1 .. Len(made)
        BY <1>6 DEF Used
    <2>2. refused \subseteq refused'
        BY DEF EntryStep, Kept, Wrote
    <2> QED BY <1>0, <1>1, <1>3, <2>1, <2>2 DEF EventInv, Sound, Timely
<1>16. SlowReported'
    <2>1. \A n \in due : n \in 1 .. Len(made)
        BY <1>6 DEF Over
    <2>2. refused \subseteq refused'
        BY DEF EntryStep, Kept, Wrote
    <2> QED BY <1>0, <1>1, <1>3, <2>1, <2>2 DEF SlowReported, Reported
<1> QED BY <1>10, <1>11, <1>12, <1>13, <1>14, <1>15, <1>16 DEF IInv

\* nfs4_setup_sequence, the first time or again.
LEMMA SetupStep ==
    ASSUME IInv, NEW k \in Keys, SetupSequence(k)
    PROVE  IInv'
<1> DEFINE n == req[k].n
           r == req'[k]
<1>0. TypeInv /\ ReqInv /\ SlotInv /\ MapInv /\ TraceInv /\ TimedInv /\ ExitInv /\ EventInv /\ SlowReported
    BY DEF IInv
<1> USE SlowerAssumption
<1>1. /\ tool = "nfs" /\ req[k].version = "v4"
      /\ UNCHANGED <<tool, attached, now, exiting, made, events, unended, due>>
    BY DEF SetupSequence
<1>2. Live(k) /\ n \in 1 .. Len(made) /\ n # 0 /\ n \notin Over /\ k \notin DOMAIN exiting /\ Len(made) \in Nat
    BY <1>0, <1>1 DEF ReqInv, NoReq, Made, TypeInv
<1>3. now \in Nat /\ attached \in 0 .. 3 /\ req[k] \in Request /\ req[k].first \in -1 .. now
    BY <1>0 DEF TypeInv, ReqInv
<1>4. /\ r \in Request /\ r.n = n /\ r.cmd = req[k].cmd /\ r.version = "v4"
      /\ r.first = (IF req[k].first = -1 THEN now ELSE req[k].first) /\ r.first \in 0 .. now
      /\ r.timed <=> req[k].timed \/ (attached >= 1 /\ req[k].first = -1)
    <2>1. PICK a : a = IF req[k].first = -1 THEN now ELSE req[k].first
        OBVIOUS
    <2>2. PICK b : b = (req[k].timed \/ (attached >= 1 /\ req[k].first = -1))
        OBVIOUS
    <2>3. a \in Int /\ a \in 0 .. now /\ b \in BOOLEAN
        BY <1>3, <2>1, <2>2
    <2>4. req' = [req EXCEPT ![k] = [req[k] EXCEPT !.first = a, !.timed = b]]
        BY <2>1, <2>2 DEF SetupSequence
    <2>5. r = [req[k] EXCEPT !.first = a, !.timed = b]
        BY <1>0, <2>4 DEF TypeInv
    <2> HIDE DEF r
    <2>6. /\ r \in Request /\ r.n = req[k].n /\ r.cmd = req[k].cmd /\ r.version = req[k].version
          /\ r.first = a /\ r.timed = b
        BY <1>3, <2>3, <2>5 DEF Request
    <2> QED BY <1>1, <2>1, <2>2, <2>3, <2>6
<1>5. r = req'[k] /\ (\A j \in Keys \ {k} : req'[j] = req[j]) /\ req' \in [Keys -> Request]
    <2>1. DOMAIN req' = Keys /\ \A j \in Keys \ {k} : req'[j] = req[j]
        BY <1>0 DEF SetupSequence, TypeInv
    <2>2. req' = [j \in Keys |-> req'[j]]
        BY <1>0 DEF SetupSequence, TypeInv
    <2>3. \A j \in Keys : req'[j] \in Request
        BY <1>0, <1>4, <2>1 DEF TypeInv
    <2> QED BY <2>1, <2>2, <2>3
<1> HIDE DEF r
<1>6. Over' = Over /\ Used' = Used
    BY <1>1 DEF Over, Used
<1>7. \/ attached = 0 /\ UNCHANGED <<temp, slot, refused>>
      \/ attached >= 1 /\ Kept(k, req[k].cmd, n)
      \/ attached >= 1 /\ k \notin DOMAIN temp /\ Wrote(k, req[k].cmd, n)
    BY <1>0, <1>3, NoExistStep DEF SetupSequence, ProbeEntry, n
<1>8. n \notin Used
    BY <1>0, <1>2 DEF Used, Over, ExitInv, EventInv, Sound
<1> HIDE DEF n
<1>9. \A j \in DOMAIN temp :
        /\ j \in Keys /\ temp[j] \in Slots /\ slot[temp[j]].ts <= now
        /\ slot[temp[j]].n = req[j].n \/ slot[temp[j]].n \in unended
        /\ slot[temp[j]].n \notin Used /\ slot[temp[j]].n # 0
        /\ j # k => slot[temp[j]].n # n
    BY <1>0, <1>2 DEF MapInv, TypeInv, SlotInv, ReqInv, Over, n
<1>10. TypeInv'
    <2>1. temp' \in [DOMAIN temp' -> Slots] /\ DOMAIN temp' \subseteq Keys /\ slot' \in [Slots -> Element]
        <3>1. CASE temp' = temp /\ slot' = slot
            BY <1>0, <3>1 DEF TypeInv
        <3>2. CASE Wrote(k, req[k].cmd, n)
            <4>1. [ts |-> now, cmd |-> req[k].cmd, n |-> n] \in Element
                BY <1>2, <1>3 DEF Element, Request
            <4> QED BY <1>0, <3>2, <4>1 DEF TypeInv, Wrote
        <3> QED BY <1>7, <3>1, <3>2 DEF Kept
    <2> QED BY <1>0, <1>1, <1>5, <2>1 DEF TypeInv
<1>11. ReqInv'
    <2>1. \A j \in Keys :
            /\ req'[j].n = req[j].n /\ req'[j].cmd = req[j].cmd /\ req'[j].version = req[j].version
            /\ req'[j] = NoReq <=> req[j] = NoReq
            /\ req'[j].first \in -1 .. now /\ (req'[j].timed => req'[j].first >= 0)
        <3>1. r # NoReq /\ req[k] # NoReq
            BY <1>2, <1>4 DEF NoReq, n
        <3>2. r.first \in -1 .. now /\ r.first >= 0
            BY <1>3, <1>4
        <3> QED BY <1>0, <1>1, <1>4, <1>5, <3>1, <3>2 DEF ReqInv, n
    <2> QED BY <1>0, <1>1, <1>6, <2>1 DEF ReqInv, Live, Made
<1>12. SlotInv'
    <2>1. \A s \in Slots : slot'[s] = slot[s] \/ (slot'[s] = [ts |-> now, cmd |-> req[k].cmd, n |-> n] /\ req[k].cmd \notin Denied)
        BY <1>0, <1>7 DEF Kept, Wrote, TypeInv
    <2>2. made[n].cmd = req[k].cmd
        BY <1>0, <1>2 DEF ReqInv, n
    <2> QED BY <1>0, <1>1, <1>2, <1>3, <2>1, <2>2 DEF SlotInv, Made
<1>13. MapInv' /\ TraceInv' /\ TimedInv'
    <2>0. TraceInv'
        BY <1>1 DEF TraceInv
    <2>1. CASE temp' = temp /\ slot' = slot /\ (attached = 0 => refused' = refused) /\ (attached >= 1 => Kept(k, req[k].cmd, n))
        <3>1. MapInv'
            BY <1>0, <1>1, <1>4, <1>5, <1>6, <1>9, <2>1 DEF MapInv, n
        <3>2. refused' = refused \/ refused' = refused \cup {n}
            BY <1>3, <2>1 DEF Kept
        <3>3. ASSUME r.timed, req[k].cmd \notin Denied, n \notin refused'
              PROVE  k \in DOMAIN temp /\ slot[temp[k]].ts <= r.first
            BY <1>0, <1>1, <1>2, <1>3, <1>4, <1>9, <2>1, <3>2, <3>3 DEF TimedInv, Kept, n
        <3>4. ASSUME r.timed, k \in DOMAIN temp, slot[temp[k]].n = n, n \notin refused'
              PROVE  slot[temp[k]].ts = r.first
            BY <1>0, <1>1, <1>2, <1>3, <1>4, <1>9, <3>2, <3>4 DEF TimedInv, n
        <3>5. ASSUME NEW j \in Keys \ {k} PROVE req'[j] = req[j] /\ (req[j].n \notin refused' => req[j].n \notin refused)
            BY <1>5, <3>2
        <3>6. TimedInv'
            BY <1>0, <1>4, <1>5, <1>9, <2>1, <3>3, <3>4, <3>5 DEF TimedInv, Live
        <3> QED BY <2>0, <3>1, <3>6
    <2>2. CASE attached >= 1 /\ k \notin DOMAIN temp /\ Wrote(k, req[k].cmd, n)
        <3>1. /\ DOMAIN temp' = DOMAIN temp \cup {k} /\ temp'[k] \in Slots
              /\ slot'[temp'[k]].n = n /\ slot'[temp'[k]].ts = now /\ refused' = refused /\ req[k].cmd \notin Denied
            BY <1>0, <2>2 DEF Wrote, TypeInv
        <3>2. \A j \in DOMAIN temp : j # k /\ temp'[j] = temp[j] /\ temp[j] # temp'[k] /\ slot'[temp'[j]] = slot[temp[j]]
            BY <1>0, <1>9, <2>2 DEF Wrote, TypeInv
        <3>3. MapInv'
            <4>1. \A j \in DOMAIN temp' : slot'[temp'[j]].n # 0 /\ (slot'[temp'[j]].n = req'[j].n \/ slot'[temp'[j]].n \in unended)
                                            /\ slot'[temp'[j]].n \notin Used
                BY <1>2, <1>4, <1>5, <1>8, <1>9, <3>1, <3>2
            <4>2. \A i, j \in DOMAIN temp' : temp'[i] = temp'[j] => i = j
                BY <1>0, <3>1, <3>2 DEF MapInv
            <4>3. \A i, j \in DOMAIN temp' : slot'[temp'[i]].n = slot'[temp'[j]].n => i = j
                BY <1>0, <1>9, <3>1, <3>2 DEF MapInv
            <4> QED BY <1>1, <1>3, <1>6, <2>2, <4>1, <4>2, <4>3 DEF MapInv
        <3>4. ASSUME r.timed, n \notin refused PROVE r.first = now
            BY <1>0, <1>1, <1>2, <1>4, <2>2, <3>1, <3>4 DEF TimedInv, n
        <3>5. TimedInv'
            BY <1>0, <1>4, <1>5, <1>9, <3>1, <3>2, <3>4 DEF TimedInv, Live
        <3> QED BY <2>0, <3>3, <3>5
    <2> QED BY <1>3, <1>7, <2>1, <2>2 DEF Kept
<1>14. refused \subseteq refused'
    BY <1>7 DEF Kept, Wrote
<1>15. ExitInv'
    <2>1. \A s \in Slots : slot[s].n # 0 => slot'[s].n # 0
        BY <1>0, <1>2, <1>7 DEF Kept, Wrote, TypeInv
    <2>2. \A j \in DOMAIN exiting : exiting[j].pe \in Slots
        BY <1>0 DEF TypeInv, Local
    <2> QED BY <1>0, <1>1, <1>14, <2>1, <2>2 DEF ExitInv, Sound, Timely
<1>16. EventInv' /\ SlowReported'
    BY <1>0, <1>1, <1>14 DEF EventInv, Sound, Timely, SlowReported, Reported
<1> QED BY <1>10, <1>11, <1>12, <1>13, <1>15, <1>16 DEF IInv

\* A request ends and the exit program does not run (EndUnseen, or End before it is attached).
LEMMA UnseenStep ==
    ASSUME IInv, NEW k \in Keys, req[k] # NoReq, req' = [req EXCEPT ![k] = NoReq],
           unended' = unended \cup {req[k].n},
           UNCHANGED <<tool, attached, now, temp, slot, exiting, made, events, refused, due>>
    PROVE  IInv'
<1>0. TypeInv /\ ReqInv /\ SlotInv /\ MapInv /\ TraceInv /\ TimedInv /\ ExitInv /\ EventInv /\ SlowReported
    BY DEF IInv
<1>1. NoReq \in Request /\ NoReq.n = 0 /\ NoReq.first = -1 /\ ~NoReq.timed
    BY DEF NoReq, Request
<1>2. req'[k] = NoReq /\ (\A j \in Keys \ {k} : req'[j] = req[j]) /\ req' \in [Keys -> Request]
    BY <1>0, <1>1 DEF TypeInv
<1>3. Over' = Over \cup {req[k].n} /\ Used' = Used /\ Live(k)
    BY <1>0 DEF Over, Used, ReqInv
<1>4. TypeInv'
    BY <1>0, <1>2 DEF TypeInv
<1>5. ReqInv'
    <2>1. now \in Nat
        BY <1>0 DEF TypeInv
    <2>2. ASSUME NEW j \in Keys \ {k}, Live(j) PROVE req[j].n # req[k].n
        BY <1>0, <2>2 DEF ReqInv
    <2> QED BY <1>0, <1>1, <1>2, <1>3, <2>1, <2>2 DEF ReqInv, Live, Made
<1>6. SlotInv'
    BY <1>0 DEF SlotInv, Made
<1>7. MapInv'
    BY <1>0, <1>2, <1>3 DEF MapInv, TypeInv
<1>8. TraceInv' /\ TimedInv'
    BY <1>0, <1>1, <1>2 DEF TraceInv, TimedInv, Live, TypeInv
<1>9. ExitInv' /\ EventInv' /\ SlowReported'
    BY <1>0 DEF ExitInv, EventInv, Sound, Timely, SlowReported, Reported
<1> QED BY <1>4, <1>5, <1>6, <1>7, <1>8, <1>9 DEF IInv

\* A request ends under the eyes of its exit program: lookup, latency, delete, threshold.
LEMMA SeenStep ==
    ASSUME IInv, NEW k \in Keys, req[k] # NoReq, req' = [req EXCEPT ![k] = NoReq],
           LookupDelete(k),
           due' = IF req[k].timed /\ req[k].cmd \notin Denied /\ now - req[k].first >= MinLat
                  THEN due \cup {req[k].n} ELSE due,
           UNCHANGED <<tool, attached, now, slot, made, events, refused, unended>>
    PROVE  IInv'
<1> DEFINE n == req[k].n
           start == slot[temp[k]].n
           Slow == k \in DOMAIN temp /\ now - slot[temp[k]].ts >= MinLat
<1>0. TypeInv /\ ReqInv /\ SlotInv /\ MapInv /\ TraceInv /\ TimedInv /\ ExitInv /\ EventInv /\ SlowReported
    BY DEF IInv
<1> USE SlowerAssumption
<1>1. NoReq \in Request /\ NoReq.n = 0 /\ NoReq.first = -1 /\ ~NoReq.timed
    BY DEF NoReq, Request
<1>2. req'[k] = NoReq /\ (\A j \in Keys \ {k} : req'[j] = req[j]) /\ req' \in [Keys -> Request]
    BY <1>0, <1>1 DEF TypeInv
<1>3. /\ Live(k) /\ Made(n) /\ n \notin Over /\ k \notin DOMAIN exiting /\ n \in Nat
      /\ req[k] \in Request /\ req[k].first \in -1 .. now /\ now \in Nat
      /\ made[n].version = req[k].version
      /\ \A j \in Keys \ {k} : req[j].n # n
    BY <1>0 DEF ReqInv, Live, TypeInv, Request
<1>4. \A j \in DOMAIN temp : j \in Keys /\ temp[j] \in Slots /\ slot[temp[j]] \in Element /\ slot[temp[j]].ts <= now
    BY <1>0 DEF TypeInv, SlotInv
<1>5. DOMAIN temp' = DOMAIN temp \ {k} /\ (\A j \in DOMAIN temp' : temp'[j] = temp[j]) /\ temp' \in [DOMAIN temp' -> Slots]
    BY <1>0 DEF LookupDelete, Drop, TypeInv
<1>6. CASE ~Slow
    <2>1. exiting' = exiting
        BY <1>3, <1>4, <1>6 DEF LookupDelete, Element
    <2>2. Used' = Used /\ Over' = Over \cup due' /\ due' \subseteq due \cup {n}
        BY <2>1 DEF Used, Over
    <2>3. TypeInv'
        BY <1>0, <1>2, <1>5, <2>1 DEF TypeInv
    <2>4. ReqInv'
        BY <1>0, <1>1, <1>2, <1>3, <2>1, <2>2 DEF ReqInv, Live, Made, Over
    <2>5. SlotInv'
        BY <1>0 DEF SlotInv, Made
    <2>6. MapInv'
        BY <1>0, <1>2, <1>4, <1>5, <2>2 DEF MapInv
    <2>7. TraceInv' /\ TimedInv'
        <3>1. \A j \in Keys : Live(j)' => j # k /\ req'[j] = req[j] /\ Live(j)
            BY <1>1, <1>2 DEF Live
        <3>2. \A j \in DOMAIN temp' : j \in DOMAIN temp /\ j \in Keys /\ j # k /\ temp'[j] = temp[j]
            BY <1>4, <1>5
        <3>3. \A j \in DOMAIN temp \ {k} : j \in DOMAIN temp'
            BY <1>5
        <3> QED BY <1>0, <3>1, <3>2, <3>3 DEF TraceInv, TimedInv
    <2>8. ExitInv' /\ EventInv'
        BY <1>0, <1>3, <2>1, <2>2 DEF ExitInv, EventInv, Sound, Timely, Over
    <2>9. SlowReported'
        <3>1. ASSUME n \in due', n \notin refused, made[n].version # "v3" PROVE FALSE
            <4>1. req[k].timed /\ req[k].cmd \notin Denied /\ now - req[k].first >= MinLat
                BY <1>3, <3>1 DEF Over
            <4>2. k \in DOMAIN temp /\ slot[temp[k]].ts <= req[k].first
                BY <1>0, <1>3, <3>1, <4>1 DEF TimedInv
            <4> QED BY <1>3, <1>4, <1>6, <4>1, <4>2 DEF Element
        <3> QED BY <1>0, <2>1, <2>2, <3>1 DEF SlowReported, Reported
    <2> QED BY <2>3, <2>4, <2>5, <2>6, <2>7, <2>8, <2>9 DEF IInv
<1>7. CASE Slow
    <2> DEFINE x == [pe |-> temp[k], partial |-> slot[temp[k]].cmd, start |-> start,
                     latency |-> now - slot[temp[k]].ts, n |-> n, cmd |-> req[k].cmd,
                     took |-> now - req[k].first]
    <2>1. /\ DOMAIN exiting' = DOMAIN exiting \cup {k} /\ exiting'[k] = x
          /\ (\A j \in DOMAIN exiting : exiting'[j] = exiting[j] /\ j # k)
          /\ exiting' = [j \in DOMAIN exiting' |-> exiting'[j]]
        BY <1>3, <1>4, <1>7 DEF LookupDelete, Put, Locals, Element
    <2>2. /\ x.pe = temp[k] /\ x.partial = slot[temp[k]].cmd /\ x.start = start /\ x.n = n /\ x.cmd = req[k].cmd
          /\ x.latency = now - slot[temp[k]].ts /\ x.took = now - req[k].first /\ x \in Local
        BY <1>3, <1>4, <1>7 DEF Local, Element, Request
    <2> HIDE DEF x
    <2>3. /\ start # 0 /\ (start = n \/ start \in unended) /\ start \notin Used /\ Made(start)
          /\ slot[temp[k]].cmd = made[start].cmd /\ slot[temp[k]].cmd \notin Denied
          /\ \A j \in DOMAIN temp \ {k} : slot[temp[j]].n # start
        BY <1>0, <1>3, <1>4, <1>7 DEF MapInv, SlotInv
    <2> HIDE DEF start, n, Slow
    <2>4. Used' = Used \cup {start} /\ Over' = Over \cup {n} /\ due' \subseteq due \cup {n} /\ due \subseteq due'
        <3>1. {exiting'[j].start : j \in DOMAIN exiting'} = {exiting[j].start : j \in DOMAIN exiting} \cup {start}
            BY <2>1, <2>2
        <3>2. {exiting'[j].n : j \in DOMAIN exiting'} = {exiting[j].n : j \in DOMAIN exiting} \cup {n}
            BY <2>1, <2>2
        <3>3. due' \subseteq due \cup {n} /\ due \subseteq due'
            BY DEF n
        <3>4. Used' = Used \cup {start}
            BY <3>1 DEF Used
        <3>5. Over' = Over \cup {n}
            BY <3>2, <3>3 DEF Over
        <3> QED BY <3>3, <3>4, <3>5
    <2>5. TypeInv'
        <3>1. exiting' \in [DOMAIN exiting' -> Local] /\ DOMAIN exiting' \subseteq Keys
            <4>1. \A j \in DOMAIN exiting' : exiting'[j] \in Local
                BY <1>0, <2>1, <2>2 DEF TypeInv
            <4> QED BY <1>0, <2>1, <4>1 DEF TypeInv
        <3> QED BY <1>0, <1>2, <1>5, <3>1 DEF TypeInv
    <2>6. ReqInv'
        <3>1. \A j \in Keys : Live(j)' => j # k /\ req'[j] = req[j] /\ Live(j) /\ req[j].n # n
            BY <1>1, <1>2, <1>3 DEF Live
        <3>2. \A m \in Over' \cup Used' : Made(m)
            BY <1>0, <1>3, <2>3, <2>4 DEF ReqInv
        <3>3. \A j \in Keys : ~Live(j)' <=> req'[j] = NoReq
            BY <1>0, <1>1, <1>2 DEF ReqInv, Live
        <3>4. \A j \in Keys : req'[j].first \in -1 .. now /\ (req'[j].timed => req'[j].first >= 0)
            BY <1>0, <1>1, <1>2, <1>3 DEF ReqInv
        <3>5. \A i, j \in Keys : Live(i)' /\ req'[i].n = req'[j].n => i = j
            BY <1>0, <1>1, <1>2, <3>1 DEF ReqInv, Live
        <3> QED BY <1>0, <2>1, <2>4, <3>1, <3>2, <3>3, <3>4, <3>5 DEF ReqInv, Made
    <2>7. SlotInv'
        BY <1>0 DEF SlotInv, Made
    <2>8. MapInv'
        BY <1>0, <1>2, <1>4, <1>5, <2>3, <2>4 DEF MapInv
    <2>9. TraceInv' /\ TimedInv'
        <3>1. \A j \in Keys : Live(j)' => j # k /\ req'[j] = req[j] /\ Live(j)
            BY <1>1, <1>2 DEF Live
        <3>2. \A j \in DOMAIN temp' : j \in DOMAIN temp /\ j \in Keys /\ j # k /\ temp'[j] = temp[j]
            BY <1>4, <1>5
        <3>3. \A j \in DOMAIN temp \ {k} : j \in DOMAIN temp'
            BY <1>5
        <3> QED BY <1>0, <3>1, <3>2, <3>3 DEF TraceInv, TimedInv
    <2>10. Sound(n, start, req[k].cmd) /\ (tool = "trace" /\ start # n => req[k].cmd \in Denied)
        BY <1>0, <1>3, <1>7, <2>3 DEF Sound, TraceInv, Slow, n, start
    <2>11. x.latency \in 0 .. now /\ (start = n /\ n \notin refused /\ n \in due' => x.latency = x.took)
        <3>1. x.latency \in 0 .. now
            BY <1>3, <1>4, <1>7, <2>2 DEF Element, Slow
        <3>2. ASSUME start = n, n \notin refused, n \in due' PROVE x.latency = x.took
            <4>1. req[k].timed
                BY <1>3, <3>2 DEF Over, n
            <4>2. slot[temp[k]].ts = req[k].first
                BY <1>0, <1>3, <1>7, <3>2, <4>1 DEF TimedInv, Slow, n, start
            <4> QED BY <2>2, <4>2
        <3> QED BY <3>1, <3>2
    <2>12. ExitInv'
        <3>1. \A j \in DOMAIN exiting : exiting[j].n \in Over /\ exiting[j].start \in Used
            BY DEF Over, Used
        <3>2. \A e \in events : e.n \in Over /\ e.start \in Used
            BY DEF Over, Used
        <3>3. ASSUME NEW j \in DOMAIN exiting
              PROVE /\ Sound(exiting[j].n, exiting[j].start, exiting[j].cmd)'
                    /\ Timely(exiting[j].n, exiting[j].start, exiting[j].latency, exiting[j].took)'
                    /\ exiting'[j].partial = made'[exiting'[j].start].cmd /\ exiting'[j].partial \notin Denied
                    /\ slot'[exiting'[j].pe].n # 0
                    /\ \A e \in events' : e.n # exiting'[j].n /\ e.start # exiting'[j].start
            BY <1>0, <1>3, <2>1, <2>4, <3>1 DEF ExitInv, Sound, Timely
        <3>4. /\ Sound(exiting[k].n, exiting[k].start, exiting[k].cmd)'
              /\ Timely(exiting[k].n, exiting[k].start, exiting[k].latency, exiting[k].took)'
              /\ exiting'[k].partial = made'[exiting'[k].start].cmd /\ exiting'[k].partial \notin Denied
              /\ slot'[exiting'[k].pe].n # 0
              /\ \A e \in events' : e.n # exiting'[k].n /\ e.start # exiting'[k].start
            <4>1. slot[temp[k]].n # 0
                BY <2>3 DEF start
            <4> QED BY <1>3, <2>1, <2>2, <2>3, <2>10, <2>11, <3>2, <4>1 DEF Sound, Timely
        <3>5. \A i, j \in DOMAIN exiting' : exiting'[i].n = exiting'[j].n \/ exiting'[i].start = exiting'[j].start => i = j
            BY <1>0, <1>3, <2>1, <2>2, <2>3, <3>1 DEF ExitInv
        <3> QED BY <2>1, <3>3, <3>4, <3>5 DEF ExitInv
    <2>13. EventInv'
        <3>1. \A e \in events : e.n \in Over
            BY DEF Over
        <3> QED BY <1>0, <1>3, <2>4, <3>1 DEF EventInv, Sound, Timely
    <2>14. SlowReported'
        <3>1. \A j \in DOMAIN exiting : j \in DOMAIN exiting' /\ exiting'[j].n = exiting[j].n
            BY <2>1
        <3>2. k \in DOMAIN exiting' /\ exiting'[k].n = n
            BY <2>1, <2>2
        <3>3. ASSUME NEW m, Reported(m) \/ m = n PROVE Reported(m)'
            BY <3>1, <3>2, <3>3 DEF Reported
        <3> QED BY <1>0, <2>4, <3>3 DEF SlowReported
    <2> QED BY <2>5, <2>6, <2>7, <2>8, <2>9, <2>12, <2>13, <2>14 DEF IInv
<1> QED BY <1>6, <1>7

\* An exit program submits its event, or finds the ring full.
LEMMA ReportStep ==
    ASSUME IInv, NEW k \in Keys, k \in DOMAIN exiting, NEW command, Report(k, command),
           command \notin Denied, tool # "nfs" => command = exiting[k].partial
    PROVE  IInv'
<1> DEFINE x == exiting[k]
           ev == [n |-> x.n, start |-> x.start, cmd |-> x.cmd, command |-> command,
                  latency |-> x.latency, took |-> x.took]
<1>0. TypeInv /\ ReqInv /\ SlotInv /\ MapInv /\ TraceInv /\ TimedInv /\ ExitInv /\ EventInv /\ SlowReported
    BY DEF IInv
<1>1. /\ UNCHANGED <<tool, attached, now, req, temp, slot, made, unended, due>>
      /\ \/ events' = events \cup {ev} /\ refused' = refused
         \/ refused' = refused \cup {x.n} /\ events' = events
    BY DEF Report
<1>2. /\ DOMAIN exiting' = DOMAIN exiting \ {k} /\ \A j \in DOMAIN exiting' : exiting'[j] = exiting[j]
      /\ exiting' \in [DOMAIN exiting' -> Local]
    BY <1>0 DEF Report, Drop, TypeInv
<1>3. ev.n = x.n /\ ev.start = x.start /\ ev.cmd = x.cmd /\ ev.command = command
      /\ ev.latency = x.latency /\ ev.took = x.took
    OBVIOUS
<1> HIDE DEF ev
<1>4. Over' \subseteq Over /\ Used' \subseteq Used
    BY <1>1, <1>2, <1>3 DEF Over, Used
<1>5. refused \subseteq refused'
    BY <1>1
<1>6. TypeInv'
    BY <1>0, <1>1, <1>2 DEF TypeInv
<1>7. ReqInv'
    BY <1>0, <1>1, <1>2, <1>4 DEF ReqInv, Live, Made
<1>8. SlotInv' /\ MapInv' /\ TraceInv'
    BY <1>0, <1>1, <1>4 DEF SlotInv, Made, MapInv, TraceInv, Live
<1>9. TimedInv'
    BY <1>0, <1>1, <1>5 DEF TimedInv, Live
<1>10. ExitInv'
    <2>1. ASSUME NEW j \in DOMAIN exiting' PROVE \A e \in events' : e.n # exiting'[j].n /\ e.start # exiting'[j].start
        BY <1>0, <1>1, <1>2, <1>3 DEF ExitInv
    <2> QED BY <1>0, <1>1, <1>2, <1>5, <2>1 DEF ExitInv, Sound, Timely
<1>11. EventInv'
    <2>1. CASE events' = events
        BY <1>0, <1>1, <1>5, <2>1 DEF EventInv, Sound, Timely
    <2>2. CASE events' = events \cup {ev} /\ refused' = refused
        <3>1. /\ Sound(x.n, x.start, x.cmd) /\ Timely(x.n, x.start, x.latency, x.took)
              /\ tool # "nfs" => command = made[x.start].cmd
              /\ \A e \in events : e.n # x.n /\ e.start # x.start
            BY <1>0 DEF ExitInv
        <3> HIDE DEF x
        <3> QED BY <1>0, <1>1, <1>3, <2>2, <3>1 DEF EventInv, Sound, Timely
    <2> QED BY <1>1, <2>1, <2>2
<1>12. SlowReported'
    <2>1. \A j \in DOMAIN exiting : j = k \/ (j \in DOMAIN exiting' /\ exiting'[j].n = exiting[j].n)
        BY <1>2
    <2>2. ASSUME NEW m, Reported(m), m \notin refused' PROVE Reported(m)'
        BY <1>1, <1>3, <2>1, <2>2 DEF Reported
    <2> QED BY <1>0, <1>1, <1>5, <2>2 DEF SlowReported
<1> QED BY <1>6, <1>7, <1>8, <1>9, <1>10, <1>11, <1>12 DEF IInv

\* Any step keeps the invariant.
LEMMA SlowerStep == IInv /\ [Next]_vars => IInv'
<1> SUFFICES ASSUME IInv, [Next]_vars PROVE IInv'
    OBVIOUS
<1> USE SlowerAssumption
<1>0. TypeInv /\ MapInv /\ SlotInv /\ ExitInv
    BY DEF IInv
<1>t. now \in Nat /\ attached \in 0 .. 3
    BY <1>0 DEF TypeInv
<1>1. ASSUME UNCHANGED <<tool, req, temp, slot, exiting, made, events, refused, unended, due>>,
             attached' \in 0 .. 3, attached' >= attached, now' \in 0 .. MaxTime, now' >= now
      PROVE  IInv'
    <2>1. Over' = Over /\ Used' = Used
        BY <1>1 DEF Over, Used
    <2>2. TypeInv'
        BY <1>1 DEF IInv, TypeInv
    <2>3. ReqInv'
        BY <1>1, <1>t, <2>1 DEF IInv, ReqInv, Live, Made
    <2>4. SlotInv' /\ MapInv'
        <3>1. \A s \in Slots : slot[s].ts \in Nat
            BY <1>0 DEF TypeInv, Element
        <3> QED BY <1>0, <1>1, <1>t, <2>1, <3>1 DEF SlotInv, MapInv, Made
    <2>5. TraceInv' /\ TimedInv'
        BY <1>1 DEF IInv, TraceInv, TimedInv, Live
    <2>6. ExitInv' /\ EventInv' /\ SlowReported'
        BY <1>1, <1>t DEF IInv, ExitInv, EventInv, Sound, Timely, SlowReported, Reported
    <2> QED BY <2>2, <2>3, <2>4, <2>5, <2>6 DEF IInv
<1>2. CASE UNCHANGED vars
    BY <1>0, <1>1, <1>2, <1>t DEF vars, TypeInv
<1>3. CASE AttachNext
    BY <1>0, <1>1, <1>3, <1>t DEF AttachNext, TypeInv
<1>4. CASE Tick
    BY <1>0, <1>1, <1>4, <1>t DEF Tick, TypeInv
<1>5. ASSUME NEW k \in Keys, NewTask(k) PROVE IInv'
    <2>1. PICK cmd \in Commands, v \in NfsVersions : NewRequest(k, cmd, v, IF v = "v4" THEN -1 ELSE now)
        BY <1>5 DEF NewTask
    <2>2. PICK first : first = IF v = "v4" THEN -1 ELSE now
        OBVIOUS
    <2>3. NewRequest(k, cmd, v, first) /\ first \in {-1, now} /\ v \in {"smb", "v3", "v4"}
        BY <2>1, <2>2
    <2>4. EntryStep(k, cmd, Len(made) + 1, v, first)
        BY <1>5, <2>2 DEF NewTask, EntryStep
    <2> QED BY <2>3, <2>4, NewStep
<1>6. ASSUME NEW k \in Keys, MidAlloc(k) PROVE IInv'
    <2>1. PICK cmd \in Commands : /\ NewRequest(k, cmd, "smb", now)
                                  /\ IF attached >= 1 THEN MidEntry(k, cmd, Len(made) + 1) ELSE UNCHANGED <<temp, slot, refused>>
        BY <1>6 DEF MidAlloc
    <2>2. EntryStep(k, cmd, Len(made) + 1, "smb", now)
        BY <1>0, <1>6, <1>t, <2>1, NoExistStep DEF MidAlloc, MidEntry, EntryStep
    <2> QED BY <2>1, <2>2, NewStep
<1>7. ASSUME NEW k \in Keys, TraceSmb3CmdEnter(k) PROVE IInv'
    <2>1. PICK cmd \in Commands : /\ NewRequest(k, cmd, "smb", now)
                                  /\ IF attached >= 1 THEN CmdEnter(k, cmd, Len(made) + 1) ELSE UNCHANGED <<temp, slot, refused>>
        BY <1>7 DEF TraceSmb3CmdEnter
    <2>2. EntryStep(k, cmd, Len(made) + 1, "smb", now)
        BY <1>0, <1>t, <2>1, AnyStep DEF CmdEnter, EntryStep
    <2> QED BY <2>1, <2>2, NewStep
<1>8. ASSUME NEW k \in Keys, NEW p \in {2, 3}, End(k, p) PROVE IInv'
    BY <1>8, SeenStep, UnseenStep DEF End
<1>9. ASSUME NEW k \in Keys, EndUnseen(k) PROVE IInv'
    BY <1>9, UnseenStep DEF EndUnseen
<1>10. ASSUME NEW k \in Keys, ReportNfs(k) PROVE IInv'
    <2>1. slot[exiting[k].pe].cmd \notin Denied
        BY <1>0, <1>10 DEF ReportNfs, ExitInv, SlotInv, TypeInv, Local
    <2> QED BY <1>10, <2>1, ReportStep DEF ReportNfs
<1>11. ASSUME NEW k \in Keys, ReportSmb(k) PROVE IInv'
    <2>1. exiting[k].partial \notin Denied
        BY <1>0, <1>11 DEF ReportSmb, ExitInv
    <2> QED BY <1>11, <2>1, ReportStep DEF ReportSmb
<1> QED
    BY <1>2, <1>3, <1>4, <1>5, <1>6, <1>7, <1>8, <1>9, <1>10, <1>11, SetupStep
    DEF Next, Nfs, Smb, RpcExitTask, MidRelease, TraceSmb3CmdDone, TraceSmb3CmdErr

\* The parts of the invariant in the words of the runs.
LEMMA SlowerParts ==
    IInv => /\ TypeOK /\ PairedStart /\ LatencyFromFirst /\ SlowReported
            /\ DeniedNeverShown /\ NoLeftover /\ CommandOfTheStart
<1> SUFFICES ASSUME IInv
             PROVE  /\ TypeOK /\ PairedStart /\ LatencyFromFirst /\ SlowReported
                    /\ DeniedNeverShown /\ NoLeftover /\ CommandOfTheStart
    OBVIOUS
<1>0. TypeInv /\ ReqInv /\ SlotInv /\ MapInv /\ EventInv /\ SlowReported
    BY DEF IInv
<1>1. TypeOK
    <2>1. Len(made) \in Nat /\ now \in Nat
        BY <1>0 DEF TypeInv
    <2>2. \A k \in Keys : req[k].n \in 0 .. Len(made) /\ req[k].first \in -1 .. now
        BY <1>0, <2>1 DEF ReqInv, Live, Made
    <2>3. \A s \in Slots : slot[s].ts \in 0 .. now /\ slot[s].n \in 0 .. Len(made)
        BY <1>0, <2>1 DEF SlotInv, Made, TypeInv, Element
    <2>4. \A e \in events : e.latency \in 0 .. now
        BY <1>0 DEF EventInv, Timely
    <2> QED BY <1>0, <2>2, <2>3, <2>4 DEF TypeOK, TypeInv, MapInv
<1>2. PairedStart /\ LatencyFromFirst /\ DeniedNeverShown /\ CommandOfTheStart
    BY <1>0 DEF EventInv, Sound, Timely, PairedStart, LatencyFromFirst, DeniedNeverShown, CommandOfTheStart
<1>3. NoLeftover
    BY <1>0 DEF MapInv, NoLeftover
<1> QED BY <1>0, <1>1, <1>2, <1>3

LEMMA SlowerInvariant == Spec => []IInv
BY SlowerInit, SlowerStep, PTL DEF Spec

\* Every state is well typed and no two keys share an element of the map: no step of
\* probe_entry, probe_exit or their smbslower counterparts leads out of it.
THEOREM SlowerTypeCorrect == Spec => []TypeOK
BY SlowerInvariant, SlowerParts, PTL

\* An event's start time is that of its own request, or of one that ended unseen under
\* the same key (and with BPF_ANY only if the request is denied); no request is
\* reported twice and no start time used twice.
THEOREM PairedStartCorrect == Spec => []PairedStart
BY SlowerInvariant, SlowerParts, PTL

\* The latency of a request that both hooks saw counts from its first hook, however
\* often nfs4_setup_sequence ran.
THEOREM LatencyCorrect == Spec => []LatencyFromFirst
BY SlowerInvariant, SlowerParts, PTL

\* A request that took the threshold or more is reported, unless a full map or ring
\* lost it or it has no entry hook (NFSv3).
THEOREM SlowReportedCorrect == Spec => []SlowReported
BY SlowerInvariant, SlowerParts, PTL

\* A denied command is in no event, although nfsslower reads the command from an
\* element it has already given back.
THEOREM DeniedCorrect == Spec => []DeniedNeverShown
BY SlowerInvariant, SlowerParts, PTL

\* A request that was seen to end leaves nothing in the map.
THEOREM NoLeftoverCorrect == Spec => []NoLeftover
BY SlowerInvariant, SlowerParts, PTL

\* In smbslower the command of an event is that of the request whose start it uses.
THEOREM CommandCorrect == Spec => []CommandOfTheStart
BY SlowerInvariant, SlowerParts, PTL
=============================================================================
