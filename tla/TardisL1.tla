------------------------------ MODULE TardisL1 ------------------------------
(***************************************************************************)
(* The private L1 of a core (tardis-VI-L1cache.sm).  A line lives until its *)
(* read timestamp rts falls behind the core's logical clock pts; nobody     *)
(* invalidates it.                                                          *)
(*                                                                          *)
(* setState() writes the same state into the TBE and into the cache entry,  *)
(* and a TBE exists exactly in the transient states, so one variable st     *)
(* stands for TBEState and CacheState.  Profiling (cta and warp maps,       *)
(* touched bits, request recorder) is left out.                             *)
(***************************************************************************)
EXTENDS RubyMSHR

VARIABLES
    pts,        \* pts[c]: the logical time of core c
    st,         \* st[c][a]: TBEState, else CacheState, else I
    line,       \* line[c][a]: the cache entry; tag is FALSE when not present
    tbe         \* tbe[c][a]: the TBE's rts, pendingReads and pendingWrites

l1Vars == <<pts, st, line, tbe>>

L1State == {"I", "S", "I_S", "I_I", "SM"}
Transient == {"I_S", "I_I", "SM"}

\* The structures Entry and TBE; tag says that the cache holds the line.
L1Entry == [tag: BOOLEAN, rts: Nat, have: BOOLEAN, ver: Nat]
L1TBE == [rts: Nat, reads: Int, writes: Int]

NoLine == [tag |-> FALSE, rts |-> 0, have |-> FALSE, ver |-> 0]
\* CacheMemory::allocate starts an entry with rts 0 and no data.
NewLine == [tag |-> TRUE, rts |-> 0, have |-> FALSE, ver |-> 0]
NoTBE == [rts |-> 0, reads |-> 0, writes |-> 0]

L1Init ==
    /\ pts = [c \in Cores |-> 0]
    /\ st = [c \in Cores |-> [a \in Addrs |-> "I"]]
    /\ line = [c \in Cores |-> [a \in Addrs |-> NoLine]]
    /\ tbe = [c \in Cores |-> [a \in Addrs |-> NoTBE]]

TBEPresent(c, a) == st[c][a] \in Transient

\* Fault: a lease counts for one tick more.
isLive_longer(c, a) ==
    IF TBEPresent(c, a) THEN tbe[c][a].rts + 1 >= pts[c] ELSE line[c][a].rts + 1 >= pts[c]

isLive(c, a) ==
    IF TBEPresent(c, a) THEN tbe[c][a].rts >= pts[c] ELSE line[c][a].rts >= pts[c]

\* A stable line whose lease has run out counts as I, an upgrade (SM) whose
\* lease has run out counts as a plain write (I_I).
getState(c, a) ==
    CASE TBEPresent(c, a) -> IF st[c][a] = "SM" /\ ~isLive(c, a) THEN "I_I" ELSE st[c][a]
      [] ~TBEPresent(c, a) /\ line[c][a].tag -> IF isLive(c, a) THEN st[c][a] ELSE "I"
      [] OTHER -> "I"

cacheAvail(c, a) ==
    line[c][a].tag \/ Cardinality({x \in Addrs : line[c][x].tag}) < L1Ways

\* The mandatory queue triggers a store at once and any other request once
\* its line is present or there is room for it.
Triggered(c, r) == r.op = "ST" \/ cacheAvail(c, r.addr)

-----------------------------------------------------------------------------
(* Requests at the head of the mandatory queue.                             *)

\* S or SM, Load: the lease is live, so the load is done in the L1.
LoadHit(c) ==
    LET r == Head(mandQ[c]) IN
    /\ mandQ[c] # <<>>
    /\ r.op = "LD" /\ Triggered(c, r)
    /\ getState(c, r.addr) \in {"S", "SM"}
    /\ readCallback(c, r.addr, line[c][r.addr].ver)
    /\ mandQ' = [mandQ EXCEPT ![c] = Tail(@)]
    /\ UNCHANGED <<reqNet, l2in, respNet, l1Vars>>

\* Fault: a line counts as expired one tick late.
a_issueGETS_late(c, r, e) ==
    [type |-> "GETS", addr |-> r.addr, warp |-> r.warp, pts |-> pts[c],
     rts |-> e.rts, inL1 |-> e.have, expired |-> e.have /\ pts[c] > e.rts + 1]

\* a_issueGETS: the request carries the core's time and the old lease.
a_issueGETS(c, r, e) ==
    [type |-> "GETS", addr |-> r.addr, warp |-> r.warp, pts |-> pts[c],
     rts |-> e.rts, inL1 |-> e.have, expired |-> e.have /\ pts[c] > e.rts]

\* I, Load and I_I, Load.  I_S, Load has no transition.
LoadMiss(c) ==
    LET r == Head(mandQ[c])
        a == r.addr
        e == IF line[c][a].tag THEN line[c][a] ELSE NewLine
        s == getState(c, a)
    IN
    /\ mandQ[c] # <<>>
    /\ r.op = "LD" /\ Triggered(c, r)
    /\ s \in {"I", "I_I"}
    /\ line' = [line EXCEPT ![c][a] = e]
    /\ tbe' = [tbe EXCEPT ![c][a] = IF s = "I" THEN [NoTBE EXCEPT !.reads = 1]
                                               ELSE [@ EXCEPT !.reads = tbe[c][a].reads + 1]]
    /\ st' = [st EXCEPT ![c][a] = IF s = "I" THEN "I_S" ELSE "I_I"]
    /\ SendRequest(c, a_issueGETS(c, r, e))
    /\ mandQ' = [mandQ EXCEPT ![c] = Tail(@)]
    /\ UNCHANGED <<l2in, respNet, pts, coreVars>>

\* d2t_sendDataToL2_fromTBE and d2t_sendAtomicDataToL2_fromTBE
d2t_sendToL2(c, r) ==
    [type |-> IF r.op = "ST" THEN "DATA" ELSE "DATA_ATOMIC", addr |-> r.addr,
     warp |-> r.warp, pts |-> pts[c], rts |-> 0, inL1 |-> FALSE, expired |-> FALSE]

\* i_allocateTBE (from I), i_allocateTBEwTime (from S, keeping the lease),
\* then pw_incPendingWrite.
TBEForWrite(c, a, s) ==
    IF s \in {"I", "S"}
      THEN [rts |-> IF s = "S" THEN line[c][a].rts ELSE 0, reads |-> 0, writes |-> 1]
      ELSE [tbe[c][a] EXCEPT !.writes = tbe[c][a].writes + 1]

\* L1_WThru and L1_Atomic: every write goes to the L2; a line with a live
\* lease stays readable (SM) until the first acknowledgement.
WriteThrough(c) ==
    LET r == Head(mandQ[c])
        a == r.addr
        s == getState(c, a)
    IN
    /\ mandQ[c] # <<>>
    /\ r.op \in {"ST", "ATOMIC"} /\ Triggered(c, r)
    /\ tbe' = [tbe EXCEPT ![c][a] = TBEForWrite(c, a, s)]
    /\ st' = [st EXCEPT ![c][a] = IF s \in {"S", "SM"} THEN "SM" ELSE "I_I"]
    /\ SendRequest(c, d2t_sendToL2(c, r))
    /\ mandQ' = [mandQ EXCEPT ![c] = Tail(@)]
    /\ UNCHANGED <<l2in, respNet, pts, line, coreVars>>

\* L1_Replacement of victim v: a line with a TBE stalls the queue.
L1_Replacement(c, v) ==
    /\ mandQ[c] # <<>>
    /\ ~Triggered(c, Head(mandQ[c]))
    /\ line[c][v].tag /\ getState(c, v) \in {"I", "S"}
    /\ line' = [line EXCEPT ![c][v] = NoLine]
    /\ st' = [st EXCEPT ![c][v] = "I"]
    /\ UNCHANGED <<netVars, pts, tbe, coreVars>>

-----------------------------------------------------------------------------
(* Responses from bank b.                                                   *)

\* Fault: the clock only follows writes.
tp_writesOnly(c, m) == IF m.type = "DATA" THEN pts[c] ELSE getTimeMax(pts[c], m.wts)

\* tp_updateProcessorTimestamp
tp_updateProcessorTimestamp(c, m) == getTimeMax(pts[c], m.wts)

\* The response queue tells the answer to the TBE's last request (Data_Done,
\* Ack_Done, DataAtomic_Done) from the others.
Done(t, m) ==
    IF m.type = "DATA" THEN t.writes = 0 ELSE ~(t.reads > 0 \/ t.writes > 1)

\* Data and Data_Done: the block, its lease and the writer's time arrive.
\* With writes still pending the TBE stays and takes the lease over (SM).
Data(c, b) ==
    LET m == Head(respNet[b][c])
        a == m.addr
        t == tbe[c][a]
        done == Done(t, m)
    IN
    /\ respNet[b][c] # <<>>
    /\ m.type = "DATA"
    /\ line' = [line EXCEPT ![c][a] =
                   [tag |-> @.tag, rts |-> m.rts, have |-> TRUE, ver |-> m.ver]]
    /\ pts' = [pts EXCEPT ![c] = tp_updateProcessorTimestamp(c, m)]
    /\ tbe' = [tbe EXCEPT ![c][a] =
                  IF done THEN NoTBE ELSE [t EXCEPT !.rts = m.rts, !.reads = t.reads - 1]]
    /\ st' = [st EXCEPT ![c][a] = IF done THEN "S" ELSE "SM"]
    /\ readCallback(c, a, m.ver)
    /\ respNet' = [respNet EXCEPT ![b][c] = Tail(@)]
    /\ UNCHANGED <<mandQ, reqNet, l2in>>

\* Ack, Ack_Done, DataAtomic and DataAtomic_Done: the line is given up.
WriteDone(c, b) ==
    LET m == Head(respNet[b][c])
        a == m.addr
        t == tbe[c][a]
        done == Done(t, m)
    IN
    /\ respNet[b][c] # <<>>
    /\ m.type \in {"ACK", "DATA_ATOMIC"}
    /\ pts' = [pts EXCEPT ![c] = tp_updateProcessorTimestamp(c, m)]
    /\ tbe' = [tbe EXCEPT ![c][a] = IF done THEN NoTBE ELSE [t EXCEPT !.writes = t.writes - 1]]
    /\ st' = [st EXCEPT ![c][a] = IF done THEN "I" ELSE "I_I"]
    /\ writeCallback(c, m.warp, IF m.type = "ACK" THEN "ST" ELSE "ATOMIC", a, m.ver)
    /\ respNet' = [respNet EXCEPT ![b][c] = Tail(@)]
    /\ UNCHANGED <<mandQ, reqNet, l2in, line>>

L1Next(c) ==
    \/ LoadHit(c)
    \/ LoadMiss(c)
    \/ WriteThrough(c)
    \/ \E v \in Addrs : L1_Replacement(c, v)
    \/ \E b \in Banks : Data(c, b) \/ WriteDone(c, b)

L1TypeOK ==
    /\ pts \in [Cores -> Nat]
    /\ st \in [Cores -> [Addrs -> L1State]]
    /\ line \in [Cores -> [Addrs -> L1Entry]]
    /\ tbe \in [Cores -> [Addrs -> L1TBE]]
=============================================================================
