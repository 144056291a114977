------------------------------ MODULE TardisL2 ------------------------------
(***************************************************************************)
(* The L2 banks (tardis-VI-L2cache.sm) with the DRAM behind them.  A write  *)
(* never waits for the readers of the old value: it is given a logical time *)
(* after every lease on the line and acknowledged at once.  A line that     *)
(* leaves the L2 leaves only the bank's mts behind, a bound on the leases   *)
(* and writes of all evicted lines.                                         *)
(*                                                                          *)
(* pending_read is gets # {} and pending_write is the TBE's Dirty bit: the  *)
(* code sets them together.  wtimes is a history variable: wtimes[a][v] is  *)
(* the time the L2 told the writer of version v.                            *)
(***************************************************************************)
EXTENDS TardisNet

VARIABLES
    l2st,       \* l2st[a]: the state of line a in its bank
    l2,         \* l2[a]: the cache entry
    l2tbe,      \* l2tbe[a]: the TBE while the line is fetched
    mts,        \* mts[b]: the bank's memory timestamp
    dram,       \* dram[a]: the version in memory
    wtimes      \* history: logical times of the writes to a

l2Vars == <<l2st, l2, l2tbe, mts, dram, wtimes>>

\* The structures Entry and TBE.
L2Entry == [rts: Nat, wts: Nat, dirty: BOOLEAN, ver: Nat]
L2TBE == [delta: Nat, max_read_pts: Nat, max_write_pts: Nat, gets: SUBSET Warps,
          dirty: BOOLEAN, ver: Nat, wback: SUBSET Warps]

NoEntry == [rts |-> 0, wts |-> 0, dirty |-> FALSE, ver |-> 0]
NoL2TBE == [delta |-> 0, max_read_pts |-> 0, max_write_pts |-> 0,
            gets |-> {}, dirty |-> FALSE, ver |-> 0, wback |-> {}]

L2Init ==
    /\ l2st = [a \in Addrs |-> "NP"]
    /\ l2 = [a \in Addrs |-> NoEntry]
    /\ l2tbe = [a \in Addrs |-> NoL2TBE]
    /\ mts = [b \in Banks |-> 0]
    /\ dram = [a \in Addrs |-> 0]
    /\ wtimes = [a \in Addrs |-> <<>>]

\* The newest version of a line.
Newest(a) == Len(wtimes[a])

isTagPresent(a) == l2st[a] # "NP"

L2cacheAvail(b) ==
    Cardinality({a \in Addrs : BankOf[a] = b /\ isTagPresent(a)}) < L2Ways

\* The head of the request queue, of type t, once its line is present or
\* there is room for it.
Request(b, t) ==
    /\ l2in[b] # <<>>
    /\ Head(l2in[b]).type = t
    /\ isTagPresent(Head(l2in[b]).addr) \/ L2cacheAvail(b)

\* jj_popL1RequestQueue
PopRequest(b) ==
    /\ l2in' = [l2in EXCEPT ![b] = Tail(@)]
    /\ UNCHANGED <<mandQ, reqNet>>

\* ds_sendDataToRequestor and dst_sendDataToGetSRequestors
DataResponse(a, e, w) ==
    [type |-> "DATA", addr |-> a, warp |-> w, wts |-> e.wts, rts |-> e.rts, ver |-> e.ver]

\* wa_sendAckToRequestor, wat_sendAckToRequestorFromTBE and the two actions
\* that send atomic data
WriteResponse(t, a, w, time, v) ==
    [type |-> t, addr |-> a, warp |-> w, wts |-> time, rts |-> 0, ver |-> v]

-----------------------------------------------------------------------------
(* Timestamp rules.                                                         *)

\* Fault: the lease is the one of the last reader.
tr_lastReader(e, req) == getTimeMax(req.pts + Lease, e.wts + Lease)

\* tr_updateL2BlockRts
tr_updateL2BlockRts(e, req) ==
    getTimeMax(req.pts + Lease, getTimeMax(e.wts + Lease, e.rts))

\* Fault: a write may share the last tick of a lease.
tw_sameTick(e, req) == getTimeMax(getTimeMax(req.pts, e.wts), e.rts)

\* Fault: a write is put a whole lease after the last reader.
tw_wholeLease(e, req) == getTimeMax(getTimeMax(req.pts, e.wts), e.rts + Lease + 1)

\* tw_updateL2BlockWts: after every lease that was handed out
tw_updateL2BlockWts(e, req) ==
    getTimeMax(getTimeMax(req.pts, e.wts), e.rts + 1)

\* trt_updateL2BlockRts_fromTBE
trt_updateL2BlockRts(e, t) ==
    getTimeMax(t.max_read_pts + t.delta, getTimeMax(e.wts + t.delta, e.rts))

\* Fault: the writes of evicted lines are forgotten.
MissWts_noMts(t, m) == t.max_write_pts

\* The time of a write to a line being fetched (wat, mt).
MissWts(t, m) == getTimeMax(t.max_write_pts, m)

\* Fault: the leases of an evicted line are forgotten.
setmts_noRts(m, e) == getTimeMax(m, e.wts)

\* setmts_setMts
setmts_setMts(m, e) == getTimeMax(m, getTimeMax(e.rts, e.wts))

-----------------------------------------------------------------------------
(* Requests.                                                                *)

\* Fault: a later reader replaces the ones that wait.
TBEForGETS_last(r) ==
    IF l2st[r.addr] = "NP"
      THEN [NoL2TBE EXCEPT !.delta = Lease, !.max_read_pts = r.pts, !.gets = {r.warp}]
      ELSE [l2tbe[r.addr] EXCEPT !.max_read_pts = getTimeMax(r.pts, @), !.gets = {r.warp}]

\* i_allocateTBE / il_allocateTBE, or the update of the TBE that is there.
\* A TBE allocated for a write never learns the lease a later reader asks
\* for.
TBEForGETS(r) ==
    IF l2st[r.addr] = "NP"
      THEN [NoL2TBE EXCEPT !.delta = Lease, !.max_read_pts = r.pts, !.gets = {r.warp}]
      ELSE [l2tbe[r.addr] EXCEPT !.max_read_pts = getTimeMax(r.pts, @),
                                 !.gets = @ \cup {r.warp}]

TBEForWriteMiss(r) ==
    IF l2st[r.addr] = "NP"
      THEN [NoL2TBE EXCEPT !.max_write_pts = r.pts, !.dirty = TRUE, !.wback = {r.warp}]
      ELSE [l2tbe[r.addr] EXCEPT !.max_write_pts = getTimeMax(r.pts, @),
                                 !.dirty = TRUE, !.wback = {r.warp}]

\* NP, L1_GETS and IV, L1_GETS
GetsMiss(b) ==
    LET r == Head(l2in[b]) IN
    /\ Request(b, "GETS")
    /\ l2st[r.addr] \in {"NP", "IV"}
    /\ l2tbe' = [l2tbe EXCEPT ![r.addr] = TBEForGETS(r)]
    /\ l2st' = [l2st EXCEPT ![r.addr] = "IV"]
    /\ PopRequest(b)
    /\ UNCHANGED <<respNet, l2, mts, dram, wtimes>>

\* NP, L1_Write and IV, L1_Write: acknowledged before the fetch is back
WriteMiss(b) ==
    LET r == Head(l2in[b])
        a == r.addr
        t == TBEForWriteMiss(r)
        v == Newest(a) + 1
    IN
    /\ Request(b, "DATA")
    /\ l2st[a] \in {"NP", "IV"}
    /\ l2tbe' = [l2tbe EXCEPT ![a] = [t EXCEPT !.ver = v]]
    /\ l2st' = [l2st EXCEPT ![a] = "IV"]
    /\ wtimes' = [wtimes EXCEPT ![a] = Append(@, MissWts(t, mts[b]))]
    /\ SendResponse(b, WriteResponse("ACK", a, r.warp, MissWts(t, mts[b]), v))
    /\ PopRequest(b)
    /\ UNCHANGED <<l2, mts, dram>>

\* NP, L2_Atomic.  IV and IAV stall an atomic, IAV stalls everything.
AtomicMiss(b) ==
    LET r == Head(l2in[b]) IN
    /\ Request(b, "DATA_ATOMIC")
    /\ l2st[r.addr] = "NP"
    /\ l2tbe' = [l2tbe EXCEPT ![r.addr] = TBEForWriteMiss(r)]
    /\ l2st' = [l2st EXCEPT ![r.addr] = "IAV"]
    /\ PopRequest(b)
    /\ UNCHANGED <<respNet, l2, mts, dram, wtimes>>

\* V, L1_GETS
GetsHit(b) ==
    LET r == Head(l2in[b])
        a == r.addr
        e == [l2[a] EXCEPT !.rts = tr_updateL2BlockRts(l2[a], r)]
    IN
    /\ Request(b, "GETS")
    /\ l2st[a] = "V"
    /\ l2' = [l2 EXCEPT ![a] = e]
    /\ SendResponse(b, DataResponse(a, e, r.warp))
    /\ PopRequest(b)
    /\ UNCHANGED <<l2st, l2tbe, mts, dram, wtimes>>

\* V, L1_Write and V, L2_Atomic
WriteHit(b, t) ==
    LET r == Head(l2in[b])
        a == r.addr
        time == tw_updateL2BlockWts(l2[a], r)
        v == Newest(a) + 1
    IN
    /\ Request(b, t)
    /\ l2st[a] = "V"
    /\ l2' = [l2 EXCEPT ![a] = [rts |-> @.rts, wts |-> time, dirty |-> TRUE, ver |-> v]]
    /\ wtimes' = [wtimes EXCEPT ![a] = Append(@, time)]
    /\ SendResponse(b, WriteResponse(IF t = "DATA" THEN "ACK" ELSE t, a, r.warp, time, v))
    /\ PopRequest(b)
    /\ UNCHANGED <<l2st, l2tbe, mts, dram>>

\* L2_Replacement and L2_Replacement_clean of victim v: only a V line can go.
L2_Replacement(b, v) ==
    /\ l2in[b] # <<>>
    /\ ~isTagPresent(Head(l2in[b]).addr) /\ ~L2cacheAvail(b)
    /\ BankOf[v] = b /\ l2st[v] = "V"
    /\ mts' = [mts EXCEPT ![b] = setmts_setMts(@, l2[v])]
    /\ dram' = [dram EXCEPT ![v] = IF l2[v].dirty THEN l2[v].ver ELSE @]
    /\ l2st' = [l2st EXCEPT ![v] = "NP"]
    /\ l2' = [l2 EXCEPT ![v] = NoEntry]
    /\ UNCHANGED <<netVars, l2tbe, wtimes>>

-----------------------------------------------------------------------------
(* The answer of the DRAM.                                                  *)

\* Fault: a fill starts one tick before mts.
FilledEntry_below(a) ==
    LET m == mts[BankOf[a]]
        t == l2tbe[a]
    IN IF t.dirty THEN [rts |-> m - 1, wts |-> MissWts(t, m), dirty |-> TRUE, ver |-> t.ver]
                  ELSE [rts |-> m - 1, wts |-> m, dirty |-> FALSE, ver |-> dram[a]]

\* Fault: the block from memory overwrites the one written meanwhile.
FilledEntry_memory(a) ==
    LET m == mts[BankOf[a]]
    IN [rts |-> m, wts |-> MissWts(l2tbe[a], m), dirty |-> l2tbe[a].dirty, ver |-> dram[a]]

\* m_writeDataToCache, then mt_writeDataToCacheFromTBE when writes are
\* pending: rts starts at mts in both.
FilledEntry(a) ==
    LET m == mts[BankOf[a]]
        t == l2tbe[a]
    IN IF t.dirty THEN [rts |-> m, wts |-> MissWts(t, m), dirty |-> TRUE, ver |-> t.ver]
                  ELSE [rts |-> m, wts |-> m, dirty |-> FALSE, ver |-> dram[a]]

\* IV, Mem_Data_PR / Mem_Data_PW / Mem_Data_PRW
MemData(a) ==
    LET f == FilledEntry(a)
        t == l2tbe[a]
        e == IF t.gets = {} THEN f ELSE [f EXCEPT !.rts = trt_updateL2BlockRts(f, t)]
        response(w) == DataResponse(a, e, w)
    IN
    /\ l2st[a] = "IV"
    /\ l2' = [l2 EXCEPT ![a] = e]
    /\ l2st' = [l2st EXCEPT ![a] = "V"]
    /\ l2tbe' = [l2tbe EXCEPT ![a] = NoL2TBE]
    /\ SendResponses(BankOf[a], t.gets, response)
    /\ UNCHANGED <<mandQ, reqNet, l2in, mts, dram, wtimes>>

\* IAV, Mem_Data_PW
MemDataAtomic(a) ==
    LET t == l2tbe[a]
        e == [FilledEntry(a) EXCEPT !.ver = Newest(a) + 1]
        response(w) == WriteResponse("DATA_ATOMIC", a, w, e.wts, e.ver)
    IN
    /\ l2st[a] = "IAV"
    /\ l2' = [l2 EXCEPT ![a] = e]
    /\ l2st' = [l2st EXCEPT ![a] = "V"]
    /\ l2tbe' = [l2tbe EXCEPT ![a] = NoL2TBE]
    /\ wtimes' = [wtimes EXCEPT ![a] = Append(@, e.wts)]
    /\ SendResponses(BankOf[a], t.wback, response)
    /\ UNCHANGED <<mandQ, reqNet, l2in, mts, dram>>

L2Next(b) ==
    \/ GetsMiss(b) \/ WriteMiss(b) \/ AtomicMiss(b)
    \/ GetsHit(b) \/ WriteHit(b, "DATA") \/ WriteHit(b, "DATA_ATOMIC")
    \/ \E v \in Addrs : L2_Replacement(b, v)

L2TypeOK ==
    /\ l2st \in [Addrs -> {"NP", "V", "IV", "IAV"}]
    /\ l2 \in [Addrs -> L2Entry]
    /\ l2tbe \in [Addrs -> L2TBE]
    /\ mts \in [Banks -> Nat]
    /\ dram \in [Addrs -> Nat]
    /\ wtimes \in [Addrs -> Seq(Nat)]
=============================================================================
