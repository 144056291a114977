------------------------------ MODULE RubyMSHR ------------------------------
(***************************************************************************)
(* What stands between the warps of a core and its L1: the SC fence of the  *)
(* issue stage, the MSHR table of the Ruby wrapper, which merges reads of   *)
(* one line by several warps, and the Sequencer's callbacks.                *)
(*                                                                          *)
(* The default configuration is modelled: writes do not stall at the MSHRs, *)
(* write acknowledgements are on, and global accesses use the L1.  A memory *)
(* instruction makes one access (it is coalesced into one line), so n_gmem  *)
(* counts accesses and is 0 or 1.  The callback queue and m_current_response *)
(* are one queue here: both are FIFOs, only next_access reads them, and     *)
(* advance_time, which moves a line from the first to the second, runs at   *)
(* least once between two writebacks (the interconnect's clock is faster    *)
(* than the cores'), so the second is empty at a writeback only if both are. *)
(* m_write_after_read is left out: it only blocks a read by a warp that has *)
(* a write pending, which the fence excludes.                               *)
(***************************************************************************)
EXTENDS TardisNet

CONSTANTS
    MSHRs,          \* ruby_mshr_count: entries in a core's table
    MaxMerged,      \* ruby_mshr_size: reads an entry can hold
    MaxOutstanding  \* g_SEQUENCER_OUTSTANDING_REQUESTS

ASSUME MSHRAssumption ==
    MSHRs \in Nat \ {0} /\ MaxMerged \in Nat \ {0} /\ MaxOutstanding \in Nat \ {0}

VARIABLES
    n_gmem,     \* n_gmem[w]: accesses of warp w that are not done
    mshr,       \* mshr[c][a]: m_list, m_writeset, and the version read
    ready,      \* ready[c]: lines whose data came back, in order
    skipL1,     \* skipL1[c]: writes whose acknowledgement came back, in order
    log         \* log[w]: history of warp w's completed accesses

coreVars == <<n_gmem, mshr, ready, skipL1, log>>

MSHREntry == [list: Seq(Warps), writes: SUBSET Warps, ver: Nat]
LogEntry == [op: {"LD", "ST", "ATOMIC"}, addr: Addrs, ver: Nat]
SkipL1Request == [op: {"ST", "ATOMIC"}, addr: Addrs, warp: Warps, ver: Nat]

NoMSHR == [list |-> <<>>, writes |-> {}, ver |-> 0]

MSHRInit ==
    /\ n_gmem = [w \in Warps |-> 0]
    /\ mshr = [c \in Cores |-> [a \in Addrs |-> NoMSHR]]
    /\ ready = [c \in Cores |-> <<>>]
    /\ skipL1 = [c \in Cores |-> <<>>]
    /\ log = [w \in Warps |-> <<>>]

probe(c, a) == mshr[c][a].list # <<>> \/ mshr[c][a].writes # {}

\* m_outstanding_count: reads and writes the L1 has not answered
outstanding(c) ==
    Cardinality({a \in Addrs : mshr[c][a].list # <<>>
                                /\ \A i \in DOMAIN ready[c] : ready[c][i] # a})
    + Cardinality({w \in Warps : /\ \E a \in Addrs : w \in mshr[c][a].writes
                                 /\ \A i \in DOMAIN skipL1[c] : skipL1[c][i].warp # w})

\* Sequencer::isReady
isReady(c) == outstanding(c) < MaxOutstanding

\* full: no room in the line's entry, or no entry left for it
full(c, a) ==
    IF probe(c, a) THEN Len(mshr[c][a].list) >= MaxMerged
                   ELSE Cardinality({x \in Addrs : probe(c, x)}) >= MSHRs

\* The Sequencer's limit is only looked at when the line has no entry.
is_ready(c, a) == ~full(c, a) /\ (probe(c, a) \/ isReady(c))

\* Fault: every read goes to Ruby.
do_access_always(c, a) == TRUE

\* do_access: a read goes to Ruby when no read of the line is pending
do_access(c, a) == mshr[c][a].list = <<>>

\* add: a read joins the entry's list, a write its write set.
add(m, op, w) == IF op = "LD" THEN [m EXCEPT !.list = Append(m.list, w)]
                              ELSE [m EXCEPT !.writes = m.writes \cup {w}]

\* makeRequest, the same for reads and (skipping the MSHRs) for writes
makeRequest(q, w, op, a) == Append(q, [op |-> op, addr |-> a, warp |-> w])

\* Fault: the fence lets one access pass.
warp_waiting_at_sc_fence_late(w) == n_gmem[w] > 1

\* The fence holds a warp back until its accesses are done.
warp_waiting_at_sc_fence(w) == n_gmem[w] > 0

\* issue_warp, memory_cycle and send_request
send_request(w, op, a) ==
    LET c == CoreOf[w] IN
    /\ ~warp_waiting_at_sc_fence(w)
    /\ is_ready(c, a)
    /\ n_gmem' = [n_gmem EXCEPT ![w] = @ + 1]
    /\ mshr' = [mshr EXCEPT ![c][a] = add(@, op, w)]
    /\ mandQ' = [mandQ EXCEPT ![c] =
                    IF op = "LD" /\ ~do_access(c, a) THEN @ ELSE makeRequest(@, w, op, a)]
    /\ UNCHANGED <<reqNet, l2in, respNet, ready, skipL1, log>>

\* An access of warp w is done; v is the version it read or wrote.
Complete(w, op, a, v) ==
    /\ n_gmem' = [n_gmem EXCEPT ![w] = @ - 1]
    /\ log' = [log EXCEPT ![w] = Append(@, [op |-> op, addr |-> a, ver |-> v])]

\* readCallback: the line's reads are ready to be popped
readCallback(c, a, v) ==
    /\ ready' = [ready EXCEPT ![c] = Append(@, a)]
    /\ mshr' = [mshr EXCEPT ![c][a] = [@ EXCEPT !.ver = v]]
    /\ UNCHANGED <<n_gmem, skipL1, log>>

\* writeCallback: the acknowledgement goes around the MSHRs
writeCallback(c, w, op, a, v) ==
    /\ skipL1' = [skipL1 EXCEPT ![c] =
                     Append(@, [op |-> op, addr |-> a, warp |-> w, ver |-> v])]
    /\ UNCHANGED <<n_gmem, mshr, ready, log>>

\* Fault: one read answers the whole entry.
PopResponse_early(c, m) == Tail(ready[c])

\* The response stays at the front until the entry's list is empty.
PopResponse(c, m) == IF Len(m.list) = 1 THEN Tail(ready[c]) ELSE ready[c]

PopRead(m) == [m EXCEPT !.list = Tail(m.list), !.ver = IF Len(m.list) = 1 THEN 0 ELSE m.ver]

\* next_access: the writeback stage pops one read; a read that was merged
\* meanwhile is popped as well.
next_access(c) ==
    LET a == Head(ready[c])
        m == mshr[c][a]
    IN
    /\ ready[c] # <<>>
    /\ m.list # <<>>
    /\ Complete(Head(m.list), "LD", a, m.ver)
    /\ mshr' = [mshr EXCEPT ![c][a] = PopRead(@)]
    /\ ready' = [ready EXCEPT ![c] = PopResponse(c, m)]
    /\ UNCHANGED <<netVars, skipL1>>

\* Fault: the writeback stage asks its clients in any order.
AckTurn_any(c) == TRUE

\* Of the writeback stage's eight clients only 0 to 4 move the arbiter, to 5 at
\* the furthest, so reads (client 5) are asked for before acknowledgements (6).
AckTurn(c) == ready[c] = <<>>

PopWrite(m, w) == [m EXCEPT !.writes = m.writes \ {w}]

\* mark_skipped_write_done: the writeback stage takes one acknowledgement
mark_skipped_write_done(c) ==
    LET k == Head(skipL1[c]) IN
    /\ skipL1[c] # <<>>
    /\ Complete(k.warp, k.op, k.addr, k.ver)
    /\ mshr' = [mshr EXCEPT ![c][k.addr] = PopWrite(@, k.warp)]
    /\ skipL1' = [skipL1 EXCEPT ![c] = Tail(@)]
    /\ UNCHANGED <<netVars, ready>>

MSHRTypeOK ==
    /\ n_gmem \in [Warps -> Int]
    /\ mshr \in [Cores -> [Addrs -> MSHREntry]]
    /\ ready \in [Cores -> Seq(Addrs)]
    /\ skipL1 \in [Cores -> Seq(SkipL1Request)]
    /\ log \in [Warps -> Seq(LogEntry)]
=============================================================================
