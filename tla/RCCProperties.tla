--------------------------- MODULE RCCProperties ---------------------------
(***************************************************************************)
(* What the warps can observe (sequential consistency), what happens to a   *)
(* request on its way (nothing is lost, duplicated or forgotten), and the   *)
(* assertions of the controllers.                                           *)
(***************************************************************************)
EXTENDS RCC

(* Sequential consistency, without timestamps.                              *)

Events == UNION {{w} \X DOMAIN log[w] : w \in Warps}

At(e) == log[e[1]][e[2]]

\* Version v of a line is written, then read, then version v + 1 is written.
Turn(x) == IF x.op = "LD" THEN 2 * x.ver + 1 ELSE 2 * x.ver

\* e comes before f in program order, or because one of them wrote what the
\* other read or overwrote.
Before(e, f) ==
    \/ e[1] = f[1] /\ e[2] < f[2]
    \/ At(e).addr = At(f).addr /\ Turn(At(e)) < Turn(At(f))

\* The accesses the warps have completed can be put into one order that
\* respects every program and in which each load returns the latest write:
\* every set of accesses has one that nothing in the set must precede.
SequentialConsistency ==
    \A S \in SUBSET Events : S # {} => \E e \in S : \A f \in S : ~Before(f, e)

\* The accesses of one warp to one line never go back to an older version, with
\* whichever load under way a load is merged: the R0-W1-R1 case of
\* access_allowed, a load that joins an older load and misses its warp's own
\* write, cannot happen after the acknowledgement either, because the bank
\* answers the older load first and the writeback stage drains it first.
CoherentPerWarp ==
    \A w \in Warps : \A i, j \in DOMAIN log[w] :
        i < j /\ log[w][i].addr = log[w][j].addr => log[w][i].ver <= log[w][j].ver

-----------------------------------------------------------------------------
(* How fast logical time passes.                                            *)

\* Loads and writes the warps have made, those under way included.
LoadsMade ==
    Cardinality({e \in Events : At(e).op = "LD"})
    + Cardinality({p \in Cores \X Addrs \X (1..MaxMerged) : p[3] \in DOMAIN mshr[p[1]][p[2]].list})

WritesMade ==
    Cardinality({e \in Events : At(e).op # "LD"})
    + Cardinality({p \in Cores \X Addrs \X Warps : p[3] \in mshr[p[1]][p[2]].writes})

\* A load moves logical time on by at most a lease and a write by at most one
\* tick, over all cores and banks and across evictions, so that the assertion
\* of tp_updateProcessorTimestamp (pts below 2^32 - 1) can only fail after that
\* much work, and no clock runs away by itself.
ClockGrowth == \A c \in Cores : pts[c] <= Lease * LoadsMade + WritesMade

-----------------------------------------------------------------------------
(* Requests under way.                                                      *)

InQueue(q, P(_)) == Cardinality({i \in DOMAIN q : P(q[i])})

\* Requests and responses of core c about line a that bank BankOf[a] has not
\* finished, reads (rd TRUE) or writes (rd FALSE).
InFlight(c, a, rd) ==
    LET b == BankOf[a]
        req(m) == m.addr = a /\ CoreOf[m.warp] = c /\ (m.type = "GETS") = rd
        rsp(m) == m.addr = a /\ (m.type = "DATA") = rd
    IN InQueue(reqNet[c][b], req) + InQueue(l2in[b], req)
       + InQueue(respNet[b][c], rsp)
       + Cardinality({w \in IF rd THEN l2tbe[a].gets
                                  ELSE IF l2st[a] = "IAV" THEN l2tbe[a].wback ELSE {} :
                        CoreOf[w] = c})

\* Every read a core waits for is in exactly one place and every write in one
\* place of its own, and the pending counters of the L1's TBE count the
\* requests that are beyond the L1: no merge in the MSHR, the L1's TBE or the
\* L2's TBE loses or repeats one.
PendingCounted ==
    \A c \in Cores, a \in Addrs :
        LET ld(r) == r.addr = a /\ r.op = "LD"
            wr(r) == r.addr = a /\ r.op # "LD"
            rdy(x) == x = a
            ack(k) == k.addr = a
        IN /\ tbe[c][a].reads = InFlight(c, a, TRUE)
           /\ tbe[c][a].writes = InFlight(c, a, FALSE)
           /\ TBEPresent(c, a) <=> tbe[c][a].reads + tbe[c][a].writes > 0
           /\ InQueue(mandQ[c], ld) + tbe[c][a].reads + InQueue(ready[c], rdy)
                = IF mshr[c][a].list = <<>> THEN 0 ELSE 1
           /\ InQueue(mandQ[c], wr) + tbe[c][a].writes + InQueue(skipL1[c], ack)
                = Cardinality(mshr[c][a].writes)

-----------------------------------------------------------------------------
(* Assertions in the code, and events that have no transition.              *)

\* A response finds a TBE that waits for it (get_pending_reads, -writes), data
\* finds its cache line (tr_updateL1Lifetime), a load never meets I_S, and a
\* line marked ready has a read to pop (mark_ready, next_access).  Every
\* acknowledgement is awaited by the MSHR (mark_skipped_write_done).
Assertions ==
    /\ \A b \in Banks, c \in Cores : respNet[b][c] # <<>> =>
          LET m == Head(respNet[b][c]) IN
          /\ TBEPresent(c, m.addr)
          /\ IF m.type = "DATA"
               THEN tbe[c][m.addr].reads = 1 /\ line[c][m.addr].tag
               ELSE tbe[c][m.addr].writes > 0
    /\ \A c \in Cores : mandQ[c] # <<>> =>
          LET r == Head(mandQ[c]) IN r.op = "LD" => getState(c, r.addr) # "I_S"
    /\ \A c \in Cores : \A i \in DOMAIN ready[c] : mshr[c][ready[c][i]].list # <<>>
    /\ \A c \in Cores : \A i \in DOMAIN skipL1[c] :
          skipL1[c][i].warp \in mshr[c][skipL1[c][i].addr].writes

\* jj_popL1RequestQueue: an L1 that asks again for a line it holds, and whose
\* lease is newer than the last write to it, does so because the lease expired.
RenewalExpired ==
    \A b \in Banks : l2in[b] # <<>> =>
        LET r == Head(l2in[b]) IN
        r.type = "GETS" /\ l2st[r.addr] = "V" /\ r.inL1 /\ r.rts > l2[r.addr].wts
            => r.expired

-----------------------------------------------------------------------------
\* Every access a warp makes is eventually done: stalls behind a fetch, an
\* atomic or a replacement end, and no queue head blocks its queue for good.
EveryAccessDone == \A w \in Warps : n_gmem[w] > 0 ~> n_gmem[w] = 0
=============================================================================
