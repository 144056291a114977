------------------------------ MODULE RCCRenew ------------------------------
(***************************************************************************)
(* The tardis-VI-Renew protocol: tardis-VI with one more response.  When an *)
(* L1 asks again for a line it still holds, and its old lease reaches past  *)
(* the last write, the L2 answers RENEW, which extends the lease and        *)
(* carries no data.  The other transitions are those of tardis-VI.          *)
(***************************************************************************)
EXTENDS RCCProperties

\* Fault: a lease that ends with the last write counts.
Renews_sameTick(r) == l2st[r.addr] = "V" /\ r.inL1 /\ r.rts >= l2[r.addr].wts

\* L1Cache_request_type_to_event: this GETS becomes L1_GETS_Renew.
Renews(r) == l2st[r.addr] = "V" /\ r.inL1 /\ r.rts > l2[r.addr].wts

\* V, L1_GETS_Renew: tr_updateL2BlockRts, dsr_sendRenewToRequestor.  The
\* version is not sent; it records which one the lease is about.
GetsRenew(b) ==
    LET r == Head(l2in[b])
        a == r.addr
        e == [l2[a] EXCEPT !.rts = tr_updateL2BlockRts(l2[a], r)]
    IN
    /\ Request(b, "GETS")
    /\ Renews(r)
    /\ l2' = [l2 EXCEPT ![a] = e]
    /\ SendResponse(b, [DataResponse(a, e, r.warp) EXCEPT !.type = "RENEW"])
    /\ PopRequest(b)
    /\ UNCHANGED <<l2st, l2tbe, mts, dram, wtimes, coreVars, l1Vars>>

\* Every other event of bank b.
L2Other(b) ==
    /\ L2Step(b)
    /\ ~(Head(l2in[b]).type = "GETS" /\ Renews(Head(l2in[b])))

\* Renew and Renew_Done: as for Data, but the block stays as it is.
Renew(c, b) ==
    LET m == Head(respNet[b][c])
        a == m.addr
        t == tbe[c][a]
        done == t.writes = 0
    IN
    /\ respNet[b][c] # <<>>
    /\ m.type = "RENEW"
    /\ line' = [line EXCEPT ![c][a] = [@ EXCEPT !.rts = m.rts]]
    /\ pts' = [pts EXCEPT ![c] = tp_updateProcessorTimestamp(c, m)]
    /\ tbe' = [tbe EXCEPT ![c][a] =
                  IF done THEN NoTBE ELSE [t EXCEPT !.rts = m.rts, !.reads = t.reads - 1]]
    /\ st' = [st EXCEPT ![c][a] = IF done THEN "S" ELSE "SM"]
    /\ readCallback(c, a, line[c][a].ver)
    /\ respNet' = [respNet EXCEPT ![b][c] = Tail(@)]
    /\ UNCHANGED <<mandQ, reqNet, l2in, l2Vars>>

RenewNext ==
    \/ \E w \in Warps : Issue(w)
    \/ \E c \in Cores : L1Step(c) \/ Writeback(c) \/ WriteAck(c)
    \/ \E c \in Cores, b \in Banks : Network(c, b) \/ Renew(c, b)
    \/ \E b \in Banks : L2Other(b) \/ GetsRenew(b)
    \/ \E a \in Addrs : Dram(a)
    \/ Terminated

RenewSpec == Init /\ [][RenewNext]_vars

-----------------------------------------------------------------------------
(* Properties.                                                              *)

\* A renewal without data is sound: from the moment the L2 decides to send it
\* until the L1 takes it, the line of the requestor is about the version whose
\* lease is extended, whatever evictions, refetches and writes of its own warps
\* happen, and a read is waiting for it (the assert of the response port).
RenewSound ==
    \A b \in Banks, c \in Cores : \A i \in DOMAIN respNet[b][c] :
        LET m == respNet[b][c][i] IN
        m.type = "RENEW" => /\ line[c][m.addr].have /\ line[c][m.addr].ver = m.ver
                            /\ TBEPresent(c, m.addr) /\ tbe[c][m.addr].reads = 1
                            /\ LeaseOK(m.addr, m.ver, m.rts)
=============================================================================
