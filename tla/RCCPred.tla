------------------------------ MODULE RCCPred ------------------------------
(***************************************************************************)
(* The tardis-VI-Renew-Pred protocol: tardis-VI-Renew with a lease for each *)
(* line of the L2 that a predictor makes longer with each read and short    *)
(* again with each write (types TARDISINC and TARDISDEC, which differ in    *)
(* the lease a line starts with).  Lease is the one every request asks for, *)
(* get_pred_lifetime().                                                     *)
(***************************************************************************)
EXTENDS RCCRenew

CONSTANTS PredMin, PredMax, PredShift   \* m_pred_min, m_pred_max, m_pred_shift

ASSUME PredAssumption ==
    /\ PredMin \in Nat /\ PredMax \in Nat /\ PredMin <= PredMax /\ PredShift \in Nat
    /\ Lease \in {PredMin, PredMax}

VARIABLE pred       \* pred[a]: pred_lease of the L2 entry of a

pvars == <<vars, pred>>

PredInit == Init /\ pred = [a \in Addrs |-> Lease]

update_lifetime_load(l) ==
    IF l * 2^PredShift > PredMax THEN PredMax ELSE l * 2^PredShift

update_lifetime_writeatomic(l) == PredMin

\* upl_updatePredLease
upl_updatePredLease(r) ==
    [pred EXCEPT ![r.addr] = IF r.type = "GETS" THEN update_lifetime_load(@)
                                                ELSE update_lifetime_writeatomic(@)]

Leased(l) == INSTANCE RCCRenew WITH Lease <- l

\* V: the entry's lease in the place of the one the request asks for.
PredHit(b) ==
    LET r == Head(l2in[b]) IN
    /\ l2in[b] # <<>> /\ l2st[r.addr] = "V"
    /\ \E l \in PredMin..PredMax : /\ l = pred[r.addr]
                                   /\ Leased(l)!L2Other(b) \/ Leased(l)!GetsRenew(b)
    /\ pred' = upl_updatePredLease(r)

\* The other events of the bank; qq_allocateL2CacheBlock sets the lease.
PredMiss(b) ==
    LET a == Head(l2in[b]).addr IN
    /\ l2in[b] # <<>> /\ l2st[a] # "V"
    /\ L2Step(b)
    /\ pred' = IF l2st[a] = "NP" /\ l2st'[a] # "NP" THEN [pred EXCEPT ![a] = Lease] ELSE pred

\* IV, Mem_Data_*: as MemData with the entry's lease (trt), which a TBE that was
\* allocated for a write has as well.
PredMemData(a) ==
    LET f == FilledEntry(a)
        t == [l2tbe[a] EXCEPT !.delta = pred[a]]
        e == IF t.gets = {} THEN f ELSE [f EXCEPT !.rts = trt_updateL2BlockRts(f, t)]
        response(w) == DataResponse(a, e, w)
    IN
    /\ l2st[a] = "IV"
    /\ l2' = [l2 EXCEPT ![a] = e]
    /\ l2st' = [l2st EXCEPT ![a] = "V"]
    /\ l2tbe' = [l2tbe EXCEPT ![a] = NoL2TBE]
    /\ SendResponses(BankOf[a], t.gets, response)
    /\ UNCHANGED <<mandQ, reqNet, l2in, mts, dram, wtimes, coreVars, l1Vars, pred>>

PredNext ==
    \/ \E b \in Banks : PredHit(b) \/ PredMiss(b)
    \/ \E a \in Addrs : PredMemData(a)
    \/ /\ \/ \E w \in Warps : Issue(w)
          \/ \E c \in Cores : L1Step(c) \/ Writeback(c) \/ WriteAck(c)
          \/ \E c \in Cores, b \in Banks : Network(c, b) \/ Renew(c, b)
          \/ \E a \in Addrs : MemDataAtomic(a) /\ UNCHANGED <<coreVars, l1Vars>>
          \/ Terminated
       /\ UNCHANGED pred

PredSpec == PredInit /\ [][PredNext]_pvars
=============================================================================
