-------------------------------- MODULE RCC --------------------------------
(***************************************************************************)
(* Relativistic cache coherence: the L1s of all cores, the L2 banks, the    *)
(* ordered networks between them and the DRAM, driven by warps that run     *)
(* small programs of loads, stores and atomics.                             *)
(***************************************************************************)
EXTENDS TardisL1, TardisL2

CONSTANT
    Prog        \* Prog[w][i]: the accesses warp w may choose as its i-th; the
                \* length of Prog[w] bounds the accesses w makes

ASSUME ProgAssumption ==
    Prog \in [Warps -> Seq(SUBSET ({"LD", "ST", "ATOMIC"} \X Addrs))]

vars == <<netVars, coreVars, l1Vars, l2Vars>>

Init == NetInit /\ MSHRInit /\ L1Init /\ L2Init

-----------------------------------------------------------------------------
(* One step of one part; the others do not move.                            *)

Issue(w) ==
    /\ Len(log[w]) < Len(Prog[w])
    /\ \E p \in Prog[w][Len(log[w]) + 1] : send_request(w, p[1], p[2])
    /\ UNCHANGED <<l1Vars, l2Vars>>

\* The two response clients of the writeback stage (5 and 6).
Writeback(c) == next_access(c) /\ UNCHANGED <<l1Vars, l2Vars>>
WriteAck(c) == AckTurn(c) /\ mark_skipped_write_done(c) /\ UNCHANGED <<l1Vars, l2Vars>>

L1Step(c) == L1Next(c) /\ UNCHANGED l2Vars

Network(c, b) ==
    Deliver(c, b) /\ UNCHANGED <<mandQ, respNet, coreVars, l1Vars, l2Vars>>

L2Step(b) == L2Next(b) /\ UNCHANGED <<coreVars, l1Vars>>

Dram(a) == (MemData(a) \/ MemDataAtomic(a)) /\ UNCHANGED <<coreVars, l1Vars>>

\* Every warp has made its accesses: the kernel is over.
Finished == \A w \in Warps : Len(log[w]) = Len(Prog[w])

Terminated == Finished /\ UNCHANGED vars

Next ==
    \/ \E w \in Warps : Issue(w)
    \/ \E c \in Cores : Writeback(c) \/ WriteAck(c) \/ L1Step(c)
    \/ \E c \in Cores, b \in Banks : Network(c, b)
    \/ \E b \in Banks : L2Step(b)
    \/ \E a \in Addrs : Dram(a)
    \/ Terminated

Spec == Init /\ [][Next]_vars

\* The simulator wakes up every controller with a message, moves the network
\* and the DRAM and pops a response in every cycle.  Nothing makes a warp go
\* on issuing.
Fairness ==
    /\ \A c \in Cores : WF_vars(L1Step(c))
                       /\ WF_vars(Writeback(c))
                       /\ WF_vars(WriteAck(c))
    /\ \A c \in Cores, b \in Banks : WF_vars(Network(c, b))
    /\ \A b \in Banks : WF_vars(L2Step(b))
    /\ \A a \in Addrs : WF_vars(Dram(a))

FairSpec == Spec /\ Fairness

-----------------------------------------------------------------------------
(* Properties.                                                              *)

\* Every variable keeps its type: timestamps and versions are naturals, the
\* queues hold messages of their structure.
TypeOK == NetTypeOK /\ MSHRTypeOK /\ L1TypeOK /\ L2TypeOK

\* How far leases on the newest version of a line may reach: the rts of the L2
\* entry, or the bank's mts when the entry is gone or being fetched.
LeaseBound(a) == IF l2st[a] = "V" THEN l2[a].rts ELSE mts[BankOf[a]]

\* A lease until r on version v of line a.
LeaseOK(a, v, r) ==
    /\ v <= Newest(a)
    /\ v < Newest(a) => r <= wtimes[a][v + 1]
    /\ v = Newest(a) => r <= LeaseBound(a)

\* No lease outlives the write that ends it (the tw, wat, mt and setmts rules):
\* a core never holds, and is never sent, a version with a lease that reaches
\* past the logical time of the next write to the line, even when the L2 has
\* evicted and refetched the line in between.
LeaseRespected ==
    /\ \A c \in Cores, a \in Addrs :
          line[c][a].have => LeaseOK(a, line[c][a].ver, line[c][a].rts)
    /\ \A b \in Banks, c \in Cores : \A i \in DOMAIN respNet[b][c] :
          LET m == respNet[b][c][i] IN m.type = "DATA" => LeaseOK(m.addr, m.ver, m.rts)

\* A write was acknowledged while the line was being fetched.
Overwritten(a) == l2st[a] = "IV" /\ l2tbe[a].dirty

\* What a read has to find: the newest version is in the L2, in the TBE of the
\* fetch that overtakes it, or in memory, whatever evictions and early
\* acknowledgements came before (d, mtr, mt, c_exclusiveReplacement).
NoLostWrites ==
    \A a \in Addrs :
        /\ l2st[a] = "V" => /\ l2[a].ver = Newest(a)
                            /\ ~l2[a].dirty => dram[a] = Newest(a)
        /\ Overwritten(a) => l2tbe[a].ver = Newest(a)
        /\ ~(l2st[a] = "V" \/ Overwritten(a)) => dram[a] = Newest(a)

\* The lease ends strictly before the next write, so that a reader whose clock
\* has reached the write's time cannot hit the old version any more.
StrictLease ==
    \A c \in Cores, a \in Addrs :
        LET e == line[c][a] IN
        e.have /\ e.ver < Newest(a) => e.rts < wtimes[a][e.ver + 1]

\* Two writes to a line are ordered the same way in logical time as they were
\* applied, even when the line was evicted, refetched or acknowledged from the
\* TBE in between.
WritesInOrder ==
    \A a \in Addrs : \A v \in 1..(Newest(a) - 1) : wtimes[a][v] <= wtimes[a][v + 1]

\* The clock of a core has reached the logical time of every write whose value
\* one of its warps has read or made (tp_updateProcessorTimestamp).
ClockCoversAccesses ==
    \A w \in Warps : \A i \in DOMAIN log[w] :
        LET e == log[w][i] IN
        e.ver > 0 => wtimes[e.addr][e.ver] <= pts[CoreOf[w]]
=============================================================================
