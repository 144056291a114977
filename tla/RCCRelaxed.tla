----------------------------- MODULE RCCRelaxed -----------------------------
(***************************************************************************)
(* The relaxed variant (tardis-VI-RC-L1cache.sm) under the RC model of the  *)
(* cores.  An L1 keeps two clocks, lts for loads and sts for writes, which  *)
(* only a memory fence brings together, and a warp goes on while its        *)
(* accesses are under way.                                                  *)
(*                                                                          *)
(* A thread here is a warp of the program.  It has several memfetches in    *)
(* flight, so the elements of Warps, which name memfetches in the modules   *)
(* below, are pairs of a thread and the place of an instruction in it.      *)
(* Loads write registers of their own.  The L2 is the one of tardis-VI.     *)
(***************************************************************************)
EXTENDS TardisL2, RubyMSHR

CONSTANTS
    Threads,
    Collectors, \* instructions of a core between its issue stage and Ruby
    Prog        \* Prog[t][i]: the instructions t may choose as its i-th, pairs
                \* of an operation and a line (a fence has none)

ASSUME RelaxedAssumption ==
    /\ Warps = UNION {{t} \X DOMAIN Prog[t] : t \in Threads}
    /\ Collectors \in Nat \ {0}

VARIABLES
    lts, sts,       \* lts[c], sts[c]: the clocks of core c
    st, line, tbe,  \* as in TardisL1
    war,            \* war[c][a]: m_write_after_read of the MSHR entry
    code,           \* code[t]: the instructions t has issued
    pipe,           \* issued instructions that have not been sent to Ruby
    membar,         \* threads that wait at a memory barrier
    memfence        \* memfence[c]: threads whose fence the L1 has answered, in order

lineVars == <<st, line, tbe>>
threadVars == <<code, pipe, membar, memfence>>
rcvars == <<netVars, coreVars, l2Vars, lts, sts, lineVars, war, threadVars>>

\* The transitions that only look at the load clock, or only at the store clock.
Ld == INSTANCE TardisL1 WITH pts <- lts
St == INSTANCE TardisL1 WITH pts <- sts

RelaxedInit ==
    /\ NetInit /\ MSHRInit /\ L2Init /\ Ld!L1Init /\ St!L1Init
    /\ war = [c \in Cores |-> [a \in Addrs |-> FALSE]]
    /\ code = [t \in Threads |-> <<>>]
    /\ pipe = {} /\ membar = {}
    /\ memfence = [c \in Cores |-> <<>>]

-----------------------------------------------------------------------------
(* The core.                                                                *)

\* Issued accesses of t that are not done, of the operations ops.
NotDone(t, ops) ==
    {i \in DOMAIN code[t] : code[t][i][1] \in ops /\ log[<<t, i>>] = <<>>}

\* warp_mem_barrier_waiting_for_writes: registers that loads will write
BarrierStall(t) == NotDone(t, {"LD", "ATOMIC"}) # {}

\* The issue stage: a warp waits for its atomics and at its memory barrier.
Issue(t) ==
    LET i == Len(code[t]) + 1 IN
    /\ i \in DOMAIN Prog[t]
    /\ Cardinality({f \in pipe : CoreOf[f] = CoreOf[<<t, i>>]}) < Collectors
    /\ t \notin membar /\ NotDone(t, {"ATOMIC"}) = {}
    /\ \E p \in Prog[t][i] :
          /\ p[1] = "FENCE" => ~BarrierStall(t)
          /\ membar' = IF p[1] = "FENCE" THEN membar \cup {t} ELSE membar
          /\ code' = [code EXCEPT ![t] = Append(@, p)]
    /\ pipe' = pipe \cup {<<t, i>>}
    /\ UNCHANGED <<netVars, coreVars, l2Vars, lts, sts, lineVars, war, memfence>>

\* access_allowed: the R0-W1-R1 case
access_allowed(t, c, op, a) ==
    ~(op = "LD" /\ war[c][a] /\ \E i \in DOMAIN code[t] : <<t, i>> \in mshr[c][a].writes)

\* m_write_after_read is set by a write that finds a read and is gone with the
\* entry.
SetWar(c) ==
    war' = [war EXCEPT ![c] = [a \in Addrs |->
        /\ mshr'[c][a].list # <<>> \/ mshr'[c][a].writes # {}
        /\ \/ war[c][a]
           \/ mshr[c][a].list # <<>> /\ mshr'[c][a].writes \ mshr[c][a].writes # {}]]

\* The operand collector hands over any instruction; memory_cycle sends it.
Send(f) ==
    LET c == CoreOf[f]
        p == code[f[1]][f[2]]
    IN
    /\ f \in pipe
    /\ p[1] # "FENCE"
    /\ access_allowed(f[1], c, p[1], p[2])
    /\ send_request(f, p[1], p[2])
    /\ pipe' = pipe \ {f}
    /\ SetWar(c)
    /\ UNCHANGED <<l2Vars, lts, sts, lineVars, code, membar, memfence>>

\* membar_cycle and makeMemfenceRequest: a fence takes no MSHR.
SendFence(f) ==
    /\ f \in pipe
    /\ code[f[1]][f[2]][1] = "FENCE"
    /\ isReady(CoreOf[f])
    /\ mandQ' = [mandQ EXCEPT ![CoreOf[f]] = Append(@, [op |-> "FENCE", warp |-> f])]
    /\ pipe' = pipe \ {f}
    /\ UNCHANGED <<reqNet, l2in, respNet, coreVars, l2Vars, lts, sts, lineVars, war, code,
                   membar, memfence>>

\* Clients 5 and 6 of the writeback stage.
Writeback(c) ==
    /\ next_access(c) \/ (AckTurn(c) /\ mark_skipped_write_done(c))
    /\ SetWar(c)
    /\ UNCHANGED <<l2Vars, lts, sts, lineVars, threadVars>>

\* Client 7, after reads and acknowledgements: the warp may go on.
FenceDone(c) ==
    /\ memfence[c] # <<>>
    /\ AckTurn(c) /\ skipL1[c] = <<>>
    /\ membar' = membar \ {Head(memfence[c])}
    /\ memfence' = [memfence EXCEPT ![c] = Tail(@)]
    /\ UNCHANGED <<netVars, coreVars, l2Vars, lts, sts, lineVars, war, code, pipe>>

-----------------------------------------------------------------------------
(* The L1.                                                                  *)

\* Load, L1_Replacement and the data of a load: the load clock decides whether
\* a lease is live and follows the data.
LoadStep(c) ==
    /\ \/ Ld!LoadHit(c) \/ Ld!LoadMiss(c)
       \/ \E v \in Addrs : /\ mandQ[c] # <<>> /\ Head(mandQ[c]).op # "FENCE"
                           /\ Ld!L1_Replacement(c, v)
       \/ \E b \in Banks : Ld!Data(c, b)
    /\ UNCHANGED <<l2Vars, sts, war, threadVars>>

\* L1_WThru and L1_Atomic: the state depends on the load clock, the request
\* carries the store clock.
WriteThrough(c) ==
    LET r == Head(mandQ[c])
        a == r.addr
        s == Ld!getState(c, a)
    IN
    /\ mandQ[c] # <<>>
    /\ r.op \in {"ST", "ATOMIC"} /\ Ld!Triggered(c, r)
    /\ tbe' = [tbe EXCEPT ![c][a] = Ld!TBEForWrite(c, a, s)]
    /\ st' = [st EXCEPT ![c][a] = IF s \in {"S", "SM"} THEN "SM" ELSE "I_I"]
    /\ SendRequest(c, St!d2t_sendToL2(c, r))
    /\ mandQ' = [mandQ EXCEPT ![c] = Tail(@)]
    /\ UNCHANGED <<l2in, respNet, lts, sts, line, coreVars, l2Vars, war, threadVars>>

\* An acknowledgement or the data of an atomic moves the store clock.
WriteDone(c, b) ==
    St!WriteDone(c, b) /\ UNCHANGED <<l2Vars, lts, war, threadVars>>

\* Fault: a fence only brings the store clock forward.
sls_storesOnly(c) ==
    /\ sts' = [sts EXCEPT ![c] = getTimeMax(lts[c], @)]
    /\ lts' = lts

\* sls_syncLoadStoreTimestamp
sls_syncLoadStoreTimestamp(c) ==
    /\ lts' = [lts EXCEPT ![c] = getTimeMax(@, sts[c])]
    /\ sts' = [sts EXCEPT ![c] = getTimeMax(lts[c], @)]

\* I, Fence on the dummy address: the clocks meet and the core is told
\* (hf_fence_hit).
Fence(c) ==
    /\ mandQ[c] # <<>> /\ Head(mandQ[c]).op = "FENCE"
    /\ sls_syncLoadStoreTimestamp(c)
    /\ memfence' = [memfence EXCEPT ![c] = Append(@, Head(mandQ[c]).warp[1])]
    /\ mandQ' = [mandQ EXCEPT ![c] = Tail(@)]
    /\ UNCHANGED <<reqNet, l2in, respNet, coreVars, l2Vars, lineVars, war, code, pipe, membar>>

-----------------------------------------------------------------------------

BelowL1 ==
    /\ \/ \E c \in Cores, b \in Banks : /\ Deliver(c, b)
                                        /\ UNCHANGED <<mandQ, respNet, l2Vars>>
       \/ \E b \in Banks : L2Next(b)
       \/ \E a \in Addrs : MemData(a) \/ MemDataAtomic(a)
    /\ UNCHANGED <<coreVars, lts, sts, lineVars, war, threadVars>>

\* Every thread has issued its code and all accesses are done.
Terminated ==
    /\ \A t \in Threads : Len(code[t]) = Len(Prog[t]) /\ NotDone(t, {"LD", "ST", "ATOMIC"}) = {}
    /\ membar = {}
    /\ UNCHANGED rcvars

RelaxedNext ==
    \/ \E t \in Threads : Issue(t)
    \/ \E f \in pipe : Send(f) \/ SendFence(f)
    \/ \E c \in Cores : \/ Writeback(c) \/ FenceDone(c)
                        \/ LoadStep(c) \/ WriteThrough(c) \/ Fence(c)
    \/ \E c \in Cores, b \in Banks : WriteDone(c, b)
    \/ BelowL1
    \/ Terminated

RelaxedSpec == RelaxedInit /\ [][RelaxedNext]_rcvars

-----------------------------------------------------------------------------
(* Properties.                                                              *)

Done == {f \in Warps : log[f] # <<>>}

\* Version v of a line is written, then read, then version v + 1 is written.
Turn(x) == IF x.op = "LD" THEN 2 * x.ver + 1 ELSE 2 * x.ver

\* e and f are in one thread with a memory barrier between them.
Fenced(e, f) ==
    e[1] = f[1] /\ \E k \in (e[2] + 1)..(f[2] - 1) : code[e[1]][k][1] = "FENCE"

\* One of them wrote what the other read or overwrote.
Conflict(e, f) ==
    log[e][1].addr = log[f][1].addr /\ Turn(log[e][1]) < Turn(log[f][1])

Acyclic(R(_, _)) == \A S \in SUBSET Done : S # {} => \E e \in S : \A f \in S : ~R(f, e)

\* A memory fence orders what comes before it and what comes after it, for all
\* cores: there is one order of all accesses that respects the fences of every
\* thread and in which each load returns the latest write.
FencesOrder == Acyclic(LAMBDA e, f : Fenced(e, f) \/ Conflict(e, f))

\* The same for the loads and atomics before a fence, which are done when it is
\* sent, against everything after it: the two clocks of a core and the fences
\* that join them keep what acquire operations need, with other loads, stores
\* and atomics under way in any order.
AcquireOrder ==
    Acyclic(LAMBDA e, f : (Fenced(e, f) /\ log[e][1].op # "ST") \/ Conflict(e, f))
=============================================================================
