----------------------------- MODULE ShaderCore -----------------------------
(***************************************************************************)
(* One shader core between its warps and Ruby: the issue stage with the     *)
(* scoreboard, the SC fence, memory barriers and CTA barriers, the coalescer*)
(* that turns a memory instruction into accesses, and the load/store unit   *)
(* that sends them one at a time and takes their answers in any order.      *)
(*                                                                          *)
(* Ruby is a set of accesses each of which is answered at some time (the    *)
(* modules of the RCC system refine it).  Arithmetic is left out, and so    *)
(* are shared, constant and texture memory, which do not pass through Ruby. *)
(* A warp does not diverge; lanes switched off by a predicate are in off.   *)
(***************************************************************************)
EXTENDS Integers, Sequences, FiniteSets

CONSTANTS
    Warps,
    CtaOf,          \* CtaOf[w]: the hardware CTA of warp w
    Lanes,          \* 1..warp_size
    Regs,           \* registers of a warp
    is_SC,          \* gpgpu_memory_consistency_model is SC, otherwise RC
    MemWarpParts,   \* mem_warp_parts: subwarps that are coalesced apart
    Collectors,     \* instructions between the issue stage and the LD/ST unit
    MaxCtas,        \* bound on the CTAs that a hardware CTA runs in turn
    Code            \* Code[w][i]: the instructions w may choose as its i-th

Spaces == {"global", "local", "generic", "param"}

\* A memory instruction: addr holds word addresses, words is the size of the
\* data of a lane in words, out is 0 when no register is written.  A load always
\* writes one, a store never, an atomic may.
Mem == {i \in [op: {"LD", "ST", "ATOM"}, space: Spaces, off: SUBSET Lanes,
               addr: [Lanes -> Nat], words: {1, 2}, out: Regs \cup {0}, in: SUBSET Regs] :
           (i.op = "LD" => i.out # 0) /\ (i.op = "ST" => i.out = 0)}

Inst == Mem \cup [op: {"MEMBAR", "BAR", "EXIT"}, out: {0}, in: SUBSET Regs]

ASSUME CoreAssumption ==
    /\ Lanes \subseteq Nat /\ IsFiniteSet(Lanes) /\ Regs \subseteq Nat \ {0}
    /\ DOMAIN CtaOf = Warps /\ is_SC \in BOOLEAN
    /\ Collectors \in Nat \ {0} /\ MaxCtas \in Nat \ {0} /\ MemWarpParts \in Nat \ {0}
    /\ Code \in [Warps -> Seq(SUBSET Inst) \ {<<>>}]
    /\ \A w \in Warps : \A i \in DOMAIN Code[w] : \A x \in Code[w][i] : x.op = "EXIT" <=> i = Len(Code[w])

Ctas == {CtaOf[w] : w \in Warps}
WarpsOf(c) == {w \in Warps : CtaOf[w] = c}

VARIABLES
    pc,         \* pc[w]: the next instruction; beyond the code when w has exited
    n_gmem,     \* m_n_gmem: lanes whose access is outstanding
    n_atomic,   \* m_n_atomic: lanes whose atomic is outstanding
    sc_fence,   \* m_sc_fence
    membar,     \* m_membar
    stores,     \* m_stores_outstanding
    regs,       \* the scoreboard's reg_table
    pending,    \* m_pending_writes: accesses that still have to write a register
    active,     \* m_warp_active
    at_barrier, \* m_warp_at_barrier
    exited,     \* done_exit: the warp context is free
    launched,   \* launched[c]: CTAs run so far in hardware CTA c
    bars,       \* history: barriers w has reached in this CTA
    coll,       \* memory instructions in the operand collector
    dispatch,   \* m_dispatch_reg of the LD/ST unit, empty or one instruction
    ruby,       \* accesses sent to Ruby
    fences,     \* warps whose memory fence is in Ruby
    wb          \* m_next_wb, empty or one access

warpVars == <<pc, n_gmem, n_atomic, sc_fence, membar, stores, regs, pending>>
ctaVars == <<active, at_barrier, exited, launched, bars>>
ldstVars == <<coll, dispatch, ruby, fences, wb>>
corevars == <<warpVars, ctaVars, ldstVars>>

CoreInit ==
    /\ pc = [w \in Warps |-> 1]
    /\ n_gmem = [w \in Warps |-> 0] /\ n_atomic = [w \in Warps |-> 0]
    /\ sc_fence = [w \in Warps |-> FALSE] /\ membar = [w \in Warps |-> FALSE]
    /\ stores = [w \in Warps |-> 0]
    /\ regs = [w \in Warps |-> {}]
    /\ pending = [w \in Warps |-> [r \in Regs |-> 0]]
    /\ active = Warps /\ at_barrier = {}
    /\ exited = [w \in Warps |-> FALSE]
    /\ launched = [c \in Ctas |-> 1]
    /\ bars = [w \in Warps |-> 0]
    /\ coll = {} /\ dispatch = <<>> /\ ruby = {} /\ fences = {} /\ wb = <<>>

-----------------------------------------------------------------------------
(* From instructions to accesses.                                           *)

IsMem(i) == i.op \in {"LD", "ST", "ATOM"}
IsLoad(i) == i.op \in {"LD", "ATOM"}

\* m_warp_active_mask after the instruction was executed
ActiveMask(i) == Lanes \ i.off

Segment(a) == a \div 2

Subwarp(t, parts) == ((t - 1) * parts) \div Cardinality(Lanes)

\* The transaction that word k of lane t joins.  Lanes of a subwarp that touch
\* a segment share one.  Local words are interleaved over all threads, so each
\* word of a lane is in a segment of its own.  Atomics on one word conflict and
\* go to one transaction after the other.
Transaction(i, t, k) ==
    LET before == {u \in ActiveMask(i) : u < t /\ Subwarp(u, 2) = Subwarp(t, 2)
                                               /\ i.addr[u] = i.addr[t]}
    IN IF i.op = "ATOM"
         THEN <<Subwarp(t, 2), Segment(i.addr[t]), Cardinality(before)>>
         ELSE <<Subwarp(t, MemWarpParts), Segment(i.addr[t]), k>>

\* Fault: lanes of one segment share a transaction although they conflict and
\* the last lane replaces the others in its mask.
Coalesced_lastLane(i) ==
    {[tr |-> Transaction(i, t, 1), mask |-> {t}] :
        t \in {u \in ActiveMask(i) : \A v \in ActiveMask(i) :
                   Transaction(i, v, 1) = Transaction(i, u, 1) => v <= u}}

\* generate_mem_accesses: one access per transaction, with the lanes in it
Coalesced(i) ==
    LET chunks == IF i.space \in {"local", "param"} THEN 1..i.words ELSE {1}
        all == {Transaction(i, t, k) : t \in ActiveMask(i), k \in chunks}
    IN {[tr |-> x, mask |-> {t \in ActiveMask(i) : \E k \in chunks : Transaction(i, t, k) = x}]
          : x \in all}

\* checkExecutionStatusAndUpdate runs for every lane the warp has, also for one
\* its predicate has switched off.  It looks at the instruction's space, which
\* the first executing lane of a generic access resolves.
CountedLanes(i) ==
    IF i.space # "generic" THEN Lanes
    ELSE {t \in Lanes : \E u \in ActiveMask(i) : u <= t}

-----------------------------------------------------------------------------
(* CTA barriers (barrier_set_t).                                            *)

\* Fault: a warp that has exited is still waited for.
AfterBarrier_noExit(c, arrived, running) ==
    IF arrived \cap WarpsOf(c) = WarpsOf(c) THEN arrived \ WarpsOf(c) ELSE arrived

\* Fault: one warp at the barrier releases the others.
AfterBarrier_first(c, arrived, running) ==
    IF Cardinality(arrived \cap WarpsOf(c)) > 1 THEN arrived \ WarpsOf(c) ELSE arrived

\* The warps left at the barrier of CTA c: none when all running warps arrived.
AfterBarrier(c, arrived, running) ==
    IF arrived \cap WarpsOf(c) = running \cap WarpsOf(c)
      THEN arrived \ WarpsOf(c) ELSE arrived

-----------------------------------------------------------------------------
(* The issue stage.                                                         *)

functional_done(w) == pc[w] > Len(Code[w])

waiting(w) ==
    functional_done(w) \/ w \in at_barrier \/ membar[w] \/ n_atomic[w] > 0

checkCollision(w, i) == (i.in \cup {i.out}) \cap regs[w] # {}

\* Fault: a memory barrier is not held.
FenceStall_noMembar(w, i) == is_SC /\ sc_fence[w] /\ i.op # "MEMBAR"

\* Memory instructions wait for the SC fence.
FenceStall(w, i) == is_SC /\ sc_fence[w]

\* The instructions of w that can be issued now.
Ready(w) ==
    IF exited[w] \/ waiting(w) THEN {} ELSE {i \in Code[w][pc[w]] : ~checkCollision(w, i)}

Step(w) == pc' = [pc EXCEPT ![w] = @ + 1]

\* Fault: the fence is only set for loads.
SetFence_loads(w, i, n) == is_SC /\ i.op = "LD" /\ i.space \in {"global", "local"} /\ n > 0

\* issue_warp: the instruction's own space decides, not the one a generic
\* address was found in.
SetFence(w, i, n) == is_SC /\ i.space \in {"global", "local"} /\ n > 0

IssueMem(w) ==
    \E i \in Ready(w) :
        LET n == n_gmem[w] + Cardinality(CountedLanes(i)) IN
        /\ IsMem(i)
        /\ Cardinality(coll) < Collectors
        /\ ~FenceStall(w, i)
        /\ n_gmem' = [n_gmem EXCEPT ![w] = IF is_SC THEN n ELSE @]
        /\ n_atomic' = [n_atomic EXCEPT ![w] =
                           IF i.op = "ATOM" THEN @ + Cardinality(ActiveMask(i)) ELSE @]
        /\ sc_fence' = [sc_fence EXCEPT ![w] = @ \/ SetFence(w, i, n)]
        /\ regs' = [regs EXCEPT ![w] = @ \cup ({i.out} \ {0})]
        /\ coll' = coll \cup {[warp |-> w, no |-> pc[w], op |-> i.op, out |-> i.out,
                               accs |-> Coalesced(i)]}
        /\ Step(w)
        /\ UNCHANGED <<membar, stores, pending, ctaVars, dispatch, ruby, fences, wb>>

\* warp_mem_barrier_waiting_for_writes: pendingWrites of the scoreboard
BarrierStall(w) == regs[w] # {}

IssueMembar(w) ==
    \E i \in Ready(w) :
        /\ i.op = "MEMBAR"
        /\ ~BarrierStall(w)
        /\ Cardinality(coll) < Collectors
        /\ ~FenceStall(w, i)
        /\ membar' = [membar EXCEPT ![w] = TRUE]
        /\ coll' = coll \cup {[warp |-> w, no |-> pc[w], op |-> i.op, out |-> 0, accs |-> {}]}
        /\ Step(w)
        /\ UNCHANGED <<n_gmem, n_atomic, sc_fence, stores, regs, pending, ctaVars,
                       dispatch, ruby, fences, wb>>

\* warp_reaches_barrier.  The barrier passes through an arithmetic pipeline.
IssueBar(w) ==
    \E i \in Ready(w) :
        /\ i.op = "BAR"
        /\ at_barrier' = AfterBarrier(CtaOf[w], at_barrier \cup {w}, active)
        /\ bars' = [bars EXCEPT ![w] = @ + 1]
        /\ Step(w)
        /\ UNCHANGED <<n_gmem, n_atomic, sc_fence, membar, stores, regs, pending,
                       active, exited, launched, ldstVars>>

\* exit_impl: the warp leaves the barrier set as soon as the exit is issued.
IssueExit(w) ==
    \E i \in Ready(w) :
        /\ i.op = "EXIT"
        /\ active' = active \ {w}
        /\ at_barrier' = AfterBarrier(CtaOf[w], at_barrier, active \ {w})
        /\ Step(w)
        /\ UNCHANGED <<n_gmem, n_atomic, sc_fence, membar, stores, regs, pending,
                       exited, launched, bars, ldstVars>>

-----------------------------------------------------------------------------
(* The load/store unit.                                                     *)

\* Fault: the register is released with the first access.
PendingWrites_one(x) == 1

\* What ldst_unit::issue adds to m_pending_writes.
PendingWrites(x) == Cardinality(x.accs)

\* The operand collector hands an instruction whose operands are read to the
\* free dispatch register, not always the oldest.
Dispatch ==
    \E x \in coll :
        /\ dispatch = <<>>
        /\ dispatch' = <<x>>
        /\ coll' = coll \ {x}
        /\ pending' = IF IsLoad(x) /\ x.out # 0
                        THEN [pending EXCEPT ![x.warp][x.out] = @ + PendingWrites(x)]
                        ELSE pending
        /\ UNCHANGED <<pc, n_gmem, n_atomic, sc_fence, membar, stores, regs, ctaVars,
                       ruby, fences, wb>>

\* ldst_unit::cycle: an instruction without accesses left leaves the unit.  A
\* load that waits for no access releases its register.
Retire(x, rest) ==
    /\ dispatch' = IF rest = {} THEN <<>> ELSE <<[x EXCEPT !.accs = rest]>>
    /\ regs' = IF rest = {} /\ IsLoad(x) /\ (x.out = 0 \/ pending[x.warp][x.out] = 0)
                 THEN [regs EXCEPT ![x.warp] = @ \ {x.out}] ELSE regs

\* memory_cycle: one access is sent in a cycle in which Ruby takes it.
MemoryCycle ==
    /\ dispatch # <<>>
    /\ LET x == dispatch[1] IN
       /\ IsMem(x)
       /\ \/ /\ x.accs = {}
             /\ Retire(x, {})
             /\ UNCHANGED <<ruby, stores>>
          \/ \E a \in x.accs :
                /\ ruby' = ruby \cup {[warp |-> x.warp, no |-> x.no, op |-> x.op,
                                       out |-> x.out, acc |-> a]}
                /\ stores' = IF x.op = "ST" THEN [stores EXCEPT ![x.warp] = @ + 1] ELSE stores
                /\ Retire(x, x.accs \ {a})
    /\ UNCHANGED <<pc, n_gmem, n_atomic, sc_fence, membar, pending, ctaVars, coll, fences, wb>>

\* membar_cycle: the fence is sent to Ruby.
MembarCycle ==
    /\ dispatch # <<>>
    /\ dispatch[1].op = "MEMBAR"
    /\ fences' = fences \cup {dispatch[1].warp}
    /\ dispatch' = <<>>
    /\ UNCHANGED <<warpVars, ctaVars, coll, ruby, wb>>

\* Clients 5 and 6 of writeback: an access is answered.
Answer(a) ==
    LET w == a.warp
        n == Cardinality(a.acc.mask)
        left == n_gmem[w] - n
    IN
    /\ wb = <<>>
    /\ ruby' = ruby \ {a}
    /\ n_gmem' = [n_gmem EXCEPT ![w] = IF is_SC THEN left ELSE @]
    /\ sc_fence' = [sc_fence EXCEPT ![w] = @ /\ left # 0]
    /\ stores' = [stores EXCEPT ![w] = IF a.op = "ST" THEN @ - 1 ELSE @]
    /\ n_atomic' = [n_atomic EXCEPT ![w] = IF a.op = "ATOM" THEN @ - n ELSE @]
    /\ wb' = <<a>>
    /\ UNCHANGED <<pc, membar, regs, pending, ctaVars, coll, dispatch, fences>>

\* Client 7: a memory fence is answered.
FenceAnswer(w) ==
    /\ wb = <<>>
    /\ w \in fences
    /\ fences' = fences \ {w}
    /\ membar' = [membar EXCEPT ![w] = FALSE]
    /\ UNCHANGED <<pc, n_gmem, n_atomic, sc_fence, stores, regs, pending, ctaVars,
                   coll, dispatch, ruby, wb>>

\* The start of writeback: the register file takes the answer.
RegisterWrite ==
    /\ wb # <<>>
    /\ wb' = <<>>
    /\ LET a == wb[1] IN
       IF a.out = 0 THEN UNCHANGED <<pending, regs>>
       ELSE /\ pending' = [pending EXCEPT ![a.warp][a.out] = @ - 1]
            /\ regs' = IF pending[a.warp][a.out] = 1
                         THEN [regs EXCEPT ![a.warp] = @ \ {a.out}] ELSE regs
    /\ UNCHANGED <<pc, n_gmem, n_atomic, sc_fence, membar, stores, ctaVars,
                   coll, dispatch, ruby, fences>>

-----------------------------------------------------------------------------
(* Contexts.                                                                *)

inst_in_pipeline(w) ==
    (\E x \in coll : x.warp = w) \/ (dispatch # <<>> /\ dispatch[1].warp = w)

\* Fault: stores may still be on their way.
hardware_done_noStores(w) == functional_done(w) /\ ~inst_in_pipeline(w)

hardware_done(w) == functional_done(w) /\ stores[w] = 0 /\ ~inst_in_pipeline(w)

\* fetch: the context of a finished warp is given back.
Reclaim(w) ==
    /\ hardware_done(w) /\ regs[w] = {} /\ ~exited[w]
    /\ exited' = [exited EXCEPT ![w] = TRUE]
    /\ UNCHANGED <<warpVars, active, at_barrier, launched, bars, ldstVars>>

\* issue_block2core: reinit, allocate_barrier and init_warps for the next CTA.
Launch(c) ==
    LET fresh(f, v) == [w \in Warps |-> IF CtaOf[w] = c THEN v ELSE f[w]] IN
    /\ \A w \in WarpsOf(c) : exited[w]
    /\ launched[c] < MaxCtas
    /\ launched' = [launched EXCEPT ![c] = @ + 1]
    /\ pc' = fresh(pc, 1) /\ exited' = fresh(exited, FALSE) /\ bars' = fresh(bars, 0)
    /\ n_gmem' = fresh(n_gmem, 0) /\ n_atomic' = fresh(n_atomic, 0)
    /\ sc_fence' = fresh(sc_fence, FALSE) /\ membar' = fresh(membar, FALSE)
    /\ active' = active \cup WarpsOf(c) /\ at_barrier' = at_barrier \ WarpsOf(c)
    /\ UNCHANGED <<stores, regs, pending, ldstVars>>

\* Every CTA has run.
Idle ==
    /\ \A c \in Ctas : launched[c] = MaxCtas
    /\ \A w \in Warps : exited[w]
    /\ UNCHANGED corevars

CoreNext ==
    \/ \E w \in Warps : IssueMem(w) \/ IssueMembar(w) \/ IssueBar(w) \/ IssueExit(w)
    \/ Dispatch \/ MemoryCycle \/ MembarCycle
    \/ \E a \in ruby : Answer(a)
    \/ \E w \in Warps : FenceAnswer(w) \/ Reclaim(w)
    \/ RegisterWrite
    \/ \E c \in Ctas : Launch(c)
    \/ Idle

CoreSpec == CoreInit /\ [][CoreNext]_corevars

\* The core and Ruby are stepped in every cycle.
CoreFairSpec == CoreSpec /\ WF_corevars(CoreNext)

-----------------------------------------------------------------------------
(* Properties.                                                              *)

InUnit(w) == {x \in coll \cup {dispatch[i] : i \in DOMAIN dispatch} : x.warp = w}

\* The accesses of w that have not been answered.
Outstanding(w) ==
    (UNION {{[no |-> x.no, op |-> x.op, acc |-> a] : a \in x.accs} : x \in InUnit(w)})
    \cup {[no |-> a.no, op |-> a.op, acc |-> a.acc] : a \in {b \in ruby : b.warp = w}}

\* Lanes of the accesses in S; one that is in two of them counts twice.
LanesOf(S) == Cardinality(UNION {{x} \X x.acc.mask : x \in S})

\* n_gmem and n_atomic, which are counted per lane when an instruction is
\* executed and per access mask when its accesses return, agree at all times:
\* they are the lanes of the outstanding accesses.  So decrement_gmem_count and
\* decrement_atomic_count never fail their asserts and reach zero exactly with
\* the last answer, however accesses are split and answers are ordered.
LanesCounted ==
    \A w \in Warps :
        /\ is_SC => n_gmem[w] = LanesOf(Outstanding(w))
        /\ n_atomic[w] = LanesOf({x \in Outstanding(w) : x.op = "ATOM"})

\* Under SC the accesses of a warp that are outstanding belong to one
\* instruction: the fence that issue_warp sets and the last answer clears keeps
\* memory instructions in program order, whatever the collector, the load/store
\* unit and Ruby reorder.
OneAtATime ==
    \A w \in Warps : \A x, y \in Outstanding(w) : x.no = y.no

\* A register is released when, and not before, every access that writes it has
\* come back: the count that ldst_unit::issue takes from the access queue covers
\* accesses that are not sent yet.
RegistersHeld ==
    \A w \in Warps, r \in Regs :
        r \in regs[w] <=> \/ \E x \in InUnit(w) : x.out = r
                          \/ \E a \in ruby : a.warp = w /\ a.out = r
                          \/ wb # <<>> /\ wb[1].warp = w /\ wb[1].out = r

\* No warp is past a CTA barrier that a running warp of the CTA has not reached,
\* with warps that exit before, at and after the barrier.
BarrierHolds ==
    \A w, v \in Warps : CtaOf[w] = CtaOf[v] /\ ~functional_done(v) =>
        (IF w \in at_barrier THEN bars[w] - 1 ELSE bars[w]) <= bars[v]

\* A context is given to the next CTA only when nothing of the old one is left:
\* reset() asserts that no store is outstanding, deallocate_barrier that no warp
\* is at a barrier, and an answer that came later would be taken from the
\* counters of the new warp (reinit does not even reset the last warp of a CTA
\* whose size is not a multiple of the warp size).
CleanReclaim ==
    \A w \in Warps : exited[w] =>
        /\ Outstanding(w) = {} /\ InUnit(w) = {} /\ w \notin fences
        /\ n_gmem[w] = 0 /\ n_atomic[w] = 0 /\ ~sc_fence[w] /\ ~membar[w] /\ stores[w] = 0
        /\ w \notin active \cup at_barrier
        /\ \A i \in DOMAIN wb : wb[i].warp # w \/ wb[i].out = 0

\* "Memory barrier can be issued (all writes are complete)": no access of a warp
\* that is waiting at a memory barrier is outstanding.
MembarAfterWrites == \A w \in Warps : membar[w] => Outstanding(w) = {}

\* Every warp runs to its end and its context is given back.
EveryWarpExits == <>(\A w \in Warps : exited[w] /\ launched[CtaOf[w]] = MaxCtas)
=============================================================================
