-------------------------- MODULE ShaderCoreProofs --------------------------
(***************************************************************************)
(* CTA barriers, registers, lane counters, contexts and the SC fence of a   *)
(* shader core, for every number of warps, CTAs, lanes and registers and    *)
(* every program, under SC and under RC.                                    *)
(***************************************************************************)
EXTENDS ShaderCore, FiniteSetTheorems, FunctionTheorems, TLAPS

-----------------------------------------------------------------------------
(* Barriers.                                                                *)

\* The barriers that w has left behind.
Passed(w) == IF w \in at_barrier THEN bars[w] - 1 ELSE bars[w]

\* The running warps of a CTA have passed the same barriers, an exited one no
\* more than they.
BarInv ==
    /\ pc \in [Warps -> Nat \ {0}] /\ bars \in [Warps -> Nat]
    /\ at_barrier \subseteq active /\ active \subseteq Warps
    /\ \A w \in Warps : ~functional_done(w) => w \in active
    /\ \A w \in Warps, v \in active : CtaOf[w] = CtaOf[v] => Passed(w) <= Passed(v)

\* A warp that issues runs and is not at a barrier.
LEMMA Issuing ==
    ASSUME BarInv, NEW w \in Warps, NEW i \in Ready(w)
    PROVE  /\ w \in active /\ w \notin at_barrier
           /\ pc[w] \in Nat \ {0} /\ Len(Code[w]) \in Nat /\ pc[w] <= Len(Code[w])
           /\ i \in Code[w][pc[w]] /\ ~checkCollision(w, i)
<1>1. ~functional_done(w) /\ w \notin at_barrier /\ i \in Code[w][pc[w]] /\ ~checkCollision(w, i)
  BY DEF Ready, waiting
<1>2. pc[w] \in Nat \ {0} /\ Len(Code[w]) \in Nat
  BY CoreAssumption DEF BarInv
<1> QED BY <1>1, <1>2 DEF BarInv, functional_done

\* A step that is not about barriers.
LEMMA QuietBar ==
    ASSUME BarInv, UNCHANGED <<active, at_barrier, bars>>,
           pc' = pc \/ \E w \in active : pc' = [pc EXCEPT ![w] = @ + 1]
    PROVE  BarInv'
<1>1. pc' \in [Warps -> Nat \ {0}]
  BY DEF BarInv
<1>2. ASSUME NEW w \in Warps, ~functional_done(w)' PROVE w \in active
  <2>1. CASE pc' = pc
    BY <1>2, <2>1 DEF BarInv, functional_done
  <2>2. ASSUME NEW u \in active, pc' = [pc EXCEPT ![u] = @ + 1] PROVE w \in active
    <3>1. CASE w = u
      BY <3>1
    <3>2. CASE w # u
      BY <1>2, <2>2, <3>2 DEF BarInv, functional_done
    <3> QED BY <3>1, <3>2
  <2> QED BY <2>1, <2>2
<1>3. \A w : Passed(w)' = Passed(w)
  BY DEF Passed
<1> QED BY <1>1, <1>2, <1>3 DEF BarInv

\* The barrier opens, or it does not.
LEMMA OpenBar ==
    ASSUME NEW c, NEW A, NEW R
    PROVE  \/ A \cap WarpsOf(c) = R \cap WarpsOf(c) /\ AfterBarrier(c, A, R) = A \ WarpsOf(c)
           \/ AfterBarrier(c, A, R) = A
BY DEF AfterBarrier

LEMMA ReachBar ==
    ASSUME BarInv, NEW w \in Warps, IssueBar(w)
    PROVE  BarInv'
<1>1. PICK i \in Ready(w) :
         /\ at_barrier' = AfterBarrier(CtaOf[w], at_barrier \cup {w}, active)
         /\ bars' = [bars EXCEPT ![w] = @ + 1]
         /\ Step(w) /\ active' = active
  BY DEF IssueBar
<1>2. w \in active /\ w \notin at_barrier
  BY Issuing
<1>3. pc' = [pc EXCEPT ![w] = @ + 1]
  BY <1>1 DEF Step
<1>4. pc' \in [Warps -> Nat \ {0}] /\ bars' \in [Warps -> Nat]
  BY <1>1, <1>3 DEF BarInv
<1>5. ASSUME NEW u \in Warps, ~functional_done(u)' PROVE u \in active
  <2>1. CASE u = w
    BY <1>2, <2>1
  <2>2. CASE u # w
    BY <1>3, <1>5, <2>2 DEF BarInv, functional_done
  <2> QED BY <2>1, <2>2
<1>6. \A u \in Warps : bars[u] \in Nat /\ bars'[u] = IF u = w THEN bars[u] + 1 ELSE bars[u]
  BY <1>1 DEF BarInv
<1>7. CASE at_barrier' = at_barrier \cup {w}
  <2>1. \A u \in Warps : Passed(u)' = Passed(u)
    BY <1>2, <1>6, <1>7 DEF Passed
  <2>2. at_barrier' \subseteq active'
    BY <1>1, <1>2, <1>7 DEF BarInv
  <2> QED BY <1>1, <1>4, <1>5, <2>1, <2>2 DEF BarInv
<1>8. CASE /\ (at_barrier \cup {w}) \cap WarpsOf(CtaOf[w]) = active \cap WarpsOf(CtaOf[w])
           /\ at_barrier' = (at_barrier \cup {w}) \ WarpsOf(CtaOf[w])
  <2>1. \A u \in Warps : u \in WarpsOf(CtaOf[w]) <=> CtaOf[u] = CtaOf[w]
    BY DEF WarpsOf
  <2>2. ASSUME NEW u \in active, CtaOf[u] = CtaOf[w]
        PROVE  Passed(u)' = Passed(u) + 1
    <3>1. u \in Warps /\ u \in at_barrier \cup {w} /\ u \notin at_barrier'
      BY <1>8, <2>1, <2>2 DEF BarInv
    <3> QED BY <1>2, <1>6, <3>1 DEF Passed
  <2>3. ASSUME NEW u \in Warps, u \notin active \/ CtaOf[u] # CtaOf[w]
        PROVE  Passed(u)' = Passed(u)
    <3>1. u # w /\ (u \in at_barrier' <=> u \in at_barrier)
      BY <1>2, <1>8, <2>1, <2>3 DEF BarInv
    <3> QED BY <1>6, <3>1 DEF Passed
  <2>4. \A u \in Warps : Passed(u) \in Int
    BY <1>6 DEF Passed
  <2>5. ASSUME NEW u \in Warps, NEW v \in active, CtaOf[u] = CtaOf[v] PROVE Passed(u)' <= Passed(v)'
    <3>1. Passed(u) <= Passed(v) /\ v \in Warps
      BY <2>5 DEF BarInv
    <3>2. CASE CtaOf[v] = CtaOf[w]
      <4>1. Passed(v)' = Passed(v) + 1
        BY <2>2, <3>2
      <4>2. Passed(u)' = Passed(u) \/ Passed(u)' = Passed(u) + 1
        BY <2>2, <2>3, <2>5, <3>2
      <4> QED BY <2>4, <3>1, <4>1, <4>2
    <3>3. CASE CtaOf[v] # CtaOf[w]
      BY <2>3, <2>5, <3>1, <3>3
    <3> QED BY <3>2, <3>3
  <2>6. at_barrier' \subseteq active'
    BY <1>1, <1>2, <1>8 DEF BarInv
  <2> QED BY <1>1, <1>4, <1>5, <2>5, <2>6 DEF BarInv
<1> QED BY <1>1, <1>7, <1>8, OpenBar

LEMMA ExitBar ==
    ASSUME BarInv, NEW w \in Warps, IssueExit(w)
    PROVE  BarInv'
<1>1. PICK i \in Ready(w) :
         /\ i.op = "EXIT" /\ active' = active \ {w}
         /\ at_barrier' = AfterBarrier(CtaOf[w], at_barrier, active \ {w})
         /\ Step(w) /\ bars' = bars
  BY DEF IssueExit
<1>2. /\ w \in active /\ w \notin at_barrier
      /\ pc[w] \in Nat \ {0} /\ Len(Code[w]) \in Nat /\ pc[w] <= Len(Code[w]) /\ i \in Code[w][pc[w]]
  BY Issuing
<1>3. pc' = [pc EXCEPT ![w] = @ + 1] /\ pc' \in [Warps -> Nat \ {0}]
  BY <1>1 DEF Step, BarInv
<1>4. functional_done(w)'
  <2>1. Code[w] \in Seq(SUBSET Inst)
    BY CoreAssumption
  <2>2. pc[w] \in DOMAIN Code[w]
    BY <1>2, <2>1
  <2>3. pc[w] = Len(Code[w])
    BY <1>1, <1>2, <2>2, CoreAssumption
  <2> QED BY <1>2, <1>3, <2>3 DEF functional_done, BarInv
<1>5. ASSUME NEW u \in Warps, ~functional_done(u)' PROVE u \in active'
  <2>1. u # w
    BY <1>4, <1>5
  <2> QED BY <1>1, <1>3, <1>5, <2>1 DEF BarInv, functional_done
<1>6. \A u \in Warps : bars[u] \in Nat /\ bars'[u] = bars[u]
  BY <1>1 DEF BarInv
<1>7. CASE at_barrier' = at_barrier
  <2>1. \A u : Passed(u)' = Passed(u)
    BY <1>1, <1>7 DEF Passed
  <2>2. at_barrier' \subseteq active'
    BY <1>1, <1>2, <1>7 DEF BarInv
  <2> QED BY <1>1, <1>3, <1>5, <2>1, <2>2 DEF BarInv
<1>8. CASE /\ at_barrier \cap WarpsOf(CtaOf[w]) = (active \ {w}) \cap WarpsOf(CtaOf[w])
           /\ at_barrier' = at_barrier \ WarpsOf(CtaOf[w])
  <2>1. \A u \in Warps : u \in WarpsOf(CtaOf[w]) <=> CtaOf[u] = CtaOf[w]
    BY DEF WarpsOf
  <2>2. ASSUME NEW u \in active', CtaOf[u] = CtaOf[w]
        PROVE  Passed(u)' = Passed(u) + 1
    <3>1. u \in Warps /\ u \in at_barrier /\ u \notin at_barrier'
      BY <1>1, <1>8, <2>1, <2>2 DEF BarInv
    <3> QED BY <1>6, <3>1 DEF Passed
  <2>3. ASSUME NEW u \in Warps, u \notin active' \/ CtaOf[u] # CtaOf[w]
        PROVE  Passed(u)' = Passed(u)
    <3>1. u \in at_barrier' <=> u \in at_barrier
      BY <1>1, <1>2, <1>8, <2>1, <2>3 DEF BarInv
    <3> QED BY <1>6, <3>1 DEF Passed
  <2>4. \A u \in Warps : Passed(u) \in Int
    BY <1>6 DEF Passed
  <2>5. ASSUME NEW u \in Warps, NEW v \in active', CtaOf[u] = CtaOf[v] PROVE Passed(u)' <= Passed(v)'
    <3>1. Passed(u) <= Passed(v) /\ v \in Warps
      BY <1>1, <2>5 DEF BarInv
    <3>2. CASE CtaOf[v] = CtaOf[w]
      <4>1. Passed(v)' = Passed(v) + 1
        BY <2>2, <3>2
      <4>2. Passed(u)' = Passed(u) \/ Passed(u)' = Passed(u) + 1
        BY <2>2, <2>3, <2>5, <3>2
      <4> QED BY <2>4, <3>1, <4>1, <4>2
    <3>3. CASE CtaOf[v] # CtaOf[w]
      BY <2>3, <2>5, <3>1, <3>3
    <3> QED BY <3>2, <3>3
  <2>6. at_barrier' \subseteq active'
    BY <1>1, <1>2, <1>8 DEF BarInv
  <2> QED BY <1>1, <1>3, <1>5, <1>6, <2>5, <2>6 DEF BarInv
<1> QED BY <1>1, <1>7, <1>8, OpenBar

LEMMA LaunchBar ==
    ASSUME BarInv, NEW c, Launch(c)
    PROVE  BarInv'
<1>1. /\ pc' = [w \in Warps |-> IF CtaOf[w] = c THEN 1 ELSE pc[w]]
      /\ bars' = [w \in Warps |-> IF CtaOf[w] = c THEN 0 ELSE bars[w]]
      /\ active' = active \cup WarpsOf(c) /\ at_barrier' = at_barrier \ WarpsOf(c)
  BY DEF Launch
<1>2. \A u \in Warps : u \in WarpsOf(c) <=> CtaOf[u] = c
  BY DEF WarpsOf
<1>3. WarpsOf(c) \subseteq Warps
  BY DEF WarpsOf
<1>4. pc' \in [Warps -> Nat \ {0}] /\ bars' \in [Warps -> Nat]
  BY <1>1 DEF BarInv
<1>5. ASSUME NEW u \in Warps, ~functional_done(u)' PROVE u \in active'
  <2>1. CASE CtaOf[u] = c
    BY <1>1, <1>2, <2>1
  <2>2. CASE CtaOf[u] # c
    BY <1>1, <1>5, <2>2 DEF BarInv, functional_done
  <2> QED BY <2>1, <2>2
<1>6. ASSUME NEW u \in Warps PROVE Passed(u)' = IF CtaOf[u] = c THEN 0 ELSE Passed(u)
  BY <1>1, <1>2 DEF Passed
<1>7. ASSUME NEW u \in Warps, NEW v \in active', CtaOf[u] = CtaOf[v] PROVE Passed(u)' <= Passed(v)'
  <2>1. v \in Warps
    BY <1>1, <1>3 DEF BarInv
  <2>2. CASE CtaOf[v] = c
    BY <1>6, <1>7, <2>1, <2>2
  <2>3. CASE CtaOf[v] # c
    <3>1. v \in active
      BY <1>1, <1>2, <2>1, <2>3
    <3>2. Passed(u) <= Passed(v)
      BY <1>7, <3>1 DEF BarInv
    <3> QED BY <1>6, <1>7, <2>1, <2>3, <3>2
  <2> QED BY <2>2, <2>3
<1> QED BY <1>1, <1>3, <1>4, <1>5, <1>7 DEF BarInv

LEMMA InitBar == CoreInit => BarInv
<1> SUFFICES ASSUME CoreInit PROVE BarInv
  OBVIOUS
<1>1. \A w \in Warps : Passed(w) = 0
  BY DEF CoreInit, Passed
<1> QED BY <1>1 DEF CoreInit, BarInv

LEMMA NextBar == BarInv /\ [CoreNext]_corevars => BarInv'
<1> SUFFICES ASSUME BarInv, [CoreNext]_corevars PROVE BarInv'
  OBVIOUS
<1>1. ASSUME NEW w \in Warps, IssueMem(w) \/ IssueMembar(w) PROVE BarInv'
  <2>1. PICK i \in Ready(w) : Step(w) /\ UNCHANGED <<active, at_barrier, bars>>
    BY <1>1 DEF IssueMem, IssueMembar, ctaVars
  <2>2. w \in active
    BY Issuing
  <2> QED BY <2>1, <2>2, QuietBar DEF Step
<1>2. ASSUME NEW w \in Warps, IssueBar(w) PROVE BarInv'
  BY <1>2, ReachBar
<1>3. ASSUME NEW w \in Warps, IssueExit(w) PROVE BarInv'
  BY <1>3, ExitBar
<1>4. ASSUME NEW c \in Ctas, Launch(c) PROVE BarInv'
  BY <1>4, LaunchBar
<1>5. CASE \/ Dispatch \/ MemoryCycle \/ MembarCycle \/ RegisterWrite
           \/ \E a \in ruby : Answer(a)
           \/ \E w \in Warps : FenceAnswer(w) \/ Reclaim(w)
  <2>1. UNCHANGED <<pc, active, at_barrier, bars>>
    BY <1>5 DEF Dispatch, MemoryCycle, MembarCycle, RegisterWrite, Answer, FenceAnswer, Reclaim, ctaVars, warpVars
  <2> QED BY <2>1, QuietBar
<1>6. CASE UNCHANGED corevars
  <2>1. UNCHANGED <<pc, active, at_barrier, bars>>
    BY <1>6 DEF corevars, ctaVars, warpVars
  <2> QED BY <2>1, QuietBar
<1> QED BY <1>1, <1>2, <1>3, <1>4, <1>5, <1>6 DEF CoreNext, Idle

\* No warp is past a barrier that a running warp of its CTA has not reached
\* (warp_reaches_barrier, warp_exit), whatever the numbers of warps and CTAs.
THEOREM BarriersHold == CoreSpec => []BarrierHolds
<1>1. BarInv => BarrierHolds
  <2> SUFFICES ASSUME BarInv, NEW w \in Warps, NEW v \in Warps, CtaOf[w] = CtaOf[v], ~functional_done(v)
               PROVE  Passed(w) <= bars[v]
    BY DEF BarrierHolds, Passed
  <2>1. v \in active /\ Passed(w) <= Passed(v)
    BY DEF BarInv
  <2>2. bars[v] \in Nat /\ bars[w] \in Nat
    BY DEF BarInv
  <2> QED BY <2>1, <2>2 DEF Passed
<1> QED BY <1>1, InitBar, NextBar, PTL DEF CoreSpec

-----------------------------------------------------------------------------
(* Registers.                                                               *)

\* Who uses register r of warp w: an instruction in the operand collector, the
\* one in the dispatch register, its accesses in Ruby, the answer at writeback.
Collected(w, r) == {x \in coll : x.warp = w /\ x.out = r}
Dispatched(w, r) == dispatch # <<>> /\ dispatch[1].warp = w /\ dispatch[1].out = r
Sent(w, r) == {a \in ruby : a.warp = w /\ a.out = r}
Answered(w, r) == wb # <<>> /\ wb[1].warp = w /\ wb[1].out = r

\* The accesses that are not sent yet.
Unsent(w, r) == IF Dispatched(w, r) THEN dispatch[1].accs ELSE {}

\* One instruction at a time uses the register, and pending counts the accesses
\* it still waits for: an instruction in the collector waits for none, and one
\* that is left with none to send leaves the dispatch register.
RegOK(w, r) ==
    /\ IsFiniteSet(Sent(w, r))
    /\ r \in regs[w] <=> \/ Collected(w, r) # {} \/ Dispatched(w, r)
                         \/ Sent(w, r) # {} \/ Answered(w, r)
    /\ Collected(w, r) # {} =>
          (\E x \in coll : Collected(w, r) = {x}) /\ ~Dispatched(w, r) /\ Sent(w, r) = {} /\ ~Answered(w, r)
    /\ pending[w][r] = Cardinality(Unsent(w, r)) + Cardinality(Sent(w, r))
                         + (IF Answered(w, r) THEN 1 ELSE 0)
    /\ \A a \in Sent(w, r) : a.acc \notin Unsent(w, r)
    /\ Dispatched(w, r) /\ Unsent(w, r) = {} => Sent(w, r) = {} /\ ~Answered(w, r)

\* Instructions and accesses name warps and registers, only loads write one.
InstOK(x) ==
    /\ x = [warp |-> x.warp, no |-> x.no, op |-> x.op, out |-> x.out, accs |-> x.accs]
    /\ x.warp \in Warps /\ x.out \in Regs \cup {0} /\ (x.out # 0 => IsLoad(x))
    /\ IsFiniteSet(x.accs)

AccOK(a) == a.warp \in Warps /\ a.out \in Regs \cup {0}

UnitOK ==
    /\ pending \in [Warps -> [Regs -> Int]] /\ regs \in [Warps -> SUBSET Regs]
    /\ \A x \in coll : InstOK(x)
    /\ dispatch = <<>> \/ (dispatch = <<dispatch[1]>> /\ InstOK(dispatch[1]))
    /\ \A a \in ruby : AccOK(a)
    /\ wb = <<>> \/ (wb = <<wb[1]>> /\ AccOK(wb[1]))

RegInv == UnitOK /\ \A w \in Warps, r \in Regs : RegOK(w, r)

\* generate_mem_accesses makes finitely many accesses.
LEMMA CoalescedFinite ==
    ASSUME NEW i \in Mem
    PROVE  IsFiniteSet(Coalesced(i))
<1> DEFINE chunks == IF i.space \in {"local", "param"} THEN 1..i.words ELSE {1}
           P == ActiveMask(i) \X chunks
           all == {Transaction(i, t, k) : t \in ActiveMask(i), k \in chunks}
           of(x) == [tr |-> x, mask |-> {t \in ActiveMask(i) : \E k \in chunks : Transaction(i, t, k) = x}]
           f == [p \in P |-> Transaction(i, p[1], p[2])]
           g == [x \in all |-> of(x)]
           C == {of(x) : x \in all}
<1>1. IsFiniteSet(ActiveMask(i))
  BY CoreAssumption, FS_Subset DEF ActiveMask
<1>2. IsFiniteSet(chunks)
  <2>1. i.words \in Nat
    BY DEF Mem
  <2>2. IsFiniteSet(1..i.words)
    BY <2>1, FS_Interval
  <2>3. IsFiniteSet({1})
    BY FS_Singleton
  <2> QED BY <2>2, <2>3
<1>3. IsFiniteSet(P)
  BY <1>1, <1>2, FS_Product
<1>4. IsFiniteSet(all)
  <2> HIDE DEF chunks
  <2>1. f \in [P -> all]
    OBVIOUS
  <2>2. \A y \in all : \E p \in P : f[p] = y
    <3> SUFFICES ASSUME NEW y \in all PROVE \E p \in P : f[p] = y
      OBVIOUS
    <3>1. PICK t \in ActiveMask(i), k \in chunks : y = Transaction(i, t, k)
      OBVIOUS
    <3>2. <<t, k>> \in P /\ f[<<t, k>>] = y
      BY <3>1
    <3> QED BY <3>2
  <2>3. f \in Surjection(P, all)
    BY <2>1, <2>2 DEF Surjection
  <2> QED BY <1>3, <2>3, FS_Surjection
<1>5. IsFiniteSet(C)
  <2> HIDE DEF all, of
  <2>1. g \in Surjection(all, C)
    BY DEF Surjection
  <2> QED BY <1>4, <2>1, FS_Surjection
<1> QED BY <1>5 DEF Coalesced

\* A step that leaves register r of warp w alone.
LEMMA RegFrame ==
    ASSUME NEW w, NEW r, RegOK(w, r), Collected(w, r)' = Collected(w, r),
           Dispatched(w, r)' <=> Dispatched(w, r), Unsent(w, r)' = Unsent(w, r),
           Sent(w, r)' = Sent(w, r), Answered(w, r)' <=> Answered(w, r),
           pending'[w][r] = pending[w][r], r \in regs'[w] <=> r \in regs[w]
    PROVE  RegOK(w, r)'
<1>1. ASSUME Collected(w, r)' # {} PROVE \E x \in coll' : Collected(w, r)' = {x}
  <2>1. PICK x : Collected(w, r)' = {x}
    BY <1>1 DEF RegOK
  <2>2. x \in coll'
    BY <2>1 DEF Collected
  <2> QED BY <2>1, <2>2
<1> QED BY <1>1 DEF RegOK

\* A register that nobody uses is free.
LEMMA Unused ==
    ASSUME NEW w \in Warps, NEW r \in Regs, RegOK(w, r), r \notin regs[w]
    PROVE  /\ Collected(w, r) = {} /\ ~Dispatched(w, r) /\ Sent(w, r) = {} /\ ~Answered(w, r)
           /\ Unsent(w, r) = {} /\ pending[w][r] = 0
<1>1. Collected(w, r) = {} /\ ~Dispatched(w, r) /\ Sent(w, r) = {} /\ ~Answered(w, r)
  BY DEF RegOK
<1>2. Unsent(w, r) = {}
  BY <1>1 DEF Unsent
<1>3. Cardinality(Unsent(w, r)) = 0 /\ Cardinality(Sent(w, r)) = 0
  BY <1>1, <1>2, FS_EmptySet
<1> QED BY <1>1, <1>2, <1>3 DEF RegOK

\* An instruction is put into the operand collector.
LEMMA CollectReg ==
    ASSUME RegInv, NEW x, InstOK(x), coll' = coll \cup {x}, x.out \notin regs[x.warp],
           regs' = [regs EXCEPT ![x.warp] = @ \cup ({x.out} \ {0})],
           UNCHANGED <<pending, dispatch, ruby, wb>>
    PROVE  RegInv'
<1>1. x.warp \in Warps /\ x.out \in Regs \cup {0}
  BY DEF InstOK
<1>2. UnitOK'
  BY <1>1 DEF RegInv, UnitOK
<1>3. ASSUME NEW w \in Warps, NEW r \in Regs PROVE RegOK(w, r)'
  <2>1. /\ Dispatched(w, r)' <=> Dispatched(w, r)
        /\ Unsent(w, r)' = Unsent(w, r) /\ Sent(w, r)' = Sent(w, r)
        /\ Answered(w, r)' <=> Answered(w, r)
    BY DEF Dispatched, Unsent, Sent, Answered
  <2>2. RegOK(w, r)
    BY DEF RegInv
  <2>3. CASE w = x.warp /\ r = x.out
    <3>1. /\ Collected(w, r) = {} /\ ~Dispatched(w, r) /\ Sent(w, r) = {} /\ ~Answered(w, r)
          /\ Unsent(w, r) = {} /\ pending[w][r] = 0
      BY <2>2, <2>3, Unused
    <3>2. Collected(w, r)' = {x}
      BY <2>3, <3>1 DEF Collected
    <3>3. r \in regs'[w]
      BY <1>1, <2>3, CoreAssumption DEF RegInv, UnitOK
    <3>4. (\E y \in coll' : Collected(w, r)' = {y}) /\ pending'[w][r] = pending[w][r]
      BY <3>2
    <3> QED BY <2>1, <2>2, <3>1, <3>2, <3>3, <3>4 DEF RegOK
  <2>4. CASE w # x.warp \/ r # x.out
    <3>1. Collected(w, r)' = Collected(w, r)
      BY <2>4 DEF Collected
    <3>2. r \in regs'[w] <=> r \in regs[w]
      BY <1>1, <2>4 DEF RegInv, UnitOK
    <3>3. pending'[w][r] = pending[w][r]
      OBVIOUS
    <3> QED BY <2>1, <2>2, <3>1, <3>2, <3>3, RegFrame
  <2> QED BY <2>3, <2>4
<1> QED BY <1>2, <1>3 DEF RegInv

\* The collector hands an instruction to the load/store unit.
LEMMA DispatchReg ==
    ASSUME RegInv, Dispatch
    PROVE  RegInv'
<1>1. PICK x \in coll :
        /\ dispatch = <<>> /\ dispatch' = <<x>> /\ coll' = coll \ {x}
        /\ pending' = IF IsLoad(x) /\ x.out # 0
                        THEN [pending EXCEPT ![x.warp][x.out] = @ + PendingWrites(x)]
                        ELSE pending
        /\ UNCHANGED <<regs, ruby, wb>>
  BY DEF Dispatch
<1>2. /\ x.warp \in Warps /\ x.out \in Regs \cup {0} /\ (x.out # 0 => IsLoad(x))
      /\ IsFiniteSet(x.accs) /\ InstOK(x)
  BY DEF RegInv, UnitOK, InstOK
<1>3. PICK n \in Nat : n = Cardinality(x.accs)
  BY <1>2, FS_CardinalityType
<1>4. pending' = IF x.out # 0 THEN [pending EXCEPT ![x.warp][x.out] = @ + n] ELSE pending
  BY <1>1, <1>2, <1>3 DEF PendingWrites
<1>5. UnitOK'
  <2>1. pending' \in [Warps -> [Regs -> Int]]
    BY <1>2, <1>4 DEF RegInv, UnitOK
  <2>2. dispatch' = <<dispatch'[1]>> /\ dispatch'[1] = x
    BY <1>1
  <2>3. InstOK(dispatch[1])'
    BY <1>2, <2>2 DEF InstOK, IsLoad
  <2> QED BY <1>1, <2>1, <2>2, <2>3 DEF RegInv, UnitOK
<1>6. ASSUME NEW w \in Warps, NEW r \in Regs PROVE RegOK(w, r)'
  <2>1. RegOK(w, r) /\ r # 0
    BY CoreAssumption DEF RegInv
  <2>2. Sent(w, r)' = Sent(w, r) /\ (Answered(w, r)' <=> Answered(w, r)) /\ (r \in regs'[w] <=> r \in regs[w])
    BY <1>1 DEF Sent, Answered
  <2>3. CASE w = x.warp /\ r = x.out
    <3>1. x \in Collected(w, r)
      BY <2>3 DEF Collected
    <3>2. Sent(w, r) = {} /\ ~Answered(w, r) /\ Collected(w, r) = {x} /\ r \in regs[w] /\ ~Dispatched(w, r)
      BY <2>1, <3>1 DEF RegOK
    <3>3. Collected(w, r)' = {}
      BY <1>1, <3>2 DEF Collected
    <3>4. Dispatched(w, r)' /\ Unsent(w, r)' = x.accs
      BY <1>1, <2>3 DEF Dispatched, Unsent
    <3>5. Cardinality(Unsent(w, r)) = 0 /\ Cardinality(Sent(w, r)) = 0
      BY <3>2, FS_EmptySet DEF Unsent
    <3>6. pending[w][r] = 0
      BY <2>1, <3>2, <3>5 DEF RegOK
    <3>7. pending'[w][r] = n
      BY <1>4, <2>1, <2>3, <3>6 DEF RegInv, UnitOK
    <3>8. Cardinality(Sent(w, r)') = 0 /\ IsFiniteSet(Sent(w, r)')
      BY <2>2, <3>2, FS_EmptySet
    <3> QED BY <1>3, <2>2, <3>2, <3>3, <3>4, <3>7, <3>8 DEF RegOK
  <2>4. CASE w # x.warp \/ r # x.out
    <3>1. Collected(w, r)' = Collected(w, r)
      BY <1>1, <2>4 DEF Collected
    <3>2. ~Dispatched(w, r) /\ ~Dispatched(w, r)'
      BY <1>1, <2>4 DEF Dispatched
    <3>3. Unsent(w, r)' = Unsent(w, r)
      BY <3>2 DEF Unsent
    <3>4. pending'[w][r] = pending[w][r]
      BY <1>2, <1>4, <2>4 DEF RegInv, UnitOK
    <3> QED BY <2>1, <2>2, <3>1, <3>2, <3>3, <3>4, RegFrame
  <2> QED BY <2>3, <2>4
<1> QED BY <1>5, <1>6 DEF RegInv

\* An instruction without accesses leaves the load/store unit.
LEMMA EmptyReg ==
    ASSUME RegInv, dispatch # <<>>, dispatch[1].accs = {}, Retire(dispatch[1], {}),
           UNCHANGED <<pending, coll, ruby, wb>>
    PROVE  RegInv'
<1>1. PICK x : x = dispatch[1]
  OBVIOUS
<1>2. x.warp \in Warps /\ x.out \in Regs \cup {0} /\ (x.out # 0 => IsLoad(x)) /\ x.accs = {}
  BY <1>1 DEF RegInv, UnitOK, InstOK
<1>3. /\ dispatch' = <<>>
      /\ regs' = IF IsLoad(x) /\ (x.out = 0 \/ pending[x.warp][x.out] = 0)
                   THEN [regs EXCEPT ![x.warp] = @ \ {x.out}] ELSE regs
  BY <1>1 DEF Retire
<1>4. UnitOK'
  BY <1>2, <1>3 DEF RegInv, UnitOK
<1>5. ASSUME NEW w \in Warps, NEW r \in Regs PROVE RegOK(w, r)'
  <2>1. RegOK(w, r) /\ r # 0
    BY CoreAssumption DEF RegInv
  <2>2. /\ Collected(w, r)' = Collected(w, r) /\ Sent(w, r)' = Sent(w, r)
        /\ Answered(w, r)' <=> Answered(w, r)
        /\ ~Dispatched(w, r)' /\ Unsent(w, r)' = {}
    BY <1>3 DEF Collected, Sent, Answered, Dispatched, Unsent
  <2>3. CASE w = x.warp /\ r = x.out
    <3>1. Dispatched(w, r) /\ Unsent(w, r) = {}
      BY <1>1, <1>2, <2>3 DEF Dispatched, Unsent
    <3>2. Sent(w, r) = {} /\ ~Answered(w, r) /\ Collected(w, r) = {}
      BY <2>1, <3>1 DEF RegOK
    <3>3. Cardinality(Unsent(w, r)) = 0 /\ Cardinality(Sent(w, r)) = 0
      BY <3>1, <3>2, FS_EmptySet
    <3>4. pending[w][r] = 0
      BY <2>1, <3>2, <3>3 DEF RegOK
    <3>5. r \notin regs'[w]
      BY <1>2, <1>3, <2>1, <2>3, <3>4 DEF RegInv, UnitOK
    <3>6. Cardinality(Unsent(w, r)') = 0 /\ Cardinality(Sent(w, r)') = 0 /\ IsFiniteSet(Sent(w, r)')
      BY <2>2, <3>2, FS_EmptySet
    <3> QED BY <2>2, <3>2, <3>4, <3>5, <3>6 DEF RegOK
  <2>4. CASE w # x.warp \/ r # x.out
    <3>1. ~Dispatched(w, r)
      BY <1>1, <2>4 DEF Dispatched
    <3>2. Unsent(w, r)' = Unsent(w, r) /\ (Dispatched(w, r)' <=> Dispatched(w, r))
      BY <2>2, <3>1 DEF Unsent
    <3>3. r \in regs'[w] <=> r \in regs[w]
      BY <1>2, <1>3, <2>4 DEF RegInv, UnitOK
    <3>4. pending'[w][r] = pending[w][r]
      OBVIOUS
    <3> QED BY <2>1, <2>2, <3>2, <3>3, <3>4, RegFrame
  <2> QED BY <2>3, <2>4
<1> QED BY <1>4, <1>5 DEF RegInv

\* An access is sent; the last one takes its instruction out of the unit.
LEMMA SendReg ==
    ASSUME RegInv, dispatch # <<>>, NEW a \in dispatch[1].accs,
           ruby' = ruby \cup {[warp |-> dispatch[1].warp, no |-> dispatch[1].no, op |-> dispatch[1].op,
                               out |-> dispatch[1].out, acc |-> a]},
           Retire(dispatch[1], dispatch[1].accs \ {a}), UNCHANGED <<pending, coll, wb>>
    PROVE  RegInv'
<1>1. PICK x : x = dispatch[1]
  OBVIOUS
<1>2. /\ x.warp \in Warps /\ x.out \in Regs \cup {0} /\ (x.out # 0 => IsLoad(x))
      /\ IsFiniteSet(x.accs) /\ a \in x.accs
      /\ x = [warp |-> x.warp, no |-> x.no, op |-> x.op, out |-> x.out, accs |-> x.accs]
  BY <1>1 DEF RegInv, UnitOK, InstOK
<1>m. PICK m : m = [warp |-> x.warp, no |-> x.no, op |-> x.op, out |-> x.out, acc |-> a]
  OBVIOUS
<1>3. m.warp = x.warp /\ m.out = x.out /\ m.acc = a
  BY <1>m
<1>4. ruby' = ruby \cup {m}
  BY <1>1, <1>m
<1>5. PICK rest : rest = x.accs \ {a} /\ IsFiniteSet(rest) /\ Cardinality(rest) = Cardinality(x.accs) - 1
  BY <1>2, FS_RemoveElement
<1>y. PICK y : y = [x EXCEPT !.accs = rest]
  OBVIOUS
<1>z. y = [warp |-> x.warp, no |-> x.no, op |-> x.op, out |-> x.out, accs |-> rest]
  BY <1>2, <1>y
<1>6. /\ y.warp = x.warp /\ y.out = x.out /\ y.op = x.op /\ y.accs = rest
      /\ y = [warp |-> y.warp, no |-> y.no, op |-> y.op, out |-> y.out, accs |-> y.accs]
  BY <1>z
<1>7. /\ dispatch' = IF rest = {} THEN <<>> ELSE <<y>>
      /\ regs' = IF rest = {} /\ IsLoad(x) /\ (x.out = 0 \/ pending[x.warp][x.out] = 0)
                   THEN [regs EXCEPT ![x.warp] = @ \ {x.out}] ELSE regs
  BY <1>1, <1>5, <1>y DEF Retire
<1>8. UnitOK'
  <2>1. regs' \in [Warps -> SUBSET Regs]
    BY <1>7 DEF RegInv, UnitOK
  <2>2. InstOK(y)
    BY <1>2, <1>5, <1>6 DEF InstOK, IsLoad
  <2>3. dispatch' = <<>> \/ (dispatch' = <<dispatch'[1]>> /\ dispatch'[1] = y)
    BY <1>7
  <2>4. dispatch' = <<>> \/ (dispatch' = <<dispatch'[1]>> /\ InstOK(dispatch[1])')
    BY <2>2, <2>3 DEF InstOK, IsLoad
  <2>5. AccOK(m)
    BY <1>2, <1>3 DEF AccOK
  <2>6. \A d \in ruby' : AccOK(d)
    BY <1>4, <2>5 DEF RegInv, UnitOK
  <2> QED BY <2>1, <2>4, <2>6 DEF RegInv, UnitOK, AccOK
<1>9. ASSUME NEW w \in Warps, NEW r \in Regs PROVE RegOK(w, r)'
  <2>1. RegOK(w, r) /\ r # 0
    BY CoreAssumption DEF RegInv
  <2>2. Collected(w, r)' = Collected(w, r) /\ (Answered(w, r)' <=> Answered(w, r))
    BY DEF Collected, Answered
  <2>3. CASE w = x.warp /\ r = x.out
    <3>1. Dispatched(w, r) /\ Unsent(w, r) = x.accs
      BY <1>1, <2>3 DEF Dispatched, Unsent
    <3>2. Collected(w, r) = {} /\ r \in regs[w] /\ IsFiniteSet(Sent(w, r))
      BY <2>1, <3>1 DEF RegOK
    <3>3. Sent(w, r)' = Sent(w, r) \cup {m}
      BY <1>3, <1>4, <2>3 DEF Sent
    <3>4. m \notin Sent(w, r)
      BY <1>2, <1>3, <2>1, <3>1 DEF RegOK
    <3>5. IsFiniteSet(Sent(w, r)') /\ Cardinality(Sent(w, r)') = Cardinality(Sent(w, r)) + 1
      BY <3>2, <3>3, <3>4, FS_AddElement
    <3>6. Unsent(w, r)' = rest
      <4>1. CASE rest = {}
        BY <1>7, <4>1 DEF Unsent, Dispatched
      <4>2. CASE rest # {}
        BY <1>6, <1>7, <2>3, <4>2 DEF Unsent, Dispatched
      <4> QED BY <4>1, <4>2
    <3>7. Dispatched(w, r)' => Unsent(w, r)' # {}
      BY <1>6, <1>7, <3>6 DEF Dispatched
    <3>8. PICK k \in Nat, s \in Nat : k = Cardinality(x.accs) /\ s = Cardinality(Sent(w, r))
      BY <1>2, <3>2, FS_CardinalityType
    <3>9. k # 0
      BY <1>2, <3>8, FS_EmptySet
    <3>10. pending[w][r] = k + s + (IF Answered(w, r) THEN 1 ELSE 0)
      BY <2>1, <3>1, <3>8 DEF RegOK
    <3>11. pending[w][r] # 0
      BY <3>8, <3>9, <3>10
    <3>12. r \in regs'[w]
      BY <1>7, <2>1, <2>3, <3>2, <3>11 DEF RegInv, UnitOK
    <3>13. pending'[w][r] = Cardinality(Unsent(w, r)') + Cardinality(Sent(w, r)')
                              + (IF Answered(w, r)' THEN 1 ELSE 0)
      BY <1>5, <2>2, <3>5, <3>6, <3>8, <3>10
    <3>14. \A d \in Sent(w, r)' : d.acc \notin Unsent(w, r)'
      BY <1>3, <1>5, <2>1, <3>1, <3>3, <3>6 DEF RegOK
    <3>15. m \in Sent(w, r)'
      BY <3>3
    <3> QED BY <2>2, <3>2, <3>5, <3>7, <3>12, <3>13, <3>14, <3>15 DEF RegOK
  <2>4. CASE w # x.warp \/ r # x.out
    <3>1. ~Dispatched(w, r) /\ ~Dispatched(w, r)'
      BY <1>1, <1>6, <1>7, <2>4 DEF Dispatched
    <3>2. Unsent(w, r)' = Unsent(w, r)
      BY <3>1 DEF Unsent
    <3>3. Sent(w, r)' = Sent(w, r)
      BY <1>3, <1>4, <2>4 DEF Sent
    <3>4. r \in regs'[w] <=> r \in regs[w]
      BY <1>2, <1>7, <2>4 DEF RegInv, UnitOK
    <3>5. pending'[w][r] = pending[w][r]
      OBVIOUS
    <3> QED BY <2>1, <2>2, <3>1, <3>2, <3>3, <3>4, <3>5, RegFrame
  <2> QED BY <2>3, <2>4
<1> QED BY <1>8, <1>9 DEF RegInv

\* A memory barrier leaves the load/store unit; it writes no register.
LEMMA MembarReg ==
    ASSUME RegInv, MembarCycle
    PROVE  RegInv'
<1>1. /\ dispatch # <<>> /\ dispatch[1].op = "MEMBAR" /\ dispatch' = <<>>
      /\ UNCHANGED <<regs, pending, coll, ruby, wb>>
  BY DEF MembarCycle, warpVars
<1>2. dispatch[1].out = 0
  BY <1>1 DEF RegInv, UnitOK, InstOK, IsLoad
<1>3. UnitOK'
  BY <1>1 DEF RegInv, UnitOK
<1>4. ASSUME NEW w \in Warps, NEW r \in Regs PROVE RegOK(w, r)'
  <2>1. RegOK(w, r) /\ r # 0
    BY CoreAssumption DEF RegInv
  <2>2. ~Dispatched(w, r) /\ ~Dispatched(w, r)'
    BY <1>1, <1>2, <2>1 DEF Dispatched
  <2>3. Unsent(w, r)' = Unsent(w, r)
    BY <2>2 DEF Unsent
  <2>4. /\ Collected(w, r)' = Collected(w, r) /\ Sent(w, r)' = Sent(w, r)
        /\ Answered(w, r)' <=> Answered(w, r)
        /\ pending'[w][r] = pending[w][r] /\ (r \in regs'[w] <=> r \in regs[w])
    BY <1>1 DEF Collected, Sent, Answered
  <2> QED BY <2>1, <2>2, <2>3, <2>4, RegFrame
<1> QED BY <1>3, <1>4 DEF RegInv

\* An answer moves from Ruby to writeback.
LEMMA AnswerReg ==
    ASSUME RegInv, NEW a \in ruby, Answer(a)
    PROVE  RegInv'
<1>1. /\ wb = <<>> /\ ruby' = ruby \ {a} /\ wb' = <<a>>
      /\ UNCHANGED <<regs, pending, coll, dispatch>>
  BY DEF Answer
<1>2. wb' = <<wb'[1]>> /\ wb'[1] = a /\ wb' # <<>>
  BY <1>1
<1>3. UnitOK'
  <2>1. AccOK(a)
    BY DEF RegInv, UnitOK
  <2>2. AccOK(wb[1])'
    BY <1>2, <2>1 DEF AccOK
  <2> QED BY <1>1, <1>2, <2>2 DEF RegInv, UnitOK
<1>4. ASSUME NEW w \in Warps, NEW r \in Regs PROVE RegOK(w, r)'
  <2>1. RegOK(w, r)
    BY DEF RegInv
  <2>2. /\ Collected(w, r)' = Collected(w, r)
        /\ Dispatched(w, r)' <=> Dispatched(w, r)
        /\ Unsent(w, r)' = Unsent(w, r)
        /\ pending'[w][r] = pending[w][r] /\ (r \in regs'[w] <=> r \in regs[w])
        /\ ~Answered(w, r)
    BY <1>1 DEF Collected, Dispatched, Unsent, Answered
  <2>3. CASE a.warp = w /\ a.out = r
    <3>1. a \in Sent(w, r) /\ Sent(w, r)' = Sent(w, r) \ {a} /\ Answered(w, r)'
      BY <1>1, <1>2, <2>3 DEF Sent, Answered
    <3>2. IsFiniteSet(Sent(w, r)) /\ Sent(w, r) # {}
      BY <2>1, <3>1 DEF RegOK
    <3>3. IsFiniteSet(Sent(w, r)') /\ Cardinality(Sent(w, r)') = Cardinality(Sent(w, r)) - 1
      BY <3>1, <3>2, FS_RemoveElement
    <3>4. Collected(w, r) = {} /\ r \in regs[w] /\ ~(Dispatched(w, r) /\ Unsent(w, r) = {})
      BY <2>1, <3>2 DEF RegOK
    <3>5. pending'[w][r] = Cardinality(Unsent(w, r)') + Cardinality(Sent(w, r)')
                             + (IF Answered(w, r)' THEN 1 ELSE 0)
      <4>1. IsFiniteSet(Unsent(w, r))
        BY FS_EmptySet DEF RegInv, UnitOK, InstOK, Unsent, Dispatched
      <4>2. PICK k \in Nat : k = Cardinality(Unsent(w, r))
        BY <4>1, FS_CardinalityType
      <4>3. PICK s \in Nat : s = Cardinality(Sent(w, r))
        BY <3>2, FS_CardinalityType
      <4>4. pending[w][r] = k + s + 0
        BY <2>1, <2>2, <4>2, <4>3 DEF RegOK
      <4>5. pending[w][r] = k + (s - 1) + 1
        BY <4>2, <4>3, <4>4
      <4> QED BY <2>2, <3>1, <3>3, <4>2, <4>3, <4>5
    <3>6. \A d \in Sent(w, r)' : d.acc \notin Unsent(w, r)'
      BY <2>1, <2>2, <3>1 DEF RegOK
    <3> QED BY <2>2, <3>1, <3>3, <3>4, <3>5, <3>6 DEF RegOK
  <2>4. CASE ~(a.warp = w /\ a.out = r)
    <3>1. Sent(w, r)' = Sent(w, r) /\ ~Answered(w, r)'
      BY <1>1, <1>2, <2>4 DEF Sent, Answered
    <3> QED BY <2>1, <2>2, <3>1, RegFrame
  <2> QED BY <2>3, <2>4
<1> QED BY <1>3, <1>4 DEF RegInv

\* The register file takes the answer; the last one releases the register.
LEMMA WriteReg ==
    ASSUME RegInv, RegisterWrite
    PROVE  RegInv'
<1>1. PICK a : a = wb[1]
  OBVIOUS
<1>2. /\ wb # <<>> /\ wb' = <<>>
      /\ UNCHANGED <<coll, dispatch, ruby>>
      /\ a.out = 0 => UNCHANGED <<pending, regs>>
      /\ a.out # 0 => pending' = [pending EXCEPT ![a.warp][a.out] = @ - 1]
      /\ a.out # 0 => regs' = IF pending[a.warp][a.out] = 1
                                THEN [regs EXCEPT ![a.warp] = @ \ {a.out}] ELSE regs
  BY <1>1 DEF RegisterWrite
<1>3. a.warp \in Warps /\ a.out \in Regs \cup {0}
  BY <1>1, <1>2 DEF RegInv, UnitOK, AccOK
<1>4. UnitOK'
  <2>1. pending \in [Warps -> [Regs -> Int]] /\ regs \in [Warps -> SUBSET Regs]
    BY DEF RegInv, UnitOK
  <2>2. CASE a.out = 0
    BY <1>2, <2>2 DEF RegInv, UnitOK
  <2>3. CASE a.out # 0
    <3>1. pending' = [pending EXCEPT ![a.warp][a.out] = @ - 1] /\ a.out \in Regs
      BY <1>2, <1>3, <2>3
    <3>2. pending' \in [Warps -> [Regs -> Int]]
      BY <1>3, <2>1, <3>1
    <3>3. regs' = regs \/ regs' = [regs EXCEPT ![a.warp] = @ \ {a.out}]
      BY <1>2, <2>3
    <3>4. regs' \in [Warps -> SUBSET Regs]
      BY <1>3, <2>1, <3>3
    <3> QED BY <1>2, <3>2, <3>4 DEF RegInv, UnitOK
  <2> QED BY <2>2, <2>3
<1>5. ASSUME NEW w \in Warps, NEW r \in Regs PROVE RegOK(w, r)'
  <2>1. RegOK(w, r) /\ r # 0
    BY CoreAssumption DEF RegInv
  <2>2. /\ Collected(w, r)' = Collected(w, r) /\ Sent(w, r)' = Sent(w, r)
        /\ Dispatched(w, r)' <=> Dispatched(w, r)
        /\ Unsent(w, r)' = Unsent(w, r) /\ ~Answered(w, r)'
    BY <1>2 DEF Collected, Sent, Dispatched, Unsent, Answered
  <2>3. CASE a.warp = w /\ a.out = r
    <3>1. Answered(w, r)
      BY <1>1, <1>2, <2>3 DEF Answered
    <3>2. /\ Collected(w, r) = {} /\ r \in regs[w] /\ IsFiniteSet(Sent(w, r))
          /\ ~(Dispatched(w, r) /\ Unsent(w, r) = {})
      BY <2>1, <3>1 DEF RegOK
    <3>3. IsFiniteSet(Unsent(w, r))
      BY FS_EmptySet DEF RegInv, UnitOK, InstOK, Unsent, Dispatched
    <3>4. PICK k \in Nat : k = Cardinality(Unsent(w, r))
      BY <3>3, FS_CardinalityType
    <3>5. PICK s \in Nat : s = Cardinality(Sent(w, r))
      BY <3>2, FS_CardinalityType
    <3>6. pending[w][r] = k + s + 1
      BY <2>1, <3>1, <3>4, <3>5 DEF RegOK
    <3>7. pending'[w][r] = pending[w][r] - 1
      BY <1>2, <2>1, <2>3 DEF RegInv, UnitOK
    <3>8. r \in regs'[w] <=> pending[w][r] # 1
      BY <1>2, <2>1, <2>3, <3>2 DEF RegInv, UnitOK
    <3>9. r \in regs'[w] <=> k # 0 \/ s # 0
      BY <3>4, <3>5, <3>6, <3>8
    <3>10. (k = 0 <=> Unsent(w, r) = {}) /\ (s = 0 <=> Sent(w, r) = {})
      BY <3>2, <3>3, <3>4, <3>5, FS_EmptySet
    <3>11. Unsent(w, r) # {} => Dispatched(w, r)
      BY DEF Unsent
    <3>12. r \in regs'[w] <=> Dispatched(w, r) \/ Sent(w, r) # {}
      BY <3>2, <3>9, <3>10, <3>11
    <3>13. pending'[w][r] = Cardinality(Unsent(w, r)') + Cardinality(Sent(w, r)')
                              + (IF Answered(w, r)' THEN 1 ELSE 0)
      BY <2>2, <3>4, <3>5, <3>6, <3>7
    <3>14. \A d \in Sent(w, r)' : d.acc \notin Unsent(w, r)'
      BY <2>1, <2>2 DEF RegOK
    <3> QED BY <2>2, <3>2, <3>12, <3>13, <3>14 DEF RegOK
  <2>4. CASE ~(a.warp = w /\ a.out = r)
    <3>1. ~Answered(w, r)
      BY <1>1, <2>4 DEF Answered
    <3>2. pending'[w][r] = pending[w][r]
      BY <1>2, <1>3, <2>4 DEF RegInv, UnitOK
    <3>3. r \in regs'[w] <=> r \in regs[w]
      BY <1>2, <1>3, <2>4 DEF RegInv, UnitOK
    <3> QED BY <2>1, <2>2, <3>1, <3>2, <3>3, RegFrame
  <2> QED BY <2>3, <2>4
<1> QED BY <1>4, <1>5 DEF RegInv

\* A step that touches neither the scoreboard nor the unit.
LEMMA QuietReg ==
    ASSUME RegInv, UNCHANGED <<regs, pending, coll, dispatch, ruby, wb>>
    PROVE  RegInv'
<1>1. UnitOK'
  BY DEF RegInv, UnitOK
<1>2. ASSUME NEW w \in Warps, NEW r \in Regs PROVE RegOK(w, r)'
  <2>1. RegOK(w, r)
    BY DEF RegInv
  <2>2. /\ Collected(w, r)' = Collected(w, r) /\ Sent(w, r)' = Sent(w, r)
        /\ Dispatched(w, r)' <=> Dispatched(w, r)
        /\ Unsent(w, r)' = Unsent(w, r) /\ (Answered(w, r)' <=> Answered(w, r))
        /\ pending'[w][r] = pending[w][r] /\ (r \in regs'[w] <=> r \in regs[w])
    BY DEF Collected, Sent, Dispatched, Unsent, Answered
  <2> QED BY <2>1, <2>2, RegFrame
<1> QED BY <1>1, <1>2 DEF RegInv

\* A memory instruction is issued only when its register is free.
LEMMA IssueMemReg ==
    ASSUME RegInv, BarInv, NEW w \in Warps, IssueMem(w)
    PROVE  RegInv'
<1>1. PICK i \in Ready(w) :
        /\ IsMem(i)
        /\ regs' = [regs EXCEPT ![w] = @ \cup ({i.out} \ {0})]
        /\ coll' = coll \cup {[warp |-> w, no |-> pc[w], op |-> i.op, out |-> i.out,
                               accs |-> Coalesced(i)]}
        /\ UNCHANGED <<pending, dispatch, ruby, wb>>
  BY DEF IssueMem
<1>2. /\ pc[w] \in Nat \ {0} /\ Len(Code[w]) \in Nat /\ pc[w] <= Len(Code[w])
      /\ i \in Code[w][pc[w]] /\ ~checkCollision(w, i)
  BY Issuing
<1>3. i \in Inst
  <2>1. Code[w] \in Seq(SUBSET Inst)
    BY CoreAssumption
  <2>2. Code[w][pc[w]] \in SUBSET Inst
    BY <1>2, <2>1
  <2> QED BY <1>2, <2>2
<1>4. i \in Mem
  BY <1>1, <1>3 DEF Inst, IsMem
<1>5. i.out \in Regs \cup {0} /\ (i.out # 0 => i.op \in {"LD", "ATOM"})
  BY <1>4 DEF Mem
<1>6. i.out \notin regs[w]
  BY <1>2 DEF checkCollision
<1>7. PICK acs : acs = Coalesced(i) /\ IsFiniteSet(acs)
  BY <1>4, CoalescedFinite
<1>8. PICK x : x = [warp |-> w, no |-> pc[w], op |-> i.op, out |-> i.out, accs |-> acs]
  OBVIOUS
<1>9. x.warp = w /\ x.no = pc[w] /\ x.op = i.op /\ x.out = i.out /\ x.accs = acs
  BY <1>8
<1>10. InstOK(x)
  BY <1>5, <1>7, <1>8, <1>9 DEF InstOK, IsLoad
<1>11. /\ coll' = coll \cup {x} /\ x.out \notin regs[x.warp]
       /\ regs' = [regs EXCEPT ![x.warp] = @ \cup ({x.out} \ {0})]
  BY <1>1, <1>6, <1>7, <1>8, <1>9
<1> QED BY <1>1, <1>10, <1>11, CollectReg

LEMMA IssueMembarReg ==
    ASSUME RegInv, NEW w \in Warps, IssueMembar(w)
    PROVE  RegInv'
<1>1. PICK i \in Ready(w) :
        /\ i.op = "MEMBAR"
        /\ coll' = coll \cup {[warp |-> w, no |-> pc[w], op |-> i.op, out |-> 0, accs |-> {}]}
        /\ UNCHANGED <<regs, pending, dispatch, ruby, wb>>
  BY DEF IssueMembar
<1>2. PICK x : x = [warp |-> w, no |-> pc[w], op |-> i.op, out |-> 0, accs |-> {}]
  OBVIOUS
<1>3. x.warp = w /\ x.no = pc[w] /\ x.op = i.op /\ x.out = 0 /\ x.accs = {}
  BY <1>2
<1>4. InstOK(x)
  BY <1>2, <1>3, FS_EmptySet DEF InstOK
<1>5. x.out \notin regs[x.warp]
  BY <1>3, CoreAssumption DEF RegInv, UnitOK
<1>6. regs' = [regs EXCEPT ![x.warp] = @ \cup ({x.out} \ {0})]
  BY <1>1, <1>3 DEF RegInv, UnitOK
<1>7. coll' = coll \cup {x}
  BY <1>1, <1>2
<1> QED BY <1>1, <1>4, <1>5, <1>6, <1>7, CollectReg

LEMMA NextReg == RegInv /\ BarInv /\ [CoreNext]_corevars => RegInv'
<1> SUFFICES ASSUME RegInv, BarInv, [CoreNext]_corevars PROVE RegInv'
  OBVIOUS
<1>1. ASSUME NEW w \in Warps, IssueMem(w) PROVE RegInv'
  BY <1>1, IssueMemReg
<1>2. ASSUME NEW w \in Warps, IssueMembar(w) PROVE RegInv'
  BY <1>2, IssueMembarReg
<1>3. CASE Dispatch
  BY <1>3, DispatchReg
<1>4. CASE MemoryCycle
  <2>1. dispatch # <<>> /\ UNCHANGED <<pending, coll, wb>>
    BY <1>4 DEF MemoryCycle
  <2>2. CASE dispatch[1].accs = {} /\ Retire(dispatch[1], {}) /\ ruby' = ruby
    BY <2>1, <2>2, EmptyReg
  <2>3. ASSUME NEW a \in dispatch[1].accs,
               ruby' = ruby \cup {[warp |-> dispatch[1].warp, no |-> dispatch[1].no,
                                   op |-> dispatch[1].op, out |-> dispatch[1].out, acc |-> a]},
               Retire(dispatch[1], dispatch[1].accs \ {a})
        PROVE  RegInv'
    BY <2>1, <2>3, SendReg
  <2> QED BY <1>4, <2>2, <2>3 DEF MemoryCycle
<1>5. CASE MembarCycle
  BY <1>5, MembarReg
<1>6. ASSUME NEW a \in ruby, Answer(a) PROVE RegInv'
  BY <1>6, AnswerReg
<1>7. CASE RegisterWrite
  BY <1>7, WriteReg
<1>8. ASSUME NEW w \in Warps, IssueBar(w) \/ IssueExit(w) \/ FenceAnswer(w) \/ Reclaim(w) PROVE RegInv'
  <2>1. UNCHANGED <<regs, pending, coll, dispatch, ruby, wb>>
    BY <1>8 DEF IssueBar, IssueExit, FenceAnswer, Reclaim, ldstVars, warpVars
  <2> QED BY <2>1, QuietReg
<1>9. CASE (\E c \in Ctas : Launch(c)) \/ UNCHANGED corevars
  <2>1. UNCHANGED <<regs, pending, coll, dispatch, ruby, wb>>
    BY <1>9 DEF Launch, ldstVars, corevars, warpVars
  <2> QED BY <2>1, QuietReg
<1> QED BY <1>1, <1>2, <1>3, <1>4, <1>5, <1>6, <1>7, <1>8, <1>9 DEF CoreNext, Idle

LEMMA InitReg == CoreInit => RegInv
<1> SUFFICES ASSUME CoreInit PROVE RegInv
  OBVIOUS
<1>1. UnitOK
  BY DEF CoreInit, UnitOK
<1>2. ASSUME NEW w \in Warps, NEW r \in Regs PROVE RegOK(w, r)
  <2>1. /\ Collected(w, r) = {} /\ ~Dispatched(w, r) /\ Sent(w, r) = {} /\ ~Answered(w, r)
        /\ Unsent(w, r) = {} /\ pending[w][r] = 0 /\ r \notin regs[w]
    BY DEF CoreInit, Collected, Dispatched, Sent, Answered, Unsent
  <2> QED BY <2>1, FS_EmptySet DEF RegOK
<1> QED BY <1>1, <1>2 DEF RegInv

\* A register stays reserved exactly as long as an instruction or an access that
\* writes it is on its way: the count that ldst_unit::issue takes from the access
\* queue and writeback takes down covers the accesses not sent yet, in any order
\* of answers and for any number of accesses.
THEOREM RegistersStayHeld == CoreSpec => []RegistersHeld
<1>1. CoreInit => RegInv
  BY InitReg
<1>2. RegInv => RegistersHeld
  <2> SUFFICES ASSUME RegInv, NEW w \in Warps, NEW r \in Regs
               PROVE  r \in regs[w] <=> \/ \E x \in InUnit(w) : x.out = r
                                        \/ \E a \in ruby : a.warp = w /\ a.out = r
                                        \/ wb # <<>> /\ wb[1].warp = w /\ wb[1].out = r
    BY DEF RegistersHeld
  <2>1. r \in regs[w] <=> \/ Collected(w, r) # {} \/ Dispatched(w, r)
                          \/ Sent(w, r) # {} \/ Answered(w, r)
    BY DEF RegInv, RegOK
  <2>2. {dispatch[i] : i \in DOMAIN dispatch} = IF dispatch = <<>> THEN {} ELSE {dispatch[1]}
    BY DEF RegInv, UnitOK
  <2>3. (\E x \in InUnit(w) : x.out = r) <=> Collected(w, r) # {} \/ Dispatched(w, r)
    BY <2>2 DEF InUnit, Collected, Dispatched
  <2>4. (\E a \in ruby : a.warp = w /\ a.out = r) <=> Sent(w, r) # {}
    BY DEF Sent
  <2> QED BY <2>1, <2>3, <2>4 DEF Answered
<1> QED BY <1>1, <1>2, InitBar, NextBar, NextReg, PTL DEF CoreSpec

-----------------------------------------------------------------------------
(* Lanes.                                                                   *)

\* An instruction whose lanes are counted once when it is executed and given
\* back once: the warp has no lane that is switched off and counted, and no lane
\* is in two transactions (a word of a local double is in one of its own).
Exact(i) ==
    /\ CountedLanes(i) = ActiveMask(i)
    /\ i.op = "ATOM" \/ i.space \notin {"local", "param"} \/ i.words = 1

\* Under SC every memory instruction of the program is exact.
ExactCode ==
    is_SC => \A w \in Warps : \A k \in DOMAIN Code[w] : \A i \in Code[w][k] : IsMem(i) => Exact(i)

\* Instructions between the issue stage and Ruby.
Unit == coll \cup {dispatch[i] : i \in DOMAIN dispatch}

Same(x, y) == x.warp = y.warp /\ x.no = y.no

MaskOK(a) == a.mask \subseteq Lanes /\ a.mask # {}

\* The warp and the place in its program name an instruction, in the unit and by
\* its accesses in Ruby, and an access that is sent is not one that is to be sent.
ItemInv ==
    /\ \A x \in Unit : /\ x.no \in Nat /\ x.no < pc[x.warp] /\ \A a \in x.accs : MaskOK(a)
                       /\ x.op \in {"LD", "ST", "ATOM", "MEMBAR"}
                       /\ x.op = "LD" => x.out # 0
                       /\ x.op = "MEMBAR" => x.accs = {}
    /\ \A a \in ruby : /\ a = [warp |-> a.warp, no |-> a.no, op |-> a.op, out |-> a.out, acc |-> a.acc]
                       /\ a.no \in Nat /\ a.no < pc[a.warp] /\ MaskOK(a.acc)
                       /\ a.op \in {"LD", "ST", "ATOM"} /\ (a.op = "LD" => a.out # 0)
    /\ \A x \in coll : \A i \in DOMAIN dispatch : ~Same(x, dispatch[i])
    /\ \A x, y \in coll : Same(x, y) => x = y
    /\ \A a, b \in ruby : Same(a, b) => a.op = b.op /\ a.out = b.out
    /\ \A x \in Unit, a \in ruby : Same(x, a) => x.op = a.op /\ x.out = a.out /\ a.acc \notin x.accs

\* A memory barrier is in the unit or in Ruby, and its warp waits for it.
MembarInv ==
    /\ membar \in [Warps -> BOOLEAN]
    /\ \A w \in fences : w \in Warps /\ membar[w]
    /\ \A x \in Unit : x.op = "MEMBAR" => membar[x.warp] /\ x.warp \notin fences
    /\ \A x, y \in Unit : x.op = "MEMBAR" /\ y.op = "MEMBAR" /\ x.warp = y.warp => x = y

Stores(w) == {a \in ruby : a.warp = w /\ a.op = "ST"}

Atomics(w) == {x \in Outstanding(w) : x.op = "ATOM"}

\* The counters of warp w.
CountOK(w) ==
    /\ IsFiniteSet(Outstanding(w)) /\ IsFiniteSet(Stores(w))
    /\ is_SC => n_gmem[w] = LanesOf(Outstanding(w))
    /\ n_atomic[w] = LanesOf(Atomics(w))
    /\ stores[w] = Cardinality(Stores(w))
    /\ sc_fence[w] => n_gmem[w] # 0
    /\ ~is_SC => n_gmem[w] = 0 /\ ~sc_fence[w]

CountInv ==
    /\ n_gmem \in [Warps -> Int] /\ n_atomic \in [Warps -> Int] /\ stores \in [Warps -> Int]
    /\ sc_fence \in [Warps -> BOOLEAN]
    /\ \A w \in Warps : CountOK(w)

\* What is left of a warp whose last instruction is issued, and of one whose
\* context is free.
DoneInv ==
    /\ exited \in [Warps -> BOOLEAN]
    /\ \A w \in Warps : functional_done(w) => w \notin active /\ ~membar[w] /\ Atomics(w) = {}
    /\ \A w \in Warps : exited[w] =>
          /\ functional_done(w) /\ InUnit(w) = {} /\ Outstanding(w) = {}
          /\ \A i \in DOMAIN wb : wb[i].warp # w \/ wb[i].out = 0

LaneInv == ItemInv /\ MembarInv /\ CountInv /\ DoneInv

\* The lanes of a set of accesses, each with its access.
Pairs(S) == UNION {{x} \X x.acc.mask : x \in S}

LEMMA PairsMember ==
    ASSUME NEW S, NEW p
    PROVE  p \in Pairs(S) <=> \E x \in S : \E t \in x.acc.mask : p = <<x, t>>
BY DEF Pairs

LEMMA PairsFinite ==
    ASSUME NEW S, IsFiniteSet(S), \A x \in S : x.acc.mask \subseteq Lanes
    PROVE  IsFiniteSet(Pairs(S)) /\ LanesOf(S) \in Nat
<1>1. Pairs(S) \subseteq S \X Lanes
  BY DEF Pairs
<1>2. IsFiniteSet(S \X Lanes)
  BY CoreAssumption, FS_Product
<1>3. IsFiniteSet(Pairs(S))
  BY <1>1, <1>2, FS_Subset
<1>4. LanesOf(S) = Cardinality(Pairs(S))
  BY DEF LanesOf, Pairs
<1> QED BY <1>3, <1>4, FS_CardinalityType

LEMMA LanesAdd ==
    ASSUME NEW S, NEW T, IsFiniteSet(S), IsFiniteSet(T), S \cap T = {},
           \A x \in S \cup T : x.acc.mask \subseteq Lanes
    PROVE  LanesOf(S \cup T) = LanesOf(S) + LanesOf(T)
<1>1. IsFiniteSet(Pairs(S)) /\ IsFiniteSet(Pairs(T)) /\ LanesOf(S) \in Nat /\ LanesOf(T) \in Nat
  BY PairsFinite
<1>2. Pairs(S \cup T) = Pairs(S) \cup Pairs(T)
  BY DEF Pairs
<1>3. Pairs(S) \cap Pairs(T) = {}
  BY DEF Pairs
<1>4. Cardinality(Pairs(S) \cup Pairs(T)) = Cardinality(Pairs(S)) + Cardinality(Pairs(T)) - Cardinality({})
  BY <1>1, <1>3, FS_Union
<1>5. Cardinality({}) = 0
  BY FS_EmptySet
<1>6. /\ LanesOf(S) = Cardinality(Pairs(S)) /\ LanesOf(T) = Cardinality(Pairs(T))
      /\ LanesOf(S \cup T) = Cardinality(Pairs(S \cup T))
  BY DEF LanesOf, Pairs
<1>7. PICK m \in Nat, n \in Nat : m = LanesOf(S) /\ n = LanesOf(T)
  BY <1>1
<1>8. Cardinality(Pairs(S) \cup Pairs(T)) = m + n
  BY <1>4, <1>5, <1>6, <1>7
<1>9. LanesOf(S \cup T) = Cardinality(Pairs(S) \cup Pairs(T))
  BY <1>2, <1>6
<1> QED BY <1>7, <1>8, <1>9

LEMMA LanesOfOne ==
    ASSUME NEW x, x.acc.mask \subseteq Lanes
    PROVE  LanesOf({x}) = Cardinality(x.acc.mask)
<1>1. IsFiniteSet(x.acc.mask)
  BY CoreAssumption, FS_Subset
<1>2. IsFiniteSet({x}) /\ Cardinality({x}) = 1
  BY FS_Singleton
<1>3. Cardinality({x} \X x.acc.mask) = 1 * Cardinality(x.acc.mask)
  BY <1>1, <1>2, FS_Product
<1>4. Cardinality(x.acc.mask) \in Nat
  BY <1>1, FS_CardinalityType
<1>5. UNION {{y} \X y.acc.mask : y \in {x}} = {x} \X x.acc.mask
  OBVIOUS
<1>6. LanesOf({x}) = Cardinality({x} \X x.acc.mask)
  BY <1>5 DEF LanesOf
<1> QED BY <1>3, <1>4, <1>6

LEMMA LanesRemove ==
    ASSUME NEW S, NEW x \in S, IsFiniteSet(S), \A y \in S : y.acc.mask \subseteq Lanes
    PROVE  /\ IsFiniteSet(S \ {x})
           /\ LanesOf(S \ {x}) = LanesOf(S) - Cardinality(x.acc.mask)
<1>1. PICK T : T = S \ {x}
  OBVIOUS
<1>2. IsFiniteSet(T) /\ IsFiniteSet({x})
  BY <1>1, FS_RemoveElement, FS_Singleton
<1>3. T \cap {x} = {} /\ S = T \cup {x} /\ \A y \in T \cup {x} : y.acc.mask \subseteq Lanes
  BY <1>1
<1>4. LanesOf(T \cup {x}) = LanesOf(T) + LanesOf({x})
  BY <1>2, <1>3, LanesAdd
<1>5. LanesOf({x}) = Cardinality(x.acc.mask)
  BY LanesOfOne
<1>6. LanesOf(T) \in Nat /\ LanesOf({x}) \in Nat
  BY <1>2, <1>3, PairsFinite
<1>7. PICK m \in Nat, n \in Nat : m = LanesOf(T) /\ n = LanesOf({x})
  BY <1>6
<1>8. LanesOf(S) = m + n
  BY <1>3, <1>4, <1>7
<1>9. m = LanesOf(S) - n
  BY <1>7, <1>8
<1> QED BY <1>1, <1>2, <1>5, <1>7, <1>9

\* No lanes, no accesses.
LEMMA LanesNone ==
    ASSUME NEW S, IsFiniteSet(S), \A x \in S : MaskOK(x.acc)
    PROVE  LanesOf(S) = 0 <=> S = {}
<1>1. IsFiniteSet(Pairs(S))
  BY PairsFinite DEF MaskOK
<1>2. LanesOf(S) = Cardinality(Pairs(S))
  BY DEF LanesOf, Pairs
<1>3. Pairs(S) = {} <=> S = {}
  <2>1. ASSUME NEW x \in S PROVE Pairs(S) # {}
    <3>1. PICK t \in x.acc.mask : TRUE
      BY DEF MaskOK
    <3>2. <<x, t>> \in Pairs(S)
      BY PairsMember
    <3> QED BY <3>2
  <2>2. S = {} => Pairs(S) = {}
    BY DEF Pairs
  <2> QED BY <2>1, <2>2
<1> QED BY <1>1, <1>2, <1>3, FS_EmptySet

\* The accesses of a new instruction.
NewAccs(i, n) == {[no |-> n, op |-> i.op, acc |-> a] : a \in Coalesced(i)}

LEMMA CoalescedMasks ==
    ASSUME NEW i \in Mem, NEW a \in Coalesced(i)
    PROVE  MaskOK(a)
BY DEF Coalesced, MaskOK, ActiveMask

LEMMA NewFinite ==
    ASSUME NEW i \in Mem, NEW n
    PROVE  IsFiniteSet(NewAccs(i, n)) /\ \A x \in NewAccs(i, n) : MaskOK(x.acc)
<1> DEFINE f == [a \in Coalesced(i) |-> [no |-> n, op |-> i.op, acc |-> a]]
<1>1. f \in Surjection(Coalesced(i), NewAccs(i, n))
  BY DEF Surjection, NewAccs
<1>2. IsFiniteSet(NewAccs(i, n))
  BY <1>1, CoalescedFinite, FS_Surjection
<1>3. \A x \in NewAccs(i, n) : MaskOK(x.acc)
  BY CoalescedMasks DEF NewAccs
<1> QED BY <1>2, <1>3

\* The masks of a memory instruction that puts no lane into two transactions
\* have each active lane once.
LEMMA LanesNew ==
    ASSUME NEW i \in Mem, NEW n,
           i.op = "ATOM" \/ i.space \notin {"local", "param"} \/ i.words = 1
    PROVE  LanesOf(NewAccs(i, n)) = Cardinality(ActiveMask(i))
<1> DEFINE tr(t) == Transaction(i, t, 1)
           ac(x) == [tr |-> x, mask |-> {t \in ActiveMask(i) : tr(t) = x}]
           it(x) == [no |-> n, op |-> i.op, acc |-> ac(x)]
           f == [t \in ActiveMask(i) |-> <<it(tr(t)), t>>]
           N == NewAccs(i, n)
<1>1. Coalesced(i) = {ac(tr(t)) : t \in ActiveMask(i)}
  <2> DEFINE chunks == IF i.space \in {"local", "param"} THEN 1..i.words ELSE {1}
             all == {Transaction(i, t, k) : t \in ActiveMask(i), k \in chunks}
             mk(x) == {t \in ActiveMask(i) : \E k \in chunks : Transaction(i, t, k) = x}
  <2>1. 1 \in chunks
    BY DEF Mem
  <2>2. \A t \in ActiveMask(i), k \in chunks : Transaction(i, t, k) = tr(t)
    <3>1. CASE i.op = "ATOM"
      BY <3>1 DEF Transaction
    <3>2. CASE i.space \notin {"local", "param"} \/ i.words = 1
      BY <3>2
    <3> QED BY <3>1, <3>2
  <2>3. Coalesced(i) = {[tr |-> x, mask |-> mk(x)] : x \in all}
    BY DEF Coalesced
  <2> HIDE DEF chunks, tr
  <2>4. all = {tr(t) : t \in ActiveMask(i)}
    BY <2>1, <2>2
  <2>5. \A x : mk(x) = {t \in ActiveMask(i) : tr(t) = x}
    BY <2>1, <2>2
  <2> HIDE DEF all, mk
  <2> QED BY <2>3, <2>4, <2>5
<1>2. IsFiniteSet(ActiveMask(i))
  BY CoreAssumption, FS_Subset DEF ActiveMask
<1> HIDE DEF tr
<1>3. N = {it(tr(t)) : t \in ActiveMask(i)}
  BY <1>1 DEF NewAccs
<1>4. \A x : it(x).acc.mask = {t \in ActiveMask(i) : tr(t) = x}
  OBVIOUS
<1> HIDE DEF N, ac, it
<1>5. \A t \in ActiveMask(i) : f[t] \in Pairs(N)
  <2> SUFFICES ASSUME NEW t \in ActiveMask(i) PROVE f[t] \in Pairs(N)
    OBVIOUS
  <2>1. it(tr(t)) \in N /\ t \in it(tr(t)).acc.mask
    BY <1>3, <1>4
  <2> QED BY <2>1, PairsMember
<1>6. \A p \in Pairs(N) : \E t \in ActiveMask(i) : f[t] = p
  <2> SUFFICES ASSUME NEW p \in Pairs(N) PROVE \E t \in ActiveMask(i) : f[t] = p
    OBVIOUS
  <2>1. PICK x \in N : \E t \in x.acc.mask : p = <<x, t>>
    BY PairsMember
  <2>2. PICK t \in x.acc.mask : p = <<x, t>>
    BY <2>1
  <2>3. PICK u \in ActiveMask(i) : x = it(tr(u))
    BY <1>3
  <2>4. t \in ActiveMask(i) /\ tr(t) = tr(u)
    BY <1>4, <2>3
  <2>5. f[t] = p
    BY <2>2, <2>3, <2>4
  <2> QED BY <2>4, <2>5
<1>7. \A t, u \in ActiveMask(i) : f[t] = f[u] => t = u
  OBVIOUS
<1>8. f \in Bijection(ActiveMask(i), Pairs(N))
  <2> HIDE DEF f
  <2>1. f \in [ActiveMask(i) -> Pairs(N)]
    BY <1>5 DEF f
  <2> QED BY <1>6, <1>7, <2>1, Fun_IsBij
<1>9. Cardinality(Pairs(N)) = Cardinality(ActiveMask(i))
  BY <1>2, <1>8, FS_Bijection DEF ExistsBijection
<1> QED BY <1>9 DEF LanesOf, Pairs, N

-----------------------------------------------------------------------------
(* What a step does to the outstanding accesses.                            *)

Acc(x, a) == [no |-> x.no, op |-> x.op, acc |-> a]

\* e is an access of w that is to be sent or that is in Ruby.
IsOut(w, e) ==
    \/ \E x \in Unit : x.warp = w /\ \E a \in x.accs : e = Acc(x, a)
    \/ \E a \in ruby : a.warp = w /\ e = Acc(a, a.acc)

LEMMA OutMember ==
    ASSUME NEW w, NEW e
    PROVE  (e \in Outstanding(w) <=> IsOut(w, e)) /\ (e \in Outstanding(w)' <=> IsOut(w, e)')
<1>1. e \in Outstanding(w) <=> IsOut(w, e)
  <2>1. PICK A : A = UNION {{Acc(x, a) : a \in x.accs} : x \in InUnit(w)}
    OBVIOUS
  <2>2. PICK B : B = {Acc(a, a.acc) : a \in {b \in ruby : b.warp = w}}
    OBVIOUS
  <2>3. Outstanding(w) = A \cup B
    BY <2>1, <2>2 DEF Outstanding, Acc
  <2>4. InUnit(w) = {x \in Unit : x.warp = w}
    BY DEF InUnit, Unit
  <2>5. e \in A <=> \E x \in Unit : x.warp = w /\ \E a \in x.accs : e = Acc(x, a)
    BY <2>1, <2>4
  <2>6. e \in B <=> \E a \in ruby : a.warp = w /\ e = Acc(a, a.acc)
    BY <2>2
  <2> QED BY <2>3, <2>5, <2>6 DEF IsOut
<1>2. e \in Outstanding(w)' <=> IsOut(w, e)'
  <2>1. PICK A : A = UNION {{Acc(x, a) : a \in x.accs} : x \in InUnit(w)'}
    OBVIOUS
  <2>2. PICK B : B = {Acc(a, a.acc) : a \in {b \in ruby' : b.warp = w}}
    OBVIOUS
  <2>3. Outstanding(w)' = A \cup B
    BY <2>1, <2>2 DEF Outstanding, Acc
  <2>4. InUnit(w)' = {x \in Unit' : x.warp = w}
    BY DEF InUnit, Unit
  <2>5. e \in A <=> \E x \in Unit' : x.warp = w /\ \E a \in x.accs : e = Acc(x, a)
    BY <2>1, <2>4
  <2>6. e \in B <=> \E a \in ruby' : a.warp = w /\ e = Acc(a, a.acc)
    BY <2>2
  <2> QED BY <2>3, <2>5, <2>6 DEF IsOut
<1> QED BY <1>1, <1>2

LEMMA UnitIs ==
    ASSUME UnitOK
    PROVE  /\ dispatch = <<>> => Unit = coll /\ DOMAIN dispatch = {}
           /\ dispatch # <<>> => Unit = coll \cup {dispatch[1]} /\ DOMAIN dispatch = {1}
           /\ \A x \in Unit : InstOK(x)
<1>1. CASE dispatch = <<>>
  BY <1>1 DEF UnitOK, Unit
<1>2. CASE dispatch # <<>>
  <2>1. dispatch = <<dispatch[1]>> /\ InstOK(dispatch[1])
    BY <1>2 DEF UnitOK
  <2>2. DOMAIN dispatch = {1}
    BY <2>1
  <2>3. Unit = coll \cup {dispatch[1]}
    BY <2>2 DEF Unit
  <2> QED BY <1>2, <2>1, <2>2, <2>3 DEF UnitOK
<1> QED BY <1>1, <1>2

\* An outstanding access is of an instruction before pc and has lanes.
LEMMA OutOK ==
    ASSUME ItemInv, NEW w, NEW e \in Outstanding(w)
    PROVE  /\ e.no \in Nat /\ e.no < pc[w] /\ MaskOK(e.acc)
           /\ e.op \in {"LD", "ST", "ATOM"}
<1>1. IsOut(w, e)
  BY OutMember
<1>2. ASSUME NEW x \in Unit, x.warp = w, NEW a \in x.accs, e = Acc(x, a)
      PROVE  e.no \in Nat /\ e.no < pc[w] /\ MaskOK(e.acc) /\ e.op \in {"LD", "ST", "ATOM"}
  <2>1. e.no = x.no /\ e.op = x.op /\ e.acc = a
    BY <1>2 DEF Acc
  <2> QED BY <1>2, <2>1 DEF ItemInv
<1>3. ASSUME NEW a \in ruby, a.warp = w, e = Acc(a, a.acc)
      PROVE  e.no \in Nat /\ e.no < pc[w] /\ MaskOK(e.acc) /\ e.op \in {"LD", "ST", "ATOM"}
  <2>1. e.no = a.no /\ e.op = a.op /\ e.acc = a.acc
    BY <1>3 DEF Acc
  <2> QED BY <1>3, <2>1 DEF ItemInv
<1> QED BY <1>1, <1>2, <1>3 DEF IsOut

\* The program counters of warps with instructions in the unit or in Ruby do not
\* go back.
LEMMA ItemQuiet ==
    ASSUME ItemInv, UNCHANGED <<coll, dispatch, ruby>>,
           pc \in [Warps -> Nat], pc' \in [Warps -> Nat],
           \A x \in Unit : x.warp \in Warps /\ pc'[x.warp] >= pc[x.warp],
           \A a \in ruby : a.warp \in Warps /\ pc'[a.warp] >= pc[a.warp]
    PROVE  ItemInv' /\ \A w : Outstanding(w)' = Outstanding(w) /\ InUnit(w)' = InUnit(w)
<1>1. Unit' = Unit
  BY DEF Unit
<1>2. \A x \in Unit : x.no < pc'[x.warp]
  BY DEF ItemInv
<1>3. \A a \in ruby : a.no < pc'[a.warp]
  BY DEF ItemInv
<1>4. ItemInv'
  BY <1>1, <1>2, <1>3 DEF ItemInv
<1>5. \A w : Outstanding(w)' = Outstanding(w) /\ InUnit(w)' = InUnit(w)
  BY DEF Outstanding, InUnit
<1> QED BY <1>4, <1>5

LEMMA ItemIssue ==
    ASSUME ItemInv, UnitOK, NEW x, InstOK(x), coll' = coll \cup {x}, UNCHANGED <<dispatch, ruby>>,
           pc \in [Warps -> Nat], x.no = pc[x.warp], pc' = [pc EXCEPT ![x.warp] = @ + 1],
           \A a \in ruby : a.warp \in Warps,
           \A a \in x.accs : MaskOK(a), x.op \in {"LD", "ST", "ATOM", "MEMBAR"},
           x.op = "LD" => x.out # 0, x.op = "MEMBAR" => x.accs = {}
    PROVE  /\ ItemInv'
           /\ \A w : w # x.warp => Outstanding(w)' = Outstanding(w) /\ InUnit(w)' = InUnit(w)
           /\ Outstanding(x.warp)' = Outstanding(x.warp) \cup {Acc(x, a) : a \in x.accs}
           /\ Outstanding(x.warp) \cap {Acc(x, a) : a \in x.accs} = {}
<1>1. Unit' = Unit \cup {x} /\ x.warp \in Warps
  BY DEF Unit, InstOK
<1>2. \A w \in Warps : pc[w] \in Nat /\ pc'[w] \in Nat /\ pc[w] <= pc'[w]
  BY <1>1
<1>3. pc'[x.warp] = pc[x.warp] + 1
  BY <1>1
<1>4. \A y \in Unit : y.warp \in Warps /\ y.no \in Nat /\ y.no < pc[y.warp] /\ y.no < pc'[y.warp] /\ ~Same(x, y) /\ ~Same(y, x)
  BY <1>2, UnitIs DEF ItemInv, InstOK, Same
<1>5. \A a \in ruby : a.no < pc'[a.warp] /\ ~Same(x, a)
  BY <1>2 DEF ItemInv, Same
<1>6. \A y \in coll : y \in Unit
  BY DEF Unit
<1>7. \A i \in DOMAIN dispatch : dispatch[i] \in Unit
  BY DEF Unit
<1>8. ItemInv'
  <2>1. \A y \in Unit' : /\ y.no \in Nat /\ y.no < pc'[y.warp] /\ \A a \in y.accs : MaskOK(a)
                         /\ y.op \in {"LD", "ST", "ATOM", "MEMBAR"}
                         /\ y.op = "LD" => y.out # 0
                         /\ y.op = "MEMBAR" => y.accs = {}
    BY <1>1, <1>2, <1>3, <1>4 DEF ItemInv
  <2>2. \A a \in ruby' : /\ a = [warp |-> a.warp, no |-> a.no, op |-> a.op, out |-> a.out, acc |-> a.acc]
                         /\ a.no \in Nat /\ a.no < pc'[a.warp] /\ MaskOK(a.acc)
                         /\ a.op \in {"LD", "ST", "ATOM"} /\ (a.op = "LD" => a.out # 0)
    BY <1>5 DEF ItemInv
  <2>3. \A y \in coll' : \A i \in DOMAIN dispatch' : ~Same(y, dispatch'[i])
    BY <1>4, <1>7 DEF ItemInv
  <2>4. \A y, z \in coll' : Same(y, z) => y = z
    BY <1>4, <1>6 DEF ItemInv
  <2>5. \A a, b \in ruby' : Same(a, b) => a.op = b.op /\ a.out = b.out
    BY DEF ItemInv
  <2>6. \A y \in Unit', a \in ruby' : Same(y, a) => y.op = a.op /\ y.out = a.out /\ a.acc \notin y.accs
    BY <1>1, <1>5 DEF ItemInv
  <2> QED BY <2>1, <2>2, <2>3, <2>4, <2>5, <2>6 DEF ItemInv
<1>9. ASSUME NEW w, w # x.warp PROVE Outstanding(w)' = Outstanding(w) /\ InUnit(w)' = InUnit(w)
  <2>1. InUnit(w)' = InUnit(w)
    BY <1>1, <1>9 DEF InUnit, Unit
  <2> QED BY <2>1 DEF Outstanding
<1>10. Outstanding(x.warp)' = Outstanding(x.warp) \cup {Acc(x, a) : a \in x.accs}
  <2> SUFFICES ASSUME NEW e
               PROVE  IsOut(x.warp, e)' <=> IsOut(x.warp, e) \/ \E a \in x.accs : e = Acc(x, a)
    BY OutMember
  <2> QED BY <1>1 DEF IsOut, Acc
<1>11. ASSUME NEW e \in Outstanding(x.warp), NEW a \in x.accs, e = Acc(x, a) PROVE FALSE
  <2>1. e.no < pc[x.warp] /\ e.no = pc[x.warp] /\ pc[x.warp] \in Nat
    BY <1>1, <1>11, OutOK DEF Acc
  <2> QED BY <2>1
<1> QED BY <1>8, <1>9, <1>10, <1>11

LEMMA ItemDispatch ==
    ASSUME ItemInv, UnitOK, NEW x \in coll, dispatch = <<>>, dispatch' = <<x>>, coll' = coll \ {x},
           UNCHANGED <<pc, ruby>>
    PROVE  ItemInv' /\ Unit' = Unit /\ \A w : Outstanding(w)' = Outstanding(w) /\ InUnit(w)' = InUnit(w)
<1>1. DOMAIN dispatch' = {1} /\ dispatch'[1] = x
  OBVIOUS
<1>2. Unit' = coll \cup {x} /\ Unit = coll
  BY <1>1, UnitIs DEF Unit
<1>3. \A y \in coll' : y \in coll /\ ~Same(y, x)
  BY DEF ItemInv
<1>4. Unit' = Unit
  BY <1>2
<1>5. ItemInv'
  BY <1>1, <1>3, <1>4 DEF ItemInv
<1>6. \A w : InUnit(w)' = InUnit(w)
  BY <1>4 DEF InUnit, Unit
<1>7. \A w : Outstanding(w)' = Outstanding(w)
  BY <1>6 DEF Outstanding
<1> QED BY <1>4, <1>5, <1>6, <1>7

\* An access goes from the dispatch register to Ruby.
LEMMA ItemSend ==
    ASSUME ItemInv, UnitOK, dispatch # <<>>, NEW x, x = dispatch[1], NEW a \in x.accs, NEW m,
           m = [warp |-> x.warp, no |-> x.no, op |-> x.op, out |-> x.out, acc |-> a],
           ruby' = ruby \cup {m}, NEW rest, rest = x.accs \ {a},
           dispatch' = IF rest = {} THEN <<>> ELSE <<[x EXCEPT !.accs = rest]>>,
           UNCHANGED <<pc, coll>>
    PROVE  /\ ItemInv' /\ m \notin ruby
           /\ \A y \in Unit' : y.op = "MEMBAR" => y \in Unit
           /\ \A w : Outstanding(w)' = Outstanding(w) /\ (InUnit(w) = {} => InUnit(w)' = {})
<1>1. /\ Unit = coll \cup {x} /\ DOMAIN dispatch = {1} /\ InstOK(x) /\ x \in Unit
      /\ \A y \in coll : y \in Unit
  BY UnitIs
<1>2. m.warp = x.warp /\ m.no = x.no /\ m.op = x.op /\ m.out = x.out /\ m.acc = a
  OBVIOUS
<1>3. m = [warp |-> m.warp, no |-> m.no, op |-> m.op, out |-> m.out, acc |-> m.acc]
  BY <1>2
<1>4. /\ x.no \in Nat /\ x.no < pc[x.warp] /\ \A b \in x.accs : MaskOK(b)
      /\ x.op \in {"LD", "ST", "ATOM"} /\ (x.op = "LD" => x.out # 0)
  BY <1>1 DEF ItemInv
<1>5. \A b \in ruby : Same(x, b) => x.op = b.op /\ x.out = b.out /\ b.acc \notin x.accs
  BY <1>1 DEF ItemInv
<1>6. m \notin ruby
  BY <1>2, <1>5 DEF Same
<1>7. \A y \in coll : ~Same(y, x)
  BY <1>1 DEF ItemInv
<1>8. PICK z : z = [x EXCEPT !.accs = rest]
  OBVIOUS
<1>9. z.warp = x.warp /\ z.no = x.no /\ z.op = x.op /\ z.out = x.out /\ z.accs = rest
  BY <1>1, <1>8 DEF InstOK
<1>10. /\ rest = {} => dispatch' = <<>> /\ DOMAIN dispatch' = {} /\ Unit' = coll
       /\ rest # {} => dispatch' = <<z>> /\ DOMAIN dispatch' = {1} /\ dispatch'[1] = z /\ Unit' = coll \cup {z}
  <2>1. CASE rest = {}
    <3>1. dispatch' = <<>> /\ DOMAIN dispatch' = {}
      BY <2>1
    <3> QED BY <2>1, <3>1 DEF Unit
  <2>2. CASE rest # {}
    <3>1. dispatch' = <<z>>
      BY <1>8, <2>2
    <3>2. DOMAIN dispatch' = {1} /\ dispatch'[1] = z
      BY <3>1
    <3> QED BY <2>2, <3>1, <3>2 DEF Unit
  <2> QED BY <2>1, <2>2
<1>11. \A y \in Unit' : y \in coll \/ (y = z /\ rest # {})
  BY <1>10
<1>12. ItemInv'
  <2>1. \A y \in Unit' : /\ y.no \in Nat /\ y.no < pc'[y.warp] /\ \A b \in y.accs : MaskOK(b)
                         /\ y.op \in {"LD", "ST", "ATOM", "MEMBAR"}
                         /\ y.op = "LD" => y.out # 0
                         /\ y.op = "MEMBAR" => y.accs = {}
    <3> SUFFICES ASSUME NEW y \in Unit'
                 PROVE  /\ y.no \in Nat /\ y.no < pc'[y.warp] /\ \A b \in y.accs : MaskOK(b)
                        /\ y.op \in {"LD", "ST", "ATOM", "MEMBAR"}
                        /\ y.op = "LD" => y.out # 0
                        /\ y.op = "MEMBAR" => y.accs = {}
      OBVIOUS
    <3>1. CASE y \in coll
      BY <1>1, <3>1 DEF ItemInv
    <3>2. CASE y = z
      BY <1>4, <1>9, <3>2
    <3> QED BY <1>11, <3>1, <3>2
  <2>2. \A b \in ruby' : /\ b = [warp |-> b.warp, no |-> b.no, op |-> b.op, out |-> b.out, acc |-> b.acc]
                         /\ b.no \in Nat /\ b.no < pc'[b.warp] /\ MaskOK(b.acc)
                         /\ b.op \in {"LD", "ST", "ATOM"} /\ (b.op = "LD" => b.out # 0)
    <3>1. /\ m.no \in Nat /\ m.no < pc'[m.warp] /\ MaskOK(m.acc)
          /\ m.op \in {"LD", "ST", "ATOM"} /\ (m.op = "LD" => m.out # 0)
      BY <1>2, <1>4
    <3>2. \A b \in ruby : /\ b = [warp |-> b.warp, no |-> b.no, op |-> b.op, out |-> b.out, acc |-> b.acc]
                          /\ b.no \in Nat /\ b.no < pc'[b.warp] /\ MaskOK(b.acc)
                          /\ b.op \in {"LD", "ST", "ATOM"} /\ (b.op = "LD" => b.out # 0)
      BY DEF ItemInv
    <3> QED BY <1>3, <3>1, <3>2
  <2>3. \A y \in coll' : \A i \in DOMAIN dispatch' : ~Same(y, dispatch'[i])
    BY <1>7, <1>9, <1>10 DEF Same
  <2>4. \A y, v \in coll' : Same(y, v) => y = v
    BY DEF ItemInv
  <2>5. \A b, c \in ruby' : Same(b, c) => b.op = c.op /\ b.out = c.out
    <3>1. \A b \in ruby : Same(m, b) \/ Same(b, m) => m.op = b.op /\ m.out = b.out
      BY <1>2, <1>5 DEF Same
    <3> QED BY <3>1 DEF ItemInv
  <2>6. ASSUME NEW y \in Unit', NEW b \in ruby', Same(y, b)
        PROVE  y.op = b.op /\ y.out = b.out /\ b.acc \notin y.accs
    <3>1. CASE y \in coll /\ b \in ruby
      BY <1>1, <2>6, <3>1 DEF ItemInv
    <3>2. CASE y \in coll /\ b = m
      BY <1>2, <1>7, <2>6, <3>2 DEF Same
    <3>3. CASE y = z /\ b \in ruby
      BY <1>5, <1>9, <2>6, <3>3 DEF Same
    <3>4. CASE y = z /\ b = m
      BY <1>2, <1>9, <3>4
    <3> QED BY <1>11, <3>1, <3>2, <3>3, <3>4
  <2> QED BY <2>1, <2>2, <2>3, <2>4, <2>5, <2>6 DEF ItemInv
<1>13. \A y \in Unit' : y.op = "MEMBAR" => y \in Unit
  BY <1>1, <1>4, <1>9, <1>11
<1>14. ASSUME NEW w PROVE Outstanding(w)' = Outstanding(w)
  <2> SUFFICES ASSUME NEW e PROVE IsOut(w, e)' <=> IsOut(w, e)
    BY OutMember
  <2>1. Acc(m, m.acc) = Acc(x, a)
    BY <1>2 DEF Acc
  <2>2. \A b : Acc(z, b) = Acc(x, b)
    BY <1>9 DEF Acc
  <2>3. ASSUME IsOut(w, e)' PROVE IsOut(w, e)
    <3>1. ASSUME NEW y \in Unit', y.warp = w, NEW b \in y.accs, e = Acc(y, b) PROVE IsOut(w, e)
      <4>1. CASE y \in coll
        BY <1>1, <3>1, <4>1 DEF IsOut
      <4>2. CASE y = z
        BY <1>1, <1>9, <2>2, <3>1, <4>2 DEF IsOut
      <4> QED BY <1>11, <4>1, <4>2
    <3>2. ASSUME NEW b \in ruby', b.warp = w, e = Acc(b, b.acc) PROVE IsOut(w, e)
      BY <1>1, <1>2, <2>1, <3>2 DEF IsOut
    <3> QED BY <2>3, <3>1, <3>2 DEF IsOut
  <2>4. ASSUME IsOut(w, e) PROVE IsOut(w, e)'
    <3>1. ASSUME NEW y \in Unit, y.warp = w, NEW b \in y.accs, e = Acc(y, b) PROVE IsOut(w, e)'
      <4>1. CASE y \in coll
        BY <1>10, <3>1, <4>1 DEF IsOut
      <4>2. CASE y = x /\ b = a
        BY <1>2, <2>1, <3>1, <4>2 DEF IsOut
      <4>3. CASE y = x /\ b # a
        <5>1. b \in rest /\ z \in Unit'
          BY <1>10, <3>1, <4>3
        <5> QED BY <1>9, <2>2, <3>1, <4>3, <5>1 DEF IsOut
      <4> QED BY <1>1, <4>1, <4>2, <4>3
    <3>2. ASSUME NEW b \in ruby, b.warp = w, e = Acc(b, b.acc) PROVE IsOut(w, e)'
      BY <3>2 DEF IsOut
    <3> QED BY <2>4, <3>1, <3>2 DEF IsOut
  <2> QED BY <2>3, <2>4
<1>15. ASSUME NEW w, InUnit(w) = {} PROVE InUnit(w)' = {}
  <2>1. InUnit(w) = {y \in Unit : y.warp = w} /\ InUnit(w)' = {y \in Unit' : y.warp = w}
    BY DEF InUnit, Unit
  <2> QED BY <1>1, <1>9, <1>11, <1>15, <2>1
<1> QED BY <1>6, <1>12, <1>13, <1>14, <1>15

\* An instruction without accesses leaves the unit.
LEMMA ItemLeave ==
    ASSUME ItemInv, UnitOK, dispatch # <<>>, dispatch[1].accs = {}, dispatch' = <<>>,
           UNCHANGED <<pc, coll, ruby>>
    PROVE  /\ ItemInv' /\ Unit' = coll /\ Unit = coll \cup {dispatch[1]}
           /\ \A w : Outstanding(w)' = Outstanding(w) /\ (InUnit(w) = {} => InUnit(w)' = {})
<1>1. Unit = coll \cup {dispatch[1]}
  BY UnitIs
<1>2. Unit' = coll /\ DOMAIN dispatch' = {}
  BY DEF Unit
<1>3. \A y \in Unit' : y \in Unit
  BY <1>1, <1>2
<1>4. ItemInv'
  BY <1>2, <1>3 DEF ItemInv
<1>5. ASSUME NEW w PROVE Outstanding(w)' = Outstanding(w)
  <2> SUFFICES ASSUME NEW e PROVE IsOut(w, e)' <=> IsOut(w, e)
    BY OutMember
  <2> QED BY <1>1, <1>2 DEF IsOut
<1>6. ASSUME NEW w, InUnit(w) = {} PROVE InUnit(w)' = {}
  <2>1. InUnit(w) = {y \in Unit : y.warp = w} /\ InUnit(w)' = {y \in Unit' : y.warp = w}
    BY DEF InUnit, Unit
  <2> QED BY <1>3, <1>6, <2>1
<1> QED BY <1>1, <1>2, <1>4, <1>5, <1>6

\* An access is answered: the warp and the place of its instruction, the lanes
\* and the transaction name it.
LEMMA ItemAnswer ==
    ASSUME ItemInv, UnitOK, NEW a \in ruby, ruby' = ruby \ {a}, UNCHANGED <<pc, coll, dispatch>>
    PROVE  /\ ItemInv' /\ Acc(a, a.acc) \in Outstanding(a.warp)
           /\ Outstanding(a.warp)' = Outstanding(a.warp) \ {Acc(a, a.acc)}
           /\ \A w : w # a.warp => Outstanding(w)' = Outstanding(w)
           /\ Unit' = Unit /\ \A w : InUnit(w)' = InUnit(w)
<1>1. Unit' = Unit /\ \A w : InUnit(w)' = InUnit(w)
  BY DEF Unit, InUnit
<1>2. ItemInv'
  BY <1>1 DEF ItemInv
<1>3. IsOut(a.warp, Acc(a, a.acc))
  BY DEF IsOut
<1>4. ASSUME NEW b \in ruby, b.warp = a.warp, Acc(b, b.acc) = Acc(a, a.acc) PROVE b = a
  <2>1. b.no = a.no /\ b.op = a.op /\ b.acc = a.acc
    BY <1>4 DEF Acc
  <2>2. b.out = a.out
    BY <1>4, <2>1 DEF ItemInv, Same
  <2>3. /\ a = [warp |-> a.warp, no |-> a.no, op |-> a.op, out |-> a.out, acc |-> a.acc]
        /\ b = [warp |-> b.warp, no |-> b.no, op |-> b.op, out |-> b.out, acc |-> b.acc]
    BY DEF ItemInv
  <2> QED BY <1>4, <2>1, <2>2, <2>3
<1>5. ASSUME NEW x \in Unit, x.warp = a.warp, NEW b \in x.accs, Acc(x, b) = Acc(a, a.acc) PROVE FALSE
  <2>1. x.no = a.no /\ b = a.acc
    BY <1>5 DEF Acc
  <2> QED BY <1>5, <2>1 DEF ItemInv, Same
<1>6. Outstanding(a.warp)' = Outstanding(a.warp) \ {Acc(a, a.acc)}
  <2> SUFFICES ASSUME NEW e
               PROVE  IsOut(a.warp, e)' <=> IsOut(a.warp, e) /\ e # Acc(a, a.acc)
    BY OutMember
  <2> QED BY <1>1, <1>4, <1>5 DEF IsOut
<1>7. ASSUME NEW w, w # a.warp PROVE Outstanding(w)' = Outstanding(w)
  <2> SUFFICES ASSUME NEW e PROVE IsOut(w, e)' <=> IsOut(w, e)
    BY OutMember
  <2> QED BY <1>1, <1>7 DEF IsOut
<1> QED BY <1>1, <1>2, <1>3, <1>6, <1>7, OutMember

-----------------------------------------------------------------------------
(* The parts of the invariant that a step leaves alone.                     *)

LEMMA CountSame ==
    ASSUME NEW w, CountOK(w), Outstanding(w)' = Outstanding(w), Stores(w)' = Stores(w),
           n_gmem'[w] = n_gmem[w], n_atomic'[w] = n_atomic[w], stores'[w] = stores[w],
           sc_fence'[w] = sc_fence[w]
    PROVE  CountOK(w)'
<1>1. Atomics(w)' = Atomics(w)
  BY DEF Atomics
<1>2. \A S : LanesOf(S)' = LanesOf(S)
  BY DEF LanesOf
<1> QED BY <1>1, <1>2 DEF CountOK

LEMMA CountQuiet ==
    ASSUME CountInv, UNCHANGED <<n_gmem, n_atomic, stores, sc_fence, ruby>>,
           \A w : Outstanding(w)' = Outstanding(w)
    PROVE  CountInv'
<1>1. \A w : Stores(w)' = Stores(w)
  BY DEF Stores
<1>2. \A w \in Warps : CountOK(w)'
  BY <1>1, CountSame DEF CountInv
<1> QED BY <1>2 DEF CountInv

LEMMA MembarQuiet ==
    ASSUME MembarInv, UNCHANGED <<membar, fences>>, \A y \in Unit' : y.op = "MEMBAR" => y \in Unit
    PROVE  MembarInv'
BY DEF MembarInv

LEMMA DoneQuiet ==
    ASSUME DoneInv, UNCHANGED <<pc, exited>>, active' = active,
           \A w \in Warps : /\ (membar'[w] => membar[w]) /\ Outstanding(w)' \subseteq Outstanding(w)
                            /\ InUnit(w) = {} => InUnit(w)' = {}
                            /\ exited[w] => \A i \in DOMAIN wb' : wb'[i].warp # w \/ wb'[i].out = 0
    PROVE  DoneInv'
<1>1. \A w \in Warps : Atomics(w)' \subseteq Atomics(w)
  BY DEF Atomics
<1>2. \A w \in Warps : functional_done(w)' <=> functional_done(w)
  BY DEF functional_done
<1>3. \A w \in Warps : functional_done(w)' => w \notin active' /\ ~membar'[w] /\ Atomics(w)' = {}
  BY <1>1, <1>2 DEF DoneInv
<1>4. \A w \in Warps : exited'[w] =>
          /\ functional_done(w)' /\ InUnit(w)' = {} /\ Outstanding(w)' = {}
          /\ \A i \in DOMAIN wb' : wb'[i].warp # w \/ wb'[i].out = 0
  BY <1>2 DEF DoneInv
<1> QED BY <1>3, <1>4 DEF DoneInv

\* A warp issues an instruction that is not its last one.
LEMMA DoneIssue ==
    ASSUME DoneInv, BarInv, NEW w \in Warps, pc' = [pc EXCEPT ![w] = @ + 1], ~exited[w],
           pc[w] + 1 <= Len(Code[w]), UNCHANGED <<exited, wb, active>>,
           \A u \in Warps : u # w => /\ membar'[u] = membar[u] /\ Outstanding(u)' = Outstanding(u)
                                     /\ InUnit(u)' = InUnit(u)
    PROVE  DoneInv'
<1>1. pc[w] \in Nat /\ pc'[w] = pc[w] + 1 /\ Len(Code[w]) \in Nat
  BY CoreAssumption DEF BarInv
<1>2. ~functional_done(w)'
  BY <1>1 DEF functional_done
<1>3. \A u \in Warps : u # w => /\ functional_done(u)' <=> functional_done(u)
                                /\ Atomics(u)' = Atomics(u)
  BY DEF functional_done, Atomics, BarInv
<1>4. \A u \in Warps : functional_done(u)' => u \notin active' /\ ~membar'[u] /\ Atomics(u)' = {}
  BY <1>2, <1>3 DEF DoneInv
<1>5. \A u \in Warps : exited'[u] =>
          /\ functional_done(u)' /\ InUnit(u)' = {} /\ Outstanding(u)' = {}
          /\ \A i \in DOMAIN wb' : wb'[i].warp # u \/ wb'[i].out = 0
  BY <1>3 DEF DoneInv
<1> QED BY <1>4, <1>5 DEF DoneInv

LEMMA IssuingOne ==
    ASSUME BarInv, NEW w \in Warps, NEW i \in Ready(w)
    PROVE  /\ ~exited[w] /\ ~membar[w] /\ ~(n_atomic[w] > 0) /\ i \in Inst
           /\ pc[w] \in DOMAIN Code[w] /\ i \in Code[w][pc[w]]
           /\ i.op # "EXIT" => pc[w] + 1 <= Len(Code[w])
<1>1. ~exited[w] /\ ~membar[w] /\ ~(n_atomic[w] > 0)
  BY DEF Ready, waiting
<1>2. /\ pc[w] \in Nat \ {0} /\ Len(Code[w]) \in Nat /\ pc[w] <= Len(Code[w])
      /\ i \in Code[w][pc[w]]
  BY Issuing
<1>3. Code[w] \in Seq(SUBSET Inst)
  BY CoreAssumption
<1>4. pc[w] \in DOMAIN Code[w] /\ Code[w][pc[w]] \in SUBSET Inst
  BY <1>2, <1>3
<1>5. i.op = "EXIT" <=> pc[w] = Len(Code[w])
  BY <1>2, <1>4, CoreAssumption
<1> QED BY <1>1, <1>2, <1>4, <1>5

\* What the other parts of the invariant say about the warps' counters.
LEMMA Warped ==
    ASSUME RegInv, BarInv
    PROVE  /\ UnitOK /\ pc \in [Warps -> Nat]
           /\ \A x \in Unit : x.warp \in Warps
           /\ \A a \in ruby : a.warp \in Warps
<1>1. UnitOK /\ pc \in [Warps -> Nat]
  BY DEF RegInv, BarInv
<1>2. \A x \in Unit : x.warp \in Warps
  BY <1>1, UnitIs DEF InstOK
<1> QED BY <1>1, <1>2 DEF UnitOK, AccOK

-----------------------------------------------------------------------------
(* The steps.                                                               *)

LEMMA LaneIssueMem ==
    ASSUME LaneInv, RegInv, BarInv, ExactCode, NEW w \in Warps, IssueMem(w)
    PROVE  LaneInv'
<1>1. PICK i \in Ready(w) :
        LET n == n_gmem[w] + Cardinality(CountedLanes(i)) IN
        /\ IsMem(i)
        /\ ~FenceStall(w, i)
        /\ n_gmem' = [n_gmem EXCEPT ![w] = IF is_SC THEN n ELSE @]
        /\ n_atomic' = [n_atomic EXCEPT ![w] =
                           IF i.op = "ATOM" THEN @ + Cardinality(ActiveMask(i)) ELSE @]
        /\ sc_fence' = [sc_fence EXCEPT ![w] = @ \/ SetFence(w, i, n)]
        /\ coll' = coll \cup {[warp |-> w, no |-> pc[w], op |-> i.op, out |-> i.out,
                               accs |-> Coalesced(i)]}
        /\ pc' = [pc EXCEPT ![w] = @ + 1]
        /\ UNCHANGED <<membar, stores, ctaVars, dispatch, ruby, fences, wb>>
  BY DEF IssueMem, Step
<1>2. /\ ~exited[w] /\ i \in Inst /\ pc[w] \in DOMAIN Code[w] /\ i \in Code[w][pc[w]]
      /\ i.op # "EXIT" => pc[w] + 1 <= Len(Code[w])
  BY IssuingOne
<1>3. i \in Mem
  BY <1>1, <1>2 DEF Inst, IsMem
<1>4. /\ i.op \in {"LD", "ST", "ATOM"} /\ i.out \in Regs \cup {0} /\ (i.op = "LD" => i.out # 0)
      /\ i.out # 0 => i.op \in {"LD", "ATOM"}
  BY <1>3 DEF Mem
<1>5. UnitOK /\ pc \in [Warps -> Nat] /\ \A a \in ruby : a.warp \in Warps
  BY Warped
<1>6. PICK acs : acs = Coalesced(i)
  OBVIOUS
<1>7. IsFiniteSet(acs) /\ \A a \in acs : MaskOK(a)
  BY <1>3, <1>6, CoalescedFinite, CoalescedMasks
<1>8. PICK x : x = [warp |-> w, no |-> pc[w], op |-> i.op, out |-> i.out, accs |-> acs]
  OBVIOUS
<1>9. x.warp = w /\ x.no = pc[w] /\ x.op = i.op /\ x.out = i.out /\ x.accs = acs
  BY <1>8
<1>10. InstOK(x)
  BY <1>4, <1>7, <1>8, <1>9 DEF InstOK, IsLoad
<1>11. coll' = coll \cup {x} /\ pc' = [pc EXCEPT ![x.warp] = @ + 1] /\ UNCHANGED <<dispatch, ruby>>
  BY <1>1, <1>6, <1>8, <1>9
<1>12. PICK N : N = NewAccs(i, pc[w])
  OBVIOUS
<1>13. {Acc(x, a) : a \in x.accs} = N
  BY <1>6, <1>9, <1>12 DEF Acc, NewAccs
<1>14. /\ ItemInv'
       /\ \A u : u # w => Outstanding(u)' = Outstanding(u) /\ InUnit(u)' = InUnit(u)
       /\ Outstanding(w)' = Outstanding(w) \cup N
       /\ Outstanding(w) \cap N = {}
  <2>1. /\ ItemInv /\ \A a \in x.accs : MaskOK(a)
        /\ x.op \in {"LD", "ST", "ATOM", "MEMBAR"} /\ (x.op = "LD" => x.out # 0)
        /\ (x.op = "MEMBAR" => x.accs = {}) /\ x.no = pc[x.warp]
    BY <1>4, <1>7, <1>9 DEF LaneInv
  <2> QED BY <1>5, <1>9, <1>10, <1>11, <1>13, <2>1, ItemIssue
<1>15. MembarInv'
  <2>1. \A y \in Unit' : y.op = "MEMBAR" => y \in Unit
    BY <1>4, <1>9, <1>11 DEF Unit
  <2> QED BY <1>1, <2>1, MembarQuiet DEF LaneInv
<1>16. DoneInv'
  <2>1. pc[w] + 1 <= Len(Code[w]) /\ UNCHANGED <<exited, wb, active, membar>>
    BY <1>1, <1>2, <1>4 DEF ctaVars
  <2>2. /\ DoneInv /\ pc' = [pc EXCEPT ![w] = @ + 1] /\ ~exited[w]
        /\ \A u \in Warps : u # w => /\ membar'[u] = membar[u] /\ Outstanding(u)' = Outstanding(u)
                                     /\ InUnit(u)' = InUnit(u)
    BY <1>1, <1>2, <1>14, <2>1 DEF LaneInv
  <2> QED BY <2>1, <2>2, DoneIssue
<1>17. CountInv'
  <2>1. /\ IsFiniteSet(N) /\ (\A e \in N : MaskOK(e.acc)) /\ (\A e \in N : e.op = i.op)
        /\ IsFiniteSet(ActiveMask(i)) /\ Cardinality(ActiveMask(i)) \in Nat
    <3>1. IsFiniteSet(ActiveMask(i))
      BY CoreAssumption, FS_Subset DEF ActiveMask
    <3>2. \A e \in N : e.op = i.op
      BY <1>12 DEF NewAccs
    <3> QED BY <1>3, <1>12, <3>1, <3>2, NewFinite, FS_CardinalityType
  <2>2. ASSUME i.op = "ATOM" \/ i.space \notin {"local", "param"} \/ i.words = 1
        PROVE  LanesOf(N) = Cardinality(ActiveMask(i))
    BY <1>3, <1>12, <2>2, LanesNew
  <2>3. CountOK(w) /\ CountInv
    BY DEF LaneInv, CountInv
  <2>4. \A e \in Outstanding(w) : e.acc.mask \subseteq Lanes
    BY OutOK DEF LaneInv, MaskOK
  <2>5. \A e \in N : e.acc.mask \subseteq Lanes
    BY <2>1 DEF MaskOK
  <2>6. PICK S : S = Outstanding(w)
    OBVIOUS
  <2>7. IsFiniteSet(S) /\ IsFiniteSet(S \cup N) /\ LanesOf(S) \in Nat
    <3>1. IsFiniteSet(S)
      BY <2>3, <2>6 DEF CountOK
    <3> QED BY <2>1, <2>4, <2>6, <3>1, FS_Union, PairsFinite
  <2>8. LanesOf(S \cup N) = LanesOf(S) + LanesOf(N)
    BY <1>14, <2>1, <2>4, <2>5, <2>6, <2>7, LanesAdd
  <2>9. is_SC => n_gmem'[w] = LanesOf(S \cup N) /\ n_gmem'[w] = n_gmem[w] + Cardinality(CountedLanes(i))
    <3> SUFFICES ASSUME is_SC
                 PROVE n_gmem'[w] = LanesOf(S \cup N) /\ n_gmem'[w] = n_gmem[w] + Cardinality(CountedLanes(i))
      OBVIOUS
    <3>1. Exact(i)
      BY <1>1, <1>2 DEF ExactCode
    <3>2. LanesOf(N) = Cardinality(ActiveMask(i)) /\ CountedLanes(i) = ActiveMask(i)
      BY <2>2, <3>1 DEF Exact
    <3>3. n_gmem'[w] = n_gmem[w] + Cardinality(CountedLanes(i))
      BY <1>1, <2>3 DEF CountInv
    <3>4. n_gmem[w] = LanesOf(S)
      BY <2>3, <2>6 DEF CountOK
    <3> QED BY <2>8, <3>2, <3>3, <3>4
  <2>10. n_atomic'[w] = LanesOf(Atomics(w)')
    <3>1. CASE i.op # "ATOM"
      <4>1. Atomics(w)' = Atomics(w)
        BY <1>14, <2>1, <3>1 DEF Atomics
      <4>2. n_atomic'[w] = n_atomic[w]
        BY <1>1, <2>3, <3>1 DEF CountInv
      <4> QED BY <2>3, <4>1, <4>2 DEF CountOK
    <3>2. CASE i.op = "ATOM"
      <4>1. PICK A : A = Atomics(w)
        OBVIOUS
      <4>2. Atomics(w)' = A \cup N /\ A \cap N = {} /\ A \subseteq S
        BY <1>14, <2>1, <2>6, <3>2, <4>1 DEF Atomics
      <4>3. IsFiniteSet(A) /\ \A e \in A \cup N : e.acc.mask \subseteq Lanes
        BY <2>4, <2>5, <2>6, <2>7, <4>2, FS_Subset
      <4>4. LanesOf(A \cup N) = LanesOf(A) + LanesOf(N)
        BY <2>1, <4>2, <4>3, LanesAdd
      <4>5. LanesOf(N) = Cardinality(ActiveMask(i))
        BY <2>2, <3>2
      <4>6. n_atomic'[w] = n_atomic[w] + Cardinality(ActiveMask(i)) /\ n_atomic[w] = LanesOf(A)
        BY <1>1, <2>3, <3>2, <4>1 DEF CountInv, CountOK
      <4> QED BY <4>2, <4>4, <4>5, <4>6
    <3> QED BY <3>1, <3>2
  <2>11. sc_fence'[w] \in BOOLEAN /\ (sc_fence'[w] => n_gmem'[w] # 0) /\ (~is_SC => ~sc_fence'[w] /\ n_gmem'[w] = 0)
    <3>1. sc_fence'[w] = (sc_fence[w] \/ SetFence(w, i, n_gmem[w] + Cardinality(CountedLanes(i))))
      BY <1>1, <2>3 DEF CountInv
    <3>2. sc_fence[w] => ~is_SC
      BY <1>1 DEF FenceStall
    <3>3. sc_fence[w] => FALSE
      BY <2>3, <3>2 DEF CountOK
    <3>4. ~is_SC => n_gmem'[w] = 0
      BY <1>1, <2>3 DEF CountInv, CountOK
    <3>5. PICK n : n = n_gmem[w] + Cardinality(CountedLanes(i))
      OBVIOUS
    <3>6. sc_fence'[w] = SetFence(w, i, n)
      BY <3>1, <3>3, <3>5 DEF SetFence
    <3>7. sc_fence'[w] \in BOOLEAN /\ (sc_fence'[w] => is_SC /\ n > 0)
      BY <3>6 DEF SetFence
    <3>8. is_SC => n_gmem'[w] = n
      BY <2>9, <3>5
    <3> QED BY <3>4, <3>7, <3>8
  <2>12. /\ n_gmem' \in [Warps -> Int] /\ n_atomic' \in [Warps -> Int] /\ stores' \in [Warps -> Int]
         /\ sc_fence' \in [Warps -> BOOLEAN]
    <3>1. /\ n_gmem \in [Warps -> Int] /\ n_atomic \in [Warps -> Int] /\ stores \in [Warps -> Int]
          /\ sc_fence \in [Warps -> BOOLEAN]
      BY <2>3 DEF CountInv
    <3>2. n_gmem' \in [Warps -> Int]
      <4>1. is_SC => Cardinality(CountedLanes(i)) \in Nat
        BY <1>1, <1>2, <2>1 DEF ExactCode, Exact
      <4> QED BY <1>1, <3>1, <4>1
    <3>3. n_atomic' \in [Warps -> Int]
      BY <1>1, <2>1, <3>1
    <3>4. sc_fence' \in [Warps -> BOOLEAN]
      BY <1>1, <2>11, <3>1
    <3> QED BY <1>1, <3>1, <3>2, <3>3, <3>4
  <2>13. \A u : Stores(u)' = Stores(u)
    BY <1>1 DEF Stores
  <2>14. CountOK(w)'
    <3>1. IsFiniteSet(Outstanding(w)')
      BY <1>14, <2>6, <2>7
    <3>2. \A T : LanesOf(T)' = LanesOf(T)
      BY DEF LanesOf
    <3>3. is_SC => n_gmem'[w] = LanesOf(Outstanding(w)')
      BY <1>14, <2>6, <2>9
    <3>4. stores'[w] = Cardinality(Stores(w)') /\ IsFiniteSet(Stores(w)')
      BY <1>1, <2>3, <2>13 DEF CountOK
    <3> QED BY <2>10, <2>11, <3>1, <3>2, <3>3, <3>4 DEF CountOK
  <2>15. ASSUME NEW u \in Warps, u # w PROVE CountOK(u)'
    <3>1. n_gmem'[u] = n_gmem[u] /\ n_atomic'[u] = n_atomic[u] /\ stores'[u] = stores[u] /\ sc_fence'[u] = sc_fence[u]
      BY <1>1, <2>3, <2>15 DEF CountInv
    <3> QED BY <1>14, <2>3, <2>13, <2>15, <3>1, CountSame DEF CountInv
  <2> QED BY <2>12, <2>14, <2>15 DEF CountInv
<1> QED BY <1>14, <1>15, <1>16, <1>17 DEF LaneInv

LEMMA LaneIssueMembar ==
    ASSUME LaneInv, RegInv, BarInv, NEW w \in Warps, IssueMembar(w)
    PROVE  LaneInv'
<1>1. PICK i \in Ready(w) :
        /\ i.op = "MEMBAR"
        /\ membar' = [membar EXCEPT ![w] = TRUE]
        /\ coll' = coll \cup {[warp |-> w, no |-> pc[w], op |-> i.op, out |-> 0, accs |-> {}]}
        /\ pc' = [pc EXCEPT ![w] = @ + 1]
        /\ UNCHANGED <<n_gmem, n_atomic, sc_fence, stores, ctaVars, dispatch, ruby, fences, wb>>
  BY DEF IssueMembar, Step
<1>2. ~exited[w] /\ ~membar[w] /\ pc[w] + 1 <= Len(Code[w])
  BY <1>1, IssuingOne
<1>3. UnitOK /\ pc \in [Warps -> Nat] /\ \A a \in ruby : a.warp \in Warps
  BY Warped
<1>4. PICK x : x = [warp |-> w, no |-> pc[w], op |-> i.op, out |-> 0, accs |-> {}]
  OBVIOUS
<1>5. x.warp = w /\ x.no = pc[w] /\ x.op = "MEMBAR" /\ x.out = 0 /\ x.accs = {}
  BY <1>1, <1>4
<1>6. InstOK(x)
  BY <1>1, <1>4, <1>5, FS_EmptySet DEF InstOK
<1>7. coll' = coll \cup {x} /\ pc' = [pc EXCEPT ![x.warp] = @ + 1] /\ UNCHANGED <<dispatch, ruby>>
  BY <1>1, <1>4, <1>5
<1>8. /\ ItemInv' /\ \A u : Outstanding(u)' = Outstanding(u)
      /\ \A u : u # w => InUnit(u)' = InUnit(u)
  <2>1. /\ ItemInv /\ (\A a \in x.accs : MaskOK(a))
        /\ x.op \in {"LD", "ST", "ATOM", "MEMBAR"} /\ (x.op = "LD" => x.out # 0)
        /\ (x.op = "MEMBAR" => x.accs = {}) /\ x.no = pc[x.warp]
    BY <1>5 DEF LaneInv
  <2>2. /\ ItemInv'
        /\ \A u : u # x.warp => Outstanding(u)' = Outstanding(u) /\ InUnit(u)' = InUnit(u)
        /\ Outstanding(x.warp)' = Outstanding(x.warp) \cup {Acc(x, a) : a \in x.accs}
    BY <1>3, <1>6, <1>7, <2>1, ItemIssue
  <2>3. {Acc(x, a) : a \in x.accs} = {}
    BY <1>5
  <2> QED BY <1>5, <2>2, <2>3
<1>9. MembarInv'
  <2>1. Unit' = Unit \cup {x} /\ MembarInv
    BY <1>7 DEF Unit, LaneInv
  <2>2. \A y \in Unit : y.op = "MEMBAR" => y.warp # w
    BY <1>2, <2>1 DEF MembarInv
  <2>3. membar' \in [Warps -> BOOLEAN] /\ membar'[w] /\ w \notin fences
    BY <1>1, <1>2, <2>1 DEF MembarInv
  <2>4. \A u \in Warps : membar[u] => membar'[u]
    BY <1>1, <2>1 DEF MembarInv
  <2>5. \A y \in Unit : y.warp \in Warps
    BY Warped
  <2>6. \A u \in fences' : u \in Warps /\ membar'[u]
    BY <1>1, <2>1, <2>4 DEF MembarInv
  <2>7. \A y \in Unit' : y.op = "MEMBAR" => membar'[y.warp] /\ y.warp \notin fences'
    BY <1>1, <1>5, <2>1, <2>3, <2>4, <2>5 DEF MembarInv
  <2>8. \A y, z \in Unit' : y.op = "MEMBAR" /\ z.op = "MEMBAR" /\ y.warp = z.warp => y = z
    BY <1>5, <2>1, <2>2 DEF MembarInv
  <2> QED BY <2>3, <2>6, <2>7, <2>8 DEF MembarInv
<1>10. DoneInv'
  <2>1. UNCHANGED <<exited, wb, active>> /\ DoneInv /\ membar \in [Warps -> BOOLEAN]
    BY <1>1 DEF ctaVars, LaneInv, MembarInv
  <2>2. \A u \in Warps : u # w => /\ membar'[u] = membar[u] /\ Outstanding(u)' = Outstanding(u)
                                  /\ InUnit(u)' = InUnit(u)
    BY <1>1, <1>8, <2>1
  <2> QED BY <1>1, <1>2, <2>1, <2>2, DoneIssue
<1>11. CountInv'
  BY <1>1, <1>8, CountQuiet DEF LaneInv
<1> QED BY <1>8, <1>9, <1>10, <1>11 DEF LaneInv

\* Steps of the CTA barrier do not touch the load/store unit.
LEMMA LaneIssueBar ==
    ASSUME LaneInv, RegInv, BarInv, NEW w \in Warps, IssueBar(w) \/ IssueExit(w)
    PROVE  LaneInv'
<1>1. /\ pc' = [pc EXCEPT ![w] = @ + 1]
      /\ UNCHANGED <<n_gmem, n_atomic, sc_fence, membar, stores, exited, coll, dispatch, ruby, fences, wb>>
  BY DEF IssueBar, IssueExit, Step, ldstVars
<1>2. UnitOK /\ pc \in [Warps -> Nat] /\ (\A x \in Unit : x.warp \in Warps) /\ (\A a \in ruby : a.warp \in Warps)
  BY Warped
<1>3. pc' \in [Warps -> Nat] /\ \A u \in Warps : pc'[u] >= pc[u]
  BY <1>1, <1>2
<1>4. ItemInv' /\ \A u : Outstanding(u)' = Outstanding(u) /\ InUnit(u)' = InUnit(u)
  <2>1. /\ \A x \in Unit : x.warp \in Warps /\ pc'[x.warp] >= pc[x.warp]
        /\ \A a \in ruby : a.warp \in Warps /\ pc'[a.warp] >= pc[a.warp]
        /\ ItemInv
    BY <1>2, <1>3 DEF LaneInv
  <2> QED BY <1>1, <1>2, <1>3, <2>1, ItemQuiet
<1>5. Unit' = Unit
  BY <1>1 DEF Unit
<1>6. MembarInv'
  BY <1>1, <1>5, MembarQuiet DEF LaneInv
<1>7. CountInv'
  BY <1>1, <1>4, CountQuiet DEF LaneInv
<1>8. DoneInv'
  <2>1. CASE IssueBar(w)
    <3>1. active' = active /\ ~exited[w] /\ pc[w] + 1 <= Len(Code[w])
      BY <2>1, IssuingOne DEF IssueBar
    <3>2. /\ DoneInv /\ \A u \in Warps : u # w => /\ membar'[u] = membar[u] /\ Outstanding(u)' = Outstanding(u)
                                                  /\ InUnit(u)' = InUnit(u)
      BY <1>1, <1>4 DEF LaneInv
    <3> QED BY <1>1, <3>1, <3>2, DoneIssue
  <2>2. CASE IssueExit(w)
    <3>1. active' = active \ {w} /\ ~exited[w] /\ ~membar[w] /\ ~(n_atomic[w] > 0)
      BY <2>2, IssuingOne DEF IssueExit
    <3>2. Atomics(w) = {}
      <4>1. CountOK(w) /\ Atomics(w) \subseteq Outstanding(w)
        BY DEF LaneInv, CountInv, Atomics
      <4>2. IsFiniteSet(Atomics(w))
        BY <4>1, FS_Subset DEF CountOK
      <4>3. \A e \in Atomics(w) : MaskOK(e.acc)
        BY <4>1, OutOK DEF LaneInv
      <4>4. LanesOf(Atomics(w)) \in Nat
        BY <4>2, <4>3, PairsFinite DEF MaskOK
      <4>5. LanesOf(Atomics(w)) = 0
        <5>1. PICK k \in Nat : k = LanesOf(Atomics(w))
          BY <4>4
        <5>2. ~(k > 0)
          BY <3>1, <4>1, <5>1 DEF CountOK
        <5> QED BY <5>1, <5>2
      <4> QED BY <4>2, <4>3, <4>5, LanesNone
    <3>3. \A u : Atomics(u)' = Atomics(u)
      BY <1>4 DEF Atomics
    <3>4. \A u \in Warps : u # w => (functional_done(u)' <=> functional_done(u))
      BY <1>1, <1>2 DEF functional_done
    <3>5. \A u \in Warps : functional_done(u)' => u \notin active' /\ ~membar'[u] /\ Atomics(u)' = {}
      BY <1>1, <3>1, <3>2, <3>3, <3>4 DEF LaneInv, DoneInv
    <3>6. \A u \in Warps : exited'[u] =>
              /\ functional_done(u)' /\ InUnit(u)' = {} /\ Outstanding(u)' = {}
              /\ \A i \in DOMAIN wb' : wb'[i].warp # u \/ wb'[i].out = 0
      BY <1>1, <1>4, <3>1, <3>4 DEF LaneInv, DoneInv
    <3> QED BY <1>1, <3>5, <3>6 DEF LaneInv, DoneInv
  <2> QED BY <2>1, <2>2
<1> QED BY <1>4, <1>6, <1>7, <1>8 DEF LaneInv

LEMMA LaneDispatch ==
    ASSUME LaneInv, RegInv, BarInv, Dispatch
    PROVE  LaneInv'
<1>1. PICK x \in coll :
        /\ dispatch = <<>> /\ dispatch' = <<x>> /\ coll' = coll \ {x}
        /\ UNCHANGED <<pc, n_gmem, n_atomic, sc_fence, membar, stores, ctaVars, ruby, fences, wb>>
  BY DEF Dispatch
<1>2. UnitOK /\ ItemInv
  BY DEF RegInv, LaneInv
<1>3. ItemInv' /\ Unit' = Unit /\ \A w : Outstanding(w)' = Outstanding(w) /\ InUnit(w)' = InUnit(w)
  BY <1>1, <1>2, ItemDispatch
<1>4. MembarInv'
  BY <1>1, <1>3, MembarQuiet DEF LaneInv
<1>5. CountInv'
  BY <1>1, <1>3, CountQuiet DEF LaneInv
<1>6. DoneInv'
  <2>1. UNCHANGED <<pc, exited>> /\ active' = active /\ DoneInv
    BY <1>1 DEF ctaVars, LaneInv
  <2>2. \A w \in Warps : /\ (membar'[w] => membar[w]) /\ Outstanding(w)' \subseteq Outstanding(w)
                         /\ InUnit(w) = {} => InUnit(w)' = {}
                         /\ exited[w] => \A i \in DOMAIN wb' : wb'[i].warp # w \/ wb'[i].out = 0
    BY <1>1, <1>3, <2>1 DEF DoneInv
  <2> QED BY <2>1, <2>2, DoneQuiet
<1> QED BY <1>3, <1>4, <1>5, <1>6 DEF LaneInv

\* An instruction leaves the unit: a memory instruction without accesses or a
\* memory barrier.
LEMMA LaneLeave ==
    ASSUME LaneInv, RegInv, BarInv, dispatch # <<>>, dispatch[1].accs = {}, dispatch' = <<>>,
           UNCHANGED <<pc, n_gmem, n_atomic, sc_fence, membar, stores, ctaVars, coll, ruby, wb>>
    PROVE  /\ ItemInv' /\ CountInv' /\ DoneInv'
           /\ Unit' = coll /\ Unit = coll \cup {dispatch[1]}
<1>1. UnitOK /\ ItemInv
  BY DEF RegInv, LaneInv
<1>2. /\ ItemInv' /\ Unit' = coll /\ Unit = coll \cup {dispatch[1]}
      /\ \A w : Outstanding(w)' = Outstanding(w) /\ (InUnit(w) = {} => InUnit(w)' = {})
  BY <1>1, ItemLeave
<1>3. CountInv'
  BY <1>2, CountQuiet DEF LaneInv
<1>4. UNCHANGED <<pc, exited>> /\ active' = active /\ DoneInv
  BY DEF ctaVars, LaneInv
<1>5. \A w \in Warps : /\ (membar'[w] => membar[w]) /\ Outstanding(w)' \subseteq Outstanding(w)
                       /\ InUnit(w) = {} => InUnit(w)' = {}
                       /\ exited[w] => \A i \in DOMAIN wb' : wb'[i].warp # w \/ wb'[i].out = 0
  BY <1>2, <1>4 DEF DoneInv
<1>6. DoneInv'
  BY <1>4, <1>5, DoneQuiet
<1> QED BY <1>2, <1>3, <1>6

LEMMA LaneMembarCycle ==
    ASSUME LaneInv, RegInv, BarInv, MembarCycle
    PROVE  LaneInv'
<1>1. PICK x : x = dispatch[1]
  OBVIOUS
<1>2. /\ dispatch # <<>> /\ x.op = "MEMBAR" /\ fences' = fences \cup {x.warp} /\ dispatch' = <<>>
      /\ UNCHANGED <<pc, n_gmem, n_atomic, sc_fence, membar, stores, ctaVars, coll, ruby, wb>>
  BY <1>1 DEF MembarCycle, warpVars
<1>3. /\ Unit = coll \cup {x} /\ x.warp \in Warps /\ x.accs = {}
      /\ \A y \in coll : ~Same(y, x)
  <2>1. Unit = coll \cup {x} /\ DOMAIN dispatch = {1} /\ InstOK(x)
    BY <1>1, <1>2, UnitIs DEF RegInv
  <2> QED BY <1>1, <1>2, <2>1 DEF LaneInv, ItemInv, InstOK
<1>4. ItemInv' /\ CountInv' /\ DoneInv' /\ Unit' = coll
  BY <1>1, <1>2, <1>3, LaneLeave
<1>5. MembarInv'
  <2>1. MembarInv /\ membar[x.warp]
    BY <1>2, <1>3 DEF LaneInv, MembarInv
  <2>2. \A y \in coll : y.op = "MEMBAR" => y.warp # x.warp
    BY <1>2, <1>3, <2>1 DEF MembarInv, Same
  <2>3. \A w \in fences' : w \in Warps /\ membar'[w]
    BY <1>2, <1>3, <2>1 DEF MembarInv
  <2>4. \A y \in Unit' : y.op = "MEMBAR" => membar'[y.warp] /\ y.warp \notin fences'
    BY <1>2, <1>3, <1>4, <2>1, <2>2 DEF MembarInv
  <2>5. \A y, z \in Unit' : y.op = "MEMBAR" /\ z.op = "MEMBAR" /\ y.warp = z.warp => y = z
    BY <1>3, <1>4, <2>1 DEF MembarInv
  <2> QED BY <1>2, <2>1, <2>3, <2>4, <2>5 DEF MembarInv
<1> QED BY <1>4, <1>5 DEF LaneInv

LEMMA LaneSend ==
    ASSUME LaneInv, RegInv, BarInv, dispatch # <<>>, NEW x, x = dispatch[1], NEW a \in x.accs, NEW m,
           m = [warp |-> x.warp, no |-> x.no, op |-> x.op, out |-> x.out, acc |-> a],
           ruby' = ruby \cup {m},
           stores' = IF x.op = "ST" THEN [stores EXCEPT ![x.warp] = @ + 1] ELSE stores,
           Retire(x, x.accs \ {a}),
           UNCHANGED <<pc, n_gmem, n_atomic, sc_fence, membar, ctaVars, coll, fences, wb>>
    PROVE  LaneInv'
<1>1. PICK rest : rest = x.accs \ {a}
  OBVIOUS
<1>2. dispatch' = IF rest = {} THEN <<>> ELSE <<[x EXCEPT !.accs = rest]>>
  BY <1>1 DEF Retire
<1>3. UnitOK /\ ItemInv /\ x.warp \in Warps
  BY UnitIs DEF RegInv, LaneInv, UnitOK, InstOK
<1>4. /\ ItemInv' /\ m \notin ruby
      /\ \A y \in Unit' : y.op = "MEMBAR" => y \in Unit
      /\ \A w : Outstanding(w)' = Outstanding(w) /\ (InUnit(w) = {} => InUnit(w)' = {})
  BY <1>1, <1>2, <1>3, ItemSend
<1>5. MembarInv'
  BY <1>4, MembarQuiet DEF LaneInv
<1>6. DoneInv'
  <2>1. UNCHANGED <<pc, exited>> /\ active' = active /\ DoneInv
    BY DEF ctaVars, LaneInv
  <2>2. \A w \in Warps : /\ (membar'[w] => membar[w]) /\ Outstanding(w)' \subseteq Outstanding(w)
                         /\ InUnit(w) = {} => InUnit(w)' = {}
                         /\ exited[w] => \A i \in DOMAIN wb' : wb'[i].warp # w \/ wb'[i].out = 0
    BY <1>4, <2>1 DEF DoneInv
  <2> QED BY <2>1, <2>2, DoneQuiet
<1>7. CountInv'
  <2>1. m.warp = x.warp /\ m.op = x.op
    OBVIOUS
  <2>2. CountInv
    BY DEF LaneInv
  <2>3. stores' \in [Warps -> Int]
    BY <1>3, <2>2 DEF CountInv
  <2>4. ASSUME NEW w \in Warps PROVE CountOK(w)'
    <3>1. CASE x.op = "ST" /\ w = x.warp
      <4>1. Stores(w)' = Stores(w) \cup {m} /\ m \notin Stores(w)
        BY <1>4, <2>1, <3>1 DEF Stores
      <4>2. IsFiniteSet(Stores(w)) /\ stores[w] = Cardinality(Stores(w))
        BY <2>2 DEF CountInv, CountOK
      <4>3. IsFiniteSet(Stores(w)') /\ Cardinality(Stores(w)') = Cardinality(Stores(w)) + 1
        <5>1. PICK S : S = Stores(w)
          OBVIOUS
        <5>2. IsFiniteSet(S \cup {m}) /\ Cardinality(S \cup {m}) = Cardinality(S) + 1
          BY <4>1, <4>2, <5>1, FS_AddElement
        <5> QED BY <4>1, <5>1, <5>2
      <4>4. stores'[w] = stores[w] + 1
        BY <1>3, <2>2, <3>1 DEF CountInv
      <4>5. Atomics(w)' = Atomics(w) /\ \A S : LanesOf(S)' = LanesOf(S)
        BY <1>4 DEF Atomics, LanesOf
      <4> QED BY <1>4, <2>2, <4>2, <4>3, <4>4, <4>5 DEF CountInv, CountOK
    <3>2. CASE x.op # "ST" \/ w # x.warp
      <4>1. Stores(w)' = Stores(w) /\ stores'[w] = stores[w]
        BY <1>3, <2>1, <2>2, <3>2 DEF Stores, CountInv
      <4> QED BY <1>4, <2>2, <4>1, CountSame DEF CountInv
    <3> QED BY <3>1, <3>2
  <2> QED BY <2>2, <2>3, <2>4 DEF CountInv
<1> QED BY <1>4, <1>5, <1>6, <1>7 DEF LaneInv

LEMMA LaneMemoryCycle ==
    ASSUME LaneInv, RegInv, BarInv, MemoryCycle
    PROVE  LaneInv'
<1>1. PICK x : x = dispatch[1]
  OBVIOUS
<1>2. /\ dispatch # <<>> /\ IsMem(x)
      /\ UNCHANGED <<pc, n_gmem, n_atomic, sc_fence, membar, ctaVars, coll, fences, wb>>
  BY <1>1 DEF MemoryCycle
<1>3. CASE x.accs = {} /\ Retire(x, {}) /\ UNCHANGED <<ruby, stores>>
  <2>1. dispatch' = <<>>
    BY <1>3 DEF Retire
  <2>2. ItemInv' /\ CountInv' /\ DoneInv' /\ Unit' = coll /\ Unit = coll \cup {x}
    BY <1>1, <1>2, <1>3, <2>1, LaneLeave
  <2>3. MembarInv'
    BY <1>2, <2>2, MembarQuiet DEF LaneInv
  <2> QED BY <2>2, <2>3 DEF LaneInv
<1>4. ASSUME NEW a \in x.accs,
             ruby' = ruby \cup {[warp |-> x.warp, no |-> x.no, op |-> x.op, out |-> x.out, acc |-> a]},
             stores' = IF x.op = "ST" THEN [stores EXCEPT ![x.warp] = @ + 1] ELSE stores,
             Retire(x, x.accs \ {a})
      PROVE  LaneInv'
  BY <1>1, <1>2, <1>4, LaneSend
<1> QED BY <1>1, <1>3, <1>4 DEF MemoryCycle

LEMMA LaneAnswer ==
    ASSUME LaneInv, RegInv, BarInv, NEW a \in ruby, Answer(a)
    PROVE  LaneInv'
<1>1. PICK w, n : w = a.warp /\ n = Cardinality(a.acc.mask)
  OBVIOUS
<1>2. /\ ruby' = ruby \ {a}
      /\ n_gmem' = [n_gmem EXCEPT ![w] = IF is_SC THEN n_gmem[w] - n ELSE @]
      /\ sc_fence' = [sc_fence EXCEPT ![w] = @ /\ n_gmem[w] - n # 0]
      /\ stores' = [stores EXCEPT ![w] = IF a.op = "ST" THEN @ - 1 ELSE @]
      /\ n_atomic' = [n_atomic EXCEPT ![w] = IF a.op = "ATOM" THEN @ - n ELSE @]
      /\ wb' = <<a>>
      /\ UNCHANGED <<pc, membar, ctaVars, coll, dispatch, fences>>
  BY <1>1 DEF Answer
<1>3. UnitOK /\ ItemInv /\ w \in Warps
  BY <1>1, Warped DEF LaneInv
<1>4. PICK e : e = Acc(a, a.acc)
  OBVIOUS
<1>5. /\ ItemInv' /\ e \in Outstanding(w) /\ Outstanding(w)' = Outstanding(w) \ {e}
      /\ \A u : u # w => Outstanding(u)' = Outstanding(u)
      /\ Unit' = Unit /\ \A u : InUnit(u)' = InUnit(u)
  BY <1>1, <1>2, <1>3, <1>4, ItemAnswer
<1>6. e.op = a.op /\ e.acc = a.acc /\ e.no = a.no
  BY <1>4 DEF Acc
<1>7. MembarInv'
  BY <1>2, <1>5, MembarQuiet DEF LaneInv
<1>8. DoneInv'
  <2>1. UNCHANGED <<pc, exited>> /\ active' = active /\ DoneInv
    BY <1>2 DEF ctaVars, LaneInv
  <2>2. ~exited[w]
    BY <1>3, <1>5, <2>1 DEF DoneInv
  <2>3. \A u \in Warps : exited[u] => \A i \in DOMAIN wb' : wb'[i].warp # u \/ wb'[i].out = 0
    BY <1>1, <1>2, <2>2
  <2>4. \A u \in Warps : /\ (membar'[u] => membar[u]) /\ Outstanding(u)' \subseteq Outstanding(u)
                         /\ InUnit(u) = {} => InUnit(u)' = {}
                         /\ exited[u] => \A i \in DOMAIN wb' : wb'[i].warp # u \/ wb'[i].out = 0
    BY <1>2, <1>5, <2>3
  <2> QED BY <2>1, <2>4, DoneQuiet
<1>9. CountInv'
  <2>1. CountInv /\ CountOK(w)
    BY <1>3 DEF LaneInv, CountInv
  <2>2. /\ n_gmem \in [Warps -> Int] /\ n_atomic \in [Warps -> Int] /\ stores \in [Warps -> Int]
        /\ sc_fence \in [Warps -> BOOLEAN]
    BY <2>1 DEF CountInv
  <2>3. MaskOK(a.acc) /\ n \in Nat
    <3>1. MaskOK(a.acc)
      BY <1>3 DEF ItemInv
    <3>2. IsFiniteSet(a.acc.mask)
      BY <3>1, CoreAssumption, FS_Subset DEF MaskOK
    <3> QED BY <1>1, <3>1, <3>2, FS_CardinalityType
  <2>4. PICK S : S = Outstanding(w)
    OBVIOUS
  <2>5. IsFiniteSet(S) /\ \A y \in S : y.acc.mask \subseteq Lanes
    BY <1>3, <2>1, <2>4, OutOK DEF CountOK, MaskOK
  <2>6. IsFiniteSet(S \ {e}) /\ LanesOf(S \ {e}) = LanesOf(S) - n
    BY <1>1, <1>5, <1>6, <2>4, <2>5, LanesRemove
  <2>7. is_SC => n_gmem'[w] = LanesOf(S \ {e}) /\ n_gmem'[w] = n_gmem[w] - n
    <3>1. is_SC => n_gmem'[w] = n_gmem[w] - n
      BY <1>2, <1>3, <2>2
    <3> QED BY <2>1, <2>4, <2>6, <3>1 DEF CountOK
  <2>8. n_atomic'[w] = LanesOf(Atomics(w)')
    <3>1. CASE a.op # "ATOM"
      <4>1. Atomics(w)' = Atomics(w) /\ n_atomic'[w] = n_atomic[w]
        BY <1>2, <1>3, <1>5, <1>6, <2>2, <3>1 DEF Atomics
      <4> QED BY <2>1, <4>1 DEF CountOK
    <3>2. CASE a.op = "ATOM"
      <4>1. PICK A : A = Atomics(w)
        OBVIOUS
      <4>2. Atomics(w)' = A \ {e} /\ e \in A /\ A \subseteq S
        BY <1>5, <1>6, <2>4, <3>2, <4>1 DEF Atomics
      <4>3. IsFiniteSet(A) /\ \A y \in A : y.acc.mask \subseteq Lanes
        BY <2>5, <4>2, FS_Subset
      <4>4. LanesOf(A \ {e}) = LanesOf(A) - n
        BY <1>1, <1>6, <4>2, <4>3, LanesRemove
      <4>5. n_atomic'[w] = n_atomic[w] - n
        BY <1>2, <1>3, <2>2, <3>2
      <4> QED BY <2>1, <4>1, <4>2, <4>4, <4>5 DEF CountOK
    <3> QED BY <3>1, <3>2
  <2>9. /\ sc_fence'[w] => n_gmem'[w] # 0
        /\ ~is_SC => n_gmem'[w] = 0 /\ ~sc_fence'[w]
    <3>1. sc_fence'[w] <=> sc_fence[w] /\ n_gmem[w] - n # 0
      BY <1>2, <1>3, <2>2
    <3>2. ~is_SC => n_gmem'[w] = n_gmem[w]
      BY <1>2, <1>3, <2>2
    <3> QED BY <2>1, <2>7, <3>1, <3>2 DEF CountOK
  <2>10. IsFiniteSet(Stores(w)') /\ stores'[w] = Cardinality(Stores(w)')
    <3>1. IsFiniteSet(Stores(w)) /\ stores[w] = Cardinality(Stores(w))
      BY <2>1 DEF CountOK
    <3>2. CASE a.op # "ST"
      <4>1. Stores(w)' = Stores(w) /\ stores'[w] = stores[w]
        BY <1>2, <1>3, <2>2, <3>2 DEF Stores
      <4> QED BY <3>1, <4>1
    <3>3. CASE a.op = "ST"
      <4>1. Stores(w)' = Stores(w) \ {a} /\ a \in Stores(w) /\ stores'[w] = stores[w] - 1
        BY <1>1, <1>2, <1>3, <2>2, <3>3 DEF Stores
      <4>2. IsFiniteSet(Stores(w) \ {a}) /\ Cardinality(Stores(w) \ {a}) = Cardinality(Stores(w)) - 1
        BY <3>1, <4>1, FS_RemoveElement
      <4> QED BY <3>1, <4>1, <4>2
    <3> QED BY <3>2, <3>3
  <2>11. CountOK(w)'
    <3>1. IsFiniteSet(Outstanding(w)') /\ (is_SC => n_gmem'[w] = LanesOf(Outstanding(w)'))
      BY <1>5, <2>4, <2>6, <2>7
    <3>2. \A T : LanesOf(T)' = LanesOf(T)
      BY DEF LanesOf
    <3> QED BY <2>8, <2>9, <2>10, <3>1, <3>2 DEF CountOK
  <2>12. ASSUME NEW u \in Warps, u # w PROVE CountOK(u)'
    <3>1. n_gmem'[u] = n_gmem[u] /\ n_atomic'[u] = n_atomic[u] /\ stores'[u] = stores[u] /\ sc_fence'[u] = sc_fence[u]
      BY <1>2, <2>2, <2>12
    <3>2. Stores(u)' = Stores(u)
      BY <1>1, <1>2, <2>12 DEF Stores
    <3> QED BY <1>5, <2>1, <2>12, <3>1, <3>2, CountSame DEF CountInv
  <2>13. /\ n_gmem' \in [Warps -> Int] /\ n_atomic' \in [Warps -> Int] /\ stores' \in [Warps -> Int]
         /\ sc_fence' \in [Warps -> BOOLEAN]
    BY <1>2, <1>3, <2>2, <2>3
  <2> QED BY <2>11, <2>12, <2>13 DEF CountInv
<1> QED BY <1>5, <1>7, <1>8, <1>9 DEF LaneInv

LEMMA LaneFenceAnswer ==
    ASSUME LaneInv, RegInv, BarInv, NEW w, FenceAnswer(w) \/ RegisterWrite
    PROVE  LaneInv'
<1>1. UNCHANGED <<pc, n_gmem, n_atomic, sc_fence, stores, ctaVars, coll, dispatch, ruby>>
  BY DEF FenceAnswer, RegisterWrite
<1>2. UnitOK /\ pc \in [Warps -> Nat] /\ (\A x \in Unit : x.warp \in Warps) /\ (\A a \in ruby : a.warp \in Warps)
  BY Warped
<1>3. ItemInv' /\ \A u : Outstanding(u)' = Outstanding(u) /\ InUnit(u)' = InUnit(u)
  <2>1. /\ \A x \in Unit : x.warp \in Warps /\ pc'[x.warp] >= pc[x.warp]
        /\ \A a \in ruby : a.warp \in Warps /\ pc'[a.warp] >= pc[a.warp]
        /\ ItemInv /\ pc' \in [Warps -> Nat]
    BY <1>1, <1>2 DEF LaneInv
  <2> QED BY <1>1, <1>2, <2>1, ItemQuiet
<1>4. Unit' = Unit
  BY <1>1 DEF Unit
<1>5. CountInv'
  BY <1>1, <1>3, CountQuiet DEF LaneInv
<1>6. MembarInv /\ DoneInv
  BY DEF LaneInv
<1>7. MembarInv'
  <2>1. CASE RegisterWrite
    <3>1. UNCHANGED <<membar, fences>>
      BY <2>1 DEF RegisterWrite
    <3> QED BY <1>4, <1>6, <3>1, MembarQuiet
  <2>2. CASE FenceAnswer(w)
    <3>1. w \in fences /\ fences' = fences \ {w} /\ membar' = [membar EXCEPT ![w] = FALSE]
      BY <2>2 DEF FenceAnswer
    <3>2. \A u \in Warps : u # w => membar'[u] = membar[u]
      BY <1>6, <3>1 DEF MembarInv
    <3>3. \A x \in Unit : x.op = "MEMBAR" => x.warp # w
      BY <1>6, <3>1 DEF MembarInv
    <3> QED BY <1>2, <1>4, <1>6, <3>1, <3>2, <3>3 DEF MembarInv
  <2> QED BY <2>1, <2>2
<1>8. DoneInv'
  <2>1. UNCHANGED <<pc, exited>> /\ active' = active
    BY <1>1 DEF ctaVars
  <2>2. wb' = wb \/ wb' = <<>>
    BY DEF FenceAnswer, RegisterWrite
  <2>3. \A u \in Warps : exited[u] => \A i \in DOMAIN wb' : wb'[i].warp # u \/ wb'[i].out = 0
    BY <1>6, <2>2 DEF DoneInv
  <2>4. \A u \in Warps : membar'[u] => membar[u]
    BY <1>6 DEF FenceAnswer, RegisterWrite, MembarInv
  <2>5. \A u \in Warps : /\ (membar'[u] => membar[u]) /\ Outstanding(u)' \subseteq Outstanding(u)
                         /\ InUnit(u) = {} => InUnit(u)' = {}
                         /\ exited[u] => \A i \in DOMAIN wb' : wb'[i].warp # u \/ wb'[i].out = 0
    BY <1>3, <2>3, <2>4
  <2> QED BY <1>6, <2>1, <2>5, DoneQuiet
<1> QED BY <1>3, <1>5, <1>7, <1>8 DEF LaneInv

\* Nothing is left of a warp whose registers are free, whose stores are counted
\* down and that has no instruction in the pipeline: its loads hold registers
\* and its atomics have kept it from its exit.
LEMMA LaneReclaim ==
    ASSUME LaneInv, RegInv, BarInv, NEW w \in Warps, Reclaim(w)
    PROVE  LaneInv'
<1>1. /\ functional_done(w) /\ stores[w] = 0 /\ ~inst_in_pipeline(w) /\ regs[w] = {}
      /\ exited' = [exited EXCEPT ![w] = TRUE] /\ active' = active
      /\ UNCHANGED <<pc, n_gmem, n_atomic, sc_fence, membar, stores, coll, dispatch, ruby, fences, wb>>
  BY DEF Reclaim, hardware_done, warpVars, ldstVars
<1>2. UnitOK /\ pc \in [Warps -> Nat] /\ (\A x \in Unit : x.warp \in Warps) /\ (\A a \in ruby : a.warp \in Warps)
  BY Warped
<1>3. ItemInv' /\ \A u : Outstanding(u)' = Outstanding(u) /\ InUnit(u)' = InUnit(u)
  <2>1. /\ \A x \in Unit : x.warp \in Warps /\ pc'[x.warp] >= pc[x.warp]
        /\ \A a \in ruby : a.warp \in Warps /\ pc'[a.warp] >= pc[a.warp]
        /\ ItemInv /\ pc' \in [Warps -> Nat]
    BY <1>1, <1>2 DEF LaneInv
  <2> QED BY <1>1, <1>2, <2>1, ItemQuiet
<1>4. Unit' = Unit
  BY <1>1 DEF Unit
<1>5. CountInv' /\ MembarInv'
  BY <1>1, <1>3, <1>4, CountQuiet, MembarQuiet DEF LaneInv
<1>6. DoneInv /\ ItemInv /\ CountOK(w)
  BY DEF LaneInv, CountInv
<1>7. \A x \in Unit : x.warp # w
  <2>1. CASE dispatch = <<>>
    BY <1>1, <1>2, <2>1, UnitIs DEF inst_in_pipeline
  <2>2. CASE dispatch # <<>>
    BY <1>1, <1>2, <2>2, UnitIs DEF inst_in_pipeline
  <2> QED BY <2>1, <2>2
<1>8. \A r \in Regs : Sent(w, r) = {} /\ ~Answered(w, r)
  BY <1>1 DEF RegInv, RegOK
<1>9. ASSUME NEW a \in ruby, a.warp = w PROVE FALSE
  <2>1. a.op \in {"LD", "ST", "ATOM"} /\ (a.op = "LD" => a.out # 0) /\ a.out \in Regs \cup {0}
    BY <1>2, <1>6 DEF ItemInv, UnitOK, AccOK
  <2>2. CASE a.op = "LD"
    BY <1>8, <1>9, <2>1, <2>2 DEF Sent
  <2>3. CASE a.op = "ST"
    <3>1. Stores(w) = {}
      BY <1>1, <1>6, FS_EmptySet DEF CountOK
    <3> QED BY <1>9, <2>3, <3>1 DEF Stores
  <2>4. CASE a.op = "ATOM"
    <3>1. IsOut(w, Acc(a, a.acc)) /\ Acc(a, a.acc).op = "ATOM"
      BY <1>9, <2>4 DEF IsOut, Acc
    <3>2. Acc(a, a.acc) \in Atomics(w)
      BY <3>1, OutMember DEF Atomics
    <3> QED BY <1>1, <1>6, <3>2 DEF DoneInv
  <2> QED BY <2>1, <2>2, <2>3, <2>4
<1>10. Outstanding(w) = {} /\ InUnit(w) = {}
  <2>1. ASSUME NEW e \in Outstanding(w) PROVE FALSE
    <3>1. IsOut(w, e)
      BY OutMember
    <3> QED BY <1>7, <1>9, <3>1 DEF IsOut
  <2>2. InUnit(w) = {x \in Unit : x.warp = w}
    BY DEF InUnit, Unit
  <2> QED BY <1>7, <2>1, <2>2
<1>11. ASSUME NEW i \in DOMAIN wb PROVE wb[i].warp # w \/ wb[i].out = 0
  <2>1. i = 1 /\ wb # <<>> /\ wb[1].out \in Regs \cup {0}
    BY <1>2, <1>11 DEF UnitOK, AccOK
  <2> QED BY <1>8, <2>1 DEF Answered
<1>12. DoneInv'
  <2>1. \A u \in Warps : /\ functional_done(u)' <=> functional_done(u)
                         /\ Atomics(u)' = Atomics(u)
    BY <1>1, <1>3 DEF functional_done, Atomics
  <2>2. exited' \in [Warps -> BOOLEAN] /\ \A u \in Warps : exited'[u] => exited[u] \/ u = w
    BY <1>1, <1>6 DEF DoneInv
  <2>3. \A u \in Warps : functional_done(u)' => u \notin active' /\ ~membar'[u] /\ Atomics(u)' = {}
    BY <1>1, <1>6, <2>1 DEF DoneInv
  <2>4. \A u \in Warps : exited'[u] =>
            /\ functional_done(u)' /\ InUnit(u)' = {} /\ Outstanding(u)' = {}
            /\ \A i \in DOMAIN wb' : wb'[i].warp # u \/ wb'[i].out = 0
    BY <1>1, <1>3, <1>6, <1>10, <1>11, <2>1, <2>2 DEF DoneInv
  <2> QED BY <2>2, <2>3, <2>4 DEF DoneInv
<1> QED BY <1>3, <1>5, <1>12 DEF LaneInv

\* The next CTA starts on contexts of which nothing is left.
LEMMA LaneLaunch ==
    ASSUME LaneInv, RegInv, BarInv, NEW c \in Ctas, Launch(c)
    PROVE  LaneInv'
<1> DEFINE fresh(f, v) == [w \in Warps |-> IF CtaOf[w] = c THEN v ELSE f[w]]
<1>1. /\ \A w \in Warps : CtaOf[w] = c => exited[w]
      /\ pc' = fresh(pc, 1) /\ exited' = fresh(exited, FALSE)
      /\ n_gmem' = fresh(n_gmem, 0) /\ n_atomic' = fresh(n_atomic, 0)
      /\ sc_fence' = fresh(sc_fence, FALSE) /\ membar' = fresh(membar, FALSE)
      /\ active' = active \cup WarpsOf(c)
      /\ UNCHANGED <<stores, coll, dispatch, ruby, fences, wb>>
  BY DEF Launch, WarpsOf, ldstVars
<1>2. UnitOK /\ pc \in [Warps -> Nat] /\ (\A x \in Unit : x.warp \in Warps) /\ (\A a \in ruby : a.warp \in Warps)
  BY Warped
<1>3. DoneInv /\ ItemInv /\ CountInv /\ MembarInv
  BY DEF LaneInv
<1>4. \A w \in Warps : CtaOf[w] = c => functional_done(w) /\ InUnit(w) = {} /\ Outstanding(w) = {} /\ ~membar[w]
  BY <1>1, <1>3 DEF DoneInv
<1>5. \A x \in Unit : CtaOf[x.warp] # c
  <2>1. \A w : InUnit(w) = {x \in Unit : x.warp = w}
    BY DEF InUnit, Unit
  <2> QED BY <1>2, <1>4, <2>1
<1>6. \A a \in ruby : CtaOf[a.warp] # c
  <2> SUFFICES ASSUME NEW a \in ruby PROVE CtaOf[a.warp] # c
    OBVIOUS
  <2>1. IsOut(a.warp, Acc(a, a.acc))
    BY DEF IsOut
  <2>2. Acc(a, a.acc) \in Outstanding(a.warp)
    BY <2>1, OutMember
  <2> QED BY <1>2, <1>4, <2>2
<1>7. /\ pc' \in [Warps -> Nat]
      /\ \A w \in Warps : CtaOf[w] = c => pc'[w] = 1
      /\ \A w \in Warps : CtaOf[w] # c => pc'[w] = pc[w]
  BY <1>1, <1>2
<1>8. ItemInv' /\ \A u : Outstanding(u)' = Outstanding(u) /\ InUnit(u)' = InUnit(u)
  <2>1. /\ \A x \in Unit : x.warp \in Warps /\ pc'[x.warp] >= pc[x.warp]
        /\ \A a \in ruby : a.warp \in Warps /\ pc'[a.warp] >= pc[a.warp]
    BY <1>2, <1>5, <1>6, <1>7
  <2> QED BY <1>1, <1>2, <1>3, <1>7, <2>1, ItemQuiet
<1>9. MembarInv'
  <2>1. Unit' = Unit
    BY <1>1 DEF Unit
  <2>2. membar' \in [Warps -> BOOLEAN] /\ \A w \in Warps : membar'[w] = membar[w]
    BY <1>1, <1>3, <1>4 DEF MembarInv
  <2> QED BY <1>1, <1>2, <1>3, <2>1, <2>2 DEF MembarInv
<1>10. CountInv'
  <2>1. \A w : Stores(w)' = Stores(w) /\ Atomics(w)' = Atomics(w) /\ \A S : LanesOf(S)' = LanesOf(S)
    BY <1>1, <1>8 DEF Stores, Atomics, LanesOf
  <2>2. /\ n_gmem' \in [Warps -> Int] /\ n_atomic' \in [Warps -> Int] /\ stores' \in [Warps -> Int]
        /\ sc_fence' \in [Warps -> BOOLEAN]
    <3>1. n_gmem' \in [Warps -> Int]
      BY <1>1, <1>3 DEF CountInv
    <3>2. n_atomic' \in [Warps -> Int]
      BY <1>1, <1>3 DEF CountInv
    <3>3. stores' \in [Warps -> Int]
      BY <1>1, <1>3 DEF CountInv
    <3>4. sc_fence' \in [Warps -> BOOLEAN]
      BY <1>1, <1>3 DEF CountInv
    <3> QED BY <3>1, <3>2, <3>3, <3>4
  <2>3. ASSUME NEW w \in Warps, CtaOf[w] # c PROVE CountOK(w)'
    <3>1. n_gmem'[w] = n_gmem[w] /\ n_atomic'[w] = n_atomic[w] /\ sc_fence'[w] = sc_fence[w] /\ stores'[w] = stores[w]
      BY <1>1, <2>3
    <3> QED BY <1>3, <1>8, <2>1, <3>1, CountSame DEF CountInv
  <2>4. ASSUME NEW w \in Warps, CtaOf[w] = c PROVE CountOK(w)'
    <3>1. n_gmem'[w] = 0 /\ n_atomic'[w] = 0 /\ sc_fence'[w] = FALSE /\ stores'[w] = stores[w]
      BY <1>1, <2>4
    <3>2. Outstanding(w)' = {} /\ Atomics(w)' = {}
      BY <1>4, <1>8, <2>4 DEF Atomics
    <3>3. LanesOf({}) = 0 /\ IsFiniteSet({})
      BY FS_EmptySet, LanesNone
    <3>4. LanesOf(Outstanding(w)') = 0 /\ LanesOf(Atomics(w)') = 0 /\ IsFiniteSet(Outstanding(w)')
      BY <3>2, <3>3
    <3>5. IsFiniteSet(Stores(w)') /\ stores'[w] = Cardinality(Stores(w)')
      BY <1>3, <2>1, <3>1 DEF CountInv, CountOK
    <3> QED BY <2>1, <3>1, <3>4, <3>5 DEF CountOK
  <2> QED BY <2>2, <2>3, <2>4 DEF CountInv
<1>11. DoneInv'
  <2>1. \A w \in Warps : CtaOf[w] = c => ~functional_done(w)'
    <3> SUFFICES ASSUME NEW w \in Warps, CtaOf[w] = c PROVE ~functional_done(w)'
      OBVIOUS
    <3>1. Code[w] \in Seq(SUBSET Inst) /\ Code[w] # <<>>
      BY CoreAssumption
    <3>2. Len(Code[w]) \in Nat /\ Len(Code[w]) >= 1
      BY <3>1
    <3> QED BY <1>7, <3>2 DEF functional_done
  <2>2. \A w \in Warps : CtaOf[w] # c => (functional_done(w)' <=> functional_done(w)) /\ membar'[w] = membar[w] /\ exited'[w] = exited[w]
    BY <1>1, <1>7 DEF functional_done
  <2>3. \A w : Atomics(w)' = Atomics(w)
    BY <1>8 DEF Atomics
  <2>4. exited' \in [Warps -> BOOLEAN] /\ \A w \in Warps : CtaOf[w] = c => ~exited'[w]
    BY <1>1, <1>3 DEF DoneInv
  <2>5. \A w \in Warps : CtaOf[w] # c => (w \in active' <=> w \in active)
    BY <1>1 DEF WarpsOf
  <2>6. \A w \in Warps : functional_done(w)' => w \notin active' /\ ~membar'[w] /\ Atomics(w)' = {}
    BY <1>3, <2>1, <2>2, <2>3, <2>5 DEF DoneInv
  <2>7. \A w \in Warps : exited'[w] =>
            /\ functional_done(w)' /\ InUnit(w)' = {} /\ Outstanding(w)' = {}
            /\ \A i \in DOMAIN wb' : wb'[i].warp # w \/ wb'[i].out = 0
    BY <1>1, <1>3, <1>8, <2>2, <2>4 DEF DoneInv
  <2> QED BY <2>4, <2>6, <2>7 DEF DoneInv
<1> QED BY <1>8, <1>9, <1>10, <1>11 DEF LaneInv

LEMMA LaneStutter ==
    ASSUME LaneInv, UNCHANGED corevars
    PROVE  LaneInv'
<1>1. UNCHANGED <<pc, n_gmem, n_atomic, sc_fence, membar, stores, active, exited, coll, dispatch, ruby, fences, wb>>
  BY DEF corevars, warpVars, ctaVars, ldstVars
<1>2. /\ Unit' = Unit /\ \A w : /\ Outstanding(w)' = Outstanding(w) /\ InUnit(w)' = InUnit(w)
                                /\ Atomics(w)' = Atomics(w) /\ functional_done(w)' <=> functional_done(w)
  BY <1>1 DEF Unit, Outstanding, InUnit, Atomics, functional_done
<1>3. ItemInv' /\ MembarInv'
  BY <1>1, <1>2 DEF LaneInv, ItemInv, MembarInv
<1>4. CountInv'
  BY <1>1, <1>2, CountQuiet DEF LaneInv
<1>5. DoneInv'
  <2>1. DoneInv
    BY DEF LaneInv
  <2>2. \A w \in Warps : /\ (membar'[w] => membar[w]) /\ Outstanding(w)' \subseteq Outstanding(w)
                         /\ InUnit(w) = {} => InUnit(w)' = {}
                         /\ exited[w] => \A i \in DOMAIN wb' : wb'[i].warp # w \/ wb'[i].out = 0
    BY <1>1, <1>2, <2>1 DEF DoneInv
  <2> QED BY <1>1, <2>1, <2>2, DoneQuiet
<1> QED BY <1>3, <1>4, <1>5 DEF LaneInv

LEMMA InitLane == CoreInit => LaneInv
<1> SUFFICES ASSUME CoreInit PROVE LaneInv
  OBVIOUS
<1>1. coll = {} /\ dispatch = <<>> /\ ruby = {} /\ fences = {} /\ wb = <<>>
  BY DEF CoreInit
<1>2. Unit = {} /\ DOMAIN dispatch = {} /\ DOMAIN wb = {}
  BY <1>1 DEF Unit
<1>3. \A w : InUnit(w) = {} /\ Outstanding(w) = {} /\ Stores(w) = {} /\ Atomics(w) = {}
  <2> SUFFICES ASSUME NEW w PROVE InUnit(w) = {} /\ Outstanding(w) = {} /\ Stores(w) = {} /\ Atomics(w) = {}
    OBVIOUS
  <2>1. InUnit(w) = {} /\ Stores(w) = {}
    BY <1>1, <1>2 DEF InUnit, Unit, Stores
  <2>2. Outstanding(w) = {}
    BY <1>1, <1>2, OutMember DEF IsOut
  <2> QED BY <2>1, <2>2 DEF Atomics
<1>4. ItemInv
  BY <1>1, <1>2 DEF ItemInv
<1>5. MembarInv
  BY <1>1, <1>2 DEF CoreInit, MembarInv
<1>6. CountInv
  <2>1. LanesOf({}) = 0 /\ IsFiniteSet({}) /\ Cardinality({}) = 0
    BY FS_EmptySet, LanesNone
  <2>2. \A w \in Warps : CountOK(w)
    BY <1>3, <2>1 DEF CoreInit, CountOK
  <2> QED BY <2>2 DEF CoreInit, CountInv
<1>7. DoneInv
  <2>1. \A w \in Warps : ~functional_done(w)
    <3> SUFFICES ASSUME NEW w \in Warps PROVE ~functional_done(w)
      OBVIOUS
    <3>1. Code[w] \in Seq(SUBSET Inst) /\ Code[w] # <<>>
      BY CoreAssumption
    <3>2. Len(Code[w]) \in Nat /\ Len(Code[w]) >= 1
      BY <3>1
    <3> QED BY <3>2 DEF CoreInit, functional_done
  <2> QED BY <2>1 DEF CoreInit, DoneInv
<1> QED BY <1>4, <1>5, <1>6, <1>7 DEF LaneInv

LEMMA NextLane == ExactCode /\ LaneInv /\ RegInv /\ BarInv /\ [CoreNext]_corevars => LaneInv'
<1> SUFFICES ASSUME ExactCode, LaneInv, RegInv, BarInv, [CoreNext]_corevars PROVE LaneInv'
  OBVIOUS
<1>1. ASSUME NEW w \in Warps, IssueMem(w) PROVE LaneInv'
  BY <1>1, LaneIssueMem
<1>2. ASSUME NEW w \in Warps, IssueMembar(w) PROVE LaneInv'
  BY <1>2, LaneIssueMembar
<1>3. ASSUME NEW w \in Warps, IssueBar(w) \/ IssueExit(w) PROVE LaneInv'
  BY <1>3, LaneIssueBar
<1>4. CASE Dispatch
  BY <1>4, LaneDispatch
<1>5. CASE MemoryCycle
  BY <1>5, LaneMemoryCycle
<1>6. CASE MembarCycle
  BY <1>6, LaneMembarCycle
<1>7. ASSUME NEW a \in ruby, Answer(a) PROVE LaneInv'
  BY <1>7, LaneAnswer
<1>8. ASSUME NEW w \in Warps, FenceAnswer(w) PROVE LaneInv'
  BY <1>8, LaneFenceAnswer
<1>9. ASSUME NEW w \in Warps, Reclaim(w) PROVE LaneInv'
  BY <1>9, LaneReclaim
<1>10. CASE RegisterWrite
  BY <1>10, LaneFenceAnswer
<1>11. ASSUME NEW c \in Ctas, Launch(c) PROVE LaneInv'
  BY <1>11, LaneLaunch
<1>12. CASE UNCHANGED corevars
  BY <1>12, LaneStutter
<1> QED BY <1>1, <1>2, <1>3, <1>4, <1>5, <1>6, <1>7, <1>8, <1>9, <1>10, <1>11, <1>12 DEF CoreNext, Idle

\* The lane counters of a warp agree with its outstanding accesses, for programs
\* whose memory instructions are exact: n_gmem (under SC) and n_atomic are the
\* lanes of the accesses that are not answered, for every way of coalescing and
\* every order of sending and answering.
THEOREM LanesStayCounted ==
    ASSUME ExactCode
    PROVE  CoreSpec => []LanesCounted
<1>1. LaneInv => LanesCounted
  BY DEF LaneInv, CountInv, CountOK, Atomics, LanesCounted
<1>2. CoreInit => LaneInv /\ RegInv /\ BarInv
  BY InitLane, InitReg, InitBar
<1>3. LaneInv /\ RegInv /\ BarInv /\ [CoreNext]_corevars => (LaneInv /\ RegInv /\ BarInv)'
  BY NextLane, NextReg, NextBar
<1> QED BY <1>1, <1>2, <1>3, PTL DEF CoreSpec

\* Reclaiming a context is safe, under SC (for exact programs) and under RC: what
\* hardware_done and the scoreboard look at implies that no access, fence,
\* barrier or counter of the old CTA is left.
THEOREM ReclaimStaysClean ==
    ASSUME ExactCode
    PROVE  CoreSpec => []CleanReclaim
<1>1. LaneInv /\ BarInv => CleanReclaim
  <2> SUFFICES ASSUME LaneInv, BarInv, NEW w \in Warps, exited[w]
               PROVE  /\ Outstanding(w) = {} /\ InUnit(w) = {} /\ w \notin fences
                      /\ n_gmem[w] = 0 /\ n_atomic[w] = 0 /\ ~sc_fence[w] /\ ~membar[w] /\ stores[w] = 0
                      /\ w \notin active \cup at_barrier
                      /\ \A i \in DOMAIN wb : wb[i].warp # w \/ wb[i].out = 0
    BY DEF CleanReclaim
  <2>1. /\ Outstanding(w) = {} /\ InUnit(w) = {} /\ functional_done(w)
        /\ \A i \in DOMAIN wb : wb[i].warp # w \/ wb[i].out = 0
    BY DEF LaneInv, DoneInv
  <2>2. ~membar[w] /\ w \notin active
    BY <2>1 DEF LaneInv, DoneInv
  <2>3. w \notin fences /\ w \notin at_barrier
    BY <2>2 DEF LaneInv, MembarInv, BarInv
  <2>4. CountOK(w)
    BY DEF LaneInv, CountInv
  <2>5. LanesOf({}) = 0 /\ Cardinality({}) = 0
    BY FS_EmptySet, LanesNone
  <2>6. Atomics(w) = {} /\ Stores(w) = {}
    <3>1. Atomics(w) = {}
      BY <2>1 DEF Atomics
    <3>2. ASSUME NEW a \in Stores(w) PROVE FALSE
      <4>1. IsOut(w, Acc(a, a.acc))
        BY <3>2 DEF Stores, IsOut
      <4> QED BY <2>1, <4>1, OutMember
    <3> QED BY <3>1, <3>2
  <2>7. n_gmem[w] = 0 /\ n_atomic[w] = 0 /\ stores[w] = 0
    BY <2>1, <2>4, <2>5, <2>6, CoreAssumption DEF CountOK
  <2>8. ~sc_fence[w]
    BY <2>4, <2>7 DEF CountOK
  <2> QED BY <2>1, <2>2, <2>3, <2>7, <2>8
<1>2. CoreInit => LaneInv /\ RegInv /\ BarInv
  BY InitLane, InitReg, InitBar
<1>3. LaneInv /\ RegInv /\ BarInv /\ [CoreNext]_corevars => (LaneInv /\ RegInv /\ BarInv)'
  BY NextLane, NextReg, NextBar
<1> QED BY <1>1, <1>2, <1>3, PTL DEF CoreSpec

-----------------------------------------------------------------------------
(* The SC fence.                                                            *)

\* Under SC every memory instruction of the program names the global or the
\* local space itself: issue_warp sets no fence for others.
FencedCode ==
    \A w \in Warps : \A k \in DOMAIN Code[w] : \A i \in Code[w][k] :
        IsMem(i) => i.space \in {"global", "local"}

\* The fence is up while lanes are outstanding, so that the next instruction of
\* the warp finds none.
FenceInv ==
    \A w \in Warps :
        /\ n_gmem[w] # 0 => sc_fence[w]
        /\ \A x, y \in Outstanding(w) : x.no = y.no
        /\ membar[w] => Outstanding(w) = {}

LEMMA FenceQuiet ==
    ASSUME FenceInv, UNCHANGED <<n_gmem, sc_fence>>,
           \A w \in Warps : Outstanding(w)' \subseteq Outstanding(w) /\ (membar'[w] => membar[w])
    PROVE  FenceInv'
BY DEF FenceInv

\* A warp whose fence is down has no outstanding access.
LEMMA FenceDown ==
    ASSUME is_SC, LaneInv, FenceInv, NEW w \in Warps, ~sc_fence[w]
    PROVE  Outstanding(w) = {} /\ n_gmem[w] = 0
<1>1. CountOK(w) /\ n_gmem[w] = 0
  BY DEF LaneInv, CountInv, FenceInv
<1>2. \A e \in Outstanding(w) : MaskOK(e.acc)
  BY OutOK DEF LaneInv
<1>3. LanesOf(Outstanding(w)) = 0 /\ IsFiniteSet(Outstanding(w))
  BY <1>1 DEF CountOK
<1> QED BY <1>1, <1>2, <1>3, LanesNone

LEMMA FenceIssueMem ==
    ASSUME is_SC, ExactCode, FencedCode, LaneInv, RegInv, BarInv, FenceInv, NEW w \in Warps, IssueMem(w)
    PROVE  FenceInv'
<1>1. PICK i \in Ready(w) :
        LET n == n_gmem[w] + Cardinality(CountedLanes(i)) IN
        /\ IsMem(i)
        /\ ~FenceStall(w, i)
        /\ n_gmem' = [n_gmem EXCEPT ![w] = IF is_SC THEN n ELSE @]
        /\ sc_fence' = [sc_fence EXCEPT ![w] = @ \/ SetFence(w, i, n)]
        /\ coll' = coll \cup {[warp |-> w, no |-> pc[w], op |-> i.op, out |-> i.out,
                               accs |-> Coalesced(i)]}
        /\ UNCHANGED <<membar, dispatch, ruby>>
  BY DEF IssueMem
<1>2. ~membar[w] /\ pc[w] \in DOMAIN Code[w] /\ i \in Code[w][pc[w]]
  BY IssuingOne
<1>3. Outstanding(w) = {} /\ n_gmem[w] = 0
  BY <1>1, FenceDown DEF FenceStall
<1>4. PICK n : n = n_gmem[w] + Cardinality(CountedLanes(i))
  OBVIOUS
<1>5. n \in Nat
  <2>1. Exact(i)
    BY <1>1, <1>2 DEF ExactCode
  <2>2. IsFiniteSet(CountedLanes(i))
    BY <2>1, CoreAssumption, FS_Subset DEF Exact, ActiveMask
  <2> QED BY <1>3, <1>4, <2>2, FS_CardinalityType
<1>6. n_gmem \in [Warps -> Int] /\ sc_fence \in [Warps -> BOOLEAN]
  BY DEF LaneInv, CountInv
<1>7. n_gmem'[w] = n /\ (sc_fence'[w] = (sc_fence[w] \/ SetFence(w, i, n)))
  BY <1>1, <1>4, <1>6
<1>8. i.space \in {"global", "local"}
  BY <1>1, <1>2 DEF FencedCode
<1>9. SetFence(w, i, n) <=> n > 0
  BY <1>8 DEF SetFence
<1>10. n_gmem'[w] # 0 => sc_fence'[w]
  <2>1. n # 0 => n > 0
    BY <1>5
  <2> QED BY <1>7, <1>9, <2>1
<1>11. PICK x : x = [warp |-> w, no |-> pc[w], op |-> i.op, out |-> i.out, accs |-> Coalesced(i)]
  OBVIOUS
<1>12. Unit' = Unit \cup {x} /\ x.no = pc[w] /\ x.warp = w
  BY <1>1, <1>11 DEF Unit
<1>13. \A e : ~IsOut(w, e)
  BY <1>3, OutMember
<1>14. ASSUME NEW e \in Outstanding(w)' PROVE e.no = pc[w]
  <2>1. IsOut(w, e)'
    BY OutMember
  <2>2. \A y \in Unit : y.warp = w => y.accs = {}
    BY <1>13 DEF IsOut
  <2>3. \A a \in ruby : a.warp # w
    BY <1>13 DEF IsOut
  <2> QED BY <1>1, <1>12, <2>1, <2>2, <2>3 DEF IsOut, Acc
<1>15. ASSUME NEW u \in Warps, u # w
       PROVE  /\ n_gmem'[u] = n_gmem[u] /\ sc_fence'[u] = sc_fence[u] /\ Outstanding(u)' = Outstanding(u)
  <2>1. InUnit(u)' = InUnit(u)
    BY <1>12, <1>15 DEF InUnit, Unit
  <2>2. Outstanding(u)' = Outstanding(u)
    BY <1>1, <2>1 DEF Outstanding
  <2> QED BY <1>1, <1>6, <1>15, <2>2
<1> QED BY <1>1, <1>2, <1>10, <1>14, <1>15 DEF FenceInv

LEMMA FenceAnswered ==
    ASSUME is_SC, LaneInv, RegInv, BarInv, FenceInv, NEW a \in ruby, Answer(a)
    PROVE  FenceInv'
<1>1. PICK w, n : w = a.warp /\ n = Cardinality(a.acc.mask)
  OBVIOUS
<1>2. /\ ruby' = ruby \ {a}
      /\ n_gmem' = [n_gmem EXCEPT ![w] = IF is_SC THEN n_gmem[w] - n ELSE @]
      /\ sc_fence' = [sc_fence EXCEPT ![w] = @ /\ n_gmem[w] - n # 0]
      /\ UNCHANGED <<pc, membar, coll, dispatch>>
  BY <1>1 DEF Answer
<1>3. UnitOK /\ ItemInv /\ w \in Warps
  BY <1>1, Warped DEF LaneInv
<1>4. /\ Acc(a, a.acc) \in Outstanding(w)
      /\ \A u : Outstanding(u)' \subseteq Outstanding(u)
  BY <1>1, <1>2, <1>3, ItemAnswer
<1>5. n_gmem \in [Warps -> Int] /\ sc_fence \in [Warps -> BOOLEAN]
  BY DEF LaneInv, CountInv
<1>6. sc_fence[w]
  BY <1>3, <1>4, FenceDown
<1>7. n_gmem'[w] # 0 => sc_fence'[w]
  BY <1>2, <1>3, <1>5, <1>6
<1>8. \A u \in Warps : u # w => n_gmem'[u] = n_gmem[u] /\ sc_fence'[u] = sc_fence[u]
  BY <1>2, <1>5
<1> QED BY <1>2, <1>4, <1>7, <1>8 DEF FenceInv

LEMMA NextFence ==
    is_SC /\ ExactCode /\ FencedCode /\ FenceInv /\ LaneInv /\ RegInv /\ BarInv /\ [CoreNext]_corevars
        => FenceInv'
<1> SUFFICES ASSUME is_SC, ExactCode, FencedCode, FenceInv, LaneInv, RegInv, BarInv, [CoreNext]_corevars
             PROVE  FenceInv'
  OBVIOUS
<1>1. UnitOK /\ ItemInv /\ membar \in [Warps -> BOOLEAN]
  BY DEF RegInv, LaneInv, MembarInv
<1>2. ASSUME NEW w \in Warps, IssueMem(w) PROVE FenceInv'
  BY <1>2, FenceIssueMem
<1>3. ASSUME NEW a \in ruby, Answer(a) PROVE FenceInv'
  BY <1>3, FenceAnswered
<1>4. ASSUME NEW w \in Warps, IssueMembar(w) PROVE FenceInv'
  <2>1. PICK i \in Ready(w) :
          /\ i.op = "MEMBAR" /\ ~FenceStall(w, i) /\ membar' = [membar EXCEPT ![w] = TRUE]
          /\ coll' = coll \cup {[warp |-> w, no |-> pc[w], op |-> i.op, out |-> 0, accs |-> {}]}
          /\ UNCHANGED <<n_gmem, sc_fence, dispatch, ruby>>
    BY <1>4 DEF IssueMembar
  <2>2. Outstanding(w) = {}
    BY <2>1, FenceDown DEF FenceStall
  <2>3. PICK x : x = [warp |-> w, no |-> pc[w], op |-> i.op, out |-> 0, accs |-> {}]
    OBVIOUS
  <2>4. Unit' = Unit \cup {x} /\ x.accs = {}
    BY <2>1, <2>3 DEF Unit
  <2>5. \A u : Outstanding(u)' = Outstanding(u)
    <3> SUFFICES ASSUME NEW u, NEW e PROVE IsOut(u, e)' <=> IsOut(u, e)
      BY OutMember
    <3> QED BY <2>1, <2>4 DEF IsOut
  <2>6. \A u \in Warps : u # w => membar'[u] = membar[u]
    BY <1>1, <2>1
  <2> QED BY <2>1, <2>2, <2>5, <2>6 DEF FenceInv
<1>5. CASE Dispatch
  <2>1. PICK x \in coll :
          /\ dispatch = <<>> /\ dispatch' = <<x>> /\ coll' = coll \ {x}
          /\ UNCHANGED <<pc, n_gmem, sc_fence, membar, ruby>>
    BY <1>5 DEF Dispatch
  <2>2. \A w : Outstanding(w)' = Outstanding(w)
    BY <1>1, <2>1, ItemDispatch
  <2> QED BY <2>1, <2>2, FenceQuiet
<1>6. CASE MemoryCycle
  <2>1. PICK x : x = dispatch[1]
    OBVIOUS
  <2>2. dispatch # <<>> /\ IsMem(x) /\ UNCHANGED <<pc, n_gmem, sc_fence, membar, coll>>
    BY <1>6, <2>1 DEF MemoryCycle
  <2>3. CASE x.accs = {} /\ Retire(x, {}) /\ ruby' = ruby
    <3>1. dispatch' = <<>>
      BY <2>3 DEF Retire
    <3>2. \A w : Outstanding(w)' = Outstanding(w)
      BY <1>1, <2>1, <2>2, <2>3, <3>1, ItemLeave
    <3> QED BY <2>2, <3>2, FenceQuiet
  <2>4. ASSUME NEW a \in x.accs, Retire(x, x.accs \ {a}),
               ruby' = ruby \cup {[warp |-> x.warp, no |-> x.no, op |-> x.op, out |-> x.out, acc |-> a]}
        PROVE  FenceInv'
    <3>1. PICK rest, m : /\ rest = x.accs \ {a}
                         /\ m = [warp |-> x.warp, no |-> x.no, op |-> x.op, out |-> x.out, acc |-> a]
      OBVIOUS
    <3>2. dispatch' = IF rest = {} THEN <<>> ELSE <<[x EXCEPT !.accs = rest]>>
      BY <2>4, <3>1 DEF Retire
    <3>3. ruby' = ruby \cup {m}
      BY <2>4, <3>1
    <3>4. \A w : Outstanding(w)' = Outstanding(w)
      BY <1>1, <2>1, <2>2, <2>4, <3>1, <3>2, <3>3, ItemSend
    <3> QED BY <2>2, <3>4, FenceQuiet
  <2> QED BY <1>6, <2>1, <2>3, <2>4 DEF MemoryCycle
<1>7. CASE MembarCycle
  <2>1. /\ dispatch # <<>> /\ dispatch[1].op = "MEMBAR" /\ dispatch' = <<>>
        /\ UNCHANGED <<pc, n_gmem, sc_fence, membar, coll, ruby>>
    BY <1>7 DEF MembarCycle, warpVars
  <2>2. dispatch[1] \in Unit
    BY <1>1, <2>1, UnitIs
  <2>3. dispatch[1].accs = {}
    BY <1>1, <2>1, <2>2 DEF ItemInv
  <2>4. \A w : Outstanding(w)' = Outstanding(w)
    BY <1>1, <2>1, <2>3, ItemLeave
  <2> QED BY <2>1, <2>4, FenceQuiet
<1>8. ASSUME \/ \E w \in Warps : IssueBar(w) \/ IssueExit(w) \/ FenceAnswer(w) \/ Reclaim(w)
             \/ RegisterWrite \/ UNCHANGED corevars
      PROVE  FenceInv'
  <2>1. /\ UNCHANGED <<n_gmem, sc_fence, coll, dispatch, ruby>>
        /\ membar' = membar \/ \E w \in Warps : membar' = [membar EXCEPT ![w] = FALSE]
    BY <1>8 DEF IssueBar, IssueExit, FenceAnswer, Reclaim, RegisterWrite, corevars, warpVars, ldstVars
  <2>2. \A w : Outstanding(w)' = Outstanding(w)
    BY <2>1 DEF Outstanding, InUnit
  <2>3. \A w \in Warps : membar'[w] => membar[w]
    BY <1>1, <2>1
  <2> QED BY <2>1, <2>2, <2>3, FenceQuiet
<1>9. ASSUME NEW c \in Ctas, Launch(c) PROVE FenceInv'
  <2> DEFINE fresh(f, v) == [w \in Warps |-> IF CtaOf[w] = c THEN v ELSE f[w]]
  <2>1. /\ n_gmem' = fresh(n_gmem, 0) /\ sc_fence' = fresh(sc_fence, FALSE)
        /\ membar' = fresh(membar, FALSE) /\ UNCHANGED <<coll, dispatch, ruby>>
    BY <1>9 DEF Launch, ldstVars
  <2>2. \A w : Outstanding(w)' = Outstanding(w)
    BY <2>1 DEF Outstanding, InUnit
  <2>3. \A w \in Warps : n_gmem'[w] # 0 => n_gmem'[w] = n_gmem[w] /\ sc_fence'[w] = sc_fence[w]
    BY <2>1
  <2>4. \A w \in Warps : membar'[w] => membar[w]
    BY <2>1
  <2> QED BY <2>2, <2>3, <2>4 DEF FenceInv
<1> QED BY <1>2, <1>3, <1>4, <1>5, <1>6, <1>7, <1>8, <1>9 DEF CoreNext, Idle

LEMMA InitFence == CoreInit => FenceInv
<1> SUFFICES ASSUME CoreInit, NEW w \in Warps PROVE Outstanding(w) = {}
  BY DEF CoreInit, FenceInv
<1>1. coll = {} /\ DOMAIN dispatch = {} /\ ruby = {}
  BY DEF CoreInit
<1> QED BY <1>1, OutMember DEF IsOut, Unit

\* Under SC, for exact programs in which every memory instruction names its
\* space, the accesses of a warp that are outstanding belong to one instruction:
\* the fence of issue_warp and the count that the answers take down keep the
\* memory instructions of a warp in program order.
THEOREM StayOneAtATime ==
    ASSUME is_SC, ExactCode, FencedCode
    PROVE  CoreSpec => []OneAtATime
<1>1. FenceInv => OneAtATime
  BY DEF FenceInv, OneAtATime
<1>2. CoreInit => FenceInv /\ LaneInv /\ RegInv /\ BarInv
  BY InitFence, InitLane, InitReg, InitBar
<1>3. FenceInv /\ LaneInv /\ RegInv /\ BarInv /\ [CoreNext]_corevars
        => (FenceInv /\ LaneInv /\ RegInv /\ BarInv)'
  BY NextFence, NextLane, NextReg, NextBar
<1> QED BY <1>1, <1>2, <1>3, PTL DEF CoreSpec

\* Under SC and for the same programs a warp waits at a memory barrier only when
\* all its accesses are complete: the fence, which issue_warp checks for a memory
\* barrier too, covers the stores that the scoreboard does not see.
THEOREM MembarsAfterWrites ==
    ASSUME is_SC, ExactCode, FencedCode
    PROVE  CoreSpec => []MembarAfterWrites
<1>1. FenceInv => MembarAfterWrites
  BY DEF FenceInv, MembarAfterWrites
<1>2. CoreInit => FenceInv /\ LaneInv /\ RegInv /\ BarInv
  BY InitFence, InitLane, InitReg, InitBar
<1>3. FenceInv /\ LaneInv /\ RegInv /\ BarInv /\ [CoreNext]_corevars
        => (FenceInv /\ LaneInv /\ RegInv /\ BarInv)'
  BY NextFence, NextLane, NextReg, NextBar
<1> QED BY <1>1, <1>2, <1>3, PTL DEF CoreSpec

=============================================================================
