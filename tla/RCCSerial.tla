----------------------------- MODULE RCCSerial -----------------------------
(***************************************************************************)
(* RCC implements a memory in logical time.  Two history variables record   *)
(* what the refinement needs: the accesses in the order in which they take  *)
(* effect, a write when the L2 applies it, a read when the writeback stage  *)
(* hands it to its warp; and the logical time of the read under way.        *)
(*                                                                          *)
(* The logical time of a load is the core's clock when the L1 served it     *)
(* or asked for it, or the time of the write it reads if that is later.     *)
(* The core's clock at the arrival of the data will not do: responses to    *)
(* other warps may have moved it past the lease by then.                    *)
(***************************************************************************)
EXTENDS RCCProperties

CONSTANT Gap    \* of LogicalMemory: 1 without evictions, 0 with them

ASSUME GapAssumption == Gap \in Nat

VARIABLES
    acc,        \* history: accesses in the order in which they took effect
    at          \* history: at[c][a], logical time of c's read of a under way

svars == <<vars, acc, at>>

SerialInit ==
    /\ Init
    /\ acc = <<>>
    /\ at = [c \in Cores |-> [a \in Addrs |-> 0]]

Performed(w, op, a, v, t) ==
    acc' = Append(acc, [warp |-> w, op |-> op, addr |-> a, ver |-> v, time |-> t])

\* The L1 serves a load or asks for its line.
Load(c) ==
    /\ LoadHit(c) \/ LoadMiss(c)
    /\ at' = [at EXCEPT ![c][Head(mandQ[c]).addr] = pts[c]]
    /\ UNCHANGED <<l2Vars, acc>>

Arrive(c, b) ==
    LET m == Head(respNet[b][c]) IN
    /\ Data(c, b)
    /\ at' = [at EXCEPT ![c][m.addr] = getTimeMax(@, m.wts)]
    /\ UNCHANGED <<l2Vars, acc>>

L1Rest(c) ==
    /\ \/ WriteThrough(c)
       \/ \E v \in Addrs : L1_Replacement(c, v)
       \/ \E b \in Banks : WriteDone(c, b)
    /\ UNCHANGED <<l2Vars, acc, at>>

ReadBack(c) ==
    LET a == Head(ready[c]) IN
    /\ Writeback(c)
    /\ Performed(Head(mshr[c][a].list), "LD", a, mshr[c][a].ver, at[c][a])
    /\ UNCHANGED at

\* A request that the bank takes; a write is applied unless it waits for a
\* fetch.
Bank(b) ==
    LET r == Head(l2in[b])
        a == r.addr
    IN
    /\ L2Step(b)
    /\ IF wtimes' = wtimes
         THEN UNCHANGED acc
         ELSE Performed(r.warp, IF r.type = "DATA" THEN "ST" ELSE "ATOMIC", a,
                        Newest(a) + 1, wtimes'[a][Newest(a) + 1])
    /\ UNCHANGED at

\* The fetch of an atomic ends.
FetchedAtomic(a) ==
    /\ MemDataAtomic(a) /\ UNCHANGED <<coreVars, l1Vars>>
    /\ \E w \in l2tbe[a].wback :
          Performed(w, "ATOMIC", a, Newest(a) + 1, wtimes'[a][Newest(a) + 1])
    /\ UNCHANGED at

SerialNext ==
    \/ \E c \in Cores : Load(c) \/ L1Rest(c) \/ ReadBack(c)
    \/ \E c \in Cores, b \in Banks : Arrive(c, b)
    \/ \E b \in Banks : Bank(b)
    \/ \E a \in Addrs : FetchedAtomic(a)
    \/ /\ \/ \E w \in Warps : Issue(w)
          \/ \E c \in Cores : WriteAck(c)
          \/ \E c \in Cores, b \in Banks : Network(c, b)
          \/ \E a \in Addrs : MemData(a) /\ UNCHANGED <<coreVars, l1Vars>>
          \/ Terminated
       /\ UNCHANGED <<acc, at>>

SerialSpec == SerialInit /\ [][SerialNext]_svars

-----------------------------------------------------------------------------
Memory == INSTANCE LogicalMemory

\* The L1s, the banks, the network and the DRAM together behave like a memory
\* in logical time: each write is timed after every access to the line that
\* was promised before it (tw, wat, mt, setmts) and each load, by whichever of
\* a hit, a fetch or another core's lease, reads the version in force at a
\* time that is not before its warp's last access (isLive, tp).
ImplementsMemory == Memory!Spec

Strip(x) == [op |-> x.op, addr |-> x.addr, ver |-> x.ver]

\* What the memory did is what the warps are told: the completed accesses of a
\* warp are its accesses to the memory in that order, but for the one that has
\* taken effect and whose acknowledgement is on its way.
WarpsSeeMemory ==
    \A w \in Warps :
        LET mine(x) == x.warp = w
            done == SelectSeq(acc, mine)
        IN /\ Len(done) - Len(log[w]) \in 0..n_gmem[w]
           /\ \A i \in DOMAIN log[w] : log[w][i] = Strip(done[i])
=============================================================================
