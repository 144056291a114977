--------------------------- MODULE LogicalMemory ---------------------------
(***************************************************************************)
(* What relativistic coherence promises, without caches: one memory whose   *)
(* accesses happen at logical times.  A warp's accesses never go back in    *)
(* time.  A write may be put at any time that no write and no read of the   *)
(* line has passed yet; a read may be put at any time at which its version  *)
(* is the one in force, also after newer versions were written.             *)
(***************************************************************************)
EXTENDS Integers, Sequences

CONSTANTS
    Warps,
    Addrs,
    Gap     \* ticks a write stays behind every read of an older version

VARIABLE acc    \* the accesses in the order in which they were performed

Access == [warp: Warps, op: {"LD", "ST", "ATOMIC"}, addr: Addrs, ver: Nat, time: Nat]

IsWrite(x) == x.op # "LD"

Init == acc = <<>>

\* The accesses of a warp follow each other in logical time.
InProgramOrder(x) ==
    \A i \in DOMAIN acc : acc[i].warp = x.warp => acc[i].time <= x.time

\* Version x.ver is in force at x.time, or still is Gap ticks before the
\* next one is written.
Read(x) ==
    /\ ~IsWrite(x)
    /\ x.ver > 0 => \E i \in DOMAIN acc :
          IsWrite(acc[i]) /\ acc[i].addr = x.addr /\ acc[i].ver = x.ver /\ acc[i].time <= x.time
    /\ \A i \in DOMAIN acc :
          IsWrite(acc[i]) /\ acc[i].addr = x.addr /\ acc[i].ver > x.ver
              => x.time + Gap <= acc[i].time

\* The next version of the line, after everything that was done to it.
Write(x) ==
    /\ IsWrite(x)
    /\ x.ver = 1 \/ \E i \in DOMAIN acc :
          IsWrite(acc[i]) /\ acc[i].addr = x.addr /\ acc[i].ver = x.ver - 1
    /\ \A i \in DOMAIN acc : acc[i].addr = x.addr =>
          /\ acc[i].ver < x.ver
          /\ IF IsWrite(acc[i]) THEN acc[i].time <= x.time ELSE acc[i].time + Gap <= x.time

Next ==
    /\ Len(acc') = Len(acc) + 1
    /\ LET x == acc'[Len(acc) + 1] IN
       /\ x \in Access
       /\ acc' = Append(acc, x)
       /\ InProgramOrder(x)
       /\ Read(x) \/ Write(x)

Spec == Init /\ [][Next]_acc

-----------------------------------------------------------------------------
TypeOK == acc \in Seq(Access)

\* Version v of a line is written, then read, then version v + 1 is written.
Turn(x) == IF IsWrite(x) THEN 2 * x.ver ELSE 2 * x.ver + 1

\* Access i must precede access j: program order, or one of them wrote what
\* the other read or overwrote.
Before(i, j) ==
    \/ acc[i].warp = acc[j].warp /\ i < j
    \/ acc[i].addr = acc[j].addr /\ Turn(acc[i]) < Turn(acc[j])

\* Every set of accesses has a first one.
SequentialConsistency ==
    \A S \in SUBSET DOMAIN acc : S # {} => \E i \in S : \A j \in S : ~Before(j, i)
=============================================================================
