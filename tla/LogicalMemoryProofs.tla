------------------------ MODULE LogicalMemoryProofs ------------------------
(***************************************************************************)
(* A memory in logical time is sequentially consistent when every write is  *)
(* put strictly after the reads of older versions (Gap = 1).  The order is  *)
(* the one by logical time, and by the order of the accesses within a tick. *)
(***************************************************************************)
EXTENDS LogicalMemory, WellFoundedInduction, TLAPS

\* The times of a warp do not go back.
WarpOrder ==
    \A i, j \in DOMAIN acc :
        i < j /\ acc[i].warp = acc[j].warp => acc[i].time <= acc[j].time

\* Versions and times of a line's writes grow with their order.
WriteOrder ==
    \A i, j \in DOMAIN acc :
        IsWrite(acc[i]) /\ IsWrite(acc[j]) /\ acc[i].addr = acc[j].addr /\ i < j
            => acc[i].ver < acc[j].ver /\ acc[i].time <= acc[j].time

\* A read comes after the write of its version, in both orders.
ReadsFrom ==
    \A i \in DOMAIN acc :
        ~IsWrite(acc[i]) /\ acc[i].ver > 0 =>
            \E j \in DOMAIN acc :
                /\ j < i
                /\ IsWrite(acc[j])
                /\ acc[j].addr = acc[i].addr
                /\ acc[j].ver = acc[i].ver
                /\ acc[j].time <= acc[i].time

\* A read comes before the writes of newer versions, in logical time.
ReadsBefore ==
    \A i, j \in DOMAIN acc :
        ~IsWrite(acc[i]) /\ IsWrite(acc[j]) /\ acc[i].addr = acc[j].addr
            /\ acc[i].ver < acc[j].ver
            => acc[i].time + Gap <= acc[j].time

\* Version 0 is never written.
Versions == \A i \in DOMAIN acc : IsWrite(acc[i]) => acc[i].ver > 0

OrderInv == TypeOK /\ Versions /\ WarpOrder /\ WriteOrder /\ ReadsFrom /\ ReadsBefore

\* What appending an access does to the sequence.
LEMMA Appended ==
    ASSUME TypeOK, NEW x, x \in Access, acc' = Append(acc, x)
    PROVE  /\ acc' \in Seq(Access)
           /\ DOMAIN acc = 1..Len(acc)
           /\ DOMAIN acc' = 1..(Len(acc) + 1)
           /\ acc'[Len(acc) + 1] = x
           /\ Len(acc) \in Nat
           /\ \A i \in DOMAIN acc : acc'[i] = acc[i] /\ acc[i] \in Access
  BY DEF TypeOK

\* Every access keeps the four orders.
LEMMA OrderStep ==
    ASSUME OrderInv, [Next]_acc, Gap \in Nat
    PROVE  OrderInv'
<1>1. CASE UNCHANGED acc
  BY <1>1 DEF OrderInv, TypeOK, Versions, WarpOrder, WriteOrder, ReadsFrom, ReadsBefore
<1>2. CASE Next
  <2> DEFINE x == acc'[Len(acc) + 1]
             n == Len(acc) + 1
  <2>1. x \in Access /\ acc' = Append(acc, x) /\ InProgramOrder(x) /\ (Read(x) \/ Write(x))
    BY <1>2 DEF Next
  <2>2. /\ acc' \in Seq(Access)
        /\ DOMAIN acc = 1..Len(acc)
        /\ DOMAIN acc' = 1..n
        /\ acc'[n] = x
        /\ Len(acc) \in Nat
        /\ \A i \in DOMAIN acc : acc'[i] = acc[i] /\ acc[i] \in Access
    BY <2>1, Appended DEF OrderInv
  <2> HIDE DEF x
  <2>3. /\ \A i \in DOMAIN acc' : i \in DOMAIN acc \/ i = n
        /\ \A i \in DOMAIN acc : i < n /\ i \in Nat
        /\ n \in Nat
    BY <2>2
  <2> HIDE DEF n
  <2>4. TypeOK'
    BY <2>2 DEF TypeOK
  <2>5. Versions'
    <3> SUFFICES ASSUME NEW i \in DOMAIN acc', IsWrite(acc'[i])
                 PROVE  acc'[i].ver > 0
      BY DEF Versions, IsWrite
    <3>1. CASE i \in DOMAIN acc
      BY <3>1, <2>2 DEF OrderInv, Versions, IsWrite
    <3>2. CASE i = n
      <4>1. Write(x) /\ x.ver \in Nat /\ \A j \in DOMAIN acc : acc[j].ver \in Nat
        BY <3>2, <2>1, <2>2 DEF Read, IsWrite, Access
      <4>2. x.ver = 1 \/ \E j \in DOMAIN acc : acc[j].ver = x.ver - 1
        BY <4>1 DEF Write
      <4>3. x.ver > 0
        BY <4>1, <4>2
      <4> QED BY <3>2, <4>3, <2>2
    <3> QED BY <3>1, <3>2, <2>3
  <2>6. WarpOrder'
    <3> SUFFICES ASSUME NEW i \in DOMAIN acc', NEW j \in DOMAIN acc', i < j,
                        acc'[i].warp = acc'[j].warp
                 PROVE  acc'[i].time <= acc'[j].time
      BY DEF WarpOrder
    <3>1. i \in DOMAIN acc
      BY <2>3
    <3>2. CASE j \in DOMAIN acc
      BY <3>1, <3>2, <2>2 DEF OrderInv, WarpOrder
    <3>3. CASE j = n
      BY <3>1, <3>3, <2>1, <2>2 DEF InProgramOrder
    <3> QED BY <3>2, <3>3, <2>3
  <2>7. WriteOrder'
    <3> SUFFICES ASSUME NEW i \in DOMAIN acc', NEW j \in DOMAIN acc', i < j,
                        IsWrite(acc'[i]), IsWrite(acc'[j]), acc'[i].addr = acc'[j].addr
                 PROVE  acc'[i].ver < acc'[j].ver /\ acc'[i].time <= acc'[j].time
      BY DEF WriteOrder, IsWrite
    <3>1. i \in DOMAIN acc
      BY <2>3
    <3>2. CASE j \in DOMAIN acc
      BY <3>1, <3>2, <2>2 DEF OrderInv, WriteOrder, IsWrite
    <3>3. CASE j = n
      BY <3>1, <3>3, <2>1, <2>2 DEF Read, Write, IsWrite
    <3> QED BY <3>2, <3>3, <2>3
  <2>8. ReadsFrom'
    <3> SUFFICES ASSUME NEW i \in DOMAIN acc', ~IsWrite(acc'[i]), acc'[i].ver > 0
                 PROVE  \E j \in DOMAIN acc' :
                            /\ j < i
                            /\ IsWrite(acc'[j])
                            /\ acc'[j].addr = acc'[i].addr
                            /\ acc'[j].ver = acc'[i].ver
                            /\ acc'[j].time <= acc'[i].time
      BY DEF ReadsFrom
    <3>1. CASE i \in DOMAIN acc
      BY <3>1, <2>2, <2>3 DEF OrderInv, ReadsFrom, IsWrite
    <3>2. CASE i = n
      <4>1. PICK j \in DOMAIN acc : /\ IsWrite(acc[j])
                                    /\ acc[j].addr = x.addr
                                    /\ acc[j].ver = x.ver
                                    /\ acc[j].time <= x.time
        BY <3>2, <2>1, <2>2 DEF Read, Write
      <4>2. j \in DOMAIN acc' /\ j < i /\ acc'[j] = acc[j] /\ acc'[i] = x
        BY <3>2, <2>2, <2>3
      <4> QED BY <4>1, <4>2 DEF IsWrite
    <3> QED BY <3>1, <3>2, <2>3
  <2>9. ReadsBefore'
    <3> SUFFICES ASSUME NEW i \in DOMAIN acc', NEW j \in DOMAIN acc',
                        ~IsWrite(acc'[i]), IsWrite(acc'[j]), acc'[i].addr = acc'[j].addr,
                        acc'[i].ver < acc'[j].ver
                 PROVE  acc'[i].time + Gap <= acc'[j].time
      BY DEF ReadsBefore
    <3>1. CASE i \in DOMAIN acc /\ j \in DOMAIN acc
      BY <3>1, <2>2 DEF OrderInv, ReadsBefore
    <3>2. CASE i = n /\ j \in DOMAIN acc
      BY <3>2, <2>1, <2>2 DEF Read, Write, IsWrite
    <3>3. CASE i \in DOMAIN acc /\ j = n
      BY <3>3, <2>1, <2>2 DEF Read, Write, IsWrite
    <3>4. CASE i = n /\ j = n
      BY <3>4
    <3> QED BY <3>1, <3>2, <3>3, <3>4, <2>3
  <2> QED BY <2>4, <2>5, <2>6, <2>7, <2>8, <2>9 DEF OrderInv
<1> QED BY <1>1, <1>2

\* An access that must precede another does so in logical time, or in the
\* order of the accesses within one tick.
LEMMA BeforeIsEarlier ==
    ASSUME OrderInv, Gap = 1, NEW i \in DOMAIN acc, NEW j \in DOMAIN acc, Before(i, j)
    PROVE  acc[i].time < acc[j].time \/ (acc[i].time = acc[j].time /\ i < j)
<1> acc[i] \in Access /\ acc[j] \in Access /\ DOMAIN acc \subseteq Nat
  BY DEF OrderInv, TypeOK
<1>1. CASE acc[i].warp = acc[j].warp /\ i < j
  BY <1>1 DEF OrderInv, WarpOrder, Access
<1>2. CASE acc[i].addr = acc[j].addr /\ Turn(acc[i]) < Turn(acc[j])
  <2>1. CASE IsWrite(acc[i]) /\ IsWrite(acc[j])
    <3>1. acc[i].ver < acc[j].ver
      BY <1>2, <2>1 DEF Turn, Access
    <3>2. i < j
      BY <1>2, <2>1, <3>1 DEF OrderInv, WriteOrder, Access
    <3> QED BY <1>2, <2>1, <3>2 DEF OrderInv, WriteOrder, Access
  <2>2. CASE IsWrite(acc[i]) /\ ~IsWrite(acc[j])
    <3>1. acc[i].ver <= acc[j].ver
      BY <1>2, <2>2 DEF Turn, Access
    <3>2. acc[j].ver > 0
      BY <2>2, <3>1 DEF OrderInv, Versions, Access
    <3>3. PICK k \in DOMAIN acc : /\ k < j
                                  /\ IsWrite(acc[k])
                                  /\ acc[k].addr = acc[j].addr
                                  /\ acc[k].ver = acc[j].ver
                                  /\ acc[k].time <= acc[j].time
      BY <2>2, <3>2 DEF OrderInv, ReadsFrom
    <3>4. acc[k] \in Access
      BY DEF OrderInv, TypeOK
    <3>5. i <= k
      BY <1>2, <2>2, <3>1, <3>3, <3>4 DEF OrderInv, WriteOrder, Access
    <3>6. acc[i].time <= acc[k].time
      BY <1>2, <2>2, <3>3, <3>4, <3>5 DEF OrderInv, WriteOrder, Access
    <3> QED BY <3>3, <3>4, <3>5, <3>6 DEF Access
  <2>3. CASE ~IsWrite(acc[i]) /\ IsWrite(acc[j])
    <3>1. acc[i].ver < acc[j].ver
      BY <1>2, <2>3 DEF Turn, Access
    <3> QED BY <1>2, <2>3, <3>1 DEF OrderInv, ReadsBefore, Access
  <2>4. CASE ~IsWrite(acc[i]) /\ ~IsWrite(acc[j])
    <3>1. acc[i].ver < acc[j].ver
      BY <1>2, <2>4 DEF Turn, Access
    <3>2. PICK k \in DOMAIN acc : /\ k < j
                                  /\ IsWrite(acc[k])
                                  /\ acc[k].addr = acc[j].addr
                                  /\ acc[k].ver = acc[j].ver
                                  /\ acc[k].time <= acc[j].time
      BY <2>4, <3>1 DEF OrderInv, ReadsFrom, Access
    <3>3. acc[k] \in Access
      BY DEF OrderInv, TypeOK
    <3>4. acc[i].time + 1 <= acc[k].time
      BY <1>2, <2>4, <3>1, <3>2 DEF OrderInv, ReadsBefore
    <3> QED BY <3>2, <3>3, <3>4 DEF Access
  <2> QED BY <2>1, <2>2, <2>3, <2>4
<1> QED BY <1>1, <1>2 DEF Before

\* A set of natural numbers has a smallest one.
LEMMA Smallest ==
    ASSUME NEW T, T \subseteq Nat, T # {}
    PROVE  \E x \in T : \A y \in T : x <= y
<1> DEFINE R == OpToRel(<, Nat)
<1>1. IsWellFoundedOn(R, Nat)
  BY NatLessThanWellFounded
<1>2. \A x, y \in Nat : <<y, x>> \in R <=> y < x
  BY DEF OpToRel
<1> HIDE DEF R
<1>3. PICK x \in T : \A y \in T : ~(<<y, x>> \in R)
  BY <1>1, WFMin
<1>4. \A y \in T : x \in Nat /\ y \in Nat /\ ~(y < x)
  BY <1>2, <1>3
<1>5. \A y \in T : x <= y
  BY <1>4
<1> QED BY <1>5

\* A set of accesses has one that is earliest, and nothing in the set must
\* precede it.
LEMMA FirstAccess ==
    ASSUME OrderInv, Gap = 1
    PROVE  SequentialConsistency
<1> SUFFICES ASSUME NEW S \in SUBSET DOMAIN acc, S # {}
             PROVE  \E i \in S : \A j \in S : ~Before(j, i)
  BY DEF SequentialConsistency
<1>1. \A i \in S : i \in DOMAIN acc /\ i \in Nat /\ acc[i].time \in Nat
  <2>1. acc \in Seq(Access)
    BY DEF OrderInv, TypeOK
  <2>2. \A i \in DOMAIN acc : i \in Nat /\ acc[i] \in Access
    BY <2>1
  <2> QED BY <2>2 DEF Access
<1> DEFINE T == {acc[i].time : i \in S}
<1>2. PICK t \in T : \A u \in T : t <= u
  <2>1. T \subseteq Nat /\ T # {}
    BY <1>1
  <2> QED BY <2>1, Smallest
<1> DEFINE F == {i \in S : acc[i].time = t}
<1>3. PICK f \in F : \A i \in F : f <= i
  <2>1. F \subseteq Nat /\ F # {}
    BY <1>1
  <2> QED BY <2>1, Smallest
<1>4. \A j \in S : ~Before(j, f)
  <2> SUFFICES ASSUME NEW j \in S, Before(j, f) PROVE FALSE
    OBVIOUS
  <2>1. acc[j].time < acc[f].time \/ (acc[j].time = acc[f].time /\ j < f)
    BY BeforeIsEarlier
  <2>2. acc[j].time \in T /\ acc[f].time = t /\ t <= acc[j].time
    BY <1>2, <1>3
  <2>3. t \in Nat /\ j \in Nat /\ f \in Nat /\ acc[j].time \in Nat
    BY <1>1, <1>2, <1>3
  <2>4. acc[j].time = t /\ j < f
    BY <2>1, <2>2, <2>3
  <2> QED BY <1>3, <2>3, <2>4
<1> QED BY <1>3, <1>4

\* The memory that RCC implements when no line is evicted is sequentially
\* consistent, for any number of warps, lines and accesses: leases and clocks
\* need no more than logical times in which a write follows, strictly, the
\* reads of older versions.
THEOREM SequentiallyConsistent ==
    ASSUME Gap = 1
    PROVE  Spec => []SequentialConsistency
<1>1. Init => OrderInv
  BY DEF Init, OrderInv, TypeOK, Versions, WarpOrder, WriteOrder, ReadsFrom, ReadsBefore
<1>2. OrderInv /\ [Next]_acc => OrderInv'
  BY OrderStep
<1>3. OrderInv => SequentialConsistency
  BY FirstAccess
<1> QED BY <1>1, <1>2, <1>3, PTL DEF Spec
=============================================================================
