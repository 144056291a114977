----------------------------- MODULE RCCRefines -----------------------------
(***************************************************************************)
(* The L1s, the banks, the network and the DRAM implement a memory in       *)
(* logical time (LogicalMemory), for every GPU, every lease and every       *)
(* program.  Where lines are evicted from the L2 a write may share the last *)
(* tick of a lease on the version before (Gap = 0); where they fit it is    *)
(* after it (Gap = 1), and the accesses are sequentially consistent.        *)
(*                                                                          *)
(* A load that joins the MSHR entry of a load under way is given that       *)
(* load's logical time, which may lie before its warp's last access: a warp *)
(* that has seen a newer line can join an older load of another line (run   *)
(* sc_merge).  So loads must not be merged: an entry takes one load, or     *)
(* each core runs one warp.                                                 *)
(*                                                                          *)
(* The last section is about the lines an L1 asks for again (for every      *)
(* system): a lease newer than the last write to its line has run out.      *)
(***************************************************************************)
EXTENDS RCCInFlight, RCCSerial

\* How far writes stay from the reads of older versions.
GapOK == Gap = 0 \/ (Gap = 1 /\ LinesFit)

NoMerge == MaxMerged = 1 \/ \A w, u \in Warps : CoreOf[w] = CoreOf[u] => w = u

\* A line in a readable state has a block, and its TBE the same lease.
LineOK(c, a) ==
    /\ st[c][a] \in {"S", "SM"} => line[c][a].have
    /\ st[c][a] = "SM" => tbe[c][a].rts = line[c][a].rts

LinesOK == \A c \in Cores, a \in Addrs : LineOK(c, a)

-----------------------------------------------------------------------------
(* Reads under way: their logical time is covered by the lease they ask     *)
(* for, are sent or were given.                                             *)

GetsTimed(m) == m.type = "GETS" => at[CoreOf[m.warp]][m.addr] <= m.pts

FetchTimed(a) == \A w \in l2tbe[a].gets : at[CoreOf[w]][a] <= l2tbe[a].max_read_pts

DataTimed(m, c) == m.type = "DATA" => at[c][m.addr] <= m.rts /\ m.wts <= m.rts

\* The read's version is the one in force at its time.
ReadTimed(c, a) ==
    Covered(a, mshr[c][a].ver, at[c][a]) /\ Reached(a, mshr[c][a].ver, at[c][a])

ReadsTimed ==
    /\ \A c \in Cores, b \in Banks : \A i \in DOMAIN reqNet[c][b] : GetsTimed(reqNet[c][b][i])
    /\ \A b \in Banks : \A i \in DOMAIN l2in[b] : GetsTimed(l2in[b][i])
    /\ \A a \in Addrs : FetchTimed(a)
    /\ \A b \in Banks, c \in Cores : \A i \in DOMAIN respNet[b][c] : DataTimed(respNet[b][c][i], c)
    /\ \A c \in Cores : \A i \in DOMAIN ready[c] : ReadTimed(c, ready[c][i])

AtInv ==
    /\ at \in [Cores -> [Addrs -> Nat]]
    /\ \A c \in Cores, a \in Addrs : at[c][a] <= pts[c]
    /\ ReadsTimed

-----------------------------------------------------------------------------
(* Accesses performed.                                                      *)

\* The writes among them are the versions of the lines.
AccWrites ==
    /\ \A i \in DOMAIN acc : acc[i].op # "LD" =>
          acc[i].ver \in 1..Newest(acc[i].addr) /\ acc[i].time = wtimes[acc[i].addr][acc[i].ver]
    /\ \A a \in Addrs : \A v \in 1..Newest(a) :
          \E i \in DOMAIN acc : acc[i].op # "LD" /\ acc[i].addr = a /\ acc[i].ver = v

\* No write ends a read's version before the read's time.
AccReads == \A i \in DOMAIN acc : acc[i].op = "LD" => Covered(acc[i].addr, acc[i].ver, acc[i].time)

\* The accesses of warp w are not later than t.
Earlier(w, t) == \A i \in DOMAIN acc : acc[i].warp = w => acc[i].time <= t

\* A core's clock has passed its warps' accesses, or is about to.
Acked(x) ==
    LET c == CoreOf[x.warp] IN
    \/ x.time <= pts[c]
    \/ \E b \in Banks : \E i \in DOMAIN respNet[b][c] :
          LET m == respNet[b][c][i] IN m.type # "DATA" /\ m.warp = x.warp /\ x.time <= m.wts

\* The access that a warp has under way is not before its others.
WriteOrdered(m) == m.type # "GETS" => Earlier(m.warp, m.pts)

InOrder ==
    /\ \A c \in Cores, b \in Banks : \A i \in DOMAIN reqNet[c][b] : WriteOrdered(reqNet[c][b][i])
    /\ \A b \in Banks : \A i \in DOMAIN l2in[b] : WriteOrdered(l2in[b][i])
    /\ \A a \in Addrs : l2st[a] = "IAV" =>
          \A w \in l2tbe[a].wback : Earlier(w, l2tbe[a].max_write_pts)
    /\ \A w \in Warps, a \in Addrs :
          Reads(w, a) /\ ~Held(<<"R", CoreOf[w], a>>, "mand") => Earlier(w, at[CoreOf[w]][a])

\* The writes to a line, pairwise.
Sorted == \A a \in Addrs : \A u, v \in 1..Newest(a) : u <= v => wtimes[a][u] <= wtimes[a][v]

AccInv ==
    /\ acc \in Seq(Memory!Access)
    /\ AccWrites /\ AccReads
    /\ \A i \in DOMAIN acc : Acked(acc[i])
    /\ InOrder
    /\ Sorted

-----------------------------------------------------------------------------
(* The steps with the histories are steps of the system.                    *)

\* Every step of SerialSpec is one of Spec.
LEMMA StepOfRCC == [SerialNext]_svars => [Next]_vars
<1> SUFFICES ASSUME [SerialNext]_svars PROVE [Next]_vars
  OBVIOUS
<1>1. ASSUME NEW c \in Cores, Load(c) \/ L1Rest(c) \/ ReadBack(c) PROVE Next
  BY <1>1 DEF Load, L1Rest, ReadBack, Next, L1Step, L1Next
<1>2. ASSUME NEW c \in Cores, NEW b \in Banks, Arrive(c, b) PROVE Next
  BY <1>2 DEF Arrive, Next, L1Step, L1Next
<1>3. ASSUME NEW b \in Banks, Bank(b) PROVE Next
  BY <1>3 DEF Bank, Next
<1>4. ASSUME NEW a \in Addrs, FetchedAtomic(a) PROVE Next
  BY <1>4 DEF FetchedAtomic, Next, Dram
<1>5. ASSUME NEW a \in Addrs, MemData(a), UNCHANGED <<coreVars, l1Vars>> PROVE Next
  BY <1>5 DEF Next, Dram
<1>6. CASE UNCHANGED svars
  BY <1>6 DEF svars
<1> QED BY <1>1, <1>2, <1>3, <1>4, <1>5, <1>6 DEF SerialNext, Next

\* What Spec keeps, SerialSpec keeps.
LEMMA SpecOfRCC == SerialSpec => Spec
<1>1. SerialInit => Init
  BY DEF SerialInit
<1> QED BY <1>1, StepOfRCC, PTL DEF SerialSpec, Spec

\* Writes are appended to a line's history, and no step takes away a version.
LEMMA NextKept ==
    ASSUME TypeOK, WriteInv, [Next]_vars
    PROVE  Kept
<1>1. CASE UNCHANGED l2Vars
  BY <1>1, KeptByCores DEF l2Vars
<1>2. ASSUME NEW b \in Banks, L2Step(b) PROVE Kept
  <2>1. CASE GetsMiss(b) \/ AtomicMiss(b)
    BY <2>1, KeptByCores DEF GetsMiss, AtomicMiss
  <2>2. CASE WriteMiss(b)
    BY <2>2, WriteMissAnswer
  <2>3. CASE GetsHit(b)
    BY <2>3, GetsHitAnswer
  <2>4. ASSUME NEW t \in {"DATA", "DATA_ATOMIC"}, WriteHit(b, t)
        PROVE  Kept
    BY <2>4, WriteHitAnswer
  <2>5. ASSUME NEW v \in Addrs, L2_Replacement(b, v) PROVE Kept
    BY <2>5, KeptByCores DEF L2_Replacement
  <2> QED BY <1>2, <2>1, <2>2, <2>3, <2>4, <2>5 DEF L2Step, L2Next
<1>3. ASSUME NEW a \in Addrs, MemData(a) PROVE Kept
  BY <1>3, KeptByCores DEF MemData
<1>4. ASSUME NEW a \in Addrs, MemDataAtomic(a) PROVE Kept
  <2>2. PICK t \in Nat : wtimes' = [wtimes EXCEPT ![a] = Append(@, t)]
    <3>1. PICK f \in L2Entry : f = FilledEntry(a) /\ f.wts \in Nat
      BY FillFacts DEF L2Entry
    <3>2. wtimes' = [wtimes EXCEPT ![a] = Append(@, [f EXCEPT !.ver = Newest(a) + 1].wts)]
      BY <1>4, <3>1 DEF MemDataAtomic
    <3>3. [f EXCEPT !.ver = Newest(a) + 1].wts = f.wts
      BY <3>1 DEF L2Entry
    <3> QED BY <3>1, <3>2, <3>3
  <2> QED BY <2>2, KeptByAppend DEF TypeOK, L2TypeOK
<1>5. ASSUME NEW w \in Warps, Issue(w) PROVE UNCHANGED l2Vars
  BY <1>5 DEF Issue
<1>6. ASSUME NEW c \in Cores, Writeback(c) \/ WriteAck(c) \/ L1Step(c) PROVE UNCHANGED l2Vars
  BY <1>6 DEF Writeback, WriteAck, L1Step
<1>7. ASSUME NEW c \in Cores, NEW b \in Banks, Network(c, b) PROVE UNCHANGED l2Vars
  BY <1>7 DEF Network
<1>8. CASE UNCHANGED vars
  BY <1>1, <1>8 DEF vars
<1> QED BY <1>1, <1>2, <1>3, <1>4, <1>5, <1>6, <1>7, <1>8 DEF Next, Terminated, Dram

-----------------------------------------------------------------------------
(* Lines.                                                                   *)

\* A load that hits finds a lease that has not run out.
LEMMA HitFacts ==
    ASSUME TypeOK, LinesOK, NEW c \in Cores, NEW a \in Addrs, getState(c, a) \in {"S", "SM"}
    PROVE  st[c][a] = getState(c, a) /\ line[c][a].have /\ pts[c] <= line[c][a].rts
<1>1. st[c][a] \in L1State /\ pts[c] \in Nat /\ line[c][a] \in L1Entry /\ tbe[c][a] \in L1TBE
  BY DEF TypeOK, L1TypeOK
<1>2. pts[c] \in Nat /\ line[c][a].rts \in Nat /\ tbe[c][a].rts \in Nat
  BY <1>1 DEF L1Entry, L1TBE
<1>3. CASE TBEPresent(c, a)
  <2>1. getState(c, a) = IF st[c][a] = "SM" /\ ~isLive(c, a) THEN "I_I" ELSE st[c][a]
    BY <1>3 DEF getState
  <2>2. st[c][a] = "SM" /\ isLive(c, a)
    BY <1>3, <2>1 DEF TBEPresent, Transient
  <2>3. tbe[c][a].rts >= pts[c]
    BY <1>3, <2>2 DEF isLive
  <2>4. line[c][a].have /\ tbe[c][a].rts = line[c][a].rts
    BY <2>2 DEF LinesOK, LineOK
  <2> QED BY <1>2, <2>1, <2>2, <2>3, <2>4
<1>4. CASE ~TBEPresent(c, a)
  <2>1. line[c][a].tag
    BY <1>4 DEF getState
  <2>2. getState(c, a) = IF isLive(c, a) THEN st[c][a] ELSE "I"
    BY <1>4, <2>1 DEF getState
  <2>3. isLive(c, a) /\ st[c][a] = getState(c, a)
    BY <2>2
  <2>4. line[c][a].rts >= pts[c]
    BY <1>4, <2>3 DEF isLive
  <2>5. line[c][a].have
    BY <2>3 DEF LinesOK, LineOK
  <2> QED BY <1>2, <2>3, <2>4, <2>5
<1> QED BY <1>3, <1>4

\* A step of core c on line a leaves the other lines alone.
LEMMA OneLineOK ==
    ASSUME TypeOK, TypeOK', LinesOK, NEW c \in Cores, NEW a \in Addrs,
           \A d \in Cores, x \in Addrs : d # c \/ x # a =>
              st'[d][x] = st[d][x] /\ tbe'[d][x] = tbe[d][x] /\ line'[d][x] = line[d][x],
           LineOK(c, a)'
    PROVE  LinesOK'
<1> SUFFICES ASSUME NEW d \in Cores, NEW x \in Addrs, d # c \/ x # a PROVE LineOK(d, x)'
  BY DEF LinesOK
<1>1. LineOK(d, x)
  BY DEF LinesOK
<1> QED BY <1>1 DEF LineOK

\* A write request leaves a line with a live lease readable.
LEMMA WriteThroughLines ==
    ASSUME TypeOK, TypeOK', LinesOK, NEW c \in Cores, WriteThrough(c)
    PROVE  LinesOK'
<1>1. PICK r \in CacheMsg : r = Head(mandQ[c]) /\ r.addr \in Addrs
  BY MandatoryHead DEF WriteThrough
<1>2. PICK a \in Addrs : a = r.addr
  BY <1>1
<1>3. PICK s : s = getState(c, a)
  OBVIOUS
<1>4. /\ tbe' = [tbe EXCEPT ![c][a] = TBEForWrite(c, a, s)]
      /\ st' = [st EXCEPT ![c][a] = IF s \in {"S", "SM"} THEN "SM" ELSE "I_I"]
      /\ line' = line
  BY <1>1, <1>2, <1>3 DEF WriteThrough
<1>5. /\ tbe'[c][a] = TBEForWrite(c, a, s)
      /\ st'[c][a] = IF s \in {"S", "SM"} THEN "SM" ELSE "I_I"
  BY <1>4 DEF TypeOK, L1TypeOK
<1>6. tbe[c][a] \in L1TBE /\ line[c][a].rts \in Nat
  BY DEF TypeOK, L1TypeOK, L1Entry
<1>7. LineOK(c, a)'
  <2>1. CASE s = "S"
    <3>1. tbe'[c][a].rts = line[c][a].rts /\ st'[c][a] = "SM"
      BY <1>5, <2>1 DEF TBEForWrite
    <3>2. line[c][a].have
      BY <1>3, <2>1, HitFacts
    <3>3. line'[c][a] = line[c][a]
      BY <1>4
    <3> QED BY <1>6, <3>1, <3>2, <3>3 DEF LineOK
  <2>2. CASE s = "SM"
    <3>1. tbe'[c][a].rts = tbe[c][a].rts /\ st'[c][a] = "SM"
      BY <1>5, <1>6, <2>2 DEF TBEForWrite, L1TBE
    <3>2. st[c][a] = "SM" /\ LineOK(c, a)
      BY <1>3, <2>2, HitFacts DEF LinesOK
    <3> QED BY <1>4, <3>1, <3>2 DEF LineOK
  <2>3. CASE s \notin {"S", "SM"}
    BY <1>5, <2>3 DEF LineOK
  <2> QED BY <2>1, <2>2, <2>3
<1>8. \A d \in Cores, x \in Addrs : d # c \/ x # a =>
         st'[d][x] = st[d][x] /\ tbe'[d][x] = tbe[d][x] /\ line'[d][x] = line[d][x]
  BY <1>4 DEF TypeOK, L1TypeOK
<1> QED BY <1>7, <1>8, OneLineOK

\* Data makes a line readable with the lease of the response.
LEMMA DataLines ==
    ASSUME TypeOK, TypeOK', LinesOK, NEW c \in Cores, NEW b \in Banks, Data(c, b)
    PROVE  LinesOK'
<1>0. respNet[b][c] # <<>>
  BY ZenonT(40) DEF Data
<1>1. PICK m \in ResponseMsg : m = Head(respNet[b][c]) /\ m.addr \in Addrs /\ m.rts \in Nat
  BY <1>0, ResponseHead DEF ResponseMsg
<1>2. PICK a \in Addrs : a = m.addr
  BY <1>1
<1>3a. PICK t \in L1TBE : t = tbe[c][a]
  BY DEF TypeOK, L1TypeOK
<1>3. PICK done : t = tbe[c][a] /\ done = Done(t, m)
  BY <1>3a
<1>4. /\ line' = [line EXCEPT ![c][a] =
                     [tag |-> line[c][a].tag, rts |-> m.rts, have |-> TRUE, ver |-> m.ver]]
      /\ tbe' = [tbe EXCEPT ![c][a] =
                    IF done THEN NoTBE ELSE [t EXCEPT !.rts = m.rts, !.reads = t.reads - 1]]
      /\ st' = [st EXCEPT ![c][a] = IF done THEN "S" ELSE "SM"]
  BY ZenonT(40), <1>1, <1>2, <1>3 DEF Data
<1>5. /\ line'[c][a].rts = m.rts /\ line'[c][a].have
      /\ tbe'[c][a] = IF done THEN NoTBE ELSE [t EXCEPT !.rts = m.rts, !.reads = t.reads - 1]
      /\ st'[c][a] = IF done THEN "S" ELSE "SM"
  BY <1>4 DEF TypeOK, L1TypeOK
<1>6. st'[c][a] = "SM" => tbe'[c][a].rts = m.rts
  BY <1>3, <1>5 DEF L1TBE
<1>7. LineOK(c, a)'
  BY <1>1, <1>5, <1>6 DEF LineOK
<1>8. \A d \in Cores, x \in Addrs : d # c \/ x # a =>
         st'[d][x] = st[d][x] /\ tbe'[d][x] = tbe[d][x] /\ line'[d][x] = line[d][x]
  BY <1>4 DEF TypeOK, L1TypeOK
<1> QED BY <1>7, <1>8, OneLineOK

\* The other steps leave no line that changes readable.
LEMMA OtherLines ==
    ASSUME TypeOK, TypeOK', LinesOK, NEW c \in Cores,
           \/ LoadMiss(c)
           \/ \E v \in Addrs : L1_Replacement(c, v)
           \/ \E b \in Banks : WriteDone(c, b)
    PROVE  LinesOK'
<1> SUFFICES \E a \in Addrs :
                /\ st'[c][a] \notin {"S", "SM"}
                /\ \A d \in Cores, x \in Addrs : d # c \/ x # a =>
                     st'[d][x] = st[d][x] /\ tbe'[d][x] = tbe[d][x] /\ line'[d][x] = line[d][x]
  BY OneLineOK DEF LineOK
<1>1. CASE LoadMiss(c)
  <2>1. PICK r \in CacheMsg : r = Head(mandQ[c]) /\ r.addr \in Addrs
    BY ZenonT(40), <1>1, MandatoryHead DEF LoadMiss
  <2>2a. PICK a \in Addrs : a = r.addr
    BY <2>1
  <2>2. PICK e, t : line' = [line EXCEPT ![c][a] = e] /\ tbe' = [tbe EXCEPT ![c][a] = t]
    BY ZenonT(40), <1>1, <2>1, <2>2a DEF LoadMiss
  <2>3. st' = [st EXCEPT ![c][a] = IF getState(c, a) = "I" THEN "I_S" ELSE "I_I"]
    BY ZenonT(40), <1>1, <2>1, <2>2a DEF LoadMiss
  <2>4. st'[c][a] \notin {"S", "SM"}
    BY <2>3 DEF TypeOK, L1TypeOK
  <2>5. \A d \in Cores, x \in Addrs : d # c \/ x # a =>
           st'[d][x] = st[d][x] /\ tbe'[d][x] = tbe[d][x] /\ line'[d][x] = line[d][x]
    BY <2>2, <2>3 DEF TypeOK, L1TypeOK
  <2> QED BY <2>4, <2>5
<1>2. ASSUME NEW v \in Addrs, L1_Replacement(c, v)
      PROVE  /\ st'[c][v] \notin {"S", "SM"}
             /\ \A d \in Cores, x \in Addrs : d # c \/ x # v =>
                  st'[d][x] = st[d][x] /\ tbe'[d][x] = tbe[d][x] /\ line'[d][x] = line[d][x]
  BY <1>2 DEF L1_Replacement, TypeOK, L1TypeOK
<1>3. ASSUME NEW b \in Banks, WriteDone(c, b)
      PROVE  \E a \in Addrs :
                /\ st'[c][a] \notin {"S", "SM"}
                /\ \A d \in Cores, x \in Addrs : d # c \/ x # a =>
                     st'[d][x] = st[d][x] /\ tbe'[d][x] = tbe[d][x] /\ line'[d][x] = line[d][x]
  <2>0. respNet[b][c] # <<>>
    BY ZenonT(40), <1>3 DEF WriteDone
  <2>1. PICK m \in ResponseMsg : m = Head(respNet[b][c]) /\ m.addr \in Addrs
    BY <2>0, ResponseHead
  <2>2a. PICK a \in Addrs : a = m.addr
    BY <2>1
  <2>2. PICK t, done : /\ line' = line /\ tbe' = [tbe EXCEPT ![c][a] = t]
                       /\ st' = [st EXCEPT ![c][a] = IF done THEN "I" ELSE "I_I"]
    BY ZenonT(40), <1>3, <2>1, <2>2a DEF WriteDone
  <2> QED BY SMTT(30), <2>2 DEF TypeOK, L1TypeOK
<1> QED BY <1>1, <1>2, <1>3

\* Every step keeps the lines.
LEMMA NextLines == TypeOK /\ LinesOK /\ [Next]_vars => LinesOK'
<1> SUFFICES ASSUME TypeOK, LinesOK, [Next]_vars PROVE LinesOK'
  OBVIOUS
<1>1. TypeOK'
  BY NextTypes
<1>2. CASE UNCHANGED l1Vars
  BY <1>2 DEF l1Vars, LinesOK, LineOK
<1>3. ASSUME NEW c \in Cores, L1Step(c) PROVE LinesOK'
  <2>1. CASE LoadHit(c)
    BY <1>2, <2>1 DEF LoadHit
  <2>2. CASE WriteThrough(c)
    BY <1>1, <2>2, WriteThroughLines
  <2>3. ASSUME NEW b \in Banks, Data(c, b) PROVE LinesOK'
    BY <1>1, <2>3, DataLines
  <2>4. CASE LoadMiss(c) \/ (\E v \in Addrs : L1_Replacement(c, v)) \/ \E b \in Banks : WriteDone(c, b)
    BY <1>1, <2>4, OtherLines
  <2> QED BY <1>3, <2>1, <2>2, <2>3, <2>4 DEF L1Step, L1Next
<1>4. ASSUME NEW w \in Warps, Issue(w) PROVE UNCHANGED l1Vars
  BY <1>4 DEF Issue
<1>5. ASSUME NEW c \in Cores, Writeback(c) \/ WriteAck(c) PROVE UNCHANGED l1Vars
  BY <1>5 DEF Writeback, WriteAck
<1>6. ASSUME NEW c \in Cores, NEW b \in Banks, Network(c, b) PROVE UNCHANGED l1Vars
  BY <1>6 DEF Network
<1>7. ASSUME NEW b \in Banks, L2Step(b) PROVE UNCHANGED l1Vars
  BY <1>7 DEF L2Step
<1>8. ASSUME NEW a \in Addrs, Dram(a) PROVE UNCHANGED l1Vars
  BY <1>8 DEF Dram
<1>9. CASE UNCHANGED vars
  BY <1>2, <1>9 DEF vars
<1> QED BY <1>2, <1>3, <1>4, <1>5, <1>6, <1>7, <1>8, <1>9 DEF Next, Terminated

-----------------------------------------------------------------------------
(* What a message says about the request it stands for.                     *)

\* The messages on their way have their types.
LEMMA MessageTypes ==
    ASSUME TypeOK
    PROVE  /\ \A d \in Cores, b \in Banks : \A i \in DOMAIN reqNet[d][b] :
                 LET m == reqNet[d][b][i] IN
                 m \in RequestMsg /\ m.addr \in Addrs /\ m.warp \in Warps /\ m.pts \in Nat
           /\ \A b \in Banks : \A i \in DOMAIN l2in[b] :
                 LET m == l2in[b][i] IN
                 m \in RequestMsg /\ m.addr \in Addrs /\ m.warp \in Warps /\ m.pts \in Nat
           /\ \A b \in Banks, c \in Cores : \A i \in DOMAIN respNet[b][c] :
                 LET m == respNet[b][c][i] IN
                 m \in ResponseMsg /\ m.addr \in Addrs /\ m.warp \in Warps
                 /\ m.wts \in Nat /\ m.rts \in Nat /\ m.ver \in Nat
<1>1. \A m \in RequestMsg : m.addr \in Addrs /\ m.warp \in Warps /\ m.pts \in Nat
  BY DEF RequestMsg
<1>2. \A m \in ResponseMsg : m.addr \in Addrs /\ m.warp \in Warps
                             /\ m.wts \in Nat /\ m.rts \in Nat /\ m.ver \in Nat
  BY DEF ResponseMsg
<1>3. ASSUME NEW d \in Cores, NEW b \in Banks, NEW i \in DOMAIN reqNet[d][b]
      PROVE  reqNet[d][b][i] \in RequestMsg
  BY DEF TypeOK, NetTypeOK
<1>4. ASSUME NEW b \in Banks, NEW i \in DOMAIN l2in[b] PROVE l2in[b][i] \in RequestMsg
  BY DEF TypeOK, NetTypeOK
<1>5. ASSUME NEW b \in Banks, NEW c \in Cores, NEW i \in DOMAIN respNet[b][c]
      PROVE  respNet[b][c][i] \in ResponseMsg
  BY DEF TypeOK, NetTypeOK
<1> QED BY <1>1, <1>2, <1>3, <1>4, <1>5

\* The messages of the reads of line a by core c.
LEMMA ReadFound ==
    ASSUME TypeOK, WriteInv, ClockInv, NEW c \in Cores, NEW a \in Addrs, NEW h, h = <<"R", c, a>>
    PROVE  /\ \A d \in Cores, b \in Banks : \A i \in DOMAIN reqNet[d][b] :
                 LET m == reqNet[d][b][i] IN
                 m.type = "GETS" /\ CoreOf[m.warp] = c /\ m.addr = a => Held(h, "req")
           /\ \A b \in Banks : \A i \in DOMAIN l2in[b] :
                 LET m == l2in[b][i] IN
                 m.type = "GETS" /\ CoreOf[m.warp] = c /\ m.addr = a => Held(h, "l2in")
           /\ \A w \in l2tbe[a].gets : CoreOf[w] = c => Held(h, "tbe")
           /\ \A b \in Banks : \A i \in DOMAIN respNet[b][c] :
                 LET m == respNet[b][c][i] IN m.type = "DATA" /\ m.addr = a => Held(h, "resp")
           /\ \A i \in DOMAIN ready[c] : ready[c][i] = a => Held(h, "back")
<1>1. h \in Ids /\ HomeOf(h) = c /\ h[3] = a
  BY ReadName
<1>2. ASSUME NEW d \in Cores, NEW b \in Banks, NEW i \in DOMAIN reqNet[d][b],
             reqNet[d][b][i].type = "GETS", CoreOf[reqNet[d][b][i].warp] = c, reqNet[d][b][i].addr = a
      PROVE  Held(h, "req")
  <2>1. PICK m \in RequestMsg : m = reqNet[d][b][i]
    BY DEF TypeOK, NetTypeOK
  <2>2. BankOf[a] = b /\ d = c
    BY <1>2 DEF WriteInv, Routed, ClockInv
  <2>3. RequestId[m] = h
    BY <1>2, <2>1, MessageIds DEF Id
  <2>4. In(reqNet[c][BankOf[a]], RequestId, h)
    BY <2>1, <2>2, <2>3 DEF In
  <2> QED BY <1>1, <2>4, HeldAt
<1>3. ASSUME NEW b \in Banks, NEW i \in DOMAIN l2in[b],
             l2in[b][i].type = "GETS", CoreOf[l2in[b][i].warp] = c, l2in[b][i].addr = a
      PROVE  Held(h, "l2in")
  <2>1. PICK m \in RequestMsg : m = l2in[b][i]
    BY DEF TypeOK, NetTypeOK
  <2>2. BankOf[a] = b
    BY <1>3 DEF WriteInv, Routed
  <2>3. RequestId[m] = h
    BY <1>3, <2>1, MessageIds DEF Id
  <2>4. In(l2in[BankOf[a]], RequestId, h)
    BY <2>1, <2>2, <2>3 DEF In
  <2> QED BY <1>1, <2>4, HeldAt
<1>4. ASSUME NEW w \in l2tbe[a].gets, CoreOf[w] = c PROVE Held(h, "tbe")
  <2>1. h \in InTBE(a)
    BY <1>4 DEF InTBE, Id
  <2> QED BY <1>1, <2>1, HeldAt
<1>5. ASSUME NEW b \in Banks, NEW i \in DOMAIN respNet[b][c],
             respNet[b][c][i].type = "DATA", respNet[b][c][i].addr = a
      PROVE  Held(h, "resp")
  <2>1. PICK m \in ResponseMsg : m = respNet[b][c][i]
    BY DEF TypeOK, NetTypeOK
  <2>2. BankOf[a] = b /\ CoreOf[m.warp] = c
    BY <1>5, <2>1 DEF ClockInv, ResponseOK
  <2>3. ResponseId[m] = h
    BY <1>5, <2>1, <2>2, MessageIds DEF Id
  <2>4. In(respNet[BankOf[a]][c], ResponseId, h)
    BY <2>1, <2>2, <2>3 DEF In
  <2> QED BY <1>1, <2>4, HeldAt
<1>6. ASSUME NEW i \in DOMAIN ready[c], ready[c][i] = a PROVE Held(h, "back")
  <2>1. In(ready[c], ReadyId(c), h)
    BY <1>6 DEF In, ReadyId
  <2> QED BY <1>1, <2>1, HeldAt
<1> QED BY <1>2, <1>3, <1>4, <1>5, <1>6

\* The messages of writes.
LEMMA WriteFound ==
    ASSUME TypeOK, WriteInv, ClockInv, NEW w \in Warps, NEW a \in Addrs, NEW h, h = <<"W", w, a>>
    PROVE  /\ \A d \in Cores, b \in Banks : \A i \in DOMAIN reqNet[d][b] :
                 LET m == reqNet[d][b][i] IN
                 m.type # "GETS" /\ m.warp = w /\ m.addr = a => Held(h, "req")
           /\ \A b \in Banks : \A i \in DOMAIN l2in[b] :
                 LET m == l2in[b][i] IN
                 m.type # "GETS" /\ m.warp = w /\ m.addr = a => Held(h, "l2in")
           /\ l2st[a] = "IAV" /\ w \in l2tbe[a].wback => Held(h, "tbe")
           /\ \A b \in Banks, c \in Cores : \A i \in DOMAIN respNet[b][c] :
                 LET m == respNet[b][c][i] IN
                 m.type # "DATA" /\ m.warp = w /\ m.addr = a => Held(h, "resp")
<1>1. h \in Ids /\ HomeOf(h) = CoreOf[w] /\ h[3] = a
  BY WriteName
<1>2. ASSUME NEW d \in Cores, NEW b \in Banks, NEW i \in DOMAIN reqNet[d][b],
             reqNet[d][b][i].type # "GETS", reqNet[d][b][i].warp = w, reqNet[d][b][i].addr = a
      PROVE  Held(h, "req")
  <2>1. PICK m \in RequestMsg : m = reqNet[d][b][i]
    BY DEF TypeOK, NetTypeOK
  <2>2. BankOf[a] = b /\ d = CoreOf[w]
    BY <1>2 DEF WriteInv, Routed, ClockInv
  <2>3. RequestId[m] = h
    BY <1>2, <2>1, MessageIds DEF Id
  <2>4. In(reqNet[CoreOf[w]][BankOf[a]], RequestId, h)
    BY <2>1, <2>2, <2>3 DEF In
  <2> QED BY <1>1, <2>4, HeldAt
<1>3. ASSUME NEW b \in Banks, NEW i \in DOMAIN l2in[b],
             l2in[b][i].type # "GETS", l2in[b][i].warp = w, l2in[b][i].addr = a
      PROVE  Held(h, "l2in")
  <2>1. PICK m \in RequestMsg : m = l2in[b][i]
    BY DEF TypeOK, NetTypeOK
  <2>2. BankOf[a] = b
    BY <1>3 DEF WriteInv, Routed
  <2>3. RequestId[m] = h
    BY <1>3, <2>1, MessageIds DEF Id
  <2>4. In(l2in[BankOf[a]], RequestId, h)
    BY <2>1, <2>2, <2>3 DEF In
  <2> QED BY <1>1, <2>4, HeldAt
<1>4. ASSUME l2st[a] = "IAV", w \in l2tbe[a].wback PROVE Held(h, "tbe")
  <2>1. h \in InTBE(a)
    BY <1>4 DEF InTBE, Id
  <2> QED BY <1>1, <2>1, HeldAt
<1>5. ASSUME NEW b \in Banks, NEW c \in Cores, NEW i \in DOMAIN respNet[b][c],
             respNet[b][c][i].type # "DATA", respNet[b][c][i].warp = w, respNet[b][c][i].addr = a
      PROVE  Held(h, "resp")
  <2>1. PICK m \in ResponseMsg : m = respNet[b][c][i]
    BY DEF TypeOK, NetTypeOK
  <2>2. BankOf[a] = b /\ CoreOf[w] = c
    BY <1>5, <2>1 DEF ClockInv, ResponseOK
  <2>3. ResponseId[m] = h
    BY <1>5, <2>1, <2>2, MessageIds DEF Id
  <2>4. In(respNet[BankOf[a]][CoreOf[w]], ResponseId, h)
    BY <2>1, <2>2, <2>3 DEF In
  <2> QED BY <1>1, <2>4, HeldAt
<1> QED BY <1>2, <1>3, <1>4, <1>5

\* A warp with a read under way has no write under way.
LEMMA ReaderAlone ==
    ASSUME TypeOK, WriteInv, ClockInv, FlightInv, NEW w \in Warps, NEW a \in Addrs, Reads(w, a)
    PROVE  /\ \A d \in Cores, b \in Banks : \A i \in DOMAIN reqNet[d][b] :
                 reqNet[d][b][i].warp = w => reqNet[d][b][i].type = "GETS"
           /\ \A b \in Banks : \A i \in DOMAIN l2in[b] :
                 l2in[b][i].warp = w => l2in[b][i].type = "GETS"
           /\ \A x \in Addrs : l2st[x] = "IAV" => w \notin l2tbe[x].wback
           /\ \A b \in Banks, c \in Cores : \A i \in DOMAIN respNet[b][c] :
                 respNet[b][c][i].warp = w => respNet[b][c][i].type = "DATA"
           /\ \A x \in Addrs : Reads(w, x) => x = a
<1>1. ASSUME NEW x \in Addrs, NEW s \in Stages PROVE ~Held(<<"W", w, x>>, s)
  <2>1. PICK h \in Ids : h = <<"W", w, x>> /\ h[1] = "W" /\ h[2] = w /\ h[3] = x
    BY WriteName
  <2>2. ~Writes(w, x)
    BY DEF FlightInv, Busy
  <2>3. ~Wanted(h)
    BY <2>1, <2>2 DEF Wanted
  <2> QED BY <2>1, <2>3 DEF FlightInv, Awaited
<1>2. "req" \in Stages /\ "l2in" \in Stages /\ "tbe" \in Stages /\ "resp" \in Stages
  BY DEF Stages, BeyondL1
<1>3. ASSUME NEW d \in Cores, NEW b \in Banks, NEW i \in DOMAIN reqNet[d][b], reqNet[d][b][i].warp = w
      PROVE  reqNet[d][b][i].type = "GETS"
  <2>1. PICK x \in Addrs : x = reqNet[d][b][i].addr
    BY MessageTypes
  <2> QED BY <1>1, <1>2, <1>3, <2>1, WriteFound
<1>4. ASSUME NEW b \in Banks, NEW i \in DOMAIN l2in[b], l2in[b][i].warp = w
      PROVE  l2in[b][i].type = "GETS"
  <2>1. PICK x \in Addrs : x = l2in[b][i].addr
    BY MessageTypes
  <2> QED BY <1>1, <1>2, <1>4, <2>1, WriteFound
<1>5. ASSUME NEW x \in Addrs, l2st[x] = "IAV", w \in l2tbe[x].wback PROVE FALSE
  BY <1>1, <1>2, <1>5, WriteFound
<1>6. ASSUME NEW b \in Banks, NEW c \in Cores, NEW i \in DOMAIN respNet[b][c], respNet[b][c][i].warp = w
      PROVE  respNet[b][c][i].type = "DATA"
  <2>1. PICK x \in Addrs : x = respNet[b][c][i].addr
    BY MessageTypes
  <2> QED BY <1>1, <1>2, <1>6, <2>1, WriteFound
<1>7. \A x \in Addrs : Reads(w, x) => x = a
  BY DEF FlightInv, Busy
<1> QED BY <1>3, <1>4, <1>5, <1>6, <1>7

\* A write under way is the only access of its warp, and at one stage.
LEMMA WriterAlone ==
    ASSUME TypeOK, WriteInv, ClockInv, FlightInv, NEW w \in Warps, NEW a \in Addrs,
           NEW s \in Stages, Held(<<"W", w, a>>, s)
    PROVE  /\ \A d \in Cores, b \in Banks : \A i \in DOMAIN reqNet[d][b] :
                 reqNet[d][b][i].warp = w /\ reqNet[d][b][i].type # "GETS" =>
                    s = "req" /\ reqNet[d][b][i].addr = a
           /\ \A b \in Banks : \A i \in DOMAIN l2in[b] :
                 l2in[b][i].warp = w /\ l2in[b][i].type # "GETS" =>
                    s = "l2in" /\ l2in[b][i].addr = a
           /\ \A x \in Addrs : l2st[x] = "IAV" /\ w \in l2tbe[x].wback => s = "tbe" /\ x = a
           /\ \A b \in Banks, c \in Cores : \A i \in DOMAIN respNet[b][c] :
                 respNet[b][c][i].warp = w /\ respNet[b][c][i].type # "DATA" =>
                    s = "resp" /\ respNet[b][c][i].addr = a
           /\ \A x \in Addrs : ~Reads(w, x)
<1>1. Writes(w, a)
  <2>1. PICK h \in Ids : h = <<"W", w, a>> /\ h[1] = "W" /\ h[2] = w /\ h[3] = a
    BY WriteName
  <2>2. Wanted(h)
    BY <2>1 DEF FlightInv, Awaited
  <2> QED BY <2>1, <2>2 DEF Wanted
<1>2. ASSUME NEW x \in Addrs, NEW t \in Stages, Held(<<"W", w, x>>, t) PROVE x = a /\ s = t
  <2>1. PICK h \in Ids : h = <<"W", w, x>> /\ h[1] = "W" /\ h[2] = w /\ h[3] = x
    BY WriteName
  <2>2. Wanted(h)
    BY <1>2, <2>1 DEF FlightInv, Awaited
  <2>3. Writes(w, x)
    BY <2>1, <2>2 DEF Wanted
  <2>4. x = a
    BY <1>1, <2>3 DEF FlightInv, Busy
  <2> QED BY <1>2, <2>1, <2>4 DEF FlightInv, Single
<1>3. "req" \in Stages /\ "l2in" \in Stages /\ "tbe" \in Stages /\ "resp" \in Stages
  BY DEF Stages, BeyondL1
<1>4. ASSUME NEW d \in Cores, NEW b \in Banks, NEW i \in DOMAIN reqNet[d][b],
             reqNet[d][b][i].warp = w, reqNet[d][b][i].type # "GETS"
      PROVE  s = "req" /\ reqNet[d][b][i].addr = a
  <2>1. PICK x \in Addrs : x = reqNet[d][b][i].addr
    BY MessageTypes
  <2>2. Held(<<"W", w, x>>, "req")
    BY <1>4, <2>1, WriteFound
  <2> QED BY <1>2, <1>3, <2>1, <2>2
<1>5. ASSUME NEW b \in Banks, NEW i \in DOMAIN l2in[b],
             l2in[b][i].warp = w, l2in[b][i].type # "GETS"
      PROVE  s = "l2in" /\ l2in[b][i].addr = a
  <2>1. PICK x \in Addrs : x = l2in[b][i].addr
    BY MessageTypes
  <2>2. Held(<<"W", w, x>>, "l2in")
    BY <1>5, <2>1, WriteFound
  <2> QED BY <1>2, <1>3, <2>1, <2>2
<1>6. ASSUME NEW x \in Addrs, l2st[x] = "IAV", w \in l2tbe[x].wback PROVE s = "tbe" /\ x = a
  BY <1>2, <1>3, <1>6, WriteFound
<1>7. ASSUME NEW b \in Banks, NEW c \in Cores, NEW i \in DOMAIN respNet[b][c],
             respNet[b][c][i].warp = w, respNet[b][c][i].type # "DATA"
      PROVE  s = "resp" /\ respNet[b][c][i].addr = a
  <2>1. PICK x \in Addrs : x = respNet[b][c][i].addr
    BY MessageTypes
  <2>2. Held(<<"W", w, x>>, "resp")
    BY <1>7, <2>1, WriteFound
  <2> QED BY <1>2, <1>3, <2>1, <2>2
<1>8. ASSUME NEW x \in Addrs, Reads(w, x) PROVE FALSE
  BY <1>1, <1>8 DEF FlightInv, Busy
<1> QED BY <1>4, <1>5, <1>6, <1>7, <1>8

-----------------------------------------------------------------------------
(* Queues after a step.                                                     *)

\* The L1 of core c has sent request m.
LEMMA SentRequests ==
    ASSUME TypeOK, NEW c \in Cores, NEW m \in RequestMsg, SendRequest(c, m),
           NEW d \in Cores, NEW b \in Banks, NEW i \in DOMAIN reqNet'[d][b]
    PROVE  \/ \E j \in DOMAIN reqNet[d][b] : reqNet'[d][b][i] = reqNet[d][b][j]
           \/ d = c /\ reqNet'[d][b][i] = m
<1>1. BankOf[m.addr] \in Banks
  BY BankOfAssumption DEF RequestMsg
<1>2. /\ reqNet'[d][b] = reqNet[d][b] \/ (d = c /\ reqNet'[d][b] = Append(reqNet[d][b], m))
      /\ reqNet[d][b] \in Seq(RequestMsg)
  BY <1>1 DEF SendRequest, TypeOK, NetTypeOK
<1>3. CASE d = c /\ reqNet'[d][b] = Append(reqNet[d][b], m)
  BY <1>2, <1>3, AppendElements
<1> QED BY <1>2, <1>3

\* Bank b has taken its first request.
LEMMA PoppedRequests ==
    ASSUME TypeOK, NEW b \in Banks, l2in[b] # <<>>, l2in' = [l2in EXCEPT ![b] = Tail(@)],
           NEW d \in Banks, NEW i \in DOMAIN l2in'[d]
    PROVE  \E j \in DOMAIN l2in[d] : l2in'[d][i] = l2in[d][j] /\ (d = b => j # 1)
<1>1. l2in[b] \in Seq(RequestMsg) /\ l2in'[d] = IF d = b THEN Tail(l2in[b]) ELSE l2in[d]
  BY DEF TypeOK, NetTypeOK
<1>2. CASE d = b
  <2>1. PICK p \in Seq(RequestMsg) : p = l2in[b] /\ p # <<>>
    BY <1>1
  <2>2. PICK q \in Seq(RequestMsg) : q = Tail(p)
    BY <2>1, QueueFacts
  <2>3. l2in'[d] = q /\ l2in[d] = p
    BY <1>1, <1>2, <2>1, <2>2
  <2>4. i \in DOMAIN q
    BY <2>3
  <2>5. i + 1 \in DOMAIN p /\ q[i] = p[i + 1]
    BY <2>1, <2>2, <2>4, TailElements
  <2>6. i \in 1..Len(q) /\ Len(q) \in Nat
    BY <2>4
  <2>7. i \in Nat /\ i + 1 # 1
    BY <2>6
  <2> QED BY <2>3, <2>5, <2>7
<1>3. CASE d # b
  BY <1>1, <1>3
<1> QED BY <1>2, <1>3

\* The network has delivered a request.
LEMMA DeliveredRequests ==
    ASSUME TypeOK, NEW c \in Cores, NEW b \in Banks, Network(c, b)
    PROVE  /\ \A d \in Cores, x \in Banks : \A i \in DOMAIN reqNet'[d][x] :
                 \E j \in DOMAIN reqNet[d][x] : reqNet'[d][x][i] = reqNet[d][x][j]
           /\ \A x \in Banks : \A i \in DOMAIN l2in'[x] :
                 \/ \E j \in DOMAIN l2in[x] : l2in'[x][i] = l2in[x][j]
                 \/ \E j \in DOMAIN reqNet[c][b] : l2in'[x][i] = reqNet[c][b][j]
<1>1. PICK q \in Seq(RequestMsg) : q = reqNet[c][b] /\ q # <<>>
  BY DEF Network, Deliver, TypeOK, NetTypeOK
<1>2. PICK m \in RequestMsg : m = Head(q) /\ m = q[1] /\ 1 \in DOMAIN q
  BY <1>1, QueueFacts
<1>3. /\ l2in' = [l2in EXCEPT ![b] = Append(@, m)]
      /\ reqNet' = [reqNet EXCEPT ![c][b] = Tail(@)]
  BY <1>1, <1>2 DEF Network, Deliver
<1>4. ASSUME NEW d \in Cores, NEW x \in Banks, NEW i \in DOMAIN reqNet'[d][x]
      PROVE  \E j \in DOMAIN reqNet[d][x] : reqNet'[d][x][i] = reqNet[d][x][j]
  <2>1. reqNet'[d][x] = IF d = c /\ x = b THEN Tail(q) ELSE reqNet[d][x]
    BY <1>1, <1>3 DEF TypeOK, NetTypeOK
  <2> QED BY <1>1, <1>4, <2>1, TailElements
<1>5. ASSUME NEW x \in Banks, NEW i \in DOMAIN l2in'[x]
      PROVE  \/ \E j \in DOMAIN l2in[x] : l2in'[x][i] = l2in[x][j]
             \/ l2in'[x][i] = m
  <2>1. l2in[x] \in Seq(RequestMsg) /\ l2in'[x] = IF x = b THEN Append(l2in[x], m) ELSE l2in[x]
    BY <1>3 DEF TypeOK, NetTypeOK
  <2> QED BY <1>5, <2>1, AppendElements
<1> QED BY <1>1, <1>2, <1>4, <1>5

-----------------------------------------------------------------------------
(* Reads under way.                                                         *)

\* A step that leaves the times of the reads alone.
LEMMA QuietReads ==
    ASSUME TypeOK, TypeOK', AtInv, at' = at, \A c \in Cores : pts'[c] >= pts[c],
           \A x \in Addrs : KeepsCover(x), Kept,
           \A c \in Cores, b \in Banks : \A i \in DOMAIN reqNet'[c][b] :
              \/ \E j \in DOMAIN reqNet[c][b] : reqNet'[c][b][i] = reqNet[c][b][j]
              \/ GetsTimed(reqNet'[c][b][i]),
           \A b \in Banks : \A i \in DOMAIN l2in'[b] :
              \/ \E j \in DOMAIN l2in[b] : l2in'[b][i] = l2in[b][j]
              \/ GetsTimed(l2in'[b][i]),
           \A a \in Addrs : l2tbe'[a] = l2tbe[a] \/ FetchTimed(a)',
           \A b \in Banks, c \in Cores : \A i \in DOMAIN respNet'[b][c] :
              \/ \E j \in DOMAIN respNet[b][c] : respNet'[b][c][i] = respNet[b][c][j]
              \/ DataTimed(respNet'[b][c][i], c),
           \A c \in Cores : \A i \in DOMAIN ready'[c] : \E j \in DOMAIN ready[c] :
              ready'[c][i] = ready[c][j] /\ mshr'[c][ready[c][j]].ver = mshr[c][ready[c][j]].ver
    PROVE  AtInv'
<1>1. at \in [Cores -> [Addrs -> Nat]] /\ (\A c \in Cores, a \in Addrs : at[c][a] <= pts[c]) /\ ReadsTimed
  BY DEF AtInv
<1>2. \A c \in Cores : pts[c] \in Nat /\ pts'[c] \in Nat
  BY DEF TypeOK, L1TypeOK
<1>3. \A c \in Cores, a \in Addrs : at'[c][a] <= pts'[c]
  BY <1>1, <1>2
<1>4. \A c \in Cores, b \in Banks : \A i \in DOMAIN reqNet'[c][b] : GetsTimed(reqNet[c][b][i])'
  <2>1. ASSUME NEW c \in Cores, NEW b \in Banks, NEW i \in DOMAIN reqNet'[c][b]
        PROVE  GetsTimed(reqNet'[c][b][i])
    <3>1. CASE \E j \in DOMAIN reqNet[c][b] : reqNet'[c][b][i] = reqNet[c][b][j]
      BY <1>1, <3>1 DEF ReadsTimed
    <3> QED BY <3>1
  <2> QED BY <2>1 DEF GetsTimed
<1>5. \A b \in Banks : \A i \in DOMAIN l2in'[b] : GetsTimed(l2in[b][i])'
  <2>1. ASSUME NEW b \in Banks, NEW i \in DOMAIN l2in'[b] PROVE GetsTimed(l2in'[b][i])
    <3>1. CASE \E j \in DOMAIN l2in[b] : l2in'[b][i] = l2in[b][j]
      BY <1>1, <3>1 DEF ReadsTimed
    <3> QED BY <3>1
  <2> QED BY <2>1 DEF GetsTimed
<1>6. \A a \in Addrs : FetchTimed(a)'
  BY <1>1 DEF ReadsTimed, FetchTimed
<1>7. \A b \in Banks, c \in Cores : \A i \in DOMAIN respNet'[b][c] : DataTimed(respNet[b][c][i], c)'
  BY <1>1 DEF ReadsTimed, DataTimed
<1>8. ASSUME NEW c \in Cores, NEW i \in DOMAIN ready'[c] PROVE ReadTimed(c, ready[c][i])'
  <2>1. PICK j \in DOMAIN ready[c] :
           ready'[c][i] = ready[c][j] /\ mshr'[c][ready[c][j]].ver = mshr[c][ready[c][j]].ver
    OBVIOUS
  <2>2. PICK a \in Addrs : a = ready[c][j]
    BY DEF TypeOK, MSHRTypeOK
  <2>3. PICK v \in Nat, t \in Nat : v = mshr[c][a].ver /\ t = at[c][a]
    BY <1>1 DEF TypeOK, MSHRTypeOK, MSHREntry
  <2>4. Covered(a, v, t) /\ Reached(a, v, t)
    BY <1>1, <2>2, <2>3 DEF ReadsTimed, ReadTimed
  <2>5. Covered(a, v, t)' /\ Reached(a, v, t)'
    BY <2>4 DEF KeepsCover, Kept
  <2>6. a = ready'[c][i] /\ v = mshr'[c][a].ver /\ t = at'[c][a]
    BY <2>1, <2>2, <2>3
  <2> QED BY <2>5, <2>6 DEF ReadTimed, Covered, LeaseOK, StrictOK, Reached
<1> QED BY <1>1, <1>3, <1>4, <1>5, <1>6, <1>7, <1>8 DEF AtInv, ReadsTimed

\* The read of line a by core c is at stage s, so it is nowhere else: giving
\* it another time leaves the other reads timed.
LEMMA OtherReads ==
    ASSUME TypeOK, WriteInv, ClockInv, FlightInv, AtInv, NEW c \in Cores, NEW a \in Addrs,
           NEW s \in {"mand", "resp"}, Held(<<"R", c, a>>, s),
           \A d \in Cores, x \in Addrs : d # c \/ x # a => at'[d][x] = at[d][x]
    PROVE  /\ \A d \in Cores, b \in Banks : \A i \in DOMAIN reqNet[d][b] :
                 LET m == reqNet[d][b][i] IN
                 m.type = "GETS" => at'[CoreOf[m.warp]][m.addr] <= m.pts
           /\ \A b \in Banks : \A i \in DOMAIN l2in[b] :
                 LET m == l2in[b][i] IN
                 m.type = "GETS" => at'[CoreOf[m.warp]][m.addr] <= m.pts
           /\ \A x \in Addrs : \A w \in l2tbe[x].gets : at'[CoreOf[w]][x] <= l2tbe[x].max_read_pts
           /\ \A b \in Banks, d \in Cores : \A i \in DOMAIN respNet[b][d] :
                 LET m == respNet[b][d][i] IN
                 m.type = "DATA" /\ (d # c \/ m.addr # a) => at'[d][m.addr] <= m.rts /\ m.wts <= m.rts
           /\ s = "mand" => \A b \in Banks : \A i \in DOMAIN respNet[b][c] :
                 LET m == respNet[b][c][i] IN m.type = "DATA" => m.addr # a
           /\ \A d \in Cores : \A i \in DOMAIN ready[d] :
                 (d # c \/ ready[d][i] # a) /\ ReadTimed(d, ready[d][i])
<1>1. PICK h \in Ids : h = <<"R", c, a>>
  BY ReadName
<1>2. ASSUME NEW t \in Stages, Held(h, t) PROVE t = s
  <2>1. s \in Stages
    BY StageNames
  <2> QED BY <1>1, <1>2, <2>1 DEF FlightInv, Single
<1>3. ~Held(h, "req") /\ ~Held(h, "l2in") /\ ~Held(h, "tbe") /\ ~Held(h, "back")
      /\ (s = "mand" => ~Held(h, "resp"))
  BY <1>2, StageNames
<1>4. ReadsTimed
  BY DEF AtInv
<1>5. ASSUME NEW d \in Cores, NEW b \in Banks, NEW i \in DOMAIN reqNet[d][b],
             reqNet[d][b][i].type = "GETS"
      PROVE  at'[CoreOf[reqNet[d][b][i].warp]][reqNet[d][b][i].addr] <= reqNet[d][b][i].pts
  <2>1. PICK m \in RequestMsg : m = reqNet[d][b][i] /\ m.addr \in Addrs /\ m.warp \in Warps
    BY MessageTypes
  <2>2. CoreOf[m.warp] \in Cores /\ (CoreOf[m.warp] # c \/ m.addr # a)
    BY <1>1, <1>3, <1>5, <2>1, ReadFound, CoreOfAssumption
  <2>3. at[CoreOf[m.warp]][m.addr] <= m.pts
    BY <1>4, <1>5, <2>1 DEF ReadsTimed, GetsTimed
  <2> QED BY <2>1, <2>2, <2>3
<1>6. ASSUME NEW b \in Banks, NEW i \in DOMAIN l2in[b], l2in[b][i].type = "GETS"
      PROVE  at'[CoreOf[l2in[b][i].warp]][l2in[b][i].addr] <= l2in[b][i].pts
  <2>1. PICK m \in RequestMsg : m = l2in[b][i] /\ m.addr \in Addrs /\ m.warp \in Warps
    BY MessageTypes
  <2>2. CoreOf[m.warp] \in Cores /\ (CoreOf[m.warp] # c \/ m.addr # a)
    BY <1>1, <1>3, <1>6, <2>1, ReadFound, CoreOfAssumption
  <2>3. at[CoreOf[m.warp]][m.addr] <= m.pts
    BY <1>4, <1>6, <2>1 DEF ReadsTimed, GetsTimed
  <2> QED BY <2>1, <2>2, <2>3
<1>7. ASSUME NEW x \in Addrs, NEW w \in l2tbe[x].gets
      PROVE  at'[CoreOf[w]][x] <= l2tbe[x].max_read_pts
  <2>1. w \in Warps
    BY DEF TypeOK, L2TypeOK, L2TBE
  <2>2. CoreOf[w] \in Cores /\ (CoreOf[w] # c \/ x # a)
    BY <1>1, <1>3, <2>1, ReadFound, CoreOfAssumption
  <2>3. at[CoreOf[w]][x] <= l2tbe[x].max_read_pts
    BY <1>4 DEF ReadsTimed, FetchTimed
  <2> QED BY <2>2, <2>3
<1>8. ASSUME NEW b \in Banks, NEW d \in Cores, NEW i \in DOMAIN respNet[b][d],
             respNet[b][d][i].type = "DATA"
      PROVE  /\ d # c \/ respNet[b][d][i].addr # a =>
                   /\ at'[d][respNet[b][d][i].addr] <= respNet[b][d][i].rts
                   /\ respNet[b][d][i].wts <= respNet[b][d][i].rts
             /\ s = "mand" /\ d = c => respNet[b][d][i].addr # a
  <2>1. PICK m \in ResponseMsg : m = respNet[b][d][i] /\ m.addr \in Addrs
    BY MessageTypes
  <2>2. s = "mand" /\ d = c => m.addr # a
    BY <1>1, <1>3, <1>8, <2>1, ReadFound
  <2>3. at[d][m.addr] <= m.rts /\ m.wts <= m.rts
    BY <1>4, <1>8, <2>1 DEF ReadsTimed, DataTimed
  <2> QED BY <2>1, <2>2, <2>3
<1>9. ASSUME NEW d \in Cores, NEW i \in DOMAIN ready[d]
      PROVE  (d # c \/ ready[d][i] # a) /\ ReadTimed(d, ready[d][i])
  <2>1. d # c \/ ready[d][i] # a
    BY <1>1, <1>3, ReadFound
  <2> QED BY <1>4, <2>1 DEF ReadsTimed
<1> QED BY <1>5, <1>6, <1>7, <1>8, <1>9

\* Any part of a lease is one.
LEMMA ShorterLease ==
    ASSUME TypeOK, NEW a \in Addrs, NEW v \in Nat, NEW r \in Nat, NEW t \in Nat, t <= r,
           Covered(a, v, r)
    PROVE  Covered(a, v, t)
<1>1. wtimes[a] \in Seq(Nat) /\ Len(wtimes[a]) \in Nat /\ LeaseBound(a) \in Nat
  BY LeaseBoundType DEF TypeOK, L2TypeOK
<1>2. v < Len(wtimes[a]) => wtimes[a][v + 1] \in Nat
  BY <1>1
<1> QED BY <1>1, <1>2 DEF Covered, LeaseOK, StrictOK, Newest

\* A step of the cores keeps a read timed that it does not touch.
LEMMA ReadKept ==
    ASSUME UNCHANGED l2Vars, NEW d \in Cores, NEW x \in Addrs, ReadTimed(d, x),
           mshr'[d][x].ver = mshr[d][x].ver, at'[d][x] = at[d][x]
    PROVE  ReadTimed(d, x)'
BY DEF ReadTimed, Covered, LeaseOK, StrictOK, LeaseBound, Newest, Reached, l2Vars

\* The load at the head of the mandatory queue is a request at stage "mand".
LEMMA LoadRequest ==
    ASSUME TypeOK, ClockInv, NEW c \in Cores, LoadHit(c) \/ LoadMiss(c)
    PROVE  \E r \in CacheMsg, a \in Addrs :
              /\ mandQ[c] # <<>> /\ r = Head(mandQ[c]) /\ a = r.addr
              /\ r.op = "LD" /\ CoreOf[r.warp] = c /\ r.warp \in Warps
              /\ CacheId[r] = <<"R", c, a>> /\ Held(<<"R", c, a>>, "mand")
<1>1. mandQ[c] # <<>> /\ Head(mandQ[c]).op = "LD"
  <2>1. CASE LoadHit(c)
    BY <2>1 DEF LoadHit
  <2>2. CASE LoadMiss(c)
    BY ZenonT(40), <2>2 DEF LoadMiss
  <2> QED BY <2>1, <2>2
<1>2. PICK q \in Seq(CacheMsg) : q = mandQ[c] /\ q # <<>>
  BY <1>1 DEF TypeOK, NetTypeOK
<1>3. PICK r \in CacheMsg : r = Head(q) /\ r = q[1] /\ 1 \in DOMAIN q /\ r.op = "LD"
  BY <1>1, <1>2, QueueFacts
<1>4. PICK a \in Addrs : a = r.addr /\ r.warp \in Warps
  BY DEF CacheMsg
<1>5. CoreOf[r.warp] = c
  BY <1>2, <1>3 DEF ClockInv
<1>6. CacheId[r] = <<"R", c, a>>
  BY <1>3, <1>4, <1>5, MessageIds DEF Id
<1>7. PICK h \in Ids : h = <<"R", c, a>> /\ HomeOf(h) = c
  BY ReadName
<1>8. In(mandQ[c], CacheId, h)
  BY <1>2, <1>3, <1>6, <1>7 DEF In
<1>9. Held(h, "mand")
  BY <1>7, <1>8, HeldAt
<1> QED BY <1>1, <1>2, <1>3, <1>4, <1>5, <1>6, <1>7, <1>9

\* The L1 serves a load within the lease of its line, or asks for the line.
LEMMA LoadReads ==
    ASSUME TypeOK, TypeOK', WriteInv, LeasesCovered, ClockInv, FlightInv, LinesOK, AtInv,
           NEW c \in Cores, Load(c)
    PROVE  AtInv'
<1>0. LoadHit(c) \/ LoadMiss(c)
  BY DEF Load
<1>1. PICK r \in CacheMsg, a \in Addrs :
         /\ mandQ[c] # <<>> /\ r = Head(mandQ[c]) /\ a = r.addr
         /\ r.op = "LD" /\ CoreOf[r.warp] = c /\ r.warp \in Warps
         /\ CacheId[r] = <<"R", c, a>> /\ Held(<<"R", c, a>>, "mand")
  BY <1>0, LoadRequest
<1>2. at' = [at EXCEPT ![c][a] = pts[c]] /\ UNCHANGED l2Vars
  BY <1>1 DEF Load
<1>3. at \in [Cores -> [Addrs -> Nat]] /\ (\A d \in Cores, x \in Addrs : at[d][x] <= pts[d])
      /\ \A d \in Cores : pts[d] \in Nat
  BY DEF AtInv, TypeOK, L1TypeOK
<1>4. /\ at' \in [Cores -> [Addrs -> Nat]] /\ at'[c][a] = pts[c]
      /\ \A d \in Cores, x \in Addrs : d # c \/ x # a => at'[d][x] = at[d][x]
  BY <1>2, <1>3
<1>5. \A d \in Cores, x \in Addrs : at'[d][x] <= pts[d]
  BY <1>3, <1>4
<1>6. l2in' = l2in /\ respNet' = respNet /\ pts' = pts /\ l2tbe' = l2tbe
  <2>1. CASE LoadHit(c)
    BY <1>2, <2>1 DEF LoadHit, l1Vars, l2Vars
  <2>2. CASE LoadMiss(c)
    BY ZenonT(40), <1>2, <2>2 DEF LoadMiss, l2Vars
  <2> QED BY <1>0, <2>1, <2>2
<1>7s. PICK s \in {"mand", "resp"} : s = "mand" /\ Held(<<"R", c, a>>, s)
  BY <1>1
<1>7t. /\ \A d \in Cores, b \in Banks : \A i \in DOMAIN reqNet[d][b] :
             LET m == reqNet[d][b][i] IN
             m.type = "GETS" => at'[CoreOf[m.warp]][m.addr] <= m.pts
       /\ \A b \in Banks : \A i \in DOMAIN l2in[b] :
             LET m == l2in[b][i] IN
             m.type = "GETS" => at'[CoreOf[m.warp]][m.addr] <= m.pts
       /\ \A x \in Addrs : \A w \in l2tbe[x].gets : at'[CoreOf[w]][x] <= l2tbe[x].max_read_pts
       /\ \A b \in Banks, d \in Cores : \A i \in DOMAIN respNet[b][d] :
             LET m == respNet[b][d][i] IN
             m.type = "DATA" /\ (d # c \/ m.addr # a) => at'[d][m.addr] <= m.rts /\ m.wts <= m.rts
       /\ s = "mand" => \A b \in Banks : \A i \in DOMAIN respNet[b][c] :
             LET m == respNet[b][c][i] IN m.type = "DATA" => m.addr # a
       /\ \A d \in Cores : \A i \in DOMAIN ready[d] :
             (d # c \/ ready[d][i] # a) /\ ReadTimed(d, ready[d][i])
  BY ZenonT(30), <1>4, <1>7s, OtherReads
<1>7a. /\ \A d \in Cores, b \in Banks : \A i \in DOMAIN reqNet[d][b] :
             LET m == reqNet[d][b][i] IN
             m.type = "GETS" => at'[CoreOf[m.warp]][m.addr] <= m.pts
       /\ \A b \in Banks : \A i \in DOMAIN l2in[b] :
             LET m == l2in[b][i] IN
             m.type = "GETS" => at'[CoreOf[m.warp]][m.addr] <= m.pts
       /\ \A x \in Addrs : \A w \in l2tbe[x].gets : at'[CoreOf[w]][x] <= l2tbe[x].max_read_pts
       /\ \A b \in Banks, d \in Cores : \A i \in DOMAIN respNet[b][d] :
             LET m == respNet[b][d][i] IN
             m.type = "DATA" => at'[d][m.addr] <= m.rts /\ m.wts <= m.rts
       /\ \A d \in Cores : \A i \in DOMAIN ready[d] :
             (d # c \/ ready[d][i] # a) /\ ReadTimed(d, ready[d][i])
  BY <1>7s, <1>7t
<1>7. /\ \A b \in Banks : \A i \in DOMAIN l2in'[b] : GetsTimed(l2in[b][i])'
      /\ \A x \in Addrs : FetchTimed(x)'
      /\ \A b \in Banks, d \in Cores : \A i \in DOMAIN respNet'[b][d] : DataTimed(respNet[b][d][i], d)'
  BY <1>6, <1>7a DEF GetsTimed, FetchTimed, DataTimed
<1>8. ASSUME NEW d \in Cores, NEW i \in DOMAIN ready[d], NEW x \in Addrs, x = ready[d][i],
             mshr'[d][x].ver = mshr[d][x].ver
      PROVE  ReadTimed(d, x)'
  BY <1>2, <1>4, <1>7a, <1>8, ReadKept
<1>9. CASE LoadHit(c)
  <2>1. reqNet' = reqNet /\ readCallback(c, a, line[c][a].ver) /\ getState(c, a) \in {"S", "SM"}
    BY <1>1, <1>9 DEF LoadHit
  <2>2. PICK v \in Nat : v = line[c][a].ver
    BY DEF TypeOK, L1TypeOK, L1Entry
  <2>3. ready' = [ready EXCEPT ![c] = Append(@, a)] /\ mshr' = [mshr EXCEPT ![c][a] = [@ EXCEPT !.ver = v]]
    BY <2>1, <2>2 DEF readCallback
  <2>4. /\ mshr'[c][a].ver = v
        /\ \A d \in Cores, x \in Addrs : d # c \/ x # a => mshr'[d][x] = mshr[d][x]
    BY <2>3 DEF TypeOK, MSHRTypeOK, MSHREntry
  <2>5. line[c][a].have /\ pts[c] <= line[c][a].rts /\ line[c][a].rts \in Nat
    BY <2>1, HitFacts DEF TypeOK, L1TypeOK, L1Entry
  <2>6. Covered(a, v, line[c][a].rts) /\ Reached(a, v, pts[c])
    BY <2>2, <2>5 DEF LeasesCovered, ClockInv
  <2>7. Covered(a, v, pts[c])
    BY <1>3, <2>5, <2>6, ShorterLease
  <2>8. ReadTimed(c, a)'
    BY <1>2, <1>4, <2>4, <2>6, <2>7 DEF ReadTimed, Covered, LeaseOK, StrictOK, LeaseBound, Newest, Reached, l2Vars
  <2>9. ASSUME NEW d \in Cores, NEW i \in DOMAIN ready'[d] PROVE ReadTimed(d, ready[d][i])'
    <3>1. ready[d] \in Seq(Addrs) /\ ready'[d] = IF d = c THEN Append(ready[d], a) ELSE ready[d]
      BY <2>3 DEF TypeOK, MSHRTypeOK
    <3>2. (i \in DOMAIN ready[d] /\ ready'[d][i] = ready[d][i]) \/ (d = c /\ ready'[d][i] = a)
      BY <3>1, AppendElements
    <3>3. CASE i \in DOMAIN ready[d] /\ ready'[d][i] = ready[d][i]
      <4>1. PICK x \in Addrs : x = ready[d][i]
        BY <3>1, <3>3
      <4>2. mshr'[d][x].ver = mshr[d][x].ver
        BY <1>7a, <2>4, <3>3, <4>1
      <4>3. ReadTimed(d, x)'
        BY <1>8, <3>3, <4>1, <4>2
      <4> QED BY <3>3, <4>1, <4>3 DEF ReadTimed
    <3> QED BY <2>8, <3>2, <3>3 DEF ReadTimed
  <2>10. \A d \in Cores, b \in Banks : \A i \in DOMAIN reqNet'[d][b] : GetsTimed(reqNet[d][b][i])'
    BY <1>7a, <2>1 DEF GetsTimed
  <2> QED BY <1>4, <1>5, <1>6, <1>7, <2>9, <2>10 DEF AtInv, ReadsTimed
<1>10. CASE LoadMiss(c)
  <2>1. PICK e : SendRequest(c, a_issueGETS(c, r, e)) /\ e \in L1Entry /\ UNCHANGED coreVars
    <3>1. \A f : f = (IF line[c][a].tag THEN line[c][a] ELSE NewLine) => f \in L1Entry
      BY DEF TypeOK, L1TypeOK, L1Entry, NewLine
    <3> QED BY ZenonT(40), <1>1, <1>10, <3>1 DEF LoadMiss
  <2>2. PICK m \in RequestMsg : m = a_issueGETS(c, r, e)
    BY <2>1, L1MessageTypes
  <2>3. m.pts = pts[c] /\ m.addr = a /\ m.warp = r.warp
    BY <1>1, <2>2 DEF a_issueGETS
  <2>4. ASSUME NEW d \in Cores, NEW b \in Banks, NEW i \in DOMAIN reqNet'[d][b]
        PROVE  GetsTimed(reqNet[d][b][i])'
    <3>1. (\E j \in DOMAIN reqNet[d][b] : reqNet'[d][b][i] = reqNet[d][b][j]) \/ reqNet'[d][b][i] = m
      BY <2>1, <2>2, SentRequests
    <3>2. CASE \E j \in DOMAIN reqNet[d][b] : reqNet'[d][b][i] = reqNet[d][b][j]
      BY <1>7a, <3>2 DEF GetsTimed
    <3>3. CASE reqNet'[d][b][i] = m
      <4>1. at'[CoreOf[m.warp]][m.addr] = pts[c]
        BY <1>1, <1>4, <2>3
      <4>2. at'[CoreOf[m.warp]][m.addr] <= m.pts
        BY <1>3, <2>3, <4>1
      <4> QED BY <3>3, <4>2 DEF GetsTimed
    <3> QED BY <3>1, <3>2, <3>3
  <2>5. ready' = ready /\ mshr' = mshr
    BY <2>1 DEF coreVars
  <2>6. ASSUME NEW d \in Cores, NEW i \in DOMAIN ready'[d] PROVE ReadTimed(d, ready[d][i])'
    <3>1. PICK x \in Addrs : x = ready[d][i] /\ i \in DOMAIN ready[d] /\ ready'[d][i] = x
      BY <2>5 DEF TypeOK, MSHRTypeOK
    <3>2. ReadTimed(d, x)'
      BY <1>8, <2>5, <3>1
    <3> QED BY <3>1, <3>2 DEF ReadTimed
  <2> QED BY <1>4, <1>5, <1>6, <1>7, <2>4, <2>6 DEF AtInv, ReadsTimed
<1> QED BY <1>0, <1>9, <1>10

\* Data comes with a lease that covers the time of the read, so the read's
\* time is the later of that and of the write it reads.
LEMMA ArriveReads ==
    ASSUME TypeOK, TypeOK', WriteInv, LeasesCovered, ClockInv, FlightInv, AtInv,
           NEW c \in Cores, NEW b \in Banks, Arrive(c, b)
    PROVE  AtInv'
<1>0. Data(c, b) /\ UNCHANGED l2Vars
  BY DEF Arrive
<1>1. PICK q \in Seq(ResponseMsg) : q = respNet[b][c] /\ q # <<>>
  <2>1. respNet[b][c] # <<>>
    BY ZenonT(40), <1>0 DEF Data
  <2> QED BY <2>1 DEF TypeOK, NetTypeOK
<1>2. PICK m \in ResponseMsg, a \in Addrs :
         m = Head(q) /\ m = q[1] /\ 1 \in DOMAIN q /\ a = m.addr /\ m.wts \in Nat /\ m.rts \in Nat
         /\ m.ver \in Nat
  <2>1. PICK m \in ResponseMsg : m = Head(q) /\ m = q[1] /\ 1 \in DOMAIN q
    BY <1>1, QueueFacts
  <2>2. m.addr \in Addrs /\ m.wts \in Nat /\ m.rts \in Nat /\ m.ver \in Nat
    BY DEF ResponseMsg
  <2> QED BY <2>1, <2>2
<1>3. /\ m.type = "DATA" /\ readCallback(c, a, m.ver)
      /\ pts' = [pts EXCEPT ![c] = tp_updateProcessorTimestamp(c, m)]
      /\ respNet' = [respNet EXCEPT ![b][c] = Tail(@)]
      /\ UNCHANGED <<mandQ, reqNet, l2in>>
  BY ZenonT(40), <1>0, <1>1, <1>2 DEF Data
<1>4. at' = [at EXCEPT ![c][a] = getTimeMax(@, m.wts)]
  BY <1>1, <1>2 DEF Arrive
<1>5. at \in [Cores -> [Addrs -> Nat]] /\ (\A d \in Cores, x \in Addrs : at[d][x] <= pts[d])
      /\ \A d \in Cores : pts[d] \in Nat
  BY DEF AtInv, TypeOK, L1TypeOK
<1>6. PICK t \in Nat : t = getTimeMax(at[c][a], m.wts) /\ t >= at[c][a] /\ t >= m.wts
                       /\ (t = at[c][a] \/ t = m.wts)
  BY <1>2, <1>5 DEF getTimeMax
<1>7. /\ at' \in [Cores -> [Addrs -> Nat]] /\ at'[c][a] = t
      /\ \A d \in Cores, x \in Addrs : d # c \/ x # a => at'[d][x] = at[d][x]
  BY <1>4, <1>5, <1>6
<1>8. \A d \in Cores : pts'[d] \in Nat /\ pts'[d] >= pts[d] /\ (d = c => pts'[d] >= m.wts)
  <2>1. PICK u \in Nat : u = getTimeMax(pts[c], m.wts) /\ u >= pts[c] /\ u >= m.wts
    BY <1>2, <1>5, MaxFacts
  <2>2. pts' = [pts EXCEPT ![c] = u] /\ pts \in [Cores -> Nat]
    BY <1>3, <2>1 DEF TypeOK, L1TypeOK, tp_updateProcessorTimestamp
  <2> QED BY <1>5, <2>1, <2>2
<1>9. \A d \in Cores, x \in Addrs : at'[d][x] <= pts'[d]
  <2> SUFFICES ASSUME NEW d \in Cores, NEW x \in Addrs PROVE at'[d][x] <= pts'[d]
    OBVIOUS
  <2>1. at[d][x] \in Nat /\ at[d][x] <= pts[d] /\ pts[d] \in Nat /\ pts'[d] \in Nat /\ pts'[d] >= pts[d]
    BY <1>5, <1>8
  <2>2. CASE d = c /\ x = a
    <3>1. t <= pts'[c]
      BY <1>2, <1>6, <1>8, <2>1, <2>2
    <3> QED BY <1>7, <2>2, <3>1
  <2>3. CASE d # c \/ x # a
    BY <1>7, <2>1, <2>3
  <2> QED BY <2>2, <2>3
<1>10. DataTimed(m, c) /\ ResponseOK(m, b, c) /\ Covered(a, m.ver, m.rts)
  BY <1>1, <1>2, <1>3 DEF AtInv, ReadsTimed, ClockInv, LeasesCovered
<1>11. PICK h \in Ids : h = <<"R", c, a>> /\ HomeOf(h) = c /\ h[3] = a
  BY ReadName
<1>12. ResponseId[m] = h /\ BankOf[a] = b
  BY <1>2, <1>3, <1>10, <1>11, MessageIds DEF ResponseOK, Id
<1>13. Held(h, "resp")
  <2>1. In(respNet[BankOf[a]][c], ResponseId, h)
    BY <1>1, <1>2, <1>12 DEF In
  <2> QED BY <1>11, <2>1, HeldAt
<1>14. PICK s \in {"mand", "resp"} : s = "resp" /\ Held(<<"R", c, a>>, s)
  BY <1>11, <1>13
<1>15. /\ \A d \in Cores, x \in Banks : \A i \in DOMAIN reqNet[d][x] :
             LET n == reqNet[d][x][i] IN
             n.type = "GETS" => at'[CoreOf[n.warp]][n.addr] <= n.pts
       /\ \A x \in Banks : \A i \in DOMAIN l2in[x] :
             LET n == l2in[x][i] IN
             n.type = "GETS" => at'[CoreOf[n.warp]][n.addr] <= n.pts
       /\ \A x \in Addrs : \A w \in l2tbe[x].gets : at'[CoreOf[w]][x] <= l2tbe[x].max_read_pts
       /\ \A x \in Banks, d \in Cores : \A i \in DOMAIN respNet[x][d] :
             LET n == respNet[x][d][i] IN
             n.type = "DATA" /\ (d # c \/ n.addr # a) => at'[d][n.addr] <= n.rts /\ n.wts <= n.rts
       /\ s = "mand" => \A x \in Banks : \A i \in DOMAIN respNet[x][c] :
             LET n == respNet[x][c][i] IN n.type = "DATA" => n.addr # a
       /\ \A d \in Cores : \A i \in DOMAIN ready[d] :
             (d # c \/ ready[d][i] # a) /\ ReadTimed(d, ready[d][i])
  <2>1. \A d \in Cores, x \in Addrs : d # c \/ x # a => at'[d][x] = at[d][x]
    BY <1>7
  <2>2. s \in {"mand", "resp"} /\ Held(<<"R", c, a>>, s)
    BY <1>14
  <2> QED BY <2>1, <2>2, OtherReads, ZenonT(40)
<1>16. /\ \A d \in Cores, x \in Banks : \A i \in DOMAIN reqNet'[d][x] : GetsTimed(reqNet[d][x][i])'
       /\ \A x \in Banks : \A i \in DOMAIN l2in'[x] : GetsTimed(l2in[x][i])'
       /\ \A x \in Addrs : FetchTimed(x)'
  BY <1>0, <1>3, <1>15 DEF GetsTimed, FetchTimed, l2Vars
<1>17. ASSUME NEW x \in Banks, NEW d \in Cores, NEW i \in DOMAIN respNet'[x][d]
       PROVE  DataTimed(respNet[x][d][i], d)'
  <2>1. PICK j \in DOMAIN respNet[x][d] : respNet'[x][d][i] = respNet[x][d][j]
    BY <1>1, <1>3, PoppedResponses
  <2>2. PICK n \in ResponseMsg : n = respNet[x][d][j] /\ n = respNet'[x][d][i]
    BY <2>1, MessageTypes
  <2>3. d = c /\ n.type = "DATA" => n.addr # a
    <3> SUFFICES ASSUME d = c, n.type = "DATA", n.addr = a PROVE FALSE
      OBVIOUS
    <3>1. ResponseOK(n, x, c)
      BY <2>1, <2>2 DEF ClockInv
    <3>2. x = b /\ ResponseId[n] = h
      BY <1>11, <1>12, <2>2, <3>1, MessageIds DEF ResponseOK, Id
    <3>3. respNet'[b][c] = Tail(q)
      BY <1>1, <1>3 DEF TypeOK, NetTypeOK
    <3>4. In(Tail(q), ResponseId, h)
      BY <2>2, <3>2, <3>3 DEF In
    <3>5. Once(q, ResponseId)
      BY <1>1 DEF FlightInv, OnceEach
    <3>6. h # ResponseId[Head(q)]
      BY <1>1, <3>4, <3>5, PopIn
    <3> QED BY <1>2, <1>12, <3>6
  <2>4. n.type = "DATA" => at'[d][n.addr] <= n.rts /\ n.wts <= n.rts
    BY <1>15, <2>2, <2>3
  <2> QED BY <2>2, <2>4 DEF DataTimed
<1>18. /\ ready' = [ready EXCEPT ![c] = Append(@, a)]
       /\ mshr' = [mshr EXCEPT ![c][a] = [@ EXCEPT !.ver = m.ver]]
  BY <1>3 DEF readCallback
<1>19. /\ mshr'[c][a].ver = m.ver
       /\ \A d \in Cores, x \in Addrs : d # c \/ x # a => mshr'[d][x] = mshr[d][x]
  BY <1>18 DEF TypeOK, MSHRTypeOK, MSHREntry
<1>20. ReadTimed(c, a)'
  <2>1. t <= m.rts
    BY <1>2, <1>3, <1>5, <1>6, <1>10 DEF DataTimed
  <2>2. Covered(a, m.ver, t)
    BY <1>2, <1>10, <2>1, ShorterLease
  <2>3. Reached(a, m.ver, t)
    <3>1. Reached(a, m.ver, m.wts)
      BY <1>2, <1>10 DEF ResponseOK
    <3>2. wtimes[a] \in Seq(Nat)
      BY DEF TypeOK, L2TypeOK
    <3>3. m.ver > 0 /\ m.ver <= Len(wtimes[a]) => wtimes[a][m.ver] \in Nat
      BY <1>2, <3>2
    <3> QED BY <1>2, <1>6, <3>1, <3>3 DEF Reached, Newest
  <2> QED BY <1>0, <1>7, <1>19, <2>2, <2>3 DEF ReadTimed, Covered, LeaseOK, StrictOK, LeaseBound, Newest, Reached, l2Vars
<1>21. ASSUME NEW d \in Cores, NEW i \in DOMAIN ready'[d] PROVE ReadTimed(d, ready[d][i])'
  <2>1. ready[d] \in Seq(Addrs) /\ ready'[d] = IF d = c THEN Append(ready[d], a) ELSE ready[d]
    BY <1>18 DEF TypeOK, MSHRTypeOK
  <2>2. (i \in DOMAIN ready[d] /\ ready'[d][i] = ready[d][i]) \/ (d = c /\ ready'[d][i] = a)
    BY <2>1, AppendElements
  <2>3. CASE i \in DOMAIN ready[d] /\ ready'[d][i] = ready[d][i]
    <3>1. PICK x \in Addrs : x = ready[d][i]
      BY <2>1, <2>3
    <3>2. (d # c \/ x # a) /\ ReadTimed(d, x)
      BY <1>15, <2>3, <3>1
    <3>3. ReadTimed(d, x)'
      BY <1>0, <1>7, <1>19, <3>2, ReadKept
    <3> QED BY <2>3, <3>1, <3>3 DEF ReadTimed
  <2> QED BY <1>20, <2>2, <2>3 DEF ReadTimed
<1> QED BY <1>7, <1>9, <1>16, <1>17, <1>21 DEF AtInv, ReadsTimed

\* A step of the cores that sends no load and answers none.
LEMMA CoreReads ==
    ASSUME TypeOK, TypeOK', AtInv, UNCHANGED <<l2Vars, at>>, \A c \in Cores : pts'[c] >= pts[c],
           \A c \in Cores, b \in Banks : \A i \in DOMAIN reqNet'[c][b] :
              \/ \E j \in DOMAIN reqNet[c][b] : reqNet'[c][b][i] = reqNet[c][b][j]
              \/ GetsTimed(reqNet'[c][b][i]),
           \A b \in Banks : \A i \in DOMAIN l2in'[b] :
              \/ \E j \in DOMAIN l2in[b] : l2in'[b][i] = l2in[b][j]
              \/ GetsTimed(l2in'[b][i]),
           \A b \in Banks, c \in Cores : \A i \in DOMAIN respNet'[b][c] :
              \E j \in DOMAIN respNet[b][c] : respNet'[b][c][i] = respNet[b][c][j],
           \A c \in Cores : \A i \in DOMAIN ready'[c] : \E j \in DOMAIN ready[c] :
              ready'[c][i] = ready[c][j] /\ mshr'[c][ready[c][j]].ver = mshr[c][ready[c][j]].ver
    PROVE  AtInv'
<1>1. (\A x \in Addrs : KeepsCover(x)) /\ Kept
  BY CoreStepCover, KeptByCores DEF l2Vars
<1>2. at' = at /\ \A a \in Addrs : l2tbe'[a] = l2tbe[a]
  BY DEF l2Vars
<1> QED BY <1>1, <1>2, QuietReads

\* The clocks when no response arrives.
LEMMA ClocksStill == TypeOK /\ pts' = pts => \A c \in Cores : pts'[c] >= pts[c]
BY DEF TypeOK, L1TypeOK

\* The steps between a warp and its L1 but for the writeback of a read.
LEMMA WarpReads ==
    ASSUME TypeOK, TypeOK', AtInv, at' = at,
           (\E w \in Warps : Issue(w)) \/ (\E c \in Cores : WriteAck(c))
    PROVE  AtInv'
<1>1. UNCHANGED <<l1Vars, l2Vars, reqNet, l2in, respNet, ready>>
  <2>1. ASSUME NEW w \in Warps, Issue(w) PROVE UNCHANGED <<l1Vars, l2Vars, reqNet, l2in, respNet, ready>>
    BY <2>1 DEF Issue, send_request
  <2>2. ASSUME NEW c \in Cores, WriteAck(c) PROVE UNCHANGED <<l1Vars, l2Vars, reqNet, l2in, respNet, ready>>
    BY <2>2 DEF WriteAck, mark_skipped_write_done, netVars
  <2> QED BY <2>1, <2>2
<1>2. \A d \in Cores, x \in Addrs : mshr'[d][x].ver = mshr[d][x].ver
  <2> SUFFICES ASSUME NEW d \in Cores, NEW x \in Addrs PROVE mshr'[d][x].ver = mshr[d][x].ver
    OBVIOUS
  <2>1. \A m \in MSHREntry : /\ \A op, w : add(m, op, w).ver = m.ver
                             /\ \A w : PopWrite(m, w).ver = m.ver
    BY DEF MSHREntry, add, PopWrite
  <2>2. ASSUME NEW w \in Warps, Issue(w) PROVE mshr'[d][x].ver = mshr[d][x].ver
    <3>1. PICK p : p \in Prog[w][Len(log[w]) + 1] /\ send_request(w, p[1], p[2])
      BY <2>2 DEF Issue
    <3>2. mshr' = [mshr EXCEPT ![CoreOf[w]][p[2]] = add(mshr[CoreOf[w]][p[2]], p[1], w)]
      BY <3>1 DEF send_request
    <3>3. mshr'[d][x] = mshr[d][x] \/ mshr'[d][x] = add(mshr[d][x], p[1], w)
      BY <3>2 DEF TypeOK, MSHRTypeOK
    <3>4. mshr[d][x] \in MSHREntry
      BY DEF TypeOK, MSHRTypeOK
    <3> QED BY <2>1, <3>3, <3>4
  <2>3. ASSUME NEW c \in Cores, WriteAck(c) PROVE mshr'[d][x].ver = mshr[d][x].ver
    <3>1. PICK k : mshr' = [mshr EXCEPT ![c][k.addr] = PopWrite(mshr[c][k.addr], k.warp)]
      BY <2>3 DEF WriteAck, mark_skipped_write_done
    <3>2. mshr'[d][x] = mshr[d][x] \/ mshr'[d][x] = PopWrite(mshr[d][x], k.warp)
      BY <3>1 DEF TypeOK, MSHRTypeOK
    <3>3. mshr[d][x] \in MSHREntry
      BY DEF TypeOK, MSHRTypeOK
    <3> QED BY <2>1, <3>2, <3>3
  <2> QED BY <2>2, <2>3
<1>3. \A c \in Cores : \A i \in DOMAIN ready'[c] : \E j \in DOMAIN ready[c] :
         ready'[c][i] = ready[c][j] /\ mshr'[c][ready[c][j]].ver = mshr[c][ready[c][j]].ver
  <2>1. \A c \in Cores : \A i \in DOMAIN ready[c] : ready[c][i] \in Addrs
    BY DEF TypeOK, MSHRTypeOK
  <2> QED BY <1>1, <1>2, <2>1
<1>4. \A c \in Cores : pts'[c] >= pts[c]
  BY <1>1, ClocksStill DEF l1Vars
<1> QED BY <1>1, <1>3, <1>4, CoreReads

\* The writeback of a read: the line is taken off the queue with the last of
\* its reads.
LEMMA ReadBackReads ==
    ASSUME TypeOK, TypeOK', FlightInv, AtInv, at' = at, NEW c \in Cores, Writeback(c)
    PROVE  AtInv'
<1>1. UNCHANGED <<l1Vars, l2Vars, reqNet, l2in, respNet>> /\ ready[c] # <<>>
  BY DEF Writeback, next_access, netVars
<1>2. PICK q \in Seq(Addrs) : q = ready[c] /\ q # <<>>
  BY <1>1 DEF TypeOK, MSHRTypeOK
<1>3. PICK a \in Addrs : a = Head(q) /\ a = q[1]
  BY <1>2, QueueFacts
<1>4. PICK m \in MSHREntry : m = mshr[c][a]
  BY DEF TypeOK, MSHRTypeOK
<1>5. /\ mshr' = [mshr EXCEPT ![c][a] = PopRead(m)]
      /\ ready' = [ready EXCEPT ![c] = IF Len(m.list) = 1 THEN Tail(q) ELSE q]
  BY <1>2, <1>3, <1>4 DEF Writeback, next_access, PopResponse
<1>6. /\ \A d \in Cores, x \in Addrs : d # c \/ x # a => mshr'[d][x] = mshr[d][x]
      /\ mshr'[c][a] = PopRead(m)
      /\ \A d \in Cores \ {c} : ready'[d] = ready[d]
      /\ ready'[c] = IF Len(m.list) = 1 THEN Tail(q) ELSE q
  BY <1>5 DEF TypeOK, MSHRTypeOK
<1>7. Len(m.list) # 1 => mshr'[c][a].ver = m.ver
  BY <1>6 DEF PopRead, MSHREntry
<1>8. ASSUME NEW d \in Cores, NEW i \in DOMAIN ready'[d]
      PROVE  \E j \in DOMAIN ready[d] :
                ready'[d][i] = ready[d][j] /\ mshr'[d][ready[d][j]].ver = mshr[d][ready[d][j]].ver
  <2>1. \A j \in DOMAIN ready[d] : ready[d][j] \in Addrs
    BY DEF TypeOK, MSHRTypeOK
  <2>2. CASE d # c
    BY <1>6, <2>1, <2>2
  <2>3. CASE d = c /\ Len(m.list) # 1
    <3>1. ready'[d] = ready[d] /\ \A x \in Addrs : mshr'[d][x].ver = mshr[d][x].ver
      BY <1>2, <1>4, <1>6, <1>7, <2>3
    <3> QED BY <2>1, <3>1
  <2>4. CASE d = c /\ Len(m.list) = 1
    <3>1. ready'[d] = Tail(q) /\ i \in DOMAIN Tail(q)
      BY <1>6, <2>4
    <3>2. i + 1 \in DOMAIN q /\ Tail(q)[i] = q[i + 1]
      BY <1>2, <3>1, TailElements
    <3>3. PICK x \in Addrs : x = Tail(q)[i]
      <4>1. q[i + 1] \in Addrs
        BY <1>2, <2>1, <2>4, <3>2
      <4> QED BY <3>2, <4>1
    <3>4. PICK h : h = <<"R", c, x>>
      OBVIOUS
    <3>5. ReadyId(c)[x] = h /\ ReadyId(c)[a] = <<"R", c, a>>
      BY <3>4 DEF ReadyId
    <3>6. In(Tail(q), ReadyId(c), h)
      BY <3>1, <3>3, <3>5 DEF In
    <3>7. Once(q, ReadyId(c))
      BY <1>2 DEF FlightInv, OnceEach
    <3>8. h # ReadyId(c)[Head(q)]
      BY <1>2, <3>6, <3>7, PopIn
    <3>9. x # a
      BY <1>3, <3>4, <3>5, <3>8
    <3>10. mshr'[d][x] = mshr[d][x]
      BY <1>6, <3>9
    <3> QED BY <1>2, <2>4, <3>1, <3>2, <3>3, <3>10
  <2> QED BY <2>2, <2>3, <2>4
<1>9. \A d \in Cores : pts'[d] >= pts[d]
  BY <1>1, ClocksStill DEF l1Vars
<1> QED BY <1>1, <1>8, <1>9, CoreReads

\* The steps of an L1 and of the network that answer no read.
LEMMA L1RestReads ==
    ASSUME TypeOK, TypeOK', AtInv, UNCHANGED <<l2Vars, at>>, NEW c \in Cores,
           \/ WriteThrough(c)
           \/ \E v \in Addrs : L1_Replacement(c, v)
           \/ \E b \in Banks : WriteDone(c, b) \/ Network(c, b)
    PROVE  AtInv'
<1>1. \A d \in Cores : \A i \in DOMAIN ready[d] : ready[d][i] \in Addrs
  BY DEF TypeOK, MSHRTypeOK
<1>2. CASE WriteThrough(c)
  <2>1. UNCHANGED <<l2in, respNet, pts, ready, mshr>> /\ mandQ[c] # <<>>
    BY <1>2 DEF WriteThrough, coreVars
  <2>2. PICK r \in CacheMsg : r = Head(mandQ[c])
    BY <2>1, MandatoryHead
  <2>3. PICK m \in RequestMsg : m = d2t_sendToL2(c, r) /\ m.type # "GETS"
    <3>1. PICK e \in L1Entry : e = line[c][r.addr]
      BY <2>1, <2>2, MandatoryHead DEF TypeOK, L1TypeOK
    <3>2. d2t_sendToL2(c, r) \in RequestMsg
      BY <3>1, L1MessageTypes
    <3> QED BY <3>2 DEF d2t_sendToL2
  <2>4. SendRequest(c, m)
    BY <1>2, <2>2, <2>3 DEF WriteThrough
  <2>5. \A d \in Cores, b \in Banks : \A i \in DOMAIN reqNet'[d][b] :
           \/ \E j \in DOMAIN reqNet[d][b] : reqNet'[d][b][i] = reqNet[d][b][j]
           \/ GetsTimed(reqNet'[d][b][i])
    BY <2>3, <2>4, SentRequests DEF GetsTimed
  <2>6. \A d \in Cores : pts'[d] >= pts[d]
    BY <2>1, ClocksStill
  <2> QED BY <2>1, <2>5, <2>6, CoreReads
<1>3. ASSUME NEW v \in Addrs, L1_Replacement(c, v) PROVE AtInv'
  <2>1. UNCHANGED <<reqNet, l2in, respNet, pts, ready, mshr>>
    BY <1>3 DEF L1_Replacement, netVars, coreVars
  <2>2. \A d \in Cores : pts'[d] >= pts[d]
    BY <2>1, ClocksStill
  <2> QED BY <2>1, <2>2, CoreReads
<1>4. ASSUME NEW b \in Banks, WriteDone(c, b) PROVE AtInv'
  <2>1. respNet[b][c] # <<>>
    BY ZenonT(40), <1>4 DEF WriteDone
  <2>2. PICK m \in ResponseMsg, u \in Nat : m = Head(respNet[b][c]) /\ u = m.wts
    BY <2>1, ResponseHead
  <2>3. /\ respNet' = [respNet EXCEPT ![b][c] = Tail(@)]
        /\ pts' = [pts EXCEPT ![c] = tp_updateProcessorTimestamp(c, m)]
        /\ UNCHANGED <<mandQ, reqNet, l2in, mshr, ready>>
    BY ZenonT(40), <1>4, <2>2 DEF WriteDone, writeCallback
  <2>4. \A d \in Cores : pts'[d] >= pts[d]
    <3>1. pts \in [Cores -> Nat] /\ pts' = [pts EXCEPT ![c] = getTimeMax(pts[c], u)]
      BY <2>2, <2>3 DEF TypeOK, L1TypeOK, tp_updateProcessorTimestamp
    <3>2. getTimeMax(pts[c], u) \in Nat /\ getTimeMax(pts[c], u) >= pts[c]
      BY <3>1, MaxFacts
    <3> QED BY <3>1, <3>2
  <2>5. \A d \in Banks, k \in Cores : \A i \in DOMAIN respNet'[d][k] :
           \E j \in DOMAIN respNet[d][k] : respNet'[d][k][i] = respNet[d][k][j]
    BY <2>1, <2>3, PoppedResponses
  <2> QED BY <2>3, <2>4, <2>5, CoreReads
<1>5. ASSUME NEW b \in Banks, Network(c, b) PROVE AtInv'
  <2>1. UNCHANGED <<respNet, pts, ready, mshr>>
    BY <1>5 DEF Network, l1Vars, coreVars
  <2>2. /\ \A d \in Cores, x \in Banks : \A i \in DOMAIN reqNet'[d][x] :
              \E j \in DOMAIN reqNet[d][x] : reqNet'[d][x][i] = reqNet[d][x][j]
        /\ \A x \in Banks : \A i \in DOMAIN l2in'[x] :
              \/ \E j \in DOMAIN l2in[x] : l2in'[x][i] = l2in[x][j]
              \/ \E j \in DOMAIN reqNet[c][b] : l2in'[x][i] = reqNet[c][b][j]
    BY <1>5, DeliveredRequests
  <2>3. \A j \in DOMAIN reqNet[c][b] : GetsTimed(reqNet[c][b][j])
    BY DEF AtInv, ReadsTimed
  <2>4. \A x \in Banks : \A i \in DOMAIN l2in'[x] :
           \/ \E j \in DOMAIN l2in[x] : l2in'[x][i] = l2in[x][j]
           \/ GetsTimed(l2in'[x][i])
    BY <2>2, <2>3 DEF GetsTimed
  <2>5. \A d \in Cores : pts'[d] >= pts[d]
    BY <2>1, ClocksStill
  <2> QED BY <2>1, <2>2, <2>4, <2>5, CoreReads
<1> QED BY <1>2, <1>3, <1>4, <1>5

\* A step of bank b.
LEMMA BankReads ==
    ASSUME TypeOK, TypeOK', AtInv, at' = at, UNCHANGED <<coreVars, l1Vars, reqNet>>,
           \A x \in Addrs : KeepsCover(x), Kept,
           l2in' = l2in \/ \E b \in Banks : l2in[b] # <<>> /\ l2in' = [l2in EXCEPT ![b] = Tail(@)],
           \A a \in Addrs : l2tbe'[a] = l2tbe[a] \/ FetchTimed(a)',
           \A b \in Banks, c \in Cores : \A i \in DOMAIN respNet'[b][c] :
              \/ \E j \in DOMAIN respNet[b][c] : respNet'[b][c][i] = respNet[b][c][j]
              \/ DataTimed(respNet'[b][c][i], c)
    PROVE  AtInv'
<1>1. \A b \in Banks : \A i \in DOMAIN l2in'[b] : \E j \in DOMAIN l2in[b] : l2in'[b][i] = l2in[b][j]
  BY PoppedRequests
<1>2. \A c \in Cores : pts'[c] >= pts[c]
  BY ClocksStill DEF l1Vars
<1>3. ready' = ready /\ mshr' = mshr
  BY DEF coreVars
<1> QED BY <1>1, <1>2, <1>3, QuietReads

\* The request that a bank takes.
LEMMA TakenRequest ==
    ASSUME TypeOK, NEW b \in Banks, NEW t \in {"GETS", "DATA", "DATA_ATOMIC"}, Request(b, t)
    PROVE  \E r \in RequestMsg : /\ l2in[b] # <<>> /\ r = Head(l2in[b]) /\ r.type = t
                                 /\ 1 \in DOMAIN l2in[b] /\ r = l2in[b][1]
                                 /\ r.addr \in Addrs /\ r.warp \in Warps /\ r.pts \in Nat
<1>1. PICK q \in Seq(RequestMsg) : q = l2in[b] /\ q # <<>>
  BY DEF Request, TypeOK, NetTypeOK
<1>2. PICK r \in RequestMsg : r = Head(q) /\ r = q[1] /\ 1 \in DOMAIN q
  BY <1>1, QueueFacts
<1>3. r.addr \in Addrs /\ r.warp \in Warps /\ r.pts \in Nat
  BY DEF RequestMsg
<1>4. r.type = t
  BY <1>1, <1>2 DEF Request
<1> QED BY <1>1, <1>2, <1>3, <1>4

\* A load waits for the fetch of its line with its time.
LEMMA GetsMissReads ==
    ASSUME TypeOK, TypeOK', AtInv, FlightInv, at' = at, \A x \in Addrs : KeepsCover(x), Kept,
           NEW b \in Banks, GetsMiss(b), UNCHANGED <<coreVars, l1Vars>>
    PROVE  AtInv'
<1>1. PICK r \in RequestMsg : /\ l2in[b] # <<>> /\ r = Head(l2in[b]) /\ r.type = "GETS"
                              /\ 1 \in DOMAIN l2in[b] /\ r = l2in[b][1]
                              /\ r.addr \in Addrs /\ r.warp \in Warps /\ r.pts \in Nat
  BY TakenRequest DEF GetsMiss
<1>2. PICK a \in Addrs : a = r.addr
  BY <1>1
<1>3. /\ l2tbe' = [l2tbe EXCEPT ![a] = TBEForGETS(r)]
      /\ l2in' = [l2in EXCEPT ![b] = Tail(@)]
      /\ UNCHANGED <<reqNet, respNet>>
  BY <1>1, <1>2 DEF GetsMiss, PopRequest
<1>4. l2tbe'[a] = TBEForGETS(r) /\ \A x \in Addrs \ {a} : l2tbe'[x] = l2tbe[x]
  BY <1>3 DEF TypeOK, L2TypeOK
<1>5. at[CoreOf[r.warp]][a] <= r.pts /\ FetchTimed(a)
      /\ at \in [Cores -> [Addrs -> Nat]] /\ CoreOf \in [Warps -> Cores]
  BY <1>1, <1>2, CoreOfAssumption DEF AtInv, ReadsTimed, GetsTimed
<1>6. FetchTimed(a)'
  <2>1. CASE l2st[a] = "NP"
    <3>1. l2tbe'[a].gets = {r.warp} /\ l2tbe'[a].max_read_pts = r.pts
      BY <1>2, <1>4, <2>1 DEF TBEForGETS, NoL2TBE
    <3> QED BY <1>5, <3>1 DEF FetchTimed
  <2>2. CASE l2st[a] # "NP"
    <3>1. PICK t \in L2TBE, u \in Nat : t = l2tbe[a] /\ u = t.max_read_pts /\ t.gets \subseteq Warps
      BY DEF TypeOK, L2TypeOK, L2TBE
    <3>2. /\ l2tbe'[a].gets = t.gets \cup {r.warp}
          /\ l2tbe'[a].max_read_pts = getTimeMax(r.pts, u)
      BY <1>2, <1>4, <2>2, <3>1 DEF TBEForGETS, L2TBE
    <3>3. PICK n \in Nat : n = getTimeMax(r.pts, u) /\ n >= r.pts /\ n >= u
      BY <1>1, MaxFacts
    <3>4. \A w \in t.gets : at[CoreOf[w]][a] <= u /\ at[CoreOf[w]][a] \in Nat
      BY <1>5, <3>1 DEF FetchTimed
    <3>5. at[CoreOf[r.warp]][a] \in Nat
      BY <1>1, <1>5
    <3>6. \A w \in t.gets \cup {r.warp} : at[CoreOf[w]][a] <= n
      BY <1>1, <1>5, <3>3, <3>4, <3>5
    <3> QED BY <3>2, <3>3, <3>6 DEF FetchTimed
  <2> QED BY <2>1, <2>2
<1> QED BY <1>1, <1>3, <1>4, <1>6, BankReads

\* A write leaves the reads that wait for the fetch of its line alone.
LEMMA MissReads ==
    ASSUME TypeOK, TypeOK', AtInv, FlightInv, at' = at, \A x \in Addrs : KeepsCover(x), Kept,
           NEW b \in Banks, WriteMiss(b) \/ AtomicMiss(b), UNCHANGED <<coreVars, l1Vars>>
    PROVE  AtInv'
<1>1. PICK t \in {"GETS", "DATA", "DATA_ATOMIC"} : Request(b, t)
  BY DEF WriteMiss, AtomicMiss
<1>2. PICK r \in RequestMsg : /\ l2in[b] # <<>> /\ r = Head(l2in[b])
                              /\ r.addr \in Addrs /\ r.warp \in Warps /\ r.pts \in Nat
  BY <1>1, TakenRequest
<1>3. PICK a \in Addrs, e \in L2TBE : a = r.addr /\ e = TBEForWriteMiss(r)
  BY <1>2, TBETypes
<1>4. PICK f : l2tbe' = [l2tbe EXCEPT ![a] = f] /\ f.gets = e.gets /\ f.max_read_pts = e.max_read_pts
  <2>1. CASE WriteMiss(b)
    <3>1. l2tbe' = [l2tbe EXCEPT ![a] = [e EXCEPT !.ver = Newest(a) + 1]]
      BY <1>2, <1>3, <2>1 DEF WriteMiss
    <3>2. PICK f : f = [e EXCEPT !.ver = Newest(a) + 1]
      OBVIOUS
    <3>3. f.gets = e.gets /\ f.max_read_pts = e.max_read_pts
      BY <3>2 DEF L2TBE
    <3> QED BY <3>1, <3>2, <3>3
  <2>2. CASE AtomicMiss(b)
    BY <1>2, <1>3, <2>2 DEF AtomicMiss
  <2> QED BY <2>1, <2>2
<1>5. l2tbe'[a] = f /\ \A x \in Addrs \ {a} : l2tbe'[x] = l2tbe[x]
  BY <1>4 DEF TypeOK, L2TypeOK
<1>6. e.gets = {} \/ (e.gets = l2tbe[a].gets /\ e.max_read_pts = l2tbe[a].max_read_pts)
  BY <1>3 DEF TBEForWriteMiss, NoL2TBE, TypeOK, L2TypeOK, L2TBE
<1>7. FetchTimed(a)'
  <2>1. FetchTimed(a)
    BY DEF AtInv, ReadsTimed
  <2> QED BY <1>4, <1>5, <1>6, <2>1 DEF FetchTimed
<1>8. l2in' = [l2in EXCEPT ![b] = Tail(@)] /\ reqNet' = reqNet
  BY DEF WriteMiss, AtomicMiss, PopRequest
<1>9. \A d \in Banks, c \in Cores : \A i \in DOMAIN respNet'[d][c] :
         \/ \E j \in DOMAIN respNet[d][c] : respNet'[d][c][i] = respNet[d][c][j]
         \/ DataTimed(respNet'[d][c][i], c)
  <2>1. CASE WriteMiss(b)
    <3>0. \E k \in Nat, v \in Nat : SendResponse(b, WriteResponse("ACK", a, r.warp, k, v))
      <4>1. PICK k \in Nat : k = MissWts(e, mts[b])
        BY <1>3, MtsFacts DEF TypeOK, L2TypeOK
      <4>2. PICK v \in Nat : v = Newest(a) + 1
        BY DEF TypeOK, L2TypeOK, Newest
      <4>3. SendResponse(b, WriteResponse("ACK", a, r.warp, k, v))
        BY <1>2, <1>3, <2>1, <4>1, <4>2 DEF WriteMiss
      <4> QED BY <4>3
    <3>1a. PICK k \in Nat, v \in Nat : SendResponse(b, WriteResponse("ACK", a, r.warp, k, v))
      BY <3>0
    <3>1. PICK m : SendResponse(b, m) /\ m = WriteResponse("ACK", a, r.warp, k, v)
      BY <3>1a
    <3>2. m.type = "ACK" /\ m \in ResponseMsg
      BY <1>2, <3>1 DEF WriteResponse, ResponseMsg
    <3> QED BY <3>1, <3>2, SentResponses DEF DataTimed
  <2>2. CASE AtomicMiss(b)
    BY <2>2 DEF AtomicMiss
  <2> QED BY <2>1, <2>2
<1> QED BY <1>2, <1>5, <1>7, <1>8, <1>9, BankReads

\* The lease a bank gives covers the time of the load and of the write it reads.
LEMMA GetsHitReads ==
    ASSUME TypeOK, TypeOK', AtInv, at' = at, \A x \in Addrs : KeepsCover(x), Kept,
           NEW b \in Banks, GetsHit(b), UNCHANGED <<coreVars, l1Vars>>
    PROVE  AtInv'
<1>1. PICK r \in RequestMsg : /\ l2in[b] # <<>> /\ r = Head(l2in[b]) /\ r.type = "GETS"
                              /\ 1 \in DOMAIN l2in[b] /\ r = l2in[b][1]
                              /\ r.addr \in Addrs /\ r.warp \in Warps /\ r.pts \in Nat
  BY TakenRequest DEF GetsHit
<1>2. PICK a \in Addrs, f \in L2Entry : a = r.addr /\ f = l2[a] /\ f.wts \in Nat /\ f.rts \in Nat
  BY <1>1 DEF TypeOK, L2TypeOK, L2Entry
<1>3. PICK n \in Nat : n = tr_updateL2BlockRts(f, r) /\ n >= r.pts /\ n >= f.wts
  <2>0. PICK k \in Nat : k = f.wts
    BY <1>2
  <2>1. PICK x \in Nat : x = k + Lease /\ x >= k
    BY LeaseAssumption
  <2>2. PICK y \in Nat : y = r.pts + Lease /\ y >= r.pts
    BY <1>1, LeaseAssumption
  <2>3. PICK z \in Nat : z = getTimeMax(x, f.rts) /\ z >= x
    BY <1>2, MaxFacts
  <2>4. PICK n \in Nat : n = getTimeMax(y, z) /\ n >= y /\ n >= z
    BY MaxFacts
  <2>5. n = tr_updateL2BlockRts(f, r)
    BY <2>0, <2>1, <2>2, <2>3, <2>4 DEF tr_updateL2BlockRts
  <2>6. n >= k
    BY <2>1, <2>3, <2>4
  <2>7. n >= r.pts
    BY <1>1, <2>2, <2>4
  <2> QED BY <2>0, <2>5, <2>6, <2>7
<1>4. PICK e \in L2Entry : e = [f EXCEPT !.rts = n] /\ e.rts = n /\ e.wts = f.wts
  <2>1. PICK e : e = [f EXCEPT !.rts = n]
    OBVIOUS
  <2>2. e \in L2Entry /\ e.rts = n /\ e.wts = f.wts
    BY <2>1 DEF L2Entry
  <2> QED BY <2>1, <2>2
<1>5. PICK m \in ResponseMsg : m = DataResponse(a, e, r.warp)
  BY <1>1, L2MessageTypes DEF TypeOK
<1>6. /\ SendResponse(b, m) /\ l2in' = [l2in EXCEPT ![b] = Tail(@)]
      /\ UNCHANGED <<reqNet, l2tbe>>
  BY <1>1, <1>2, <1>3, <1>4, <1>5 DEF GetsHit, PopRequest
<1>7. m.addr = a /\ m.rts = n /\ m.wts = f.wts /\ m.warp = r.warp
  BY <1>4, <1>5 DEF DataResponse
<1>8. at[CoreOf[r.warp]][a] <= r.pts /\ at[CoreOf[r.warp]][a] \in Nat
  BY <1>1, <1>2, CoreOfAssumption DEF AtInv, ReadsTimed, GetsTimed
<1>9. DataTimed(m, CoreOf[m.warp])
  <2>1. at[CoreOf[r.warp]][a] <= n
    BY <1>1, <1>3, <1>8
  <2> QED BY <1>2, <1>3, <1>7, <2>1 DEF DataTimed
<1>10. \A d \in Banks, c \in Cores : \A i \in DOMAIN respNet'[d][c] :
          \/ \E j \in DOMAIN respNet[d][c] : respNet'[d][c][i] = respNet[d][c][j]
          \/ DataTimed(respNet'[d][c][i], c)
  <2> SUFFICES ASSUME NEW d \in Banks, NEW c \in Cores, NEW i \in DOMAIN respNet'[d][c]
               PROVE  \/ \E j \in DOMAIN respNet[d][c] : respNet'[d][c][i] = respNet[d][c][j]
                      \/ DataTimed(respNet'[d][c][i], c)
    OBVIOUS
  <2>1. \/ \E j \in DOMAIN respNet[d][c] : respNet'[d][c][i] = respNet[d][c][j]
        \/ c = CoreOf[m.warp] /\ respNet'[d][c][i] = m
    BY <1>6, SentResponses
  <2> QED BY <1>9, <2>1
<1> QED BY <1>1, <1>6, <1>10, BankReads

\* A write that hits, and an eviction.
LEMMA OtherBankReads ==
    ASSUME TypeOK, TypeOK', WriteInv, AtInv, at' = at, \A x \in Addrs : KeepsCover(x), Kept,
           NEW b \in Banks, UNCHANGED <<coreVars, l1Vars>>,
           \/ WriteHit(b, "DATA") \/ WriteHit(b, "DATA_ATOMIC")
           \/ \E v \in Addrs : L2_Replacement(b, v)
    PROVE  AtInv'
<1>1. ASSUME NEW t \in {"DATA", "DATA_ATOMIC"}, WriteHit(b, t) PROVE AtInv'
  <2>1. PICK m \in ResponseMsg : SendResponse(b, m) /\ m.type # "DATA"
    BY <1>1, WriteHitKeeps
  <2>2. l2in[b] # <<>> /\ l2in' = [l2in EXCEPT ![b] = Tail(@)] /\ UNCHANGED <<reqNet, l2tbe>>
    BY <1>1 DEF WriteHit, Request, PopRequest
  <2>3. \A d \in Banks, c \in Cores : \A i \in DOMAIN respNet'[d][c] :
           \/ \E j \in DOMAIN respNet[d][c] : respNet'[d][c][i] = respNet[d][c][j]
           \/ DataTimed(respNet'[d][c][i], c)
    BY <2>1, SentResponses DEF DataTimed
  <2> QED BY <2>2, <2>3, BankReads
<1>2. ASSUME NEW v \in Addrs, L2_Replacement(b, v) PROVE AtInv'
  <2>1. UNCHANGED <<reqNet, l2in, respNet, l2tbe>>
    BY <1>2 DEF L2_Replacement, netVars
  <2> QED BY <2>1, BankReads
<1> QED BY <1>1, <1>2

\* A fetch that ends answers the cores whose reads wait for it.
LEMMA FillReaders ==
    ASSUME TypeOK, NEW a \in Addrs, MemData(a), NEW b \in Banks, NEW c \in Cores,
           NEW i \in DOMAIN respNet'[b][c]
    PROVE  \/ \E j \in DOMAIN respNet[b][c] : respNet'[b][c][i] = respNet[b][c][j]
           \/ \E w \in l2tbe[a].gets : CoreOf[w] = c
<1>1. ASSUME ~\E w \in l2tbe[a].gets : CoreOf[w] = c PROVE respNet'[b][c] = respNet[b][c]
  BY <1>1, BankOfAssumption DEF MemData, SendResponses, TypeOK, NetTypeOK, L2TypeOK
<1> QED BY <1>1

\* The data that a fetch brings is leased for the reads that wait for it.
LEMMA FillReads ==
    ASSUME TypeOK, TypeOK', AtInv, at' = at, \A x \in Addrs : KeepsCover(x), Kept,
           NEW a \in Addrs, MemData(a), UNCHANGED <<coreVars, l1Vars>>
    PROVE  AtInv'
<1>1. PICK t \in L2TBE, f \in L2Entry : t = l2tbe[a] /\ f = FilledEntry(a)
  BY FillFacts DEF TypeOK, L2TypeOK
<1>2. t.max_read_pts \in Nat /\ t.delta \in Nat /\ f.wts \in Nat /\ f.rts \in Nat
      /\ t.gets \subseteq Warps
  BY DEF L2TBE, L2Entry
<1>3. PICK n \in Nat : n = trt_updateL2BlockRts(f, t) /\ n >= t.max_read_pts /\ n >= f.wts
  <2>1. PICK x \in Nat : x = f.wts + t.delta /\ x >= f.wts
    BY <1>2
  <2>2. PICK y \in Nat : y = t.max_read_pts + t.delta /\ y >= t.max_read_pts
    BY <1>2
  <2>3. PICK z \in Nat : z = getTimeMax(x, f.rts) /\ z >= x
    BY <1>2, MaxFacts
  <2>4. PICK n \in Nat : n = getTimeMax(y, z) /\ n >= y /\ n >= z
    BY MaxFacts
  <2>5. n = trt_updateL2BlockRts(f, t)
    BY <2>1, <2>2, <2>3, <2>4 DEF trt_updateL2BlockRts
  <2> QED BY <1>2, <2>1, <2>2, <2>3, <2>4, <2>5
<1>4. l2' = [l2 EXCEPT ![a] = IF t.gets = {} THEN f ELSE [f EXCEPT !.rts = n]]
  BY <1>1, <1>3 DEF MemData
<1>5. t.gets # {} => l2'[a].rts = n /\ l2'[a].wts = f.wts
  <2>1. PICK e : e = [f EXCEPT !.rts = n]
    OBVIOUS
  <2>2. e.rts = n /\ e.wts = f.wts
    BY <2>1 DEF L2Entry
  <2>3. t.gets # {} => l2'[a] = e
    BY <1>4, <2>1 DEF TypeOK, L2TypeOK
  <2> QED BY <2>2, <2>3
<1>6. ASSUME NEW b \in Banks, NEW c \in Cores, NEW i \in DOMAIN respNet'[b][c]
      PROVE  \/ \E j \in DOMAIN respNet[b][c] : respNet'[b][c][i] = respNet[b][c][j]
             \/ DataTimed(respNet'[b][c][i], c)
  <2> SUFFICES ASSUME ~\E j \in DOMAIN respNet[b][c] : respNet'[b][c][i] = respNet[b][c][j]
               PROVE  DataTimed(respNet'[b][c][i], c)
    OBVIOUS
  <2>1. PICK w \in t.gets : CoreOf[w] = c
    BY <1>1, FillReaders
  <2>2. PICK m : m = respNet'[b][c][i] /\ m.addr = a /\ m.rts = l2'[a].rts /\ m.wts = l2'[a].wts
    BY FillResponses, FetchAnswers
  <2>3. m.rts = n /\ m.wts = f.wts
    BY <1>5, <2>1, <2>2
  <2>4. at[c][a] <= t.max_read_pts /\ at[c][a] \in Nat
    BY <1>1, <2>1 DEF AtInv, ReadsTimed, FetchTimed
  <2>5. at[c][a] <= n
    BY <1>2, <1>3, <2>4
  <2> QED BY <1>2, <1>3, <2>2, <2>3, <2>5 DEF DataTimed
<1>7. /\ l2tbe' = [l2tbe EXCEPT ![a] = NoL2TBE] /\ UNCHANGED <<reqNet, l2in>>
  BY DEF MemData
<1>8. \A x \in Addrs : l2tbe'[x] = l2tbe[x] \/ FetchTimed(x)'
  <2>1. l2tbe'[a].gets = {}
    BY <1>7 DEF NoL2TBE, TypeOK, L2TypeOK
  <2>2. FetchTimed(a)'
    BY <2>1 DEF FetchTimed
  <2>3. \A x \in Addrs \ {a} : l2tbe'[x] = l2tbe[x]
    BY <1>7 DEF TypeOK, L2TypeOK
  <2> QED BY <2>2, <2>3
<1> QED BY <1>6, <1>7, <1>8, BankReads

\* An atomic whose fetch ends answers no read.
LEMMA AtomicFillReads ==
    ASSUME TypeOK, TypeOK', AtInv, at' = at, \A x \in Addrs : KeepsCover(x), Kept,
           NEW a \in Addrs, MemDataAtomic(a), UNCHANGED <<coreVars, l1Vars>>
    PROVE  AtInv'
<1>1. /\ l2tbe' = [l2tbe EXCEPT ![a] = NoL2TBE] /\ UNCHANGED <<reqNet, l2in>>
  BY DEF MemDataAtomic
<1>2. \A x \in Addrs : l2tbe'[x] = l2tbe[x] \/ FetchTimed(x)'
  <2>1. l2tbe'[a].gets = {}
    BY <1>1 DEF NoL2TBE, TypeOK, L2TypeOK
  <2>2. FetchTimed(a)'
    BY <2>1 DEF FetchTimed
  <2>3. \A x \in Addrs \ {a} : l2tbe'[x] = l2tbe[x]
    BY <1>1 DEF TypeOK, L2TypeOK
  <2> QED BY <2>2, <2>3
<1>3. \A b \in Banks, c \in Cores : \A i \in DOMAIN respNet'[b][c] :
         \/ \E j \in DOMAIN respNet[b][c] : respNet'[b][c][i] = respNet[b][c][j]
         \/ DataTimed(respNet'[b][c][i], c)
  BY AtomicResponses DEF DataTimed
<1> QED BY <1>1, <1>2, <1>3, BankReads

\* Every step keeps the reads timed.
LEMMA NextReads ==
    ASSUME TypeOK, WriteInv, LeasesCovered, ClockInv, FlightInv, LinesOK, AtInv, [SerialNext]_svars
    PROVE  AtInv'
<1>1. [Next]_vars
  BY StepOfRCC
<1>2. TypeOK' /\ (\A x \in Addrs : KeepsCover(x)) /\ Kept
  BY <1>1, NextTypes, NextCover, NextKept
<1>3. ASSUME NEW c \in Cores, Load(c) PROVE AtInv'
  BY <1>2, <1>3, LoadReads
<1>4. ASSUME NEW c \in Cores, L1Rest(c) PROVE AtInv'
  BY <1>2, <1>4, L1RestReads DEF L1Rest
<1>5. ASSUME NEW c \in Cores, ReadBack(c) PROVE AtInv'
  BY <1>2, <1>5, ReadBackReads DEF ReadBack
<1>6. ASSUME NEW c \in Cores, NEW b \in Banks, Arrive(c, b) PROVE AtInv'
  BY <1>2, <1>6, ArriveReads
<1>7. ASSUME NEW b \in Banks, Bank(b) PROVE AtInv'
  <2>1. L2Next(b) /\ UNCHANGED <<coreVars, l1Vars>> /\ at' = at
    BY <1>7 DEF Bank, L2Step
  <2>2. CASE GetsMiss(b)
    BY <1>2, <2>1, <2>2, GetsMissReads
  <2>3. CASE WriteMiss(b) \/ AtomicMiss(b)
    BY <1>2, <2>1, <2>3, MissReads
  <2>4. CASE GetsHit(b)
    BY <1>2, <2>1, <2>4, GetsHitReads
  <2>5. CASE WriteHit(b, "DATA") \/ WriteHit(b, "DATA_ATOMIC") \/ \E v \in Addrs : L2_Replacement(b, v)
    BY <1>2, <2>1, <2>5, OtherBankReads
  <2> QED BY <2>1, <2>2, <2>3, <2>4, <2>5 DEF L2Next
<1>8. ASSUME NEW a \in Addrs, FetchedAtomic(a) PROVE AtInv'
  BY <1>2, <1>8, AtomicFillReads DEF FetchedAtomic
<1>9. ASSUME at' = at,
             (\E w \in Warps : Issue(w)) \/ (\E c \in Cores : WriteAck(c))
      PROVE  AtInv'
  BY <1>2, <1>9, WarpReads
<1>10. ASSUME at' = at, NEW c \in Cores, NEW b \in Banks, Network(c, b) PROVE AtInv'
  BY <1>2, <1>10, L1RestReads DEF Network
<1>11. ASSUME at' = at, NEW a \in Addrs, MemData(a), UNCHANGED <<coreVars, l1Vars>> PROVE AtInv'
  BY <1>2, <1>11, FillReads
<1>12. ASSUME at' = at, UNCHANGED vars PROVE AtInv'
  <2>1. UNCHANGED <<coreVars, l1Vars, l2Vars, netVars>>
    BY <1>12 DEF vars
  <2>2. UNCHANGED <<reqNet, l2in, respNet, l2tbe>>
    BY <2>1 DEF netVars, l2Vars
  <2> QED BY <1>2, <1>12, <2>1, <2>2, BankReads
<1> QED BY <1>3, <1>4, <1>5, <1>6, <1>7, <1>8, <1>9, <1>10, <1>11, <1>12
        DEF SerialNext, svars, Terminated

-----------------------------------------------------------------------------
(* Accesses performed.                                                      *)

\* The fields of an access.
LEMMA AccTypes ==
    ASSUME acc \in Seq(Memory!Access), NEW i \in DOMAIN acc
    PROVE  acc[i].warp \in Warps /\ acc[i].addr \in Addrs /\ acc[i].ver \in Nat /\ acc[i].time \in Nat
           /\ CoreOf[acc[i].warp] \in Cores
<1>1. acc[i] \in Memory!Access
  OBVIOUS
<1>2. acc[i].warp \in Warps /\ acc[i].addr \in Addrs /\ acc[i].ver \in Nat /\ acc[i].time \in Nat
  BY <1>1 DEF Memory!Access
<1> QED BY <1>2, CoreOfAssumption

\* Warp w has a load under way that its L1 has taken.
Loading(w, a) == Reads(w, a) /\ ~Held(<<"R", CoreOf[w], a>>, "mand")

\* A step that performs no access.
LEMMA QuietAcc ==
    ASSUME TypeOK, TypeOK', AtInv, AtInv', AccInv, acc' = acc, wtimes' = wtimes,
           \A x \in Addrs : KeepsCover(x), \A c \in Cores : pts'[c] >= pts[c],
           \A b \in Banks, c \in Cores : \A i \in DOMAIN respNet[b][c] :
              \/ respNet[b][c][i].type = "DATA"
              \/ \E j \in DOMAIN respNet'[b][c] : respNet'[b][c][j] = respNet[b][c][i]
              \/ respNet[b][c][i].wts <= pts'[c],
           \A c \in Cores, b \in Banks : \A i \in DOMAIN reqNet'[c][b] :
              \/ \E j \in DOMAIN reqNet[c][b] : reqNet'[c][b][i] = reqNet[c][b][j]
              \/ WriteOrdered(reqNet'[c][b][i]),
           \A b \in Banks : \A i \in DOMAIN l2in'[b] :
              \/ \E j \in DOMAIN l2in[b] : l2in'[b][i] = l2in[b][j]
              \/ WriteOrdered(l2in'[b][i]),
           \A a \in Addrs : l2st'[a] = "IAV" =>
              \/ l2st[a] = "IAV" /\ l2tbe'[a] = l2tbe[a]
              \/ \A w \in l2tbe'[a].wback : Earlier(w, l2tbe'[a].max_write_pts),
           \A w \in Warps, a \in Addrs : Loading(w, a)' =>
              \/ Loading(w, a) /\ at'[CoreOf[w]][a] >= at[CoreOf[w]][a]
              \/ Earlier(w, at'[CoreOf[w]][a])
    PROVE  AccInv'
<1>1. acc \in Seq(Memory!Access) /\ AccWrites /\ AccReads /\ (\A i \in DOMAIN acc : Acked(acc[i]))
      /\ InOrder /\ Sorted
  BY DEF AccInv
<1>2. \A i \in DOMAIN acc : acc[i].warp \in Warps /\ acc[i].addr \in Addrs /\ acc[i].ver \in Nat
                            /\ acc[i].time \in Nat /\ CoreOf[acc[i].warp] \in Cores
  BY <1>1, AccTypes
<1>3. AccWrites'
  BY <1>1, <1>2 DEF AccWrites, Newest
<1>4. AccReads'
  <2> SUFFICES ASSUME NEW i \in DOMAIN acc, acc[i].op = "LD"
               PROVE  Covered(acc[i].addr, acc[i].ver, acc[i].time)'
    BY DEF AccReads
  <2>1. PICK a \in Addrs, v \in Nat, t \in Nat : a = acc[i].addr /\ v = acc[i].ver /\ t = acc[i].time
    BY <1>2
  <2>2. Covered(a, v, t)
    BY <1>1, <2>1 DEF AccReads
  <2>3. Covered(a, v, t)'
    BY <2>2 DEF KeepsCover
  <2> QED BY <2>1, <2>3 DEF Covered, LeaseOK, StrictOK
<1>5. Sorted'
  BY <1>1 DEF Sorted, Newest
<1>6. ASSUME NEW i \in DOMAIN acc' PROVE Acked(acc[i])'
  <2>1. PICK x : x = acc[i] /\ x = acc'[i] /\ i \in DOMAIN acc
    OBVIOUS
  <2>2. PICK c \in Cores, t \in Nat : c = CoreOf[x.warp] /\ t = x.time
    BY <1>2, <2>1
  <2>3. pts[c] \in Nat /\ pts'[c] \in Nat /\ pts'[c] >= pts[c]
    BY DEF TypeOK, L1TypeOK
  <2>4. Acked(x)
    BY <1>1, <2>1
  <2>5. CASE t <= pts[c]
    <3>1. t <= pts'[c]
      BY <2>3, <2>5
    <3> QED BY <2>1, <2>2, <3>1 DEF Acked
  <2>6. CASE \E b \in Banks : \E j \in DOMAIN respNet[b][c] :
                respNet[b][c][j].type # "DATA" /\ respNet[b][c][j].warp = x.warp /\ t <= respNet[b][c][j].wts
    <3>0. PICK b \in Banks : \E j \in DOMAIN respNet[b][c] :
                respNet[b][c][j].type # "DATA" /\ respNet[b][c][j].warp = x.warp /\ t <= respNet[b][c][j].wts
      BY <2>6
    <3>1. PICK j \in DOMAIN respNet[b][c] :
                respNet[b][c][j].type # "DATA" /\ respNet[b][c][j].warp = x.warp /\ t <= respNet[b][c][j].wts
      BY <3>0
    <3>2. respNet[b][c][j].wts \in Nat
      BY MessageTypes
    <3>3. CASE respNet[b][c][j].wts <= pts'[c]
      <4>1. t <= pts'[c]
        BY <2>3, <3>1, <3>2, <3>3
      <4> QED BY <2>1, <2>2, <4>1 DEF Acked
    <3>4. CASE \E k \in DOMAIN respNet'[b][c] : respNet'[b][c][k] = respNet[b][c][j]
      <4>1. PICK k \in DOMAIN respNet'[b][c] : respNet'[b][c][k] = respNet[b][c][j]
        BY <3>4
      <4>2. respNet'[b][c][k].type # "DATA" /\ respNet'[b][c][k].warp = x.warp /\ t <= respNet'[b][c][k].wts
        BY <3>1, <4>1
      <4> QED BY <2>1, <2>2, <4>2 DEF Acked
    <3> QED BY <3>1, <3>3, <3>4
  <2> QED BY <2>2, <2>4, <2>5, <2>6 DEF Acked
<1>7. \A c \in Cores, b \in Banks : \A i \in DOMAIN reqNet'[c][b] : WriteOrdered(reqNet[c][b][i])'
  BY <1>1 DEF InOrder, WriteOrdered, Earlier
<1>8. \A b \in Banks : \A i \in DOMAIN l2in'[b] : WriteOrdered(l2in[b][i])'
  BY <1>1 DEF InOrder, WriteOrdered, Earlier
<1>9. \A a \in Addrs : l2st'[a] = "IAV" =>
         \A w \in l2tbe'[a].wback : Earlier(w, l2tbe[a].max_write_pts)'
  BY <1>1 DEF InOrder, Earlier
<1>10. ASSUME NEW w \in Warps, NEW a \in Addrs, Loading(w, a)' PROVE Earlier(w, at[CoreOf[w]][a])'
  <2>1. PICK s \in Nat, t \in Nat : s = at[CoreOf[w]][a] /\ t = at'[CoreOf[w]][a]
    BY CoreOfAssumption DEF AtInv
  <2>2. Earlier(w, t)
    <3>1. CASE Loading(w, a) /\ t >= s
      <4>1. Earlier(w, s)
        BY <1>1, <2>1, <3>1 DEF InOrder, Loading
      <4> QED BY <1>2, <3>1, <4>1 DEF Earlier
    <3> QED BY <1>10, <2>1, <3>1
  <2> QED BY <2>1, <2>2 DEF Earlier
<1>11. InOrder'
  BY <1>7, <1>8, <1>9, <1>10 DEF InOrder, Loading
<1> QED BY <1>1, <1>3, <1>4, <1>5, <1>6, <1>11 DEF AccInv

\* A step that leaves the mandatory queues and the lists of the MSHRs alone.
LEMMA LoadingSame ==
    ASSUME mandQ' = mandQ, \A c \in Cores, a \in Addrs : mshr'[c][a].list = mshr[c][a].list,
           NEW w \in Warps, NEW a \in Addrs
    PROVE  Loading(w, a)' <=> Loading(w, a)
<1>1. CoreOf[w] \in Cores
  BY CoreOfAssumption
<1>2. PICK h \in Ids : h = <<"R", CoreOf[w], a>>
  BY <1>1, ReadName
<1>3. Held(h, "mand")' <=> Held(h, "mand")
  BY <1>2, SameStages DEF Same
<1>4. Reads(w, a)' <=> Reads(w, a)
  BY <1>1 DEF Reads
<1> QED BY <1>2, <1>3, <1>4 DEF Loading

\* Sending a response keeps the others.
LEMMA RespKept ==
    ASSUME TypeOK,
           \A b \in Banks, c \in Cores :
              \/ respNet'[b][c] = respNet[b][c]
              \/ \E m : respNet'[b][c] = Append(respNet[b][c], m),
           NEW b \in Banks, NEW c \in Cores, NEW i \in DOMAIN respNet[b][c]
    PROVE  \E j \in DOMAIN respNet'[b][c] : respNet'[b][c][j] = respNet[b][c][i]
<1>1. PICK q \in Seq(ResponseMsg) : q = respNet[b][c]
  BY DEF TypeOK, NetTypeOK
<1>2. CASE respNet'[b][c] = q
  BY <1>1, <1>2
<1>3. ASSUME NEW m, respNet'[b][c] = Append(q, m)
      PROVE  \E j \in DOMAIN respNet'[b][c] : respNet'[b][c][j] = respNet[b][c][i]
  <2>1. i \in 1..Len(q) /\ Len(q) \in Nat
    BY <1>1
  <2>2. i \in 1..(Len(q) + 1) /\ Append(q, m)[i] = q[i]
    BY <1>1, <2>1
  <2>3. DOMAIN Append(q, m) = 1..(Len(q) + 1)
    BY <1>1
  <2> QED BY <1>1, <1>3, <2>2, <2>3
<1> QED BY <1>1, <1>2, <1>3

\* One response is sent.
LEMMA OneRespKept ==
    ASSUME TypeOK, NEW d \in Banks, NEW m \in ResponseMsg, SendResponse(d, m)
    PROVE  \A b \in Banks, c \in Cores :
              \/ respNet'[b][c] = respNet[b][c]
              \/ \E n : respNet'[b][c] = Append(respNet[b][c], n)
<1>1. PICK k \in Cores : k = CoreOf[m.warp]
  BY CoreOfAssumption DEF ResponseMsg
<1>2. respNet' = [respNet EXCEPT ![d][k] = Append(@, m)]
  BY <1>1 DEF SendResponse
<1>3. \A b \in Banks, c \in Cores :
         respNet'[b][c] = IF b = d /\ c = k THEN Append(respNet[b][c], m) ELSE respNet[b][c]
  BY <1>2 DEF TypeOK, NetTypeOK
<1> QED BY <1>3

\* A step of a bank or of the DRAM that performs no access.
LEMMA BankAcc ==
    ASSUME TypeOK, TypeOK', AtInv, AtInv', AccInv, acc' = acc, at' = at, wtimes' = wtimes,
           \A x \in Addrs : KeepsCover(x), UNCHANGED <<coreVars, l1Vars, mandQ, reqNet>>,
           \A b \in Banks, c \in Cores :
              \/ respNet'[b][c] = respNet[b][c]
              \/ \E m : respNet'[b][c] = Append(respNet[b][c], m),
           l2in' = l2in \/ \E b \in Banks : l2in[b] # <<>> /\ l2in' = [l2in EXCEPT ![b] = Tail(@)],
           \A a \in Addrs : l2st'[a] = "IAV" =>
              \/ l2st[a] = "IAV" /\ l2tbe'[a] = l2tbe[a]
              \/ \A w \in l2tbe'[a].wback : Earlier(w, l2tbe'[a].max_write_pts)
    PROVE  AccInv'
<1>1. \A b \in Banks : \A i \in DOMAIN l2in'[b] : \E j \in DOMAIN l2in[b] : l2in'[b][i] = l2in[b][j]
  BY PoppedRequests
<1>2. \A c \in Cores : pts'[c] >= pts[c]
  BY ClocksStill DEF l1Vars
<1>3. \A b \in Banks, c \in Cores : \A i \in DOMAIN respNet[b][c] :
         \E j \in DOMAIN respNet'[b][c] : respNet'[b][c][j] = respNet[b][c][i]
  BY RespKept
<1>4. \A w \in Warps, a \in Addrs : Loading(w, a)' =>
         Loading(w, a) /\ at'[CoreOf[w]][a] >= at[CoreOf[w]][a]
  <2> SUFFICES ASSUME NEW w \in Warps, NEW a \in Addrs, Loading(w, a)'
               PROVE  Loading(w, a) /\ at'[CoreOf[w]][a] >= at[CoreOf[w]][a]
    OBVIOUS
  <2>1. mandQ' = mandQ /\ mshr' = mshr
    BY DEF coreVars
  <2>2. Loading(w, a)
    BY <2>1, LoadingSame
  <2>3. at[CoreOf[w]][a] \in Nat
    BY CoreOfAssumption DEF AtInv
  <2> QED BY <2>2, <2>3
<1> QED BY <1>1, <1>2, <1>3, <1>4, QuietAcc

\* The loads that banks take, the atomics that wait for a fetch, evictions and
\* the end of a fetch.
LEMMA BanksAcc ==
    ASSUME TypeOK, TypeOK', WriteInv, FlightInv, AtInv, AtInv', AccInv, acc' = acc, at' = at,
           \A x \in Addrs : KeepsCover(x), UNCHANGED <<coreVars, l1Vars>>,
           \/ \E b \in Banks : \/ GetsMiss(b) \/ AtomicMiss(b) \/ GetsHit(b)
                               \/ \E v \in Addrs : L2_Replacement(b, v)
           \/ \E a \in Addrs : MemData(a)
           \/ UNCHANGED vars
    PROVE  AccInv'
<1>1. ASSUME NEW b \in Banks, GetsMiss(b) PROVE AccInv'
  <2>1. UNCHANGED <<mandQ, reqNet, respNet, wtimes>> /\ l2in[b] # <<>> /\ l2in' = [l2in EXCEPT ![b] = Tail(@)]
    BY <1>1 DEF GetsMiss, PopRequest, Request
  <2>2. PICK a \in Addrs : a = Head(l2in[b]).addr
    BY <2>1, RequestHead
  <2>3. PICK t : l2tbe' = [l2tbe EXCEPT ![a] = t] /\ l2st' = [l2st EXCEPT ![a] = "IV"]
    BY <1>1, <2>2 DEF GetsMiss
  <2>4. l2st'[a] = "IV" /\ \A x \in Addrs \ {a} : l2st'[x] = l2st[x] /\ l2tbe'[x] = l2tbe[x]
    BY <2>3 DEF TypeOK, L2TypeOK
  <2> QED BY <2>1, <2>4, BankAcc
<1>2. ASSUME NEW b \in Banks, AtomicMiss(b) PROVE AccInv'
  <2>1. PICK r \in RequestMsg : /\ l2in[b] # <<>> /\ r = Head(l2in[b]) /\ r.type = "DATA_ATOMIC"
                                /\ 1 \in DOMAIN l2in[b] /\ r = l2in[b][1]
                                /\ r.addr \in Addrs /\ r.warp \in Warps /\ r.pts \in Nat
    BY <1>2, TakenRequest DEF AtomicMiss
  <2>2. PICK a \in Addrs : a = r.addr
    BY <2>1
  <2>3. /\ UNCHANGED <<mandQ, reqNet, respNet, wtimes>> /\ l2in' = [l2in EXCEPT ![b] = Tail(@)]
        /\ l2tbe' = [l2tbe EXCEPT ![a] = TBEForWriteMiss(r)] /\ l2st[a] = "NP"
        /\ l2st' = [l2st EXCEPT ![a] = "IAV"]
    BY <1>2, <2>1, <2>2 DEF AtomicMiss, PopRequest
  <2>4. l2tbe'[a] = TBEForWriteMiss(r)
        /\ \A x \in Addrs \ {a} : l2st'[x] = l2st[x] /\ l2tbe'[x] = l2tbe[x]
    BY <2>3 DEF TypeOK, L2TypeOK
  <2>5. l2tbe'[a].wback = {r.warp} /\ l2tbe'[a].max_write_pts = r.pts
    <3>1. l2tbe'[a] = [NoL2TBE EXCEPT !.max_write_pts = r.pts, !.dirty = TRUE, !.wback = {r.warp}]
      BY <2>2, <2>3, <2>4 DEF TBEForWriteMiss
    <3> QED BY <3>1 DEF NoL2TBE
  <2>6. Earlier(r.warp, r.pts)
    BY <2>1 DEF AccInv, InOrder, WriteOrdered
  <2>7. \A w \in l2tbe'[a].wback : Earlier(w, l2tbe'[a].max_write_pts)
    BY <2>5, <2>6 DEF Earlier
  <2> QED BY <2>1, <2>3, <2>4, <2>7, BankAcc
<1>3. ASSUME NEW b \in Banks, GetsHit(b) PROVE AccInv'
  <2>1. /\ UNCHANGED <<mandQ, reqNet, wtimes, l2st, l2tbe>>
        /\ l2in[b] # <<>> /\ l2in' = [l2in EXCEPT ![b] = Tail(@)]
    BY <1>3 DEF GetsHit, PopRequest, Request
  <2>2. PICK m \in ResponseMsg : SendResponse(b, m)
    BY <1>3, GetsHitKeeps
  <2> QED BY <2>1, <2>2, OneRespKept, BankAcc
<1>4. ASSUME NEW b \in Banks, NEW v \in Addrs, L2_Replacement(b, v) PROVE AccInv'
  <2>1. UNCHANGED <<mandQ, reqNet, l2in, respNet, wtimes, l2tbe>> /\ l2st' = [l2st EXCEPT ![v] = "NP"]
    BY <1>4 DEF L2_Replacement, netVars
  <2>2. \A x \in Addrs : l2st'[x] = "IAV" => l2st[x] = "IAV"
    BY <2>1 DEF TypeOK, L2TypeOK
  <2> QED BY <2>1, <2>2, BankAcc
<1>5. ASSUME NEW a \in Addrs, MemData(a) PROVE AccInv'
  <2>1. /\ UNCHANGED <<mandQ, reqNet, l2in, wtimes>> /\ l2tbe' = [l2tbe EXCEPT ![a] = NoL2TBE]
        /\ l2st' = [l2st EXCEPT ![a] = "V"]
    BY <1>5 DEF MemData
  <2>2. l2st'[a] = "V" /\ \A x \in Addrs \ {a} : l2st'[x] = l2st[x] /\ l2tbe'[x] = l2tbe[x]
    BY <2>1 DEF TypeOK, L2TypeOK
  <2>3. ASSUME NEW b \in Banks, NEW c \in Cores
        PROVE  respNet'[b][c] = respNet[b][c] \/ \E m : respNet'[b][c] = Append(respNet[b][c], m)
    <3>1. PICK m : respNet'[b][c] = IF b = BankOf[a] /\ \E w \in l2tbe[a].gets : CoreOf[w] = c
                                      THEN Append(respNet[b][c], m) ELSE respNet[b][c]
      BY <1>5, BankOfAssumption DEF MemData, SendResponses, TypeOK, NetTypeOK, L2TypeOK
    <3> QED BY <3>1
  <2> QED BY <2>1, <2>2, <2>3, BankAcc
<1>6. CASE UNCHANGED vars
  <2>1. UNCHANGED <<mandQ, reqNet, l2in, respNet, wtimes, l2st, l2tbe>>
    BY <1>6 DEF vars, netVars, l2Vars
  <2> QED BY <2>1, BankAcc
<1> QED BY <1>1, <1>2, <1>3, <1>4, <1>5, <1>6

-----------------------------------------------------------------------------
(* Steps of the cores, the L1s and the network that perform no access.      *)

\* The banks do not move.
LEMMA CoreAcc ==
    ASSUME TypeOK, TypeOK', AtInv, AtInv', AccInv, acc' = acc, UNCHANGED l2Vars,
           \A c \in Cores : pts'[c] >= pts[c],
           \A b \in Banks, c \in Cores : \A i \in DOMAIN respNet[b][c] :
              \/ respNet[b][c][i].type = "DATA"
              \/ \E j \in DOMAIN respNet'[b][c] : respNet'[b][c][j] = respNet[b][c][i]
              \/ respNet[b][c][i].wts <= pts'[c],
           \A c \in Cores, b \in Banks : \A i \in DOMAIN reqNet'[c][b] :
              \/ \E j \in DOMAIN reqNet[c][b] : reqNet'[c][b][i] = reqNet[c][b][j]
              \/ WriteOrdered(reqNet'[c][b][i]),
           \A b \in Banks : \A i \in DOMAIN l2in'[b] :
              \/ \E j \in DOMAIN l2in[b] : l2in'[b][i] = l2in[b][j]
              \/ WriteOrdered(l2in'[b][i]),
           \A w \in Warps, a \in Addrs : Loading(w, a)' =>
              \/ Loading(w, a) /\ at'[CoreOf[w]][a] >= at[CoreOf[w]][a]
              \/ Earlier(w, at'[CoreOf[w]][a])
    PROVE  AccInv'
<1>1. \A x \in Addrs : KeepsCover(x)
  BY CoreStepCover DEF l2Vars
<1>2. wtimes' = wtimes /\ l2st' = l2st /\ l2tbe' = l2tbe
  BY DEF l2Vars
<1>3. \A a \in Addrs : l2st'[a] = "IAV" =>
         \/ l2st[a] = "IAV" /\ l2tbe'[a] = l2tbe[a]
         \/ \A w \in l2tbe'[a].wback : Earlier(w, l2tbe'[a].max_write_pts)
  BY <1>2
<1> QED BY <1>1, <1>2, <1>3, QuietAcc

\* No load is merged: a warp that issues one pushes it into the mandatory queue.
LEMMA IssueLoads ==
    ASSUME NoMerge, TypeOK, ClockInv, FlightInv, NEW w \in Warps, Issue(w),
           NEW u \in Warps, NEW x \in Addrs, Loading(u, x)'
    PROVE  Loading(u, x)
<1>1. PICK c \in Cores : c = CoreOf[w]
  BY CoreOfAssumption
<1>2. PICK op \in {"LD", "ST", "ATOMIC"}, a \in Addrs : send_request(w, op, a)
  <2>1. PICK p \in Prog[w][Len(log[w]) + 1] : send_request(w, p[1], p[2])
    BY DEF Issue
  <2>2. Len(log[w]) \in Nat /\ Len(log[w]) < Len(Prog[w])
    BY DEF Issue, TypeOK, MSHRTypeOK
  <2>3. Len(log[w]) + 1 \in 1..Len(Prog[w])
    BY <2>2, ProgAssumption
  <2>4. Prog[w][Len(log[w]) + 1] \in SUBSET ({"LD", "ST", "ATOMIC"} \X Addrs)
    BY <2>3, ProgAssumption
  <2> QED BY <2>1, <2>4
<1>3. n_gmem[w] = 0 /\ \A y \in Addrs : ~Reads(w, y)
  <2>1. n_gmem[w] = 0
    BY <1>2 DEF send_request, warp_waiting_at_sc_fence, FlightInv, Busy
  <2> QED BY <2>1 DEF FlightInv, Busy
<1>4. PICK m \in MSHREntry, r \in CacheMsg :
         m = mshr[c][a] /\ r = [op |-> op, addr |-> a, warp |-> w]
  BY DEF TypeOK, MSHRTypeOK, CacheMsg
<1>5. /\ mshr' = [mshr EXCEPT ![c][a] = add(m, op, w)]
      /\ mandQ' = [mandQ EXCEPT ![c] = IF op = "LD" /\ m.list # <<>> THEN @ ELSE Append(@, r)]
      /\ is_ready(c, a)
  BY <1>1, <1>2, <1>4 DEF send_request, do_access, makeRequest
<1>6. /\ m.list \in Seq(Warps)
      /\ mshr'[c][a].list = (IF op = "LD" THEN Append(m.list, w) ELSE m.list)
      /\ \A d \in Cores, y \in Addrs : d # c \/ y # a => mshr'[d][y] = mshr[d][y]
  <2>1. /\ mshr'[c][a] = add(m, op, w)
        /\ \A d \in Cores, y \in Addrs : d # c \/ y # a => mshr'[d][y] = mshr[d][y]
    BY <1>5 DEF TypeOK, MSHRTypeOK
  <2>2. add(m, op, w).list = (IF op = "LD" THEN Append(m.list, w) ELSE m.list)
    BY DEF MSHREntry, add
  <2> QED BY <2>1, <2>2 DEF MSHREntry
<1>7. m.list # <<>> => op # "LD"
  <2> SUFFICES ASSUME m.list # <<>>, op = "LD" PROVE FALSE
    OBVIOUS
  <2>1. PICK q \in Seq(Warps) : q = m.list /\ q # <<>>
    BY <1>6
  <2>2. Len(q) < MaxMerged
    <3>1. probe(c, a)
      BY <1>4, <2>1 DEF probe
    <3>2. ~(Len(q) >= MaxMerged)
      BY <1>4, <1>5, <2>1, <3>1 DEF is_ready, full
    <3> QED BY <3>2, MSHRAssumption
  <2>3. Len(q) >= 1 /\ q[1] \in Warps /\ 1 \in DOMAIN q
    BY <2>1, QueueFacts
  <2>4. MaxMerged # 1
    BY <2>2, <2>3
  <2>5. CoreOf[q[1]] = c
    BY <1>4, <2>1, <2>3 DEF ClockInv, EntryOK
  <2>6. q[1] = w
    BY <1>1, <2>3, <2>4, <2>5 DEF NoMerge
  <2>7. Reads(w, a)
    BY <1>1, <1>4, <2>1, <2>3, <2>6 DEF Reads, Has
  <2> QED BY <1>3, <2>7
<1>8. PICK d \in Cores : d = CoreOf[u]
  BY CoreOfAssumption
<1>9. PICK h \in Ids : h = <<"R", d, x>> /\ HomeOf(h) = d /\ h[3] = x
  BY ReadName
<1>10. Reads(u, x)' /\ ~Held(h, "mand")'
  BY <1>8, <1>9 DEF Loading
<1>11. /\ mandQ[d] \in Seq(CacheMsg)
       /\ mandQ'[d] = mandQ[d] \/ (d = c /\ mandQ'[d] = Append(mandQ[d], r))
       /\ op = "LD" => mandQ'[c] = Append(mandQ[c], r) /\ mandQ[c] \in Seq(CacheMsg)
  BY <1>5, <1>7 DEF TypeOK, NetTypeOK
<1>12. ~Held(h, "mand")
  <2> SUFFICES ASSUME Held(h, "mand") PROVE FALSE
    OBVIOUS
  <2>1. PICK i \in DOMAIN mandQ[d] : CacheId[mandQ[d][i]] = h
    BY <1>9, HeldAt DEF In
  <2>2. i \in DOMAIN mandQ'[d] /\ mandQ'[d][i] = mandQ[d][i]
    BY <1>11, <2>1, AppendProperties
  <2>3. In(mandQ'[d], CacheId, h)
    BY <2>1, <2>2 DEF In
  <2> QED BY <1>9, <1>10, <2>3, HeldNext
<1>13. ~(d = c /\ x = a /\ u = w /\ op = "LD")
  <2> SUFFICES ASSUME d = c, x = a, u = w, op = "LD" PROVE FALSE
    OBVIOUS
  <2>1. CacheId[r] = h
    <3>1. r.op = "LD" /\ r.warp = w /\ r.addr = a
      BY <1>4
    <3>2. CacheId[r] = Id(r.op = "LD", r.warp, r.addr)
      BY MessageIds
    <3> QED BY <1>1, <1>9, <3>1, <3>2 DEF Id
  <2>2. Len(mandQ[c]) + 1 \in DOMAIN mandQ'[c] /\ mandQ'[c][Len(mandQ[c]) + 1] = r
    BY <1>11, AppendProperties
  <2>3. In(mandQ'[d], CacheId, h)
    BY <2>1, <2>2 DEF In
  <2> QED BY <1>9, <1>10, <2>3, HeldNext
<1>14. Reads(u, x)
  <2>1. PICK i \in DOMAIN mshr'[d][x].list : mshr'[d][x].list[i] = u
    BY <1>8, <1>10 DEF Reads, Has
  <2>2. CASE d = c /\ x = a /\ op = "LD"
    <3>1. PICK q \in Seq(Warps) : q = m.list /\ mshr'[d][x].list = Append(q, w)
      BY <1>6, <2>2
    <3>2. (i \in DOMAIN q /\ Append(q, w)[i] = q[i]) \/ Append(q, w)[i] = w
      BY <2>1, <3>1, AppendElements
    <3>3. i \in DOMAIN q /\ q[i] = u
      BY <1>13, <2>1, <2>2, <3>1, <3>2
    <3> QED BY <1>4, <1>8, <2>2, <3>1, <3>3 DEF Reads, Has
  <2>3. CASE ~(d = c /\ x = a /\ op = "LD")
    <3>1. mshr'[d][x].list = mshr[d][x].list
      BY <1>4, <1>6, <2>3
    <3> QED BY <1>8, <2>1, <3>1 DEF Reads, Has
  <2> QED BY <2>2, <2>3
<1> QED BY <1>8, <1>9, <1>12, <1>14 DEF Loading

\* A warp that waits for no acknowledgement: its clock has passed its accesses.
LEMMA ClockPassed ==
    ASSUME AccInv, NEW w \in Warps,
           \A b \in Banks, c \in Cores : \A i \in DOMAIN respNet[b][c] :
              respNet[b][c][i].warp = w => respNet[b][c][i].type = "DATA"
    PROVE  Earlier(w, pts[CoreOf[w]])
<1> SUFFICES ASSUME NEW i \in DOMAIN acc, acc[i].warp = w PROVE acc[i].time <= pts[CoreOf[w]]
  BY DEF Earlier
<1>1. Acked(acc[i])
  BY DEF AccInv
<1> QED BY <1>1, CoreOfAssumption DEF Acked

\* The issue of an access, an acknowledgement to a warp, the network and an
\* eviction from an L1.
LEMMA PlainAcc ==
    ASSUME NoMerge, TypeOK, TypeOK', ClockInv, FlightInv, AtInv, AtInv', AccInv, UNCHANGED <<acc, at>>,
           \/ \E w \in Warps : Issue(w)
           \/ \E c \in Cores : WriteAck(c)
           \/ \E c \in Cores, b \in Banks : Network(c, b)
           \/ UNCHANGED l2Vars /\ \E c \in Cores, v \in Addrs : L1_Replacement(c, v)
    PROVE  AccInv'
<1>1. ASSUME \A w \in Warps, a \in Addrs : Loading(w, a)' => Loading(w, a), UNCHANGED <<l2Vars, pts, respNet>>,
             \A c \in Cores, b \in Banks : \A i \in DOMAIN reqNet'[c][b] :
                \E j \in DOMAIN reqNet[c][b] : reqNet'[c][b][i] = reqNet[c][b][j],
             \A b \in Banks : \A i \in DOMAIN l2in'[b] :
                \/ \E j \in DOMAIN l2in[b] : l2in'[b][i] = l2in[b][j]
                \/ WriteOrdered(l2in'[b][i])
      PROVE  AccInv'
  <2>1. \A c \in Cores : pts'[c] >= pts[c]
    BY <1>1, ClocksStill
  <2>2. ASSUME NEW w \in Warps, NEW a \in Addrs, Loading(w, a)'
        PROVE  Loading(w, a) /\ at'[CoreOf[w]][a] >= at[CoreOf[w]][a]
    <3>1. at[CoreOf[w]][a] \in Nat
      BY CoreOfAssumption DEF AtInv
    <3> QED BY <1>1, <2>2, <3>1
  <2>3. \A b \in Banks, c \in Cores : \A i \in DOMAIN respNet[b][c] :
           \E j \in DOMAIN respNet'[b][c] : respNet'[b][c][j] = respNet[b][c][i]
    BY <1>1
  <2> QED BY <1>1, <2>1, <2>2, <2>3, CoreAcc
<1>2. ASSUME NEW w \in Warps, Issue(w) PROVE AccInv'
  <2>1. UNCHANGED <<l2Vars, pts, respNet, reqNet, l2in>>
    BY <1>2 DEF Issue, send_request, l1Vars
  <2>2. \A u \in Warps, x \in Addrs : Loading(u, x)' => Loading(u, x)
    BY <1>2, IssueLoads
  <2> QED BY <1>1, <2>1, <2>2
<1>3. ASSUME NEW c \in Cores, WriteAck(c) PROVE AccInv'
  <2>1. UNCHANGED <<l2Vars, pts, mandQ, respNet, reqNet, l2in>>
    BY <1>3 DEF WriteAck, mark_skipped_write_done, netVars, l1Vars
  <2>2. PICK k : mshr' = [mshr EXCEPT ![c][k.addr] = PopWrite(mshr[c][k.addr], k.warp)]
    BY <1>3 DEF WriteAck, mark_skipped_write_done
  <2>3. ASSUME NEW d \in Cores, NEW x \in Addrs PROVE mshr'[d][x].list = mshr[d][x].list
    <3>1. mshr[d][x] \in MSHREntry /\ (mshr'[d][x] = mshr[d][x] \/ mshr'[d][x] = PopWrite(mshr[d][x], k.warp))
      BY <2>2 DEF TypeOK, MSHRTypeOK
    <3>2. \A m \in MSHREntry : PopWrite(m, k.warp).list = m.list
      BY DEF PopWrite, MSHREntry
    <3> QED BY <3>1, <3>2
  <2>4. \A u \in Warps, x \in Addrs : Loading(u, x)' => Loading(u, x)
    BY <2>1, <2>3, LoadingSame
  <2> QED BY <1>1, <2>1, <2>4
<1>4. ASSUME NEW c \in Cores, NEW b \in Banks, Network(c, b) PROVE AccInv'
  <2>1. UNCHANGED <<l2Vars, pts, mandQ, respNet, mshr>>
    BY <1>4 DEF Network, l1Vars, coreVars
  <2>2. \A u \in Warps, x \in Addrs : Loading(u, x)' => Loading(u, x)
    BY <2>1, LoadingSame
  <2>3. /\ \A d \in Cores, x \in Banks : \A i \in DOMAIN reqNet'[d][x] :
              \E j \in DOMAIN reqNet[d][x] : reqNet'[d][x][i] = reqNet[d][x][j]
        /\ \A x \in Banks : \A i \in DOMAIN l2in'[x] :
              \/ \E j \in DOMAIN l2in[x] : l2in'[x][i] = l2in[x][j]
              \/ \E j \in DOMAIN reqNet[c][b] : l2in'[x][i] = reqNet[c][b][j]
    BY <1>4, DeliveredRequests
  <2>4. \A j \in DOMAIN reqNet[c][b] : WriteOrdered(reqNet[c][b][j])
    BY DEF AccInv, InOrder
  <2>5. \A x \in Banks : \A i \in DOMAIN l2in'[x] :
           \/ \E j \in DOMAIN l2in[x] : l2in'[x][i] = l2in[x][j]
           \/ WriteOrdered(l2in'[x][i])
    BY <2>3, <2>4 DEF WriteOrdered
  <2> QED BY <1>1, <2>1, <2>2, <2>3, <2>5
<1>5. ASSUME UNCHANGED l2Vars, NEW c \in Cores, NEW v \in Addrs, L1_Replacement(c, v) PROVE AccInv'
  <2>1. UNCHANGED <<pts, mandQ, respNet, mshr, reqNet, l2in>>
    BY <1>5 DEF L1_Replacement, netVars, coreVars
  <2>2. \A u \in Warps, x \in Addrs : Loading(u, x)' => Loading(u, x)
    BY <2>1, LoadingSame
  <2> QED BY <1>1, <1>5, <2>1, <2>2
<1> QED BY <1>2, <1>3, <1>4, <1>5

\* A response is taken off its queue.
LEMMA RespTaken ==
    ASSUME TypeOK, NEW b \in Banks, NEW c \in Cores, respNet[b][c] # <<>>,
           respNet' = [respNet EXCEPT ![b][c] = Tail(@)]
    PROVE  \A d \in Banks, k \in Cores : \A i \in DOMAIN respNet[d][k] :
              \/ \E j \in DOMAIN respNet'[d][k] : respNet'[d][k][j] = respNet[d][k][i]
              \/ d = b /\ k = c /\ i = 1
<1> TAKE d \in Banks, k \in Cores
<1> TAKE i \in DOMAIN respNet[d][k]
<1>1. CASE d = b /\ k = c
  <2>1. PICK q \in Seq(ResponseMsg) : q = respNet[b][c] /\ q # <<>> /\ respNet'[d][k] = Tail(q)
    BY <1>1 DEF TypeOK, NetTypeOK
  <2>2. /\ Len(q) \in Nat /\ Head(q) = q[1] /\ DOMAIN q = 1..Len(q) /\ DOMAIN Tail(q) = 1..(Len(q) - 1)
        /\ \A n \in 1..(Len(q) - 1) : Tail(q)[n] = q[n + 1]
    BY <2>1, EmptySeq, HeadTailProperties
  <2>3. CASE i = 1
    BY <1>1, <2>1, <2>2, <2>3
  <2>4. CASE i # 1
    <3>1. i - 1 \in DOMAIN Tail(q) /\ Tail(q)[i - 1] = q[i]
      BY <1>1, <2>1, <2>2, <2>4
    <3> QED BY <1>1, <2>1, <3>1
  <2> QED BY <2>3, <2>4
<1>2. CASE ~(d = b /\ k = c)
  <2>1. respNet'[d][k] = respNet[d][k]
    BY <1>2 DEF TypeOK, NetTypeOK
  <2> QED BY <2>1
<1> QED BY <1>1, <1>2

\* The answer to a read or a write reaches its L1.
LEMMA AnswerAcc ==
    ASSUME TypeOK, TypeOK', AtInv, AtInv', AccInv, acc' = acc, UNCHANGED l2Vars,
           NEW c \in Cores, NEW b \in Banks, Arrive(c, b) \/ (WriteDone(c, b) /\ at' = at)
    PROVE  AccInv'
<1>1. Data(c, b) \/ WriteDone(c, b)
  BY DEF Arrive
<1>2. respNet[b][c] # <<>>
  <2>1. CASE Data(c, b)
    BY ZenonT(40), <2>1 DEF Data
  <2>2. CASE WriteDone(c, b)
    BY ZenonT(40), <2>2 DEF WriteDone
  <2> QED BY <1>1, <2>1, <2>2
<1>3. PICK m \in ResponseMsg, a \in Addrs, u \in Nat : m = Head(respNet[b][c]) /\ a = m.addr /\ u = m.wts
  BY <1>2, ResponseHead
<1>4. /\ respNet' = [respNet EXCEPT ![b][c] = Tail(@)]
      /\ pts' = [pts EXCEPT ![c] = tp_updateProcessorTimestamp(c, m)]
      /\ UNCHANGED <<mandQ, reqNet, l2in>>
  <2>1. CASE Data(c, b)
    BY ZenonT(40), <1>3, <2>1 DEF Data
  <2>2. CASE WriteDone(c, b)
    BY ZenonT(40), <1>3, <2>2 DEF WriteDone
  <2> QED BY <1>1, <2>1, <2>2
<1>5. mshr' = mshr \/ mshr' = [mshr EXCEPT ![c][a] = [@ EXCEPT !.ver = m.ver]]
  <2>1. CASE Data(c, b)
    <3>1. readCallback(c, a, m.ver)
      BY ZenonT(40), <1>3, <2>1 DEF Data
    <3> QED BY <3>1 DEF readCallback
  <2>2. CASE WriteDone(c, b)
    BY ZenonT(40), <1>3, <2>2 DEF WriteDone, writeCallback
  <2> QED BY <1>1, <2>1, <2>2
<1>6. \A d \in Cores, x \in Addrs : mshr'[d][x].list = mshr[d][x].list
  <2>1. CASE mshr' = mshr
    BY <2>1
  <2>2. CASE mshr' = [mshr EXCEPT ![c][a] = [@ EXCEPT !.ver = m.ver]]
    BY <2>2 DEF TypeOK, MSHRTypeOK, MSHREntry
  <2> QED BY <1>5, <2>1, <2>2
<1>7. (\A d \in Cores : pts'[d] >= pts[d]) /\ u <= pts'[c]
  <2>1. pts \in [Cores -> Nat] /\ pts' = [pts EXCEPT ![c] = getTimeMax(pts[c], u)]
    BY <1>3, <1>4 DEF TypeOK, L1TypeOK, tp_updateProcessorTimestamp
  <2>2. getTimeMax(pts[c], u) \in Nat /\ getTimeMax(pts[c], u) >= pts[c] /\ getTimeMax(pts[c], u) >= u
    BY <2>1, MaxFacts
  <2> QED BY <2>1, <2>2
<1>8. \A d \in Banks, k \in Cores : \A i \in DOMAIN respNet[d][k] :
         \/ \E j \in DOMAIN respNet'[d][k] : respNet'[d][k][j] = respNet[d][k][i]
         \/ respNet[d][k][i].wts <= pts'[k]
  <2>1. respNet' = [respNet EXCEPT ![b][c] = Tail(@)]
    BY <1>4
  <2>2. \A d \in Banks, k \in Cores : \A i \in DOMAIN respNet[d][k] :
           \/ \E j \in DOMAIN respNet'[d][k] : respNet'[d][k][j] = respNet[d][k][i]
           \/ d = b /\ k = c /\ i = 1
    BY ZenonT(30), <1>2, <2>1, RespTaken
  <2>3. respNet[b][c][1].wts = u
    BY <1>2, <1>3, QueueFacts DEF TypeOK, NetTypeOK
  <2> QED BY <1>7, <2>2, <2>3
<1>9. \A d \in Cores, x \in Addrs : at'[d][x] >= at[d][x]
  <2>1. at \in [Cores -> [Addrs -> Nat]]
    BY DEF AtInv
  <2>2. CASE at' = at
    BY <2>1, <2>2
  <2>3. CASE at' = [at EXCEPT ![c][a] = getTimeMax(@, m.wts)]
    <3>1. \A t \in Nat : getTimeMax(t, u) \in Nat /\ getTimeMax(t, u) >= t
      BY MaxFacts
    <3> QED BY <1>3, <2>1, <2>3, <3>1
  <2> QED BY <1>3, <2>2, <2>3 DEF Arrive
<1>10. \A w \in Warps, x \in Addrs : Loading(w, x)' => Loading(w, x) /\ at'[CoreOf[w]][x] >= at[CoreOf[w]][x]
  BY <1>4, <1>6, <1>9, LoadingSame, CoreOfAssumption
<1> QED BY <1>4, <1>7, <1>8, <1>10, CoreAcc

\* A request leaves the mandatory queue; what is loading now was loading, or
\* is the load that left.
LEMMA LoadingPopped ==
    ASSUME TypeOK, WriteInv, ClockInv, FlightInv, NEW c \in Cores, mandQ[c] # <<>>,
           mandQ' = [mandQ EXCEPT ![c] = Tail(@)],
           \A d \in Cores, x \in Addrs : mshr'[d][x].list = mshr[d][x].list,
           NEW w \in Warps, NEW a \in Addrs, Loading(w, a)'
    PROVE  Reads(w, a) /\ (Loading(w, a) \/ CacheId[Head(mandQ[c])] = <<"R", CoreOf[w], a>>)
<1>1. PICK k \in Cores : k = CoreOf[w]
  BY CoreOfAssumption
<1>2. PICK h \in Ids : h = <<"R", k, a>>
  BY ReadName
<1>3. Reads(w, a)
  BY <1>1 DEF Loading, Reads
<1>4. ~Held(h, "mand")'
  BY <1>1, <1>2 DEF Loading
<1>5. Leaves("mand", {CacheId[Head(mandQ[c])]})
  BY MandPopped DEF FlightInv
<1>6. Held(h, "mand") => h = CacheId[Head(mandQ[c])]
  BY <1>4, <1>5 DEF Leaves
<1> QED BY <1>1, <1>2, <1>3, <1>6 DEF Loading

\* The L1 takes a load: its time is the clock, which has passed the accesses
\* of the warp that waits for it.
LEMMA LoadAcc ==
    ASSUME TypeOK, TypeOK', WriteInv, ClockInv, FlightInv, AtInv, AtInv', AccInv,
           NEW c \in Cores, Load(c)
    PROVE  AccInv'
<1>0. (LoadHit(c) \/ LoadMiss(c)) /\ UNCHANGED <<l2Vars, acc>>
  BY DEF Load
<1>1. PICK r \in CacheMsg, a \in Addrs :
         /\ mandQ[c] # <<>> /\ r = Head(mandQ[c]) /\ a = r.addr
         /\ r.op = "LD" /\ CoreOf[r.warp] = c /\ r.warp \in Warps
         /\ CacheId[r] = <<"R", c, a>> /\ Held(<<"R", c, a>>, "mand")
  BY <1>0, LoadRequest
<1>2. at' = [at EXCEPT ![c][a] = pts[c]]
  BY <1>1 DEF Load
<1>3. at \in [Cores -> [Addrs -> Nat]] /\ (\A d \in Cores, x \in Addrs : at[d][x] <= pts[d])
      /\ \A d \in Cores : pts[d] \in Nat
  BY DEF AtInv, TypeOK, L1TypeOK
<1>4. /\ at'[c][a] = pts[c]
      /\ \A d \in Cores, x \in Addrs : at'[d][x] >= at[d][x]
  BY <1>2, <1>3
<1>5. /\ l2in' = l2in /\ respNet' = respNet /\ pts' = pts
      /\ mandQ' = [mandQ EXCEPT ![c] = Tail(@)]
      /\ \A d \in Cores, x \in Addrs : mshr'[d][x].list = mshr[d][x].list
  <2>1. CASE LoadHit(c)
    <3>1. /\ l2in' = l2in /\ respNet' = respNet /\ pts' = pts
          /\ mandQ' = [mandQ EXCEPT ![c] = Tail(@)]
      BY <2>1 DEF LoadHit, l1Vars
    <3>2. PICK v : mshr' = [mshr EXCEPT ![c][a] = [@ EXCEPT !.ver = v]]
      BY <1>1, <2>1 DEF LoadHit, readCallback
    <3>3. \A d \in Cores, x \in Addrs : mshr'[d][x].list = mshr[d][x].list
      BY <3>2 DEF TypeOK, MSHRTypeOK, MSHREntry
    <3> QED BY <3>1, <3>3
  <2>2. CASE LoadMiss(c)
    BY ZenonT(40), <2>2 DEF LoadMiss, coreVars
  <2> QED BY <1>0, <2>1, <2>2
<1>6. ASSUME NEW w \in Warps, NEW x \in Addrs, Loading(w, x)'
      PROVE  \/ Loading(w, x) /\ at'[CoreOf[w]][x] >= at[CoreOf[w]][x]
             \/ Earlier(w, at'[CoreOf[w]][x])
  <2>1. Reads(w, x) /\ (Loading(w, x) \/ CacheId[Head(mandQ[c])] = <<"R", CoreOf[w], x>>)
    BY <1>1, <1>5, <1>6, LoadingPopped
  <2>2. CASE Loading(w, x)
    BY <1>4, <2>2, CoreOfAssumption
  <2>3. CASE CacheId[Head(mandQ[c])] = <<"R", CoreOf[w], x>>
    <3>1. CoreOf[w] = c /\ x = a
      BY <1>1, <2>3
    <3>2. \A b \in Banks, d \in Cores : \A i \in DOMAIN respNet[b][d] :
             respNet[b][d][i].warp = w => respNet[b][d][i].type = "DATA"
      BY <2>1, ReaderAlone
    <3>3. Earlier(w, pts[CoreOf[w]])
      BY <3>2, ClockPassed
    <3> QED BY <1>4, <3>1, <3>3
  <2> QED BY <2>1, <2>2, <2>3
<1>7. \A d \in Cores, b \in Banks : \A i \in DOMAIN reqNet'[d][b] :
         \/ \E j \in DOMAIN reqNet[d][b] : reqNet'[d][b][i] = reqNet[d][b][j]
         \/ WriteOrdered(reqNet'[d][b][i])
  <2>1. CASE LoadHit(c)
    <3>1. reqNet' = reqNet
      BY <2>1 DEF LoadHit
    <3> QED BY <3>1
  <2>2. CASE LoadMiss(c)
    <3>1. PICK e : SendRequest(c, a_issueGETS(c, r, e)) /\ e \in L1Entry
      <4>1. \A f : f = (IF line[c][a].tag THEN line[c][a] ELSE NewLine) => f \in L1Entry
        BY DEF TypeOK, L1TypeOK, L1Entry, NewLine
      <4> QED BY ZenonT(40), <1>1, <2>2, <4>1 DEF LoadMiss
    <3>2. PICK m \in RequestMsg : m = a_issueGETS(c, r, e)
      BY <3>1, L1MessageTypes
    <3>3. m.type = "GETS"
      BY <3>2 DEF a_issueGETS
    <3> QED BY <3>1, <3>2, <3>3, SentRequests DEF WriteOrdered
  <2> QED BY <1>0, <2>1, <2>2
<1>8. \A d \in Cores : pts'[d] >= pts[d]
  BY <1>5, ClocksStill
<1> QED BY <1>0, <1>5, <1>6, <1>7, <1>8, CoreAcc

\* The L1 sends a write with its clock, which has passed the warp's accesses.
LEMMA WriteThroughAcc ==
    ASSUME TypeOK, TypeOK', WriteInv, ClockInv, FlightInv, AtInv, AtInv', AccInv,
           UNCHANGED <<l2Vars, acc, at>>, NEW c \in Cores, WriteThrough(c)
    PROVE  AccInv'
<1>1. /\ UNCHANGED <<l2in, respNet, pts, mshr>> /\ mandQ[c] # <<>>
      /\ mandQ' = [mandQ EXCEPT ![c] = Tail(@)]
  BY DEF WriteThrough, coreVars
<1>2. PICK r \in CacheMsg : /\ r = Head(mandQ[c]) /\ r.addr \in Addrs /\ r.warp \in Warps
                            /\ CoreOf[r.warp] = c
                            /\ r.op = "LD" => CacheId[r] = <<"R", c, r.addr>>
                            /\ r.op # "LD" => CacheId[r] = <<"W", r.warp, r.addr>>
  BY <1>1, HeadRequest
<1>3. r.op # "LD"
  BY <1>2 DEF WriteThrough
<1>4. PICK w \in Warps, a \in Addrs : w = r.warp /\ a = r.addr
  BY <1>2
<1>5. Held(<<"W", w, a>>, "mand")
  <2>1. PICK h \in Ids : h = <<"W", w, a>> /\ HomeOf(h) = c
    BY <1>2, <1>4, WriteName
  <2>2. mandQ[c] \in Seq(CacheMsg) /\ 1 \in DOMAIN mandQ[c] /\ mandQ[c][1] = r
    BY <1>1, <1>2, QueueFacts DEF TypeOK, NetTypeOK
  <2>3. In(mandQ[c], CacheId, h)
    BY <1>2, <1>3, <1>4, <2>1, <2>2 DEF In
  <2> QED BY <2>1, <2>3, HeldAt
<1>6. PICK s \in Stages : s = "mand" /\ Held(<<"W", w, a>>, s)
  BY <1>5, StageNames
<1>7. \A b \in Banks, d \in Cores : \A i \in DOMAIN respNet[b][d] :
         respNet[b][d][i].warp = w => respNet[b][d][i].type = "DATA"
  <2>1. \A b \in Banks, d \in Cores : \A i \in DOMAIN respNet[b][d] :
           respNet[b][d][i].warp = w /\ respNet[b][d][i].type # "DATA" => s = "resp"
    BY <1>6, WriterAlone
  <2> QED BY <1>6, <2>1
<1>8. Earlier(w, pts[c])
  BY <1>2, <1>4, <1>7, ClockPassed
<1>9. PICK m \in RequestMsg : m = d2t_sendToL2(c, r) /\ m.warp = w /\ m.pts = pts[c]
  <2>1. PICK e \in L1Entry : e = line[c][r.addr]
    BY <1>2 DEF TypeOK, L1TypeOK
  <2>2. d2t_sendToL2(c, r) \in RequestMsg
    BY <2>1, L1MessageTypes
  <2> QED BY <1>4, <2>2 DEF d2t_sendToL2
<1>10. SendRequest(c, m)
  BY <1>2, <1>9 DEF WriteThrough
<1>11. \A d \in Cores, b \in Banks : \A i \in DOMAIN reqNet'[d][b] :
         \/ \E j \in DOMAIN reqNet[d][b] : reqNet'[d][b][i] = reqNet[d][b][j]
         \/ WriteOrdered(reqNet'[d][b][i])
  BY <1>8, <1>9, <1>10, SentRequests DEF WriteOrdered
<1>12. ASSUME NEW u \in Warps, NEW x \in Addrs, Loading(u, x)'
       PROVE  Loading(u, x) /\ at'[CoreOf[u]][x] >= at[CoreOf[u]][x]
  <2>1. Loading(u, x) \/ CacheId[Head(mandQ[c])] = <<"R", CoreOf[u], x>>
    BY <1>1, <1>12, LoadingPopped
  <2>2. CacheId[Head(mandQ[c])] # <<"R", CoreOf[u], x>>
    BY <1>2, <1>3
  <2>3. at[CoreOf[u]][x] \in Nat
    BY CoreOfAssumption DEF AtInv
  <2> QED BY <2>1, <2>2, <2>3
<1>13. \A d \in Cores : pts'[d] >= pts[d]
  BY <1>1, ClocksStill
<1> QED BY <1>1, <1>11, <1>12, <1>13, CoreAcc

-----------------------------------------------------------------------------
(* Steps that perform an access.                                            *)

\* The accesses with one more.
LEMMA OneMore ==
    ASSUME NEW S, NEW q \in Seq(S), NEW x \in S, NEW p, p = Append(q, x)
    PROVE  /\ p \in Seq(S) /\ Len(p) = Len(q) + 1 /\ p[Len(q) + 1] = x
           /\ \A i \in DOMAIN p : (i \in DOMAIN q /\ p[i] = q[i]) \/ p[i] = x
           /\ \A i \in DOMAIN q : i \in DOMAIN p /\ p[i] = q[i]
           /\ \E i \in DOMAIN p : p[i] = x
<1>1. /\ p \in Seq(S) /\ Len(q) \in Nat /\ DOMAIN q = 1..Len(q) /\ DOMAIN p = 1..(Len(q) + 1)
      /\ Len(p) = Len(q) + 1 /\ p[Len(q) + 1] = x
      /\ \A i \in 1..Len(q) : p[i] = q[i]
  BY AppendProperties
<1>2. \A i \in DOMAIN p : i \in DOMAIN q \/ i = Len(q) + 1
  BY <1>1
<1>3. Len(q) + 1 \in DOMAIN p /\ \A i \in DOMAIN q : i \in DOMAIN p
  BY <1>1
<1> QED BY <1>1, <1>2, <1>3

\* The acknowledgement of access y is on its way after the step.
LEMMA StillAcked ==
    ASSUME NEW y, NEW c, c = CoreOf[y.warp], NEW b \in Banks, NEW k \in DOMAIN respNet'[b][c],
           respNet'[b][c][k].type # "DATA", respNet'[b][c][k].warp = y.warp,
           y.time <= respNet'[b][c][k].wts
    PROVE  Acked(y)'
BY DEF Acked

\* Access i after the step.
LEMMA AckedNext ==
    ASSUME NEW y, NEW i, acc'[i] = y, Acked(y)'
    PROVE  Acked(acc[i])'
BY DEF Acked

\* A step that performs access x.
LEMMA PerformedAcc ==
    ASSUME TypeOK, TypeOK', AtInv, AtInv', AccInv, NEW x \in Memory!Access, acc' = Append(acc, x),
           pts' = pts, at' = at, \A a \in Addrs : KeepsCover(a),
           \A b \in Banks, c \in Cores : \A i \in DOMAIN respNet[b][c] :
              \E j \in DOMAIN respNet'[b][c] : respNet'[b][c][j] = respNet[b][c][i],
           \A a \in Addrs : \A v \in 1..Newest(a) : v \in 1..Len(wtimes'[a]) /\ wtimes'[a][v] = wtimes[a][v],
           x.op # "LD" => x.ver \in 1..Len(wtimes'[x.addr]) /\ x.time = wtimes'[x.addr][x.ver],
           \A a \in Addrs : \A v \in 1..Len(wtimes'[a]) :
              v \in 1..Newest(a) \/ (x.op # "LD" /\ x.addr = a /\ x.ver = v),
           x.op = "LD" => Covered(x.addr, x.ver, x.time)',
           Acked(x)', Sorted',
           \A c \in Cores, b \in Banks : \A i \in DOMAIN reqNet'[c][b] : \E j \in DOMAIN reqNet[c][b] :
              reqNet'[c][b][i] = reqNet[c][b][j]
              /\ (reqNet[c][b][j].warp = x.warp => reqNet[c][b][j].type = "GETS"),
           \A b \in Banks : \A i \in DOMAIN l2in'[b] : \E j \in DOMAIN l2in[b] :
              l2in'[b][i] = l2in[b][j] /\ (l2in[b][j].warp = x.warp => l2in[b][j].type = "GETS"),
           \A a \in Addrs : l2st'[a] = "IAV" =>
              l2st[a] = "IAV" /\ l2tbe'[a] = l2tbe[a] /\ x.warp \notin l2tbe[a].wback,
           \A w \in Warps, a \in Addrs : Loading(w, a)' => Loading(w, a) /\ w # x.warp
    PROVE  AccInv'
<1>1. acc \in Seq(Memory!Access) /\ AccWrites /\ AccReads /\ (\A i \in DOMAIN acc : Acked(acc[i])) /\ InOrder
  BY DEF AccInv
<1>2. \A i \in DOMAIN acc : acc[i].warp \in Warps /\ acc[i].addr \in Addrs /\ acc[i].ver \in Nat
                            /\ acc[i].time \in Nat /\ CoreOf[acc[i].warp] \in Cores
  BY <1>1, AccTypes
<1>3. /\ acc' \in Seq(Memory!Access)
      /\ \A i \in DOMAIN acc' : (i \in DOMAIN acc /\ acc'[i] = acc[i]) \/ acc'[i] = x
      /\ \A i \in DOMAIN acc : i \in DOMAIN acc' /\ acc'[i] = acc[i]
      /\ \E i \in DOMAIN acc' : acc'[i] = x
  BY <1>1, OneMore
<1>4. AccWrites'
  <2>1. ASSUME NEW i \in DOMAIN acc', acc'[i].op # "LD"
        PROVE  acc'[i].ver \in 1..Len(wtimes'[acc'[i].addr])
               /\ acc'[i].time = wtimes'[acc'[i].addr][acc'[i].ver]
    <3>1. CASE i \in DOMAIN acc /\ acc'[i] = acc[i]
      <4>1. acc[i].ver \in 1..Newest(acc[i].addr) /\ acc[i].time = wtimes[acc[i].addr][acc[i].ver]
        BY <1>1, <2>1, <3>1 DEF AccWrites
      <4> QED BY <1>2, <3>1, <4>1
    <3>2. CASE acc'[i] = x
      BY <2>1, <3>2
    <3> QED BY <1>3, <3>1, <3>2
  <2>2. ASSUME NEW a \in Addrs, NEW v \in 1..Len(wtimes'[a])
        PROVE  \E i \in DOMAIN acc' : acc'[i].op # "LD" /\ acc'[i].addr = a /\ acc'[i].ver = v
    <3>1. CASE v \in 1..Newest(a)
      <4>1. PICK i \in DOMAIN acc : acc[i].op # "LD" /\ acc[i].addr = a /\ acc[i].ver = v
        BY <1>1, <3>1 DEF AccWrites
      <4> QED BY <1>3, <4>1
    <3>2. CASE x.op # "LD" /\ x.addr = a /\ x.ver = v
      BY <1>3, <3>2
    <3> QED BY <3>1, <3>2
  <2> QED BY <2>1, <2>2 DEF AccWrites, Newest
<1>5. AccReads'
  <2> SUFFICES ASSUME NEW i \in DOMAIN acc', acc'[i].op = "LD"
               PROVE  Covered(acc[i].addr, acc[i].ver, acc[i].time)'
    BY DEF AccReads
  <2>1. CASE i \in DOMAIN acc /\ acc'[i] = acc[i]
    <3>1. PICK a \in Addrs, v \in Nat, t \in Nat : a = acc[i].addr /\ v = acc[i].ver /\ t = acc[i].time
      BY <1>2, <2>1
    <3>2. Covered(a, v, t)
      BY <1>1, <2>1, <3>1 DEF AccReads
    <3>3. Covered(a, v, t)'
      BY <3>2 DEF KeepsCover
    <3> QED BY <2>1, <3>1, <3>3 DEF Covered, LeaseOK, StrictOK
  <2>2. CASE acc'[i] = x
    BY <2>2 DEF Covered, LeaseOK, StrictOK
  <2> QED BY <1>3, <2>1, <2>2
<1>6. ASSUME NEW i \in DOMAIN acc' PROVE Acked(acc[i])'
  <2>1. CASE i \in DOMAIN acc /\ acc'[i] = acc[i]
    <3>1. PICK y : y = acc[i] /\ y = acc'[i] /\ Acked(y)
      BY <1>1, <2>1
    <3>2. PICK c \in Cores, t \in Nat : c = CoreOf[y.warp] /\ t = y.time
      BY <1>2, <2>1, <3>1
    <3>3. CASE t <= pts[c]
      BY <3>1, <3>2, <3>3 DEF Acked
    <3>4. CASE \E b \in Banks : \E j \in DOMAIN respNet[b][c] :
                  respNet[b][c][j].type # "DATA" /\ respNet[b][c][j].warp = y.warp /\ t <= respNet[b][c][j].wts
      <4>0. PICK b \in Banks : \E j \in DOMAIN respNet[b][c] :
                  respNet[b][c][j].type # "DATA" /\ respNet[b][c][j].warp = y.warp /\ t <= respNet[b][c][j].wts
        BY <3>4
      <4>1. PICK j \in DOMAIN respNet[b][c] :
                  respNet[b][c][j].type # "DATA" /\ respNet[b][c][j].warp = y.warp /\ t <= respNet[b][c][j].wts
        BY <4>0
      <4>2. PICK k \in DOMAIN respNet'[b][c] : respNet'[b][c][k] = respNet[b][c][j]
        OBVIOUS
      <4>3. respNet'[b][c][k].type # "DATA" /\ respNet'[b][c][k].warp = y.warp /\ t <= respNet'[b][c][k].wts
        BY <4>1, <4>2
      <4>4. Acked(y)'
        BY <3>2, <4>3, StillAcked
      <4> QED BY <3>1, <4>4, AckedNext
    <3> QED BY <3>1, <3>2, <3>3, <3>4 DEF Acked
  <2>2. CASE acc'[i] = x
    BY <2>2, AckedNext
  <2> QED BY <1>3, <2>1, <2>2
<1>7. ASSUME NEW w, w # x.warp, NEW t, Earlier(w, t)
      PROVE  \A i \in DOMAIN acc' : acc'[i].warp = w => acc'[i].time <= t
  BY <1>3, <1>7 DEF Earlier
<1>8. \A c \in Cores, b \in Banks : \A i \in DOMAIN reqNet'[c][b] : WriteOrdered(reqNet[c][b][i])'
  <2> SUFFICES ASSUME NEW c \in Cores, NEW b \in Banks, NEW i \in DOMAIN reqNet'[c][b]
               PROVE  WriteOrdered(reqNet[c][b][i])'
    OBVIOUS
  <2>1. PICK j \in DOMAIN reqNet[c][b] :
           reqNet'[c][b][i] = reqNet[c][b][j]
           /\ (reqNet[c][b][j].warp = x.warp => reqNet[c][b][j].type = "GETS")
    OBVIOUS
  <2>2. PICK m : m = reqNet[c][b][j] /\ m = reqNet'[c][b][i] /\ WriteOrdered(m)
    BY <1>1, <2>1 DEF InOrder
  <2> QED BY <1>7, <2>1, <2>2 DEF WriteOrdered, Earlier
<1>9. \A b \in Banks : \A i \in DOMAIN l2in'[b] : WriteOrdered(l2in[b][i])'
  <2> SUFFICES ASSUME NEW b \in Banks, NEW i \in DOMAIN l2in'[b]
               PROVE  WriteOrdered(l2in[b][i])'
    OBVIOUS
  <2>1. PICK j \in DOMAIN l2in[b] :
           l2in'[b][i] = l2in[b][j] /\ (l2in[b][j].warp = x.warp => l2in[b][j].type = "GETS")
    OBVIOUS
  <2>2. PICK m : m = l2in[b][j] /\ m = l2in'[b][i] /\ WriteOrdered(m)
    BY <1>1, <2>1 DEF InOrder
  <2> QED BY <1>7, <2>1, <2>2 DEF WriteOrdered, Earlier
<1>10. ASSUME NEW a \in Addrs, l2st'[a] = "IAV", NEW w \in l2tbe'[a].wback
       PROVE  Earlier(w, l2tbe[a].max_write_pts)'
  <2>1. l2tbe'[a] = l2tbe[a] /\ w # x.warp /\ Earlier(w, l2tbe[a].max_write_pts)
    BY <1>1, <1>10 DEF InOrder
  <2> QED BY <1>7, <2>1 DEF Earlier
<1>11. ASSUME NEW w \in Warps, NEW a \in Addrs, Loading(w, a)' PROVE Earlier(w, at[CoreOf[w]][a])'
  <2>1. w # x.warp /\ Earlier(w, at[CoreOf[w]][a])
    BY <1>1, <1>11 DEF InOrder, Loading
  <2> QED BY <1>7, <2>1 DEF Earlier
<1>12. InOrder'
  BY <1>8, <1>9, <1>10, <1>11 DEF InOrder, Loading
<1> QED BY <1>3, <1>4, <1>5, <1>6, <1>12 DEF AccInv

\* A write is appended to the history of its line.
LEMMA HistoryGrows ==
    ASSUME TypeOK, WriteInv', Sorted, NEW a \in Addrs, NEW t \in Nat,
           wtimes' = [wtimes EXCEPT ![a] = Append(@, t)]
    PROVE  /\ Newest(a) \in Nat /\ Len(wtimes'[a]) = Newest(a) + 1 /\ wtimes'[a][Newest(a) + 1] = t
           /\ \A x \in Addrs : \A v \in 1..Newest(x) : v \in 1..Len(wtimes'[x]) /\ wtimes'[x][v] = wtimes[x][v]
           /\ \A x \in Addrs : \A v \in 1..Len(wtimes'[x]) :
                 v \in 1..Newest(x) \/ (x = a /\ v = Newest(a) + 1)
           /\ \A v \in 1..Newest(a) : wtimes[a][v] <= t
           /\ Sorted'
<1>1. PICK q \in Seq(Nat), n \in Nat : q = wtimes[a] /\ n = Newest(a) /\ n = Len(q)
  BY DEF TypeOK, L2TypeOK, Newest
<1>2. PICK p \in Seq(Nat) : p = Append(q, t)
  <2>1. Append(q, t) \in Seq(Nat)
    BY AppendProperties
  <2> QED BY <2>1
<1>3. Len(p) = n + 1 /\ p[n + 1] = t /\ \A v \in 1..n : p[v] = q[v] /\ q[v] \in Nat
  BY <1>1, <1>2, AppendProperties
<1>4. wtimes'[a] = p /\ \A x \in Addrs \ {a} : wtimes'[x] = wtimes[x]
  BY <1>1, <1>2 DEF TypeOK, L2TypeOK
<1>5. \A x \in Addrs : \A v \in 1..Newest(x) : v \in 1..Len(wtimes'[x]) /\ wtimes'[x][v] = wtimes[x][v]
  <2> SUFFICES ASSUME NEW x \in Addrs, NEW v \in 1..Newest(x)
               PROVE  v \in 1..Len(wtimes'[x]) /\ wtimes'[x][v] = wtimes[x][v]
    OBVIOUS
  <2>1. CASE x = a
    <3>1. v \in 1..n
      BY <1>1, <2>1
    <3> QED BY <1>1, <1>3, <1>4, <2>1, <3>1
  <2>2. CASE x # a
    BY <1>4, <2>2 DEF Newest
  <2> QED BY <2>1, <2>2
<1>6. \A x \in Addrs : \A v \in 1..Len(wtimes'[x]) : v \in 1..Newest(x) \/ (x = a /\ v = Newest(a) + 1)
  <2> SUFFICES ASSUME NEW x \in Addrs, NEW v \in 1..Len(wtimes'[x])
               PROVE  v \in 1..Newest(x) \/ (x = a /\ v = Newest(a) + 1)
    OBVIOUS
  <2>1. CASE x = a
    <3>1. v \in 1..(n + 1)
      BY <1>3, <1>4, <2>1
    <3>2. v \in 1..n \/ v = n + 1
      BY <3>1
    <3> QED BY <1>1, <2>1, <3>2
  <2>2. CASE x # a
    BY <1>4, <2>2 DEF Newest
  <2> QED BY <2>1, <2>2
<1>7. \A u, v \in 1..n : u <= v => q[u] <= q[v]
  BY <1>1 DEF Sorted
<1>8. \A v \in 1..n : p[v] <= p[v + 1]
  <2>1. \A v \in 1..(Len(p) - 1) : p[v] <= p[v + 1]
    BY <1>4 DEF WriteInv, LineInv, Newest
  <2> QED BY <1>3, <2>1
<1>9. \A v \in 1..n : q[v] <= t
  <2> TAKE v \in 1..n
  <2>1. n \in 1..n
    OBVIOUS
  <2>2. q[v] <= q[n] /\ q[v] \in Nat /\ q[n] \in Nat /\ q[n] <= t
    BY <1>3, <1>7, <1>8, <2>1
  <2> QED BY <2>2
<1>10. \A u, v \in 1..Len(p) : u <= v => p[u] <= p[v]
  <2> SUFFICES ASSUME NEW u \in 1..Len(p), NEW v \in 1..Len(p), u <= v PROVE p[u] <= p[v]
    OBVIOUS
  <2>1. CASE v = n + 1
    <3>1. u \in 1..n \/ u = n + 1
      BY <1>3
    <3>2. CASE u \in 1..n
      BY <1>3, <1>9, <2>1, <3>2
    <3>3. CASE u = n + 1
      BY <1>3, <2>1, <3>3
    <3> QED BY <3>1, <3>2, <3>3
  <2>2. CASE v # n + 1
    <3>1. u \in 1..n /\ v \in 1..n
      BY <1>3, <2>2
    <3> QED BY <1>3, <1>7, <3>1
  <2> QED BY <2>1, <2>2
<1>11. Sorted'
  <2> SUFFICES ASSUME NEW x \in Addrs
               PROVE  \A u, v \in 1..Len(wtimes'[x]) : u <= v => wtimes'[x][u] <= wtimes'[x][v]
    BY DEF Sorted, Newest
  <2>1. CASE x = a
    BY <1>4, <1>10, <2>1
  <2>2. CASE x # a
    BY <1>4, <2>2 DEF Sorted, Newest
  <2> QED BY <2>1, <2>2
<1> QED BY <1>1, <1>3, <1>4, <1>5, <1>6, <1>9, <1>11

\* A bank applies a write of warp w at time t and answers it.
LEMMA WriteAcc ==
    ASSUME TypeOK, TypeOK', WriteInv, WriteInv', ClockInv, FlightInv, AtInv, AtInv', AccInv, at' = at,
           \A x \in Addrs : KeepsCover(x), UNCHANGED <<coreVars, l1Vars, mandQ, reqNet>>,
           NEW w \in Warps, NEW a \in Addrs, NEW t \in Nat, NEW op \in {"ST", "ATOMIC"},
           NEW s \in {"l2in", "tbe"}, Held(<<"W", w, a>>, s),
           wtimes' = [wtimes EXCEPT ![a] = Append(@, t)],
           Performed(w, op, a, Newest(a) + 1, t),
           \A b \in Banks, c \in Cores :
              \/ respNet'[b][c] = respNet[b][c]
              \/ \E m : respNet'[b][c] = Append(respNet[b][c], m),
           \E b \in Banks : \E i \in DOMAIN respNet'[b][CoreOf[w]] :
              LET m == respNet'[b][CoreOf[w]][i] IN m.type # "DATA" /\ m.warp = w /\ m.wts = t,
           \A b \in Banks : \A i \in DOMAIN l2in'[b] : \E j \in DOMAIN l2in[b] :
              l2in'[b][i] = l2in[b][j] /\ (l2in[b][j].warp = w => l2in[b][j].type = "GETS"),
           \A x \in Addrs : l2st'[x] = "IAV" =>
              l2st[x] = "IAV" /\ l2tbe'[x] = l2tbe[x] /\ w \notin l2tbe[x].wback
    PROVE  AccInv'
<1>1. /\ Newest(a) \in Nat /\ Len(wtimes'[a]) = Newest(a) + 1 /\ wtimes'[a][Newest(a) + 1] = t
      /\ \A x \in Addrs : \A v \in 1..Newest(x) : v \in 1..Len(wtimes'[x]) /\ wtimes'[x][v] = wtimes[x][v]
      /\ \A x \in Addrs : \A v \in 1..Len(wtimes'[x]) :
            v \in 1..Newest(x) \/ (x = a /\ v = Newest(a) + 1)
      /\ \A v \in 1..Newest(a) : wtimes[a][v] <= t
      /\ Sorted'
  BY HistoryGrows DEF AccInv
<1>2. PICK n \in Nat : n = Newest(a) + 1 /\ n \in 1..Len(wtimes'[a])
  BY <1>1
<1>3. PICK x \in Memory!Access :
         /\ acc' = Append(acc, x)
         /\ x.warp = w /\ x.op = op /\ x.addr = a /\ x.ver = n /\ x.time = t
  <2>1. PICK x : x = [warp |-> w, op |-> op, addr |-> a, ver |-> n, time |-> t]
    OBVIOUS
  <2>2. x \in Memory!Access
    BY <2>1 DEF Memory!Access
  <2>3. acc' = Append(acc, x)
    BY <1>2, <2>1 DEF Performed
  <2> QED BY <2>1, <2>2, <2>3
<1>4. PICK k \in Cores : k = CoreOf[w]
  BY CoreOfAssumption
<1>5. Acked(x)'
  <2>1. PICK b \in Banks : \E i \in DOMAIN respNet'[b][k] :
           respNet'[b][k][i].type # "DATA" /\ respNet'[b][k][i].warp = w /\ respNet'[b][k][i].wts = t
    BY <1>4
  <2>2. PICK i \in DOMAIN respNet'[b][k] :
           respNet'[b][k][i].type # "DATA" /\ respNet'[b][k][i].warp = w /\ respNet'[b][k][i].wts = t
    BY <2>1
  <2>3. x.time <= respNet'[b][k][i].wts
    BY <1>3, <2>2
  <2> QED BY <1>3, <1>4, <2>2, <2>3, StillAcked
<1>6. PICK z \in Stages : z = s /\ Held(<<"W", w, a>>, z)
  BY StageNames
<1>7. /\ \A d \in Cores, b \in Banks : \A i \in DOMAIN reqNet[d][b] :
            reqNet[d][b][i].warp = w => reqNet[d][b][i].type = "GETS"
      /\ \A y \in Addrs : ~Reads(w, y)
  <2>1. /\ \A d \in Cores, b \in Banks : \A i \in DOMAIN reqNet[d][b] :
              reqNet[d][b][i].warp = w /\ reqNet[d][b][i].type # "GETS" =>
                 z = "req" /\ reqNet[d][b][i].addr = a
        /\ \A y \in Addrs : ~Reads(w, y)
    BY <1>6, WriterAlone
  <2> QED BY <1>6, <2>1
<1>8. \A u \in Warps, y \in Addrs : Loading(u, y)' => Loading(u, y) /\ u # w
  <2> SUFFICES ASSUME NEW u \in Warps, NEW y \in Addrs, Loading(u, y)' PROVE Loading(u, y) /\ u # w
    OBVIOUS
  <2>1. mandQ' = mandQ /\ mshr' = mshr
    BY DEF coreVars
  <2>2. Loading(u, y)
    BY <2>1, LoadingSame
  <2> QED BY <1>7, <2>2 DEF Loading
<1>9. \A b \in Banks, c \in Cores : \A i \in DOMAIN respNet[b][c] :
         \E j \in DOMAIN respNet'[b][c] : respNet'[b][c][j] = respNet[b][c][i]
  BY RespKept
<1>10. pts' = pts /\ reqNet' = reqNet /\ x.op # "LD"
  BY <1>3 DEF l1Vars
<1>11. \A c \in Cores, b \in Banks : \A i \in DOMAIN reqNet'[c][b] : \E j \in DOMAIN reqNet[c][b] :
          reqNet'[c][b][i] = reqNet[c][b][j]
          /\ (reqNet[c][b][j].warp = x.warp => reqNet[c][b][j].type = "GETS")
  BY <1>3, <1>7, <1>10
<1>12. x.ver \in 1..Len(wtimes'[x.addr]) /\ x.time = wtimes'[x.addr][x.ver]
  BY <1>1, <1>2, <1>3
<1>13. \A y \in Addrs : \A v \in 1..Len(wtimes'[y]) :
          v \in 1..Newest(y) \/ (x.op # "LD" /\ x.addr = y /\ x.ver = v)
  BY <1>1, <1>2, <1>3, <1>10
<1>14. /\ \A b \in Banks : \A i \in DOMAIN l2in'[b] : \E j \in DOMAIN l2in[b] :
             l2in'[b][i] = l2in[b][j] /\ (l2in[b][j].warp = x.warp => l2in[b][j].type = "GETS")
       /\ \A y \in Addrs : l2st'[y] = "IAV" =>
             l2st[y] = "IAV" /\ l2tbe'[y] = l2tbe[y] /\ x.warp \notin l2tbe[y].wback
       /\ \A u \in Warps, y \in Addrs : Loading(u, y)' => Loading(u, y) /\ u # x.warp
  BY <1>3, <1>8
<1> QED BY <1>1, <1>3, <1>5, <1>9, <1>10, <1>11, <1>12, <1>13, <1>14, PerformedAcc

\* Of the requests of a warp that a bank has, only the one at the front is a write.
LEMMA OnlyWrite ==
    ASSUME TypeOK, WriteInv, ClockInv, FlightInv, NEW b \in Banks, 1 \in DOMAIN l2in[b],
           NEW r \in RequestMsg, r = l2in[b][1], r.type # "GETS", NEW w \in Warps, w = r.warp,
           NEW d \in Banks, NEW j \in DOMAIN l2in[d], l2in[d][j].warp = w, l2in[d][j].type # "GETS"
    PROVE  d = b /\ j = 1
<1>1. PICK a \in Addrs : a = r.addr
  BY DEF RequestMsg
<1>2. Held(<<"W", w, a>>, "l2in") /\ "l2in" \in Stages
  BY <1>1, WriteFound DEF Stages, BeyondL1
<1>3. PICK m \in RequestMsg : m = l2in[d][j]
  BY MessageTypes
<1>4. m.addr = a /\ m.warp = w /\ m.type # "GETS"
  BY <1>2, <1>3, WriterAlone
<1>5. d = b
  BY <1>1, <1>3, <1>4 DEF WriteInv, Routed
<1>6. RequestId[m] = <<"W", w, a>> /\ RequestId[r] = <<"W", w, a>>
  BY <1>1, <1>4, MessageIds DEF Id
<1>7. Once(l2in[b], RequestId)
  BY DEF FlightInv, OnceEach
<1> QED BY <1>3, <1>5, <1>6, <1>7 DEF Once

\* A bank applies the write at the front of its queue.
LEMMA AppliedAcc ==
    ASSUME TypeOK, TypeOK', WriteInv, WriteInv', ClockInv, FlightInv, AtInv, AtInv', AccInv, at' = at,
           \A x \in Addrs : KeepsCover(x), UNCHANGED <<coreVars, l1Vars, mandQ, reqNet>>,
           NEW b \in Banks, l2in[b] # <<>>, 1 \in DOMAIN l2in[b],
           NEW r \in RequestMsg, r = l2in[b][1], r.type # "GETS", r.pts \in Nat,
           NEW w \in Warps, w = r.warp, NEW a \in Addrs, a = r.addr,
           NEW t \in Nat, t >= r.pts, NEW op \in {"ST", "ATOMIC"},
           l2in' = [l2in EXCEPT ![b] = Tail(@)],
           wtimes' = [wtimes EXCEPT ![a] = Append(@, t)],
           Performed(w, op, a, Newest(a) + 1, t),
           NEW m \in ResponseMsg, SendResponse(b, m), m.type # "DATA", m.warp = w, m.wts = t,
           \A x \in Addrs : l2st'[x] = "IAV" => l2st[x] = "IAV" /\ l2tbe'[x] = l2tbe[x]
    PROVE  AccInv' /\ Earlier(w, t)
<1>1. Held(<<"W", w, a>>, "l2in") /\ "l2in" \in Stages
  BY WriteFound DEF Stages, BeyondL1
<1>2. \A d \in Banks, c \in Cores :
         \/ respNet'[d][c] = respNet[d][c]
         \/ \E n : respNet'[d][c] = Append(respNet[d][c], n)
  BY OneRespKept
<1>3. \E d \in Banks : \E i \in DOMAIN respNet'[d][CoreOf[w]] :
         LET n == respNet'[d][CoreOf[w]][i] IN n.type # "DATA" /\ n.warp = w /\ n.wts = t
  <2>0. PICK k \in Cores : k = CoreOf[w]
    BY CoreOfAssumption
  <2>1. PICK q \in Seq(ResponseMsg) : k = CoreOf[w] /\ q = respNet[b][k]
    BY <2>0 DEF TypeOK, NetTypeOK
  <2>2. respNet'[b][k] = Append(q, m)
    BY <2>1 DEF SendResponse, TypeOK, NetTypeOK
  <2>3. \E i \in DOMAIN respNet'[b][k] : respNet'[b][k][i] = m
    <3>1. PICK p : p = Append(q, m)
      OBVIOUS
    <3>2. DOMAIN p = 1..(Len(q) + 1) /\ p[Len(q) + 1] = m /\ Len(q) \in Nat
      BY <3>1, AppendProperties
    <3>3. Len(q) + 1 \in DOMAIN p
      BY <3>2
    <3> QED BY <2>2, <3>1, <3>2, <3>3
  <2>4. PICK i \in DOMAIN respNet'[b][k] : respNet'[b][k][i] = m
    BY <2>3
  <2> QED BY <2>1, <2>4
<1>4. ASSUME NEW d \in Banks, NEW i \in DOMAIN l2in'[d]
      PROVE  \E j \in DOMAIN l2in[d] :
                l2in'[d][i] = l2in[d][j] /\ (l2in[d][j].warp = w => l2in[d][j].type = "GETS")
  <2>1. PICK j \in DOMAIN l2in[d] : l2in'[d][i] = l2in[d][j] /\ (d = b => j # 1)
    BY PoppedRequests
  <2>2. ASSUME l2in[d][j].warp = w, l2in[d][j].type # "GETS" PROVE FALSE
    <3>1. d = b /\ j = 1
      BY <2>2, OnlyWrite
    <3> QED BY <2>1, <3>1
  <2> QED BY <2>1, <2>2
<1>5. \A x \in Addrs : l2st'[x] = "IAV" =>
         l2st[x] = "IAV" /\ l2tbe'[x] = l2tbe[x] /\ w \notin l2tbe[x].wback
  <2> SUFFICES ASSUME NEW x \in Addrs, l2st'[x] = "IAV", w \in l2tbe[x].wback PROVE FALSE
    OBVIOUS
  <2>1. l2st[x] = "IAV"
    OBVIOUS
  <2>2. "l2in" = "tbe"
    BY <1>1, <2>1, WriterAlone
  <2> QED BY <2>2
<1>6. AccInv'
  BY ZenonT(30), <1>1, <1>2, <1>3, <1>4, <1>5, WriteAcc
<1>7. Earlier(w, t)
  <2>1. Earlier(w, r.pts) /\ acc \in Seq(Memory!Access)
    BY DEF AccInv, InOrder, WriteOrdered
  <2>2. \A i \in DOMAIN acc : acc[i].time \in Nat
    BY <2>1, AccTypes
  <2> QED BY <2>1, <2>2 DEF Earlier
<1> QED BY <1>6, <1>7

\* What a bank does with a write it applies: its time is not before the
\* request's, and the answer carries it.
LEMMA MissApplied ==
    ASSUME TypeOK, NEW b \in Banks, WriteMiss(b)
    PROVE  \E r \in RequestMsg, t \in Nat, m \in ResponseMsg :
              /\ l2in[b] # <<>> /\ r = Head(l2in[b]) /\ 1 \in DOMAIN l2in[b] /\ r = l2in[b][1]
              /\ r.type # "GETS" /\ r.addr \in Addrs /\ r.warp \in Warps /\ r.pts \in Nat /\ t >= r.pts
              /\ wtimes' = [wtimes EXCEPT ![r.addr] = Append(@, t)]
              /\ SendResponse(b, m) /\ m.type # "DATA" /\ m.warp = r.warp /\ m.wts = t
              /\ l2in' = [l2in EXCEPT ![b] = Tail(@)] /\ UNCHANGED <<mandQ, reqNet>>
              /\ \A x \in Addrs : l2st'[x] = "IAV" => l2st[x] = "IAV" /\ l2tbe'[x] = l2tbe[x]
<1>1. Request(b, "DATA")
  BY DEF WriteMiss
<1>2. PICK r \in RequestMsg : /\ l2in[b] # <<>> /\ r = Head(l2in[b]) /\ r.type = "DATA"
                              /\ 1 \in DOMAIN l2in[b] /\ r = l2in[b][1]
                              /\ r.addr \in Addrs /\ r.warp \in Warps /\ r.pts \in Nat
  BY <1>1, TakenRequest
<1>3. PICK e \in L2TBE : e = TBEForWriteMiss(r)
  BY TBETypes
<1>4. PICK n \in Nat : n = e.max_write_pts /\ n >= r.pts
  <2>1. CASE l2st[r.addr] = "NP"
    <3>1. e.max_write_pts = r.pts
      BY <1>3, <2>1 DEF TBEForWriteMiss, NoL2TBE
    <3> QED BY <1>2, <3>1
  <2>2. CASE l2st[r.addr] # "NP"
    <3>1. PICK f \in L2TBE, u \in Nat : f = l2tbe[r.addr] /\ u = f.max_write_pts
      BY <1>2 DEF TypeOK, L2TypeOK, L2TBE
    <3>2. e.max_write_pts = getTimeMax(r.pts, u)
      BY <1>3, <2>2, <3>1 DEF TBEForWriteMiss, L2TBE
    <3> QED BY <1>2, <3>1, <3>2, MaxFacts
  <2> QED BY <2>1, <2>2
<1>5. PICK t \in Nat : t = MissWts(e, mts[b]) /\ t >= r.pts
  <2>1. PICK k \in Nat : k = mts[b]
    BY DEF TypeOK, L2TypeOK
  <2>2. PICK t \in Nat : t = getTimeMax(n, k) /\ t >= n
    BY MaxFacts
  <2> QED BY <1>2, <1>4, <2>1, <2>2 DEF MissWts
<1>6. PICK v \in Nat : v = Newest(r.addr) + 1
  BY <1>2 DEF TypeOK, L2TypeOK, Newest
<1>7. PICK m \in ResponseMsg : m = WriteResponse("ACK", r.addr, r.warp, t, v)
  BY <1>2 DEF WriteResponse, ResponseMsg
<1>8. m.type # "DATA" /\ m.warp = r.warp /\ m.wts = t
  BY <1>7 DEF WriteResponse
<1>9. /\ wtimes' = [wtimes EXCEPT ![r.addr] = Append(@, t)] /\ SendResponse(b, m)
      /\ l2in' = [l2in EXCEPT ![b] = Tail(@)] /\ UNCHANGED <<mandQ, reqNet>>
      /\ l2st' = [l2st EXCEPT ![r.addr] = "IV"]
  BY <1>2, <1>3, <1>5, <1>6, <1>7 DEF WriteMiss, PopRequest
<1>10. \E f : l2tbe' = [l2tbe EXCEPT ![r.addr] = f]
  BY <1>2 DEF WriteMiss
<1>11. \A x \in Addrs : l2st'[x] = "IAV" => l2st[x] = "IAV" /\ l2tbe'[x] = l2tbe[x]
  BY <1>2, <1>9, <1>10 DEF TypeOK, L2TypeOK
<1> QED BY <1>2, <1>5, <1>8, <1>9, <1>11

\* The same for a write that hits.
LEMMA HitApplied ==
    ASSUME TypeOK, NEW b \in Banks, NEW k \in {"DATA", "DATA_ATOMIC"}, WriteHit(b, k)
    PROVE  \E r \in RequestMsg, t \in Nat, m \in ResponseMsg :
              /\ l2in[b] # <<>> /\ r = Head(l2in[b]) /\ 1 \in DOMAIN l2in[b] /\ r = l2in[b][1]
              /\ r.type # "GETS" /\ r.addr \in Addrs /\ r.warp \in Warps /\ r.pts \in Nat /\ t >= r.pts
              /\ wtimes' = [wtimes EXCEPT ![r.addr] = Append(@, t)]
              /\ SendResponse(b, m) /\ m.type # "DATA" /\ m.warp = r.warp /\ m.wts = t
              /\ l2in' = [l2in EXCEPT ![b] = Tail(@)] /\ UNCHANGED <<mandQ, reqNet>>
              /\ \A x \in Addrs : l2st'[x] = "IAV" => l2st[x] = "IAV" /\ l2tbe'[x] = l2tbe[x]
<1>1. Request(b, k)
  BY DEF WriteHit
<1>2. PICK r \in RequestMsg : /\ l2in[b] # <<>> /\ r = Head(l2in[b]) /\ r.type = k
                              /\ 1 \in DOMAIN l2in[b] /\ r = l2in[b][1]
                              /\ r.addr \in Addrs /\ r.warp \in Warps /\ r.pts \in Nat
  BY <1>1, TakenRequest
<1>3. PICK e \in L2Entry : e = l2[r.addr] /\ e.wts \in Nat /\ e.rts \in Nat
  BY <1>2 DEF TypeOK, L2TypeOK, L2Entry
<1>4. PICK t \in Nat : t = tw_updateL2BlockWts(e, r) /\ t >= r.pts
  <2>1. PICK u \in Nat : u = getTimeMax(r.pts, e.wts) /\ u >= r.pts
    BY <1>2, <1>3, MaxFacts
  <2>2. PICK z \in Nat : z = e.rts + 1
    BY <1>3
  <2>3. PICK t \in Nat : t = getTimeMax(u, z) /\ t >= u
    BY MaxFacts
  <2> QED BY <1>2, <2>1, <2>2, <2>3 DEF tw_updateL2BlockWts
<1>5. PICK v \in Nat : v = Newest(r.addr) + 1
  BY <1>2 DEF TypeOK, L2TypeOK, Newest
<1>6. PICK y \in {"ACK", "DATA_ATOMIC"} : y = IF k = "DATA" THEN "ACK" ELSE k
  OBVIOUS
<1>7. PICK m \in ResponseMsg : m = WriteResponse(y, r.addr, r.warp, t, v)
  BY <1>2 DEF WriteResponse, ResponseMsg
<1>8. m.type # "DATA" /\ m.warp = r.warp /\ m.wts = t
  BY <1>7 DEF WriteResponse
<1>9. /\ wtimes' = [wtimes EXCEPT ![r.addr] = Append(@, t)] /\ SendResponse(b, m)
      /\ l2in' = [l2in EXCEPT ![b] = Tail(@)] /\ UNCHANGED <<mandQ, reqNet>>
      /\ UNCHANGED <<l2st, l2tbe>>
  BY <1>2, <1>3, <1>4, <1>5, <1>6, <1>7 DEF WriteHit, PopRequest
<1> QED BY <1>2, <1>4, <1>8, <1>9

-----------------------------------------------------------------------------
(* What the steps that perform an access are to the memory.                 *)

\* A write that is applied is put after every access to its line.
LEMMA WriteStep ==
    ASSUME TypeOK, WriteInv', AccInv, AccInv', GapOK,
           NEW w \in Warps, NEW a \in Addrs, NEW t \in Nat, NEW op \in {"ST", "ATOMIC"},
           wtimes' = [wtimes EXCEPT ![a] = Append(@, t)],
           Performed(w, op, a, Newest(a) + 1, t), Earlier(w, t)
    PROVE  Memory!Next
<1>1. /\ Newest(a) \in Nat /\ Len(wtimes'[a]) = Newest(a) + 1 /\ wtimes'[a][Newest(a) + 1] = t
      /\ \A x \in Addrs : \A v \in 1..Newest(x) : v \in 1..Len(wtimes'[x]) /\ wtimes'[x][v] = wtimes[x][v]
      /\ \A x \in Addrs : \A v \in 1..Len(wtimes'[x]) :
            v \in 1..Newest(x) \/ (x = a /\ v = Newest(a) + 1)
      /\ \A v \in 1..Newest(a) : wtimes[a][v] <= t
      /\ Sorted'
  BY HistoryGrows DEF AccInv
<1>2. PICK n \in Nat : n = Newest(a)
  BY <1>1
<1>3. PICK x \in Memory!Access :
         /\ acc' = Append(acc, x)
         /\ x.warp = w /\ x.op = op /\ x.addr = a /\ x.ver = n + 1 /\ x.time = t
  <2>1. PICK x : x = [warp |-> w, op |-> op, addr |-> a, ver |-> n + 1, time |-> t]
    OBVIOUS
  <2>2. x \in Memory!Access
    BY <2>1 DEF Memory!Access
  <2>3. acc' = Append(acc, x)
    BY <1>2, <2>1 DEF Performed
  <2> QED BY <2>1, <2>2, <2>3
<1>4. acc \in Seq(Memory!Access) /\ AccWrites /\ AccReads /\ AccReads'
  BY DEF AccInv
<1>5. /\ acc' \in Seq(Memory!Access) /\ Len(acc') = Len(acc) + 1 /\ acc'[Len(acc) + 1] = x
      /\ \A i \in DOMAIN acc' : (i \in DOMAIN acc /\ acc'[i] = acc[i]) \/ acc'[i] = x
      /\ \A i \in DOMAIN acc : i \in DOMAIN acc' /\ acc'[i] = acc[i]
      /\ \E i \in DOMAIN acc' : acc'[i] = x
  BY <1>3, <1>4, OneMore
<1>6. Memory!InProgramOrder(x)
  BY <1>3 DEF Memory!InProgramOrder, Earlier
<1>7. x.ver = 1 \/ \E i \in DOMAIN acc :
         Memory!IsWrite(acc[i]) /\ acc[i].addr = x.addr /\ acc[i].ver = x.ver - 1
  <2>1. CASE n = 0
    BY <1>3, <2>1
  <2>2. CASE n # 0
    <3>1. n \in 1..Newest(a)
      BY <1>2, <2>2
    <3>2. PICK i \in DOMAIN acc : acc[i].op # "LD" /\ acc[i].addr = a /\ acc[i].ver = n
      BY <1>4, <3>1 DEF AccWrites
    <3> QED BY <1>3, <3>2 DEF Memory!IsWrite
  <2> QED BY <2>1, <2>2
<1>8. ASSUME NEW i \in DOMAIN acc, acc[i].addr = a
      PROVE  acc[i].ver < n + 1 /\ acc[i].time <= t /\ (acc[i].op = "LD" => acc[i].time + Gap <= t)
  <2>1. PICK v \in Nat, z \in Nat : v = acc[i].ver /\ z = acc[i].time
    BY <1>4, AccTypes
  <2>2. CASE acc[i].op # "LD"
    <3>1. v \in 1..n /\ z = wtimes[a][v]
      BY <1>2, <1>4, <1>8, <2>1, <2>2 DEF AccWrites
    <3>2. z <= t
      BY <1>1, <1>2, <3>1
    <3>3. v < n + 1
      BY <3>1
    <3> QED BY <2>1, <2>2, <3>2, <3>3
  <2>3. CASE acc[i].op = "LD"
    <3>1. Covered(a, v, z)'
      <4>1. i \in DOMAIN acc' /\ acc'[i] = acc[i]
        BY <1>5
      <4>2. Covered(acc[i].addr, acc[i].ver, acc[i].time)'
        BY <1>4, <2>3, <4>1 DEF AccReads
      <4> QED BY <1>8, <2>1, <4>1, <4>2 DEF Covered, LeaseOK, StrictOK
    <3>2. v <= n
      BY <1>2, <1>4, <1>8, <2>1, <2>3 DEF AccReads, Covered, LeaseOK, StrictOK
    <3>3. z <= wtimes'[a][v + 1] /\ (Gap = 1 => z < wtimes'[a][v + 1])
      BY <1>1, <1>2, <3>1, <3>2 DEF Covered, LeaseOK, StrictOK, Newest, GapOK
    <3>4. v + 1 \in 1..(n + 1) /\ n + 1 \in 1..(n + 1) /\ v + 1 <= n + 1
      BY <3>2
    <3>5. wtimes'[a][v + 1] <= wtimes'[a][n + 1] /\ wtimes'[a][n + 1] = t
      BY <1>1, <1>2, <3>4 DEF Sorted, Newest
    <3>6. wtimes'[a][v + 1] \in Nat
      <4>1. PICK p \in Seq(Nat) : p = wtimes'[a] /\ Len(p) = n + 1
        <5>1. Append(wtimes[a], t) \in Seq(Nat)
          BY AppendProperties DEF TypeOK, L2TypeOK
        <5>2. wtimes'[a] = Append(wtimes[a], t)
          BY DEF TypeOK, L2TypeOK
        <5> QED BY <1>1, <1>2, <5>1, <5>2
      <4>2. DOMAIN p = 1..(n + 1)
        BY <4>1
      <4> QED BY <3>4, <4>1, <4>2
    <3>7. PICK k \in Nat : k = wtimes'[a][v + 1]
      BY <3>6
    <3>8. z <= k /\ k <= t /\ (Gap = 1 => z < k)
      BY <3>3, <3>5, <3>7
    <3>9. z <= t /\ (Gap = 0 \/ Gap = 1) /\ z + Gap <= t
      BY <3>8 DEF GapOK
    <3> QED BY <2>1, <3>2, <3>9
  <2> QED BY <2>2, <2>3
<1>9. Memory!Write(x)
  <2>1. Memory!IsWrite(x)
    BY <1>3 DEF Memory!IsWrite
  <2> QED BY <1>3, <1>7, <1>8, <2>1 DEF Memory!Write, Memory!IsWrite
<1> QED BY <1>3, <1>5, <1>6, <1>9 DEF Memory!Next

\* A bank takes a request or evicts a line.
LEMMA BankStep ==
    ASSUME TypeOK, TypeOK', WriteInv, WriteInv', ClockInv, FlightInv, AtInv, AtInv', AccInv, GapOK,
           \A x \in Addrs : KeepsCover(x), NEW b \in Banks, Bank(b)
    PROVE  AccInv' /\ (acc' = acc \/ Memory!Next)
<1>1. L2Next(b) /\ UNCHANGED <<coreVars, l1Vars>> /\ at' = at
  BY DEF Bank, L2Step
<1>2. CASE GetsMiss(b) \/ AtomicMiss(b) \/ GetsHit(b) \/ \E v \in Addrs : L2_Replacement(b, v)
  <2>1. wtimes' = wtimes
    BY <1>2 DEF GetsMiss, AtomicMiss, GetsHit, L2_Replacement
  <2>2. acc' = acc
    BY <2>1 DEF Bank
  <2> QED BY <1>1, <1>2, <2>2, BanksAcc
<1>3. CASE WriteMiss(b) \/ WriteHit(b, "DATA") \/ WriteHit(b, "DATA_ATOMIC")
  <2>1. PICK r \in RequestMsg, t \in Nat, m \in ResponseMsg :
              /\ l2in[b] # <<>> /\ r = Head(l2in[b]) /\ 1 \in DOMAIN l2in[b] /\ r = l2in[b][1]
              /\ r.type # "GETS" /\ r.addr \in Addrs /\ r.warp \in Warps /\ r.pts \in Nat /\ t >= r.pts
              /\ wtimes' = [wtimes EXCEPT ![r.addr] = Append(@, t)]
              /\ SendResponse(b, m) /\ m.type # "DATA" /\ m.warp = r.warp /\ m.wts = t
              /\ l2in' = [l2in EXCEPT ![b] = Tail(@)] /\ UNCHANGED <<mandQ, reqNet>>
              /\ \A x \in Addrs : l2st'[x] = "IAV" => l2st[x] = "IAV" /\ l2tbe'[x] = l2tbe[x]
    BY <1>3, MissApplied, HitApplied
  <2>2. PICK w \in Warps, a \in Addrs : w = r.warp /\ a = r.addr
    BY <2>1
  <2>3. wtimes' = [wtimes EXCEPT ![a] = Append(@, t)]
    BY <2>1, <2>2
  <2>4. /\ Newest(a) \in Nat /\ Len(wtimes'[a]) = Newest(a) + 1 /\ wtimes'[a][Newest(a) + 1] = t
        /\ \A x \in Addrs : \A v \in 1..Newest(x) : v \in 1..Len(wtimes'[x]) /\ wtimes'[x][v] = wtimes[x][v]
        /\ \A x \in Addrs : \A v \in 1..Len(wtimes'[x]) :
              v \in 1..Newest(x) \/ (x = a /\ v = Newest(a) + 1)
        /\ \A v \in 1..Newest(a) : wtimes[a][v] <= t
        /\ Sorted'
    BY <2>3, HistoryGrows DEF AccInv
  <2>5. wtimes' # wtimes
    BY <2>4 DEF Newest
  <2>6. PICK op \in {"ST", "ATOMIC"} : op = IF r.type = "DATA" THEN "ST" ELSE "ATOMIC"
    OBVIOUS
  <2>7. Performed(w, op, a, Newest(a) + 1, t)
    BY <2>1, <2>2, <2>4, <2>5, <2>6 DEF Bank
  <2>8. /\ UNCHANGED <<coreVars, l1Vars, mandQ, reqNet>> /\ l2in[b] # <<>> /\ 1 \in DOMAIN l2in[b]
        /\ r = l2in[b][1] /\ r.type # "GETS" /\ r.pts \in Nat /\ t >= r.pts
        /\ l2in' = [l2in EXCEPT ![b] = Tail(@)]
        /\ SendResponse(b, m) /\ m.type # "DATA" /\ m.warp = w /\ m.wts = t
        /\ \A x \in Addrs : l2st'[x] = "IAV" => l2st[x] = "IAV" /\ l2tbe'[x] = l2tbe[x]
    BY <1>1, <2>1, <2>2
  <2>9. AccInv' /\ Earlier(w, t)
    BY <1>1, <2>2, <2>3, <2>7, <2>8, AppliedAcc
  <2>10. Memory!Next
    BY <2>3, <2>7, <2>9, WriteStep
  <2> QED BY <2>9, <2>10
<1> QED BY <1>1, <1>2, <1>3 DEF L2Next

\* A message that is sent is in the queue.
LEMMA Appended ==
    ASSUME NEW S, NEW q \in Seq(S), NEW m \in S, NEW p, p = Append(q, m)
    PROVE  \E i \in DOMAIN p : p[i] = m
<1>1. DOMAIN p = 1..(Len(q) + 1) /\ p[Len(q) + 1] = m /\ Len(q) \in Nat
  BY AppendProperties
<1>2. Len(q) + 1 \in DOMAIN p
  BY <1>1
<1> QED BY <1>1, <1>2

\* The atomic is answered.
LEMMA AtomicAnswer ==
    ASSUME TypeOK, NEW a \in Addrs, MemDataAtomic(a), NEW w \in Warps, l2tbe[a].wback = {w},
           NEW d \in Banks, NEW x \in Cores
    PROVE  respNet'[d][x] = IF d = BankOf[a] /\ x = CoreOf[w]
                              THEN Append(respNet[d][x], WriteResponse("DATA_ATOMIC", a, w, l2'[a].wts, l2'[a].ver))
                              ELSE respNet[d][x]
<1> DEFINE u == CHOOSE y \in l2tbe[a].wback : CoreOf[y] = x
<1>1. BankOf[a] \in Banks
  BY BankOfAssumption
<1>2. respNet'[BankOf[a]][x] = IF \E y \in l2tbe[a].wback : CoreOf[y] = x
                       THEN Append(respNet[BankOf[a]][x], WriteResponse("DATA_ATOMIC", a, u, l2'[a].wts, l2'[a].ver))
                       ELSE respNet[BankOf[a]][x]
  BY <1>1 DEF MemDataAtomic, SendResponses, TypeOK, NetTypeOK, L2TypeOK
<1>3. d # BankOf[a] => respNet'[d][x] = respNet[d][x]
  BY <1>1 DEF MemDataAtomic, SendResponses, TypeOK, NetTypeOK
<1>4. x = CoreOf[w] => u = w
  OBVIOUS
<1> HIDE DEF u
<1> QED BY <1>2, <1>3, <1>4

\* The fetch that an atomic waits for ends.
LEMMA AtomicStep ==
    ASSUME TypeOK, TypeOK', WriteInv, WriteInv', ClockInv, FlightInv, AtInv, AtInv', AccInv, GapOK,
           \A x \in Addrs : KeepsCover(x), NEW a \in Addrs, FetchedAtomic(a)
    PROVE  AccInv' /\ Memory!Next
<1>1. MemDataAtomic(a) /\ UNCHANGED <<coreVars, l1Vars>> /\ at' = at
  BY DEF FetchedAtomic
<1>2. PICK e \in L2TBE, w \in Warps :
         e = l2tbe[a] /\ l2st[a] = "IAV" /\ e.wback = {w} /\ e.dirty /\ e.max_write_pts \in Nat
  <2>1. l2st[a] = "IAV"
    BY <1>1 DEF MemDataAtomic
  <2>2. PICK w \in Warps : l2tbe[a].wback = {w}
    BY <2>1 DEF FlightInv, TBEInv
  <2>3. l2tbe[a].dirty
    BY <2>1 DEF WriteInv, LineInv
  <2>4. PICK e \in L2TBE : e = l2tbe[a] /\ e.max_write_pts \in Nat
    BY DEF TypeOK, L2TypeOK, L2TBE
  <2> QED BY <2>1, <2>2, <2>3, <2>4
<1>3. PICK b \in Banks, k \in Nat : b = BankOf[a] /\ k = mts[b]
  BY BankOfAssumption DEF TypeOK, L2TypeOK
<1>4. PICK t \in Nat : t = MissWts(e, k) /\ t >= e.max_write_pts
  BY <1>2, MaxFacts DEF MissWts
<1>5. PICK v \in Nat : v = Newest(a) + 1
  BY DEF TypeOK, L2TypeOK, Newest
<1>6. PICK f : f = [FilledEntry(a) EXCEPT !.ver = v] /\ f.wts = t /\ f.ver = v
  <2>1. FilledEntry(a) = [rts |-> k, wts |-> t, dirty |-> TRUE, ver |-> e.ver]
    BY <1>2, <1>3, <1>4 DEF FilledEntry
  <2>2. PICK g : g = [rts |-> k, wts |-> t, dirty |-> TRUE, ver |-> e.ver]
    OBVIOUS
  <2>3. PICK f : f = [g EXCEPT !.ver = v]
    OBVIOUS
  <2>4. f.wts = t /\ f.ver = v
    BY <2>2, <2>3
  <2> QED BY <2>1, <2>2, <2>3, <2>4
<1>7. PICK m \in ResponseMsg :
         m = WriteResponse("DATA_ATOMIC", a, w, t, v) /\ m.type # "DATA" /\ m.warp = w /\ m.wts = t
  <2>1. PICK m : m = WriteResponse("DATA_ATOMIC", a, w, t, v)
    OBVIOUS
  <2> QED BY <2>1 DEF WriteResponse, ResponseMsg
<1>8. /\ wtimes' = [wtimes EXCEPT ![a] = Append(@, t)]
      /\ l2st' = [l2st EXCEPT ![a] = "V"] /\ l2tbe' = [l2tbe EXCEPT ![a] = NoL2TBE]
      /\ UNCHANGED <<mandQ, reqNet, l2in>>
  BY <1>1, <1>5, <1>6 DEF MemDataAtomic
<1>9. PICK c \in Cores, q \in Seq(ResponseMsg) : c = CoreOf[w] /\ q = respNet[b][c]
  <2>1. PICK c \in Cores : c = CoreOf[w]
    BY CoreOfAssumption
  <2>2. PICK q \in Seq(ResponseMsg) : q = respNet[b][c]
    BY DEF TypeOK, NetTypeOK
  <2> QED BY <2>1, <2>2
<1>10. \A d \in Banks, x \in Cores :
          respNet'[d][x] = IF d = b /\ x = c THEN Append(respNet[d][x], m) ELSE respNet[d][x]
  <2>1. \A d \in Banks, x \in Cores :
           respNet'[d][x] = IF d = BankOf[a] /\ x = CoreOf[w]
                              THEN Append(respNet[d][x], WriteResponse("DATA_ATOMIC", a, w, l2'[a].wts, l2'[a].ver))
                              ELSE respNet[d][x]
    BY <1>1, <1>2, AtomicAnswer
  <2>2. l2'[a] = f
    BY <1>1, <1>5, <1>6 DEF MemDataAtomic, TypeOK, L2TypeOK
  <2> QED BY <1>3, <1>6, <1>7, <1>9, <2>1, <2>2
<1>11. \A d \in Banks, x \in Cores :
          \/ respNet'[d][x] = respNet[d][x]
          \/ \E n : respNet'[d][x] = Append(respNet[d][x], n)
  BY <1>10
<1>12. \E d \in Banks : \E i \in DOMAIN respNet'[d][CoreOf[w]] :
         LET n == respNet'[d][CoreOf[w]][i] IN n.type # "DATA" /\ n.warp = w /\ n.wts = t
  <2>1. respNet'[b][c] = Append(q, m)
    BY <1>9, <1>10
  <2>2. \E i \in DOMAIN respNet'[b][c] : respNet'[b][c][i] = m
    BY <2>1, Appended
  <2>3. PICK i \in DOMAIN respNet'[b][c] : respNet'[b][c][i] = m
    BY <2>2
  <2> QED BY <1>7, <1>9, <2>3
<1>13. Held(<<"W", w, a>>, "tbe") /\ "tbe" \in Stages
  BY <1>2, WriteFound DEF Stages, BeyondL1
<1>14. \A d \in Banks : \A i \in DOMAIN l2in'[d] : \E j \in DOMAIN l2in[d] :
          l2in'[d][i] = l2in[d][j] /\ (l2in[d][j].warp = w => l2in[d][j].type = "GETS")
  <2> SUFFICES ASSUME NEW d \in Banks, NEW i \in DOMAIN l2in[d], l2in[d][i].warp = w
               PROVE  l2in[d][i].type = "GETS"
    BY <1>8
  <2>1. l2in[d][i].type # "GETS" => "tbe" = "l2in"
    BY <1>13, WriterAlone
  <2> QED BY <2>1
<1>15. \A x \in Addrs : l2st'[x] = "IAV" =>
          l2st[x] = "IAV" /\ l2tbe'[x] = l2tbe[x] /\ w \notin l2tbe[x].wback
  <2> SUFFICES ASSUME NEW x \in Addrs, l2st'[x] = "IAV"
               PROVE  l2st[x] = "IAV" /\ l2tbe'[x] = l2tbe[x] /\ w \notin l2tbe[x].wback
    OBVIOUS
  <2>1. x # a /\ l2st[x] = "IAV" /\ l2tbe'[x] = l2tbe[x]
    BY <1>8 DEF TypeOK, L2TypeOK
  <2>2. w \in l2tbe[x].wback => x = a
    BY <1>13, <2>1, WriterAlone
  <2> QED BY <2>1, <2>2
<1>16. PICK op \in {"ST", "ATOMIC"}, s \in {"l2in", "tbe"} : op = "ATOMIC" /\ s = "tbe"
  OBVIOUS
<1>17. /\ Newest(a) \in Nat /\ Len(wtimes'[a]) = Newest(a) + 1 /\ wtimes'[a][Newest(a) + 1] = t
       /\ \A x \in Addrs : \A u \in 1..Newest(x) : u \in 1..Len(wtimes'[x]) /\ wtimes'[x][u] = wtimes[x][u]
       /\ \A x \in Addrs : \A u \in 1..Len(wtimes'[x]) :
             u \in 1..Newest(x) \/ (x = a /\ u = Newest(a) + 1)
       /\ \A u \in 1..Newest(a) : wtimes[a][u] <= t
       /\ Sorted'
  BY <1>8, HistoryGrows DEF AccInv
<1>18. Performed(w, op, a, Newest(a) + 1, t)
  <2>1. PICK u \in l2tbe[a].wback : Performed(u, "ATOMIC", a, Newest(a) + 1, wtimes'[a][Newest(a) + 1])
    BY DEF FetchedAtomic
  <2>2. u = w
    BY <1>2, <2>1
  <2> QED BY <1>16, <1>17, <2>1, <2>2 DEF Performed
<1>19. AccInv'
  <2>1. UNCHANGED <<coreVars, l1Vars, mandQ, reqNet>> /\ Held(<<"W", w, a>>, s)
    BY <1>1, <1>8, <1>13, <1>16
  <2>2. at' = at /\ wtimes' = [wtimes EXCEPT ![a] = Append(@, t)]
    BY <1>1, <1>8
  <2> QED BY ZenonT(30), <1>11, <1>12, <1>14, <1>15, <1>18, <2>1, <2>2, WriteAcc
<1>20. Earlier(w, t)
  <2>1. Earlier(w, e.max_write_pts) /\ acc \in Seq(Memory!Access)
    BY <1>2 DEF AccInv, InOrder
  <2>2. \A i \in DOMAIN acc : acc[i].time \in Nat
    BY <2>1, AccTypes
  <2> QED BY <1>2, <1>4, <2>1, <2>2 DEF Earlier
<1>21. Memory!Next
  BY <1>8, <1>18, <1>19, <1>20, WriteStep
<1> QED BY <1>19, <1>21

\* A read that is handed to its warp finds its version in force at its time.
LEMMA ReadStep ==
    ASSUME TypeOK, AccInv, GapOK, NEW w \in Warps, NEW a \in Addrs, NEW v \in Nat, NEW t \in Nat,
           Performed(w, "LD", a, v, t), Covered(a, v, t), Reached(a, v, t), Earlier(w, t)
    PROVE  Memory!Next
<1>1. PICK x \in Memory!Access :
         /\ acc' = Append(acc, x)
         /\ x.warp = w /\ x.op = "LD" /\ x.addr = a /\ x.ver = v /\ x.time = t
  <2>1. PICK x : x = [warp |-> w, op |-> "LD", addr |-> a, ver |-> v, time |-> t]
    OBVIOUS
  <2>2. x \in Memory!Access
    BY <2>1 DEF Memory!Access
  <2>3. acc' = Append(acc, x)
    BY <2>1 DEF Performed
  <2> QED BY <2>1, <2>2, <2>3
<1>2. acc \in Seq(Memory!Access) /\ AccWrites /\ Sorted
  BY DEF AccInv
<1>3. /\ acc' \in Seq(Memory!Access) /\ Len(acc') = Len(acc) + 1 /\ acc'[Len(acc) + 1] = x
      /\ \A i \in DOMAIN acc' : (i \in DOMAIN acc /\ acc'[i] = acc[i]) \/ acc'[i] = x
      /\ \A i \in DOMAIN acc : i \in DOMAIN acc' /\ acc'[i] = acc[i]
      /\ \E i \in DOMAIN acc' : acc'[i] = x
  BY <1>1, <1>2, OneMore
<1>4. Memory!InProgramOrder(x)
  BY <1>1 DEF Memory!InProgramOrder, Earlier
<1>5. PICK n \in Nat, q \in Seq(Nat) : n = Newest(a) /\ q = wtimes[a] /\ DOMAIN q = 1..n
  BY DEF TypeOK, L2TypeOK, Newest
<1>6. v > 0 => \E i \in DOMAIN acc :
         Memory!IsWrite(acc[i]) /\ acc[i].addr = a /\ acc[i].ver = v /\ acc[i].time <= t
  <2> SUFFICES ASSUME v > 0
               PROVE  \E i \in DOMAIN acc : Memory!IsWrite(acc[i]) /\ acc[i].addr = a
                                             /\ acc[i].ver = v /\ acc[i].time <= t
    OBVIOUS
  <2>1. v \in 1..n /\ wtimes[a][v] <= t
    BY <1>5 DEF Reached
  <2>2. PICK i \in DOMAIN acc : acc[i].op # "LD" /\ acc[i].addr = a /\ acc[i].ver = v
    BY <1>2, <1>5, <2>1 DEF AccWrites
  <2>3. acc[i].time = wtimes[a][v]
    BY <1>2, <2>2 DEF AccWrites
  <2> QED BY <2>1, <2>2, <2>3 DEF Memory!IsWrite
<1>7. ASSUME NEW i \in DOMAIN acc, Memory!IsWrite(acc[i]), acc[i].addr = a, acc[i].ver > v
      PROVE  t + Gap <= acc[i].time
  <2>1. PICK u \in Nat : u = acc[i].ver
    BY <1>2, AccTypes
  <2>2. u \in 1..n /\ acc[i].time = q[u]
    BY <1>2, <1>5, <1>7, <2>1 DEF AccWrites, Memory!IsWrite
  <2>3. v + 1 \in 1..n /\ v + 1 <= u /\ v < n
    BY <1>7, <2>1, <2>2
  <2>4. t <= q[v + 1] /\ (Gap = 1 => t < q[v + 1])
    BY <1>5, <2>3 DEF Covered, LeaseOK, StrictOK, GapOK
  <2>5. q[v + 1] <= q[u]
    BY <1>2, <1>5, <2>2, <2>3 DEF Sorted
  <2>6. PICK y \in Nat, z \in Nat : y = q[v + 1] /\ z = q[u]
    BY SMTT(30), <1>5, <2>2, <2>3
  <2>7. t + Gap <= z
    BY <2>4, <2>5, <2>6 DEF GapOK
  <2> QED BY <2>2, <2>6, <2>7
<1>8. Memory!Read(x)
  <2>1. ~Memory!IsWrite(x)
    BY <1>1 DEF Memory!IsWrite
  <2> QED BY <1>1, <1>6, <1>7, <2>1 DEF Memory!Read
<1> QED BY <1>1, <1>3, <1>4, <1>8 DEF Memory!Next

\* The writeback stage takes the first read of the first line that is back.
LEMMA ReadTaken ==
    ASSUME TypeOK, ClockInv, FlightInv, NEW c \in Cores, Writeback(c)
    PROVE  \E w \in Warps, a \in Addrs :
              /\ a = Head(ready[c]) /\ 1 \in DOMAIN ready[c] /\ a = ready[c][1]
              /\ w = Head(mshr[c][a].list) /\ CoreOf[w] = c /\ Reads(w, a)
              /\ \A u \in Warps, x \in Addrs : Reads(u, x)' => Reads(u, x) /\ (u # w \/ x # a)
<1>1. PICK r \in Seq(Addrs) : r = ready[c] /\ r # <<>>
  BY DEF Writeback, next_access, TypeOK, MSHRTypeOK
<1>2. PICK a \in Addrs : a = Head(r) /\ a = r[1] /\ 1 \in DOMAIN r
  BY <1>1, QueueFacts
<1>3. PICK m \in MSHREntry : m = mshr[c][a]
  BY DEF TypeOK, MSHRTypeOK
<1>4. PICK q \in Seq(Warps) : q = m.list /\ q # <<>> /\ Distinct(q)
  <2>1. m.list # <<>>
    BY <1>1, <1>2, <1>3 DEF Writeback, next_access
  <2>2. m.list \in Seq(Warps) /\ Distinct(m.list)
    BY <1>3 DEF MSHREntry, FlightInv, Busy
  <2> QED BY <2>1, <2>2
<1>5. PICK p \in Seq(Warps) : p = Tail(q) /\ Popped(p, q)
  <2>1. Tail(q) \in Seq(Warps) /\ Popped(Tail(q), q)
    BY <1>4, QueueFacts, ListPopped
  <2> QED BY <2>1
<1>6. PICK w \in Warps : w = Head(q) /\ CoreOf[w] = c
  <2>1. PICK i \in DOMAIN m.list : m.list[i] = Head(q)
    BY <1>4, <1>5 DEF Has, Popped
  <2>2. CoreOf[Head(q)] = c
    BY <1>3, <2>1 DEF ClockInv, EntryOK
  <2> QED BY <1>5, <2>2 DEF Popped
<1>7. Reads(w, a)
  BY <1>3, <1>4, <1>5, <1>6 DEF Reads, Popped
<1>8. mshr' = [mshr EXCEPT ![c][a] = PopRead(m)]
  BY <1>1, <1>2, <1>3 DEF Writeback, next_access
<1>9. /\ mshr'[c][a].list = p
      /\ \A d \in Cores, x \in Addrs : d # c \/ x # a => mshr'[d][x] = mshr[d][x]
  <2>1. /\ mshr'[c][a] = PopRead(m)
        /\ \A d \in Cores, x \in Addrs : d # c \/ x # a => mshr'[d][x] = mshr[d][x]
    BY <1>8 DEF TypeOK, MSHRTypeOK
  <2>2. PopRead(m).list = p
    BY <1>4, <1>5 DEF MSHREntry, PopRead
  <2> QED BY <2>1, <2>2
<1>10. ASSUME NEW u \in Warps, NEW x \in Addrs, Reads(u, x)' PROVE Reads(u, x) /\ (u # w \/ x # a)
  <2>1. CoreOf[u] \in Cores
    BY CoreOfAssumption
  <2>2. CASE CoreOf[u] = c /\ x = a
    <3>1. Has(p, u)
      BY <1>9, <1>10, <2>2 DEF Reads
    <3>2. Has(q, u) /\ u # w
      BY <1>5, <1>6, <3>1 DEF Popped
    <3> QED BY <1>3, <1>4, <2>2, <3>2 DEF Reads
  <2>3. CASE ~(CoreOf[u] = c /\ x = a)
    <3>1. mshr'[CoreOf[u]][x] = mshr[CoreOf[u]][x]
      BY <1>9, <2>1, <2>3
    <3>2. u # w \/ x # a
      BY <1>6, <2>3
    <3> QED BY <1>10, <3>1, <3>2 DEF Reads
  <2> QED BY <2>2, <2>3
<1> QED BY <1>1, <1>2, <1>3, <1>4, <1>6, <1>7, <1>10

\* A read is handed to its warp.
LEMMA ReadBackStep ==
    ASSUME TypeOK, TypeOK', WriteInv, ClockInv, FlightInv, AtInv, AtInv', AccInv, GapOK,
           \A x \in Addrs : KeepsCover(x), NEW c \in Cores, ReadBack(c)
    PROVE  AccInv' /\ Memory!Next
<1>1. Writeback(c) /\ at' = at
  BY DEF ReadBack
<1>2. UNCHANGED <<l1Vars, l2Vars, netVars>>
  BY <1>1 DEF Writeback, next_access
<1>3. pts' = pts /\ wtimes' = wtimes /\ UNCHANGED <<mandQ, reqNet, l2in, respNet, l2st, l2tbe>>
  BY <1>2 DEF l1Vars, l2Vars, netVars
<1>4. PICK w \in Warps, a \in Addrs :
              /\ a = Head(ready[c]) /\ 1 \in DOMAIN ready[c] /\ a = ready[c][1]
              /\ w = Head(mshr[c][a].list) /\ CoreOf[w] = c /\ Reads(w, a)
              /\ \A u \in Warps, x \in Addrs : Reads(u, x)' => Reads(u, x) /\ (u # w \/ x # a)
  BY <1>1, ReadTaken
<1>5. PICK v \in Nat, t \in Nat : v = mshr[c][a].ver /\ t = at[c][a] /\ t <= pts[c]
  <2>1. mshr[c][a].ver \in Nat
    BY DEF TypeOK, MSHRTypeOK, MSHREntry
  <2>2. at[c][a] \in Nat /\ at[c][a] <= pts[c]
    BY DEF AtInv
  <2> QED BY <2>1, <2>2
<1>6. Performed(w, "LD", a, v, t)
  BY <1>4, <1>5 DEF ReadBack
<1>7. Covered(a, v, t) /\ Reached(a, v, t)
  <2>1. \A i \in DOMAIN ready[c] : ReadTimed(c, ready[c][i])
    BY DEF AtInv, ReadsTimed
  <2>2. ReadTimed(c, a)
    BY <1>4, <2>1
  <2> QED BY <1>5, <2>2 DEF ReadTimed
<1>8. Earlier(w, t)
  <2>1. PICK h \in Ids : h = <<"R", c, a>>
    BY ReadName
  <2>2. Held(h, "back")
    BY <1>4, <2>1, ReadFound
  <2>3. ~Held(h, "mand")
    BY <2>2 DEF FlightInv, Single, Stages, BeyondL1
  <2>4. ~Held(<<"R", CoreOf[w], a>>, "mand")
    BY <1>4, <2>1, <2>3
  <2>5. Earlier(w, at[CoreOf[w]][a])
    BY <1>4, <2>4 DEF AccInv, InOrder
  <2> QED BY <1>4, <1>5, <2>5
<1>9. Memory!Next
  BY <1>6, <1>7, <1>8, ReadStep
<1>10. PICK x \in Memory!Access :
          /\ acc' = Append(acc, x)
          /\ x.warp = w /\ x.op = "LD" /\ x.addr = a /\ x.ver = v /\ x.time = t
  <2>1. PICK x : x = [warp |-> w, op |-> "LD", addr |-> a, ver |-> v, time |-> t]
    OBVIOUS
  <2>2. x \in Memory!Access
    BY <2>1 DEF Memory!Access
  <2>3. acc' = Append(acc, x)
    BY <1>6, <2>1 DEF Performed
  <2> QED BY <2>1, <2>2, <2>3
<1>11. Covered(x.addr, x.ver, x.time)'
  <2>1. Covered(a, v, t)'
    BY <1>7 DEF KeepsCover
  <2> QED BY <1>10, <2>1 DEF Covered, LeaseOK, StrictOK
<1>12. Acked(x)'
  BY <1>3, <1>4, <1>5, <1>10 DEF Acked
<1>13. Sorted'
  BY <1>3 DEF AccInv, Sorted, Newest
<1>14. \A y \in Addrs : Len(wtimes'[y]) = Newest(y) /\ wtimes'[y] = wtimes[y]
  BY <1>3 DEF Newest
<1>15. /\ \A d \in Cores, b \in Banks : \A i \in DOMAIN reqNet[d][b] :
             reqNet[d][b][i].warp = w => reqNet[d][b][i].type = "GETS"
       /\ \A b \in Banks : \A i \in DOMAIN l2in[b] :
             l2in[b][i].warp = w => l2in[b][i].type = "GETS"
       /\ \A y \in Addrs : l2st[y] = "IAV" => w \notin l2tbe[y].wback
       /\ \A b \in Banks, d \in Cores : \A i \in DOMAIN respNet[b][d] :
             respNet[b][d][i].warp = w => respNet[b][d][i].type = "DATA"
       /\ \A y \in Addrs : Reads(w, y) => y = a
  <2>1. Reads(w, a)
    BY <1>4
  <2> QED BY <2>1, ReaderAlone
<1>16. ASSUME NEW u \in Warps, NEW y \in Addrs, Loading(u, y)' PROVE Loading(u, y) /\ u # x.warp
  <2>1. PICK h \in Ids : h = <<"R", CoreOf[u], y>>
    BY ReadName, CoreOfAssumption
  <2>2. Held(h, "mand")' <=> Held(h, "mand")
    BY <1>3, SameStages DEF Same
  <2>3. Reads(u, y)' /\ ~Held(h, "mand")'
    BY <1>16, <2>1 DEF Loading
  <2>4. Reads(u, y) /\ (u # w \/ y # a)
    BY <1>4, <2>3
  <2> QED BY <1>10, <1>15, <2>1, <2>2, <2>3, <2>4 DEF Loading
<1>17. /\ \A d \in Cores, b \in Banks : \A i \in DOMAIN reqNet'[d][b] : \E j \in DOMAIN reqNet[d][b] :
             reqNet'[d][b][i] = reqNet[d][b][j]
             /\ (reqNet[d][b][j].warp = x.warp => reqNet[d][b][j].type = "GETS")
       /\ \A b \in Banks : \A i \in DOMAIN l2in'[b] : \E j \in DOMAIN l2in[b] :
             l2in'[b][i] = l2in[b][j] /\ (l2in[b][j].warp = x.warp => l2in[b][j].type = "GETS")
       /\ \A y \in Addrs : l2st'[y] = "IAV" =>
             l2st[y] = "IAV" /\ l2tbe'[y] = l2tbe[y] /\ x.warp \notin l2tbe[y].wback
  BY <1>3, <1>10, <1>15
<1>18. /\ \A b \in Banks, d \in Cores : \A i \in DOMAIN respNet[b][d] :
             \E j \in DOMAIN respNet'[b][d] : respNet'[b][d][j] = respNet[b][d][i]
       /\ \A y \in Addrs : \A z \in 1..Newest(y) : z \in 1..Len(wtimes'[y]) /\ wtimes'[y][z] = wtimes[y][z]
       /\ \A y \in Addrs : \A z \in 1..Len(wtimes'[y]) :
             z \in 1..Newest(y) \/ (x.op # "LD" /\ x.addr = y /\ x.ver = z)
  BY <1>3, <1>14
<1>19. AccInv'
  BY <1>1, <1>3, <1>10, <1>11, <1>12, <1>13, <1>16, <1>17, <1>18, PerformedAcc
<1> QED BY <1>9, <1>19

-----------------------------------------------------------------------------
(* The memory.                                                              *)

\* Every step keeps the accesses as the memory has them, and is a step of the
\* memory or leaves it alone.
LEMMA NextAcc ==
    ASSUME NoMerge, GapOK, TypeOK, WriteInv, WriteInv', ClockInv, FlightInv,
           AtInv, AtInv', AccInv, [SerialNext]_svars
    PROVE  AccInv' /\ [Memory!Next]_acc
<1>1. [Next]_vars
  BY StepOfRCC
<1>2. TypeOK' /\ \A x \in Addrs : KeepsCover(x)
  BY <1>1, NextTypes, NextCover, NextKept
<1>3. ASSUME NEW c \in Cores, Load(c) PROVE AccInv' /\ acc' = acc
  BY <1>2, <1>3, LoadAcc DEF Load
<1>4. ASSUME NEW c \in Cores, L1Rest(c) PROVE AccInv' /\ acc' = acc
  <2>1. UNCHANGED <<l2Vars, acc, at>>
    BY <1>4 DEF L1Rest
  <2>2. CASE WriteThrough(c)
    BY <1>2, <2>1, <2>2, WriteThroughAcc
  <2>3. ASSUME NEW v \in Addrs, L1_Replacement(c, v) PROVE AccInv'
    BY <1>2, <2>1, <2>3, PlainAcc
  <2>4. ASSUME NEW b \in Banks, WriteDone(c, b) PROVE AccInv'
    BY <1>2, <2>1, <2>4, AnswerAcc
  <2> QED BY <1>4, <2>1, <2>2, <2>3, <2>4 DEF L1Rest
<1>5. ASSUME NEW c \in Cores, ReadBack(c) PROVE AccInv' /\ Memory!Next
  BY <1>2, <1>5, ReadBackStep
<1>6. ASSUME NEW c \in Cores, NEW b \in Banks, Arrive(c, b) PROVE AccInv' /\ acc' = acc
  <2>1. UNCHANGED <<l2Vars, acc>>
    BY <1>6 DEF Arrive
  <2> QED BY <1>2, <1>6, <2>1, AnswerAcc
<1>7. ASSUME NEW b \in Banks, Bank(b) PROVE AccInv' /\ (acc' = acc \/ Memory!Next)
  BY <1>2, <1>7, BankStep
<1>8. ASSUME NEW a \in Addrs, FetchedAtomic(a) PROVE AccInv' /\ Memory!Next
  BY <1>2, <1>8, AtomicStep
<1>9. ASSUME UNCHANGED <<acc, at>>,
             \/ \E w \in Warps : Issue(w)
             \/ \E c \in Cores : WriteAck(c)
             \/ \E c \in Cores, b \in Banks : Network(c, b)
      PROVE  AccInv'
  BY <1>2, <1>9, PlainAcc
<1>10. ASSUME UNCHANGED <<acc, at>>, NEW a \in Addrs, MemData(a), UNCHANGED <<coreVars, l1Vars>>
       PROVE  AccInv'
  BY <1>2, <1>10, BanksAcc
<1>11. ASSUME UNCHANGED <<acc, at>>, UNCHANGED vars PROVE AccInv'
  <2>1. UNCHANGED <<coreVars, l1Vars>>
    BY <1>11 DEF vars
  <2> QED BY <1>2, <1>11, <2>1, BanksAcc
<1>12. UNCHANGED svars => UNCHANGED <<acc, at>> /\ UNCHANGED vars
  BY DEF svars
<1>13. CASE UNCHANGED <<acc, at>>
  BY <1>3, <1>4, <1>5, <1>6, <1>7, <1>8, <1>9, <1>10, <1>11, <1>12, <1>13 DEF SerialNext, Terminated
<1>14. CASE ~UNCHANGED <<acc, at>>
  BY <1>3, <1>4, <1>5, <1>6, <1>7, <1>8, <1>12, <1>14 DEF SerialNext
<1> QED BY <1>13, <1>14

\* Initially nothing is under way and nothing was done.
LEMMA InitSerial == SerialInit => LinesOK /\ AtInv /\ AccInv
<1> SUFFICES ASSUME SerialInit PROVE LinesOK /\ AtInv /\ AccInv
  OBVIOUS
<1>1. Init /\ acc = <<>> /\ at = [c \in Cores |-> [a \in Addrs |-> 0]]
  BY DEF SerialInit
<1>2. LinesOK
  BY <1>1 DEF Init, L1Init, LinesOK, LineOK
<1>3. /\ \A c \in Cores, b \in Banks : reqNet[c][b] = <<>> /\ respNet[b][c] = <<>>
      /\ \A b \in Banks : l2in[b] = <<>>
      /\ \A c \in Cores : ready[c] = <<>> /\ pts[c] = 0
      /\ \A c \in Cores, a \in Addrs : mshr[c][a].list = <<>>
      /\ \A a \in Addrs : l2st[a] = "NP" /\ l2tbe[a].gets = {} /\ wtimes[a] = <<>>
  BY <1>1 DEF Init, NetInit, MSHRInit, L1Init, L2Init, NoMSHR, NoL2TBE
<1>4. AtInv
  BY <1>1, <1>3 DEF AtInv, ReadsTimed, FetchTimed
<1>5. \A w \in Warps, a \in Addrs : ~Reads(w, a)
  BY <1>3, CoreOfAssumption DEF Reads, Has
<1>6. InOrder
  BY <1>3, <1>5 DEF InOrder
<1>7. \A a \in Addrs : Newest(a) = 0
  BY <1>3 DEF Newest
<1>8. acc \in Seq(Memory!Access) /\ DOMAIN acc = {}
  BY <1>1
<1>9. Sorted /\ AccWrites /\ AccReads
  BY <1>7, <1>8 DEF Sorted, AccWrites, AccReads
<1> QED BY <1>2, <1>4, <1>6, <1>8, <1>9 DEF AccInv

\* The reads under way are timed within their leases.
THEOREM ReadsInvariant == SerialSpec => []AtInv
<1>1. TypeOK /\ LinesOK /\ [Next]_vars => LinesOK'
  BY NextLines
<1>2. TypeOK /\ WriteInv /\ LeasesCovered /\ ClockInv /\ FlightInv /\ LinesOK /\ AtInv /\ [SerialNext]_svars => AtInv'
  BY NextReads
<1> QED BY <1>1, <1>2, InitSerial, StepOfRCC, SpecOfRCC, TypeCorrect, WritesInvariant, LeasesStayCovered,
           ClocksInvariant, FlightInvariant, PTL DEF SerialSpec

\* The L1s, the banks, the network and the DRAM implement a memory in logical
\* time: every write is timed after what was done to its line (tw, wat, mt,
\* setmts), every load reads the version in force at a time that is not before
\* its warp's last access (isLive, tp).
THEOREM MemoryImplemented ==
    ASSUME NoMerge, GapOK
    PROVE  SerialSpec => ImplementsMemory
<1>1. TypeOK /\ WriteInv /\ WriteInv' /\ ClockInv /\ FlightInv /\ AtInv /\ AtInv' /\ AccInv /\ [SerialNext]_svars
         => AccInv' /\ [Memory!Next]_acc
  BY NextAcc
<1>2. SerialInit => Memory!Init
  BY DEF SerialInit, Memory!Init
<1> QED BY <1>1, <1>2, InitSerial, SpecOfRCC, TypeCorrect, WritesInvariant, ClocksInvariant, FlightInvariant,
           ReadsInvariant, PTL DEF SerialSpec, ImplementsMemory, Memory!Spec

-----------------------------------------------------------------------------
(* Lines an L1 asks for again.                                              *)

\* A write to line a came at time r or later.
Ended(a, r) == \E k \in 1..Newest(a) : r <= wtimes[a][k]

\* The lease of a block that can no longer be read has run out or was ended.
GivenUp(c, a) ==
    line[c][a].have =>
        /\ line[c][a].tag
        /\ st[c][a] \in {"S", "SM"} \/ line[c][a].rts < pts[c] \/ Ended(a, line[c][a].rts)

\* A core that asks for a block whose lease has not run out has given it up.
AskedFor(m) == m.type = "GETS" /\ m.inL1 /\ ~m.expired => Ended(m.addr, m.rts)

\* An acknowledgement m finds in the L1 a version older than its own.
Newer(m, c) == line[c][m.addr].have => line[c][m.addr].ver < m.ver

\* The blocks sent before an acknowledgement are older, too.
AfterBlocks(q) ==
    \A i, j \in DOMAIN q :
        i < j /\ q[i].addr = q[j].addr /\ q[i].type = "DATA" /\ q[j].type # "DATA"
            => q[i].ver < q[j].ver

AnswersNewer(b, c) ==
    /\ \A i \in DOMAIN respNet[b][c] : respNet[b][c][i].type # "DATA" => Newer(respNet[b][c][i], c)
    /\ AfterBlocks(respNet[b][c])

RenewInv ==
    /\ \A c \in Cores, a \in Addrs : GivenUp(c, a)
    /\ \A c \in Cores, b \in Banks : \A i \in DOMAIN reqNet[c][b] : AskedFor(reqNet[c][b][i])
    /\ \A b \in Banks : \A i \in DOMAIN l2in[b] : AskedFor(l2in[b][i])
    /\ \A b \in Banks, c \in Cores : AnswersNewer(b, c)
    /\ Sorted

\* A step writes one version of a line, or none.
Grows == wtimes' = wtimes \/ \E a \in Addrs, t \in Nat : wtimes' = [wtimes EXCEPT ![a] = Append(@, t)]

\* Every step appends to at most one line's history.
LEMMA NextGrows ==
    ASSUME TypeOK, WriteInv, [Next]_vars
    PROVE  Grows
<1>1. CASE UNCHANGED l2Vars
  BY <1>1 DEF l2Vars, Grows
<1>2. ASSUME NEW b \in Banks, L2Step(b) PROVE Grows
  <2>1. CASE GetsMiss(b) \/ AtomicMiss(b) \/ GetsHit(b)
    BY <2>1 DEF GetsMiss, AtomicMiss, GetsHit, Grows
  <2>2. CASE WriteMiss(b)
    <3>1. PICK r \in RequestMsg : r = Head(l2in[b]) /\ r.addr \in Addrs
      BY <2>2, RequestHead DEF WriteMiss, Request
    <3>2. PICK t \in Nat : t = MissWts(TBEForWriteMiss(r), mts[b])
      BY <3>1, TBETypes, MtsFacts DEF TypeOK, L2TypeOK
    <3> QED BY <2>2, <3>1, <3>2 DEF WriteMiss, Grows
  <2>3. ASSUME NEW y \in {"DATA", "DATA_ATOMIC"}, WriteHit(b, y) PROVE Grows
    <3>1. PICK r \in RequestMsg : r = Head(l2in[b]) /\ r.addr \in Addrs
      BY <2>3, RequestHead DEF WriteHit, Request
    <3>2. PICK t \in Nat : t = tw_updateL2BlockWts(l2[r.addr], r)
      BY <3>1, RtsFacts DEF TypeOK, L2TypeOK
    <3> QED BY <2>3, <3>1, <3>2 DEF WriteHit, Grows
  <2>4. ASSUME NEW v \in Addrs, L2_Replacement(b, v) PROVE Grows
    BY <2>4 DEF L2_Replacement, Grows
  <2> QED BY <1>2, <2>1, <2>2, <2>3, <2>4 DEF L2Step, L2Next
<1>3. ASSUME NEW a \in Addrs, MemData(a) PROVE Grows
  BY <1>3 DEF MemData, Grows
<1>4. ASSUME NEW a \in Addrs, MemDataAtomic(a) PROVE Grows
  <2>1. PICK f \in L2Entry : f = FilledEntry(a) /\ f.wts \in Nat
    BY FillFacts DEF L2Entry
  <2>2. wtimes' = [wtimes EXCEPT ![a] = Append(@, [f EXCEPT !.ver = Newest(a) + 1].wts)]
    BY <1>4, <2>1 DEF MemDataAtomic
  <2>3. [f EXCEPT !.ver = Newest(a) + 1].wts = f.wts
    BY <2>1 DEF L2Entry
  <2> QED BY <2>1, <2>2, <2>3 DEF Grows
<1>5. ASSUME NEW w \in Warps, Issue(w) PROVE UNCHANGED l2Vars
  BY <1>5 DEF Issue
<1>6. ASSUME NEW c \in Cores, Writeback(c) \/ WriteAck(c) \/ L1Step(c) PROVE UNCHANGED l2Vars
  BY <1>6 DEF Writeback, WriteAck, L1Step
<1>7. ASSUME NEW c \in Cores, NEW b \in Banks, Network(c, b) PROVE UNCHANGED l2Vars
  BY <1>7 DEF Network
<1>8. CASE UNCHANGED vars
  BY <1>1, <1>8 DEF vars
<1> QED BY <1>1, <1>2, <1>3, <1>4, <1>5, <1>6, <1>7, <1>8 DEF Next, Terminated, Dram

\* The histories stay in order, and a lease that was ended stays ended.
LEMMA EndedKept ==
    ASSUME TypeOK, WriteInv', Sorted, Grows
    PROVE  /\ Sorted'
           /\ \A x \in Addrs, r \in Nat : Ended(x, r) => Ended(x, r)'
<1>1. CASE wtimes' = wtimes
  BY <1>1 DEF Sorted, Ended, Newest
<1>2. ASSUME NEW a \in Addrs, NEW t \in Nat, wtimes' = [wtimes EXCEPT ![a] = Append(@, t)]
      PROVE  Sorted' /\ \A x \in Addrs, r \in Nat : Ended(x, r) => Ended(x, r)'
  <2>1. /\ \A x \in Addrs : \A v \in 1..Newest(x) : v \in 1..Len(wtimes'[x]) /\ wtimes'[x][v] = wtimes[x][v]
        /\ Sorted'
    BY <1>2, HistoryGrows
  <2>2. ASSUME NEW x \in Addrs, NEW r \in Nat, Ended(x, r) PROVE Ended(x, r)'
    <3>1. PICK k \in 1..Newest(x) : r <= wtimes[x][k]
      BY <2>2 DEF Ended
    <3>2. k \in 1..Len(wtimes'[x]) /\ wtimes'[x][k] = wtimes[x][k]
      BY <2>1
    <3> QED BY <3>1, <3>2 DEF Ended, Newest
  <2> QED BY <2>1, <2>2
<1> QED BY <1>1, <1>2 DEF Grows

\* A lease on a version that is not the newest was ended.
LEMMA OldEnded ==
    ASSUME TypeOK, NEW a \in Addrs, NEW v \in Nat, NEW r \in Nat, LeaseOK(a, v, r), v < Newest(a)
    PROVE  Ended(a, r)
<1>1. Newest(a) \in Nat /\ v + 1 \in 1..Newest(a)
  BY DEF TypeOK, L2TypeOK, Newest
<1>2. r <= wtimes[a][v + 1]
  BY DEF LeaseOK
<1> QED BY <1>1, <1>2 DEF Ended

\* What cannot be read was given up (getState).
LEMMA Unreadable ==
    ASSUME TypeOK, LinesOK, NEW c \in Cores, NEW a \in Addrs, GivenUp(c, a),
           getState(c, a) \notin {"S", "SM"}, line[c][a].have
    PROVE  line[c][a].rts < pts[c] \/ Ended(a, line[c][a].rts)
<1>1. line[c][a].tag
  BY DEF GivenUp
<1>2. SUFFICES ASSUME st[c][a] \in {"S", "SM"} PROVE line[c][a].rts < pts[c]
  BY DEF GivenUp
<1>3. line[c][a].rts \in Nat /\ tbe[c][a].rts \in Nat /\ pts[c] \in Nat
  BY DEF TypeOK, L1TypeOK, L1Entry, L1TBE
<1>4. CASE st[c][a] = "S"
  <2>1. ~TBEPresent(c, a)
    BY <1>4 DEF TBEPresent, Transient
  <2>2. ~isLive(c, a)
    BY <1>1, <1>4, <2>1 DEF getState
  <2> QED BY <1>3, <2>1, <2>2 DEF isLive
<1>5. CASE st[c][a] = "SM"
  <2>1. TBEPresent(c, a)
    BY <1>5 DEF TBEPresent, Transient
  <2>2. ~isLive(c, a)
    BY <1>5, <2>1 DEF getState
  <2>3. tbe[c][a].rts = line[c][a].rts
    BY <1>5 DEF LinesOK, LineOK
  <2> QED BY <1>3, <2>1, <2>2, <2>3 DEF isLive
<1> QED BY <1>2, <1>4, <1>5

\* A step after which every line and request is an old one or is as it should be.
LEMMA StepRenew ==
    ASSUME TypeOK, TypeOK', WriteInv', RenewInv, Grows,
           \A c \in Cores : pts'[c] >= pts[c],
           \A c \in Cores, a \in Addrs :
              (line'[c][a] = line[c][a] /\ st'[c][a] = st[c][a]) \/ GivenUp(c, a)',
           \A c \in Cores, b \in Banks : \A i \in DOMAIN reqNet'[c][b] :
              \/ \E j \in DOMAIN reqNet[c][b] : reqNet'[c][b][i] = reqNet[c][b][j]
              \/ AskedFor(reqNet[c][b][i])',
           \A b \in Banks : \A i \in DOMAIN l2in'[b] :
              \/ \E j \in DOMAIN l2in[b] : l2in'[b][i] = l2in[b][j]
              \/ \E c \in Cores : \E j \in DOMAIN reqNet[c][b] : l2in'[b][i] = reqNet[c][b][j],
           \A b \in Banks, c \in Cores : AnswersNewer(b, c)'
    PROVE  RenewInv'
<1>1. Sorted' /\ \A x \in Addrs, r \in Nat : Ended(x, r) => Ended(x, r)'
  BY EndedKept DEF RenewInv
<1>2. ASSUME NEW c \in Cores, NEW a \in Addrs PROVE GivenUp(c, a)'
  <2>1. SUFFICES ASSUME line'[c][a] = line[c][a], st'[c][a] = st[c][a], line'[c][a].have
                 PROVE  /\ line'[c][a].tag
                        /\ \/ st'[c][a] \in {"S", "SM"}
                           \/ line'[c][a].rts < pts'[c]
                           \/ Ended(a, line[c][a].rts)'
    BY DEF GivenUp
  <2>2. GivenUp(c, a)
    BY DEF RenewInv
  <2>3. PICK r \in Nat : r = line[c][a].rts
    BY DEF TypeOK, L1TypeOK, L1Entry
  <2>4. r = line'[c][a].rts
    BY <2>1, <2>3
  <2>5. pts[c] \in Nat /\ pts'[c] \in Nat
    BY DEF TypeOK, L1TypeOK
  <2>6. Ended(a, r) => Ended(a, line[c][a].rts)'
    BY <1>1, <2>4 DEF Ended
  <2>7. r < pts[c] => r < pts'[c]
    BY <2>5
  <2> QED BY <2>1, <2>2, <2>3, <2>4, <2>6, <2>7 DEF GivenUp
<1>3. ASSUME NEW m \in RequestMsg, AskedFor(m) PROVE AskedFor(m)'
  <2>1. m.addr \in Addrs /\ m.rts \in Nat
    BY DEF RequestMsg
  <2> QED BY <1>1, <1>3, <2>1 DEF AskedFor
<1>4. ASSUME NEW c \in Cores, NEW b \in Banks, NEW i \in DOMAIN reqNet'[c][b]
      PROVE  AskedFor(reqNet[c][b][i])'
  <2>1. SUFFICES ASSUME NEW j \in DOMAIN reqNet[c][b], reqNet'[c][b][i] = reqNet[c][b][j]
                 PROVE  AskedFor(reqNet[c][b][i])'
    BY <1>4
  <2>2. PICK m \in RequestMsg : m = reqNet[c][b][j] /\ AskedFor(m)
    BY DEF RenewInv, TypeOK, NetTypeOK
  <2>3. AskedFor(m)' /\ m = reqNet'[c][b][i]
    BY <1>3, <2>1, <2>2
  <2> QED BY <2>3 DEF AskedFor, Ended
<1>5. ASSUME NEW b \in Banks, NEW i \in DOMAIN l2in'[b] PROVE AskedFor(l2in[b][i])'
  <2>1. PICK m \in RequestMsg : m = l2in'[b][i] /\ AskedFor(m)
    <3>1. CASE \E j \in DOMAIN l2in[b] : l2in'[b][i] = l2in[b][j]
      BY <3>1 DEF RenewInv, TypeOK, NetTypeOK
    <3>2. CASE \E c \in Cores : \E j \in DOMAIN reqNet[c][b] : l2in'[b][i] = reqNet[c][b][j]
      BY <3>2 DEF RenewInv, TypeOK, NetTypeOK
    <3> QED BY <1>5, <3>1, <3>2
  <2>2. AskedFor(m)'
    BY <1>3, <2>1
  <2> QED BY <2>1, <2>2 DEF AskedFor, Ended
<1> QED BY <1>1, <1>2, <1>4, <1>5 DEF RenewInv

\* The responses stay, and no line takes a version.
LEMMA QuietAnswers ==
    ASSUME RenewInv, respNet' = respNet,
           \A c \in Cores, a \in Addrs : line'[c][a] = line[c][a] \/ ~line'[c][a].have,
           TypeOK
    PROVE  \A b \in Banks, c \in Cores : AnswersNewer(b, c)'
<1> SUFFICES ASSUME NEW b \in Banks, NEW c \in Cores PROVE AnswersNewer(b, c)'
  OBVIOUS
<1>1. PICK q \in Seq(ResponseMsg) : q = respNet[b][c] /\ q = respNet'[b][c]
  BY DEF TypeOK, NetTypeOK
<1>2. AnswersNewer(b, c)
  BY DEF RenewInv
<1>3. AfterBlocks(q)
  BY <1>1, <1>2 DEF AnswersNewer
<1>4. ASSUME NEW i \in DOMAIN q, q[i].type # "DATA" PROVE Newer(q[i], c)'
  <2>0. q[i] \in ResponseMsg
    OBVIOUS
  <2>1. q[i].addr \in Addrs
    BY <2>0 DEF ResponseMsg
  <2>2. Newer(q[i], c)
    BY <1>1, <1>2, <1>4 DEF AnswersNewer
  <2> QED BY <2>1, <2>2 DEF Newer
<1> QED BY <1>1, <1>3, <1>4 DEF AnswersNewer, Newer, AfterBlocks

\* A bank sends blocks, or acknowledges a new version.
LEMMA SentAnswers ==
    ASSUME TypeOK, TypeOK', ClockInv, RenewInv, line' = line,
           \A b \in Banks, c \in Cores :
              \/ respNet'[b][c] = respNet[b][c]
              \/ \E m \in ResponseMsg : /\ respNet'[b][c] = Append(respNet[b][c], m)
                                        /\ m.type = "DATA" \/ m.ver > Newest(m.addr)
    PROVE  \A b \in Banks, c \in Cores : AnswersNewer(b, c)'
<1> SUFFICES ASSUME NEW b \in Banks, NEW c \in Cores PROVE AnswersNewer(b, c)'
  OBVIOUS
<1>1. PICK q \in Seq(ResponseMsg) : q = respNet[b][c]
  BY DEF TypeOK, NetTypeOK
<1>2. PICK p \in Seq(ResponseMsg) : p = respNet'[b][c]
  BY DEF TypeOK, NetTypeOK
<1>3. /\ AfterBlocks(q)
      /\ \A i \in DOMAIN q : q[i].type # "DATA" => Newer(q[i], c)
      /\ \A i \in DOMAIN q : q[i] \in ResponseMsg /\ q[i].ver \in Nat /\ q[i].ver <= Newest(q[i].addr)
  <2>1. AnswersNewer(b, c)
    BY DEF RenewInv
  <2>2. ASSUME NEW i \in DOMAIN q
        PROVE  q[i] \in ResponseMsg /\ q[i].ver \in Nat /\ q[i].ver <= Newest(q[i].addr)
    <3>1. q[i] \in ResponseMsg
      OBVIOUS
    <3>2. ResponseOK(q[i], b, c)
      BY <1>1 DEF ClockInv
    <3> QED BY <3>1, <3>2 DEF ResponseOK, Reached, ResponseMsg
  <2> QED BY <1>1, <2>1, <2>2 DEF AnswersNewer
<1>4. ASSUME NEW m \in ResponseMsg, p = Append(q, m), m.type = "DATA" \/ m.ver > Newest(m.addr)
      PROVE  AfterBlocks(p) /\ \A i \in DOMAIN p : p[i].type # "DATA" => Newer(p[i], c)
  <2>1. PICK n \in Nat : n = Len(q)
    BY LenProperties
  <2>2. /\ DOMAIN q = 1..n /\ DOMAIN p = 1..(n + 1) /\ p[n + 1] = m
        /\ \A i \in 1..n : p[i] = q[i]
    BY <1>4, <2>1, AppendProperties, LenProperties
  <2>3. m.addr \in Addrs /\ m.ver \in Nat /\ Newest(m.addr) \in Nat
    BY DEF ResponseMsg, TypeOK, L2TypeOK, Newest
  <2>4. m.type # "DATA" => Newer(m, c)
    <3>1. line[c][m.addr].ver <= Newest(m.addr) /\ line[c][m.addr].ver \in Nat
      BY <2>3 DEF ClockInv, Reached, TypeOK, L1TypeOK, L1Entry
    <3>2. m.type # "DATA" => line[c][m.addr].ver < m.ver
      BY <1>4, <2>3, <3>1
    <3> QED BY <3>2 DEF Newer
  <2>5. ASSUME NEW i \in DOMAIN p, p[i].type # "DATA" PROVE Newer(p[i], c)
    <3>1. CASE i \in 1..n
      BY <1>3, <2>2, <2>5, <3>1
    <3>2. CASE i = n + 1
      BY <2>2, <2>4, <2>5, <3>2
    <3> QED BY <2>2, <3>1, <3>2
  <2>6. ASSUME NEW i \in DOMAIN p, NEW j \in DOMAIN p, i < j, p[i].addr = p[j].addr,
               p[i].type = "DATA", p[j].type # "DATA"
        PROVE  p[i].ver < p[j].ver
    <3>1. i \in 1..n
      BY <2>2, <2>6
    <3>2. CASE j \in 1..n
      BY <1>3, <2>2, <2>6, <3>1, <3>2 DEF AfterBlocks
    <3>3. CASE j = n + 1
      <4>1. q[i].ver \in Nat /\ q[i].ver <= Newest(m.addr) /\ m.ver > Newest(m.addr)
        BY <1>3, <1>4, <2>2, <2>6, <3>1, <3>3
      <4>2. q[i].ver < m.ver
        BY <2>3, <4>1
      <4> QED BY <2>2, <3>1, <3>3, <4>2
    <3> QED BY <2>2, <3>2, <3>3
  <2> QED BY <2>5, <2>6 DEF AfterBlocks
<1>5. AfterBlocks(p) /\ \A i \in DOMAIN p : p[i].type # "DATA" => Newer(p[i], c)
  <2>1. CASE p = q
    BY <1>3, <2>1
  <2>2. CASE p # q
    BY <1>1, <1>2, <1>4, <2>2
  <2> QED BY <2>1, <2>2
<1> QED BY <1>2, <1>5 DEF AnswersNewer, Newer

\* Core c takes a response from bank b: its line takes the version of a block.
LEMMA TakenAnswers ==
    ASSUME TypeOK, WriteInv, ClockInv, RenewInv, NEW b \in Banks, NEW c \in Cores, NEW m \in ResponseMsg,
           respNet[b][c] # <<>>, m = Head(respNet[b][c]),
           respNet' = [respNet EXCEPT ![b][c] = Tail(@)],
           \A d \in Cores, x \in Addrs : d # c \/ x # m.addr => line'[d][x] = line[d][x],
           \/ line'[c][m.addr] = line[c][m.addr]
           \/ m.type = "DATA" /\ line'[c][m.addr].ver = m.ver
    PROVE  \A d \in Banks, k \in Cores : AnswersNewer(d, k)'
<1> SUFFICES ASSUME NEW d \in Banks, NEW k \in Cores PROVE AnswersNewer(d, k)'
  OBVIOUS
<1>1. PICK q \in Seq(ResponseMsg) : q = respNet[d][k]
  BY DEF TypeOK, NetTypeOK
<1>2. respNet'[d][k] = IF d = b /\ k = c THEN Tail(q) ELSE q
  BY <1>1 DEF TypeOK, NetTypeOK
<1>3. /\ AfterBlocks(q)
      /\ \A i \in DOMAIN q : q[i].type # "DATA" => Newer(q[i], k)
      /\ \A i \in DOMAIN q : q[i] \in ResponseMsg /\ q[i].addr \in Addrs /\ BankOf[q[i].addr] = d
  <2>1. AnswersNewer(d, k)
    BY DEF RenewInv
  <2>2. ASSUME NEW i \in DOMAIN q
        PROVE  q[i] \in ResponseMsg /\ q[i].addr \in Addrs /\ BankOf[q[i].addr] = d
    <3>1. q[i] \in ResponseMsg
      OBVIOUS
    <3>2. ResponseOK(q[i], d, k)
      BY <1>1 DEF ClockInv
    <3> QED BY <3>1, <3>2 DEF ResponseOK, ResponseMsg
  <2> QED BY <1>1, <2>1, <2>2 DEF AnswersNewer
<1>4. CASE d = b /\ k = c
  <2>1. q # <<>> /\ m = q[1] /\ 1 \in DOMAIN q
    BY <1>1, <1>4, QueueFacts
  <2>2. PICK p \in Seq(ResponseMsg) : p = Tail(q)
    BY <2>1, QueueFacts
  <2>2a. PICK n \in Nat : n = Len(q)
    BY LenProperties
  <2>3. \A i \in DOMAIN p : i \in Nat /\ 1 < i + 1 /\ i + 1 \in DOMAIN q /\ p[i] = q[i + 1]
    <3>1. DOMAIN p = 1..(n - 1) /\ DOMAIN q = 1..n
      BY <2>1, <2>2, <2>2a, HeadTailProperties, LenProperties, EmptySeq
    <3> QED BY <2>1, <2>2, <3>1, TailElements
  <2>4. AfterBlocks(p)
    <3>1. ASSUME NEW i \in DOMAIN p, NEW j \in DOMAIN p, i < j, p[i].addr = p[j].addr,
                 p[i].type = "DATA", p[j].type # "DATA"
          PROVE  p[i].ver < p[j].ver
      <4>1. PICK x \in DOMAIN q, y \in DOMAIN q : x = i + 1 /\ y = j + 1 /\ p[i] = q[x] /\ p[j] = q[y]
        BY <2>3
      <4>2. x < y
        BY <2>3, <3>1, <4>1
      <4> QED BY <1>3, <3>1, <4>1, <4>2 DEF AfterBlocks
    <3> QED BY <3>1 DEF AfterBlocks
  <2>5. ASSUME NEW i \in DOMAIN p, p[i].type # "DATA" PROVE Newer(p[i], k)'
    <3>1. PICK x \in Addrs : x = p[i].addr
      BY <1>3, <2>3
    <3>2. CASE line'[c][x] = line[c][x]
      BY <1>3, <1>4, <2>3, <2>5, <3>1, <3>2 DEF Newer
    <3>3. CASE x = m.addr /\ m.type = "DATA" /\ line'[c][x].ver = m.ver
      <4>1. m.ver < p[i].ver
        <5>1. PICK j \in DOMAIN q : 1 < j /\ q[j] = p[i]
          BY <2>3
        <5>2. q[1].addr = q[j].addr /\ q[1].type = "DATA" /\ q[j].type # "DATA"
          BY <2>1, <2>5, <3>1, <3>3, <5>1
        <5>3. q[1].ver < q[j].ver
          BY <1>3, <2>1, <5>1, <5>2 DEF AfterBlocks
        <5> QED BY <2>1, <5>1, <5>3
      <4> QED BY <1>4, <3>1, <3>3, <4>1 DEF Newer
    <3> QED BY <3>1, <3>2, <3>3
  <2>6. respNet'[d][k] = p
    BY <1>2, <1>4, <2>2
  <2>7. AfterBlocks(respNet'[d][k])
    BY <2>4, <2>6
  <2>8. ASSUME NEW i \in DOMAIN respNet'[d][k], respNet'[d][k][i].type # "DATA"
        PROVE  Newer(respNet[d][k][i], k)'
    BY <2>5, <2>6, <2>8 DEF Newer
  <2> QED BY <2>7, <2>8 DEF AnswersNewer, AfterBlocks
<1>5. CASE ~(d = b /\ k = c)
  <2>1. BankOf[m.addr] = b
    BY QueueFacts DEF ClockInv, ResponseOK, TypeOK, NetTypeOK
  <2>2. ASSUME NEW i \in DOMAIN q PROVE line'[k][q[i].addr] = line[k][q[i].addr]
    <3>1. PICK x \in Addrs : x = q[i].addr /\ BankOf[x] = d
      BY <1>3
    <3>2. k # c \/ x # m.addr
      BY <1>5, <2>1, <3>1
    <3> QED BY <3>1, <3>2
  <2>3. ASSUME NEW i \in DOMAIN q, q[i].type # "DATA" PROVE Newer(q[i], k)'
    BY <1>3, <2>2, <2>3 DEF Newer
  <2>4. respNet'[d][k] = q
    BY <1>2, <1>5
  <2>5. AfterBlocks(respNet'[d][k])
    BY <1>3, <2>4
  <2>6. ASSUME NEW i \in DOMAIN respNet'[d][k], respNet'[d][k][i].type # "DATA"
        PROVE  Newer(respNet[d][k][i], k)'
    BY <2>3, <2>4, <2>6 DEF Newer
  <2> QED BY <2>5, <2>6 DEF AnswersNewer, AfterBlocks
<1> QED BY <1>4, <1>5

\* A load that misses gives the block up, or has done so, and asks with its lease.
LEMMA LoadMissRenew ==
    ASSUME TypeOK, TypeOK', WriteInv', LinesOK, RenewInv, NEW c \in Cores, LoadMiss(c), UNCHANGED l2Vars
    PROVE  RenewInv'
<1>1. PICK r \in CacheMsg : r = Head(mandQ[c]) /\ r.addr \in Addrs /\ r.warp \in Warps
  BY ZenonT(40), MandatoryHead DEF LoadMiss, CacheMsg
<1>2. PICK a \in Addrs : a = r.addr
  BY <1>1
<1>3. PICK e \in L1Entry : e = IF line[c][a].tag THEN line[c][a] ELSE NewLine
  BY DEF TypeOK, L1TypeOK, L1Entry, NewLine
<1>4. /\ getState(c, a) \in {"I", "I_I"}
      /\ line' = [line EXCEPT ![c][a] = e]
      /\ SendRequest(c, a_issueGETS(c, r, e))
      /\ UNCHANGED <<l2in, respNet, pts>>
  BY ZenonT(40), <1>1, <1>2, <1>3 DEF LoadMiss
<1>5. PICK s : st' = [st EXCEPT ![c][a] = s]
  BY ZenonT(40), <1>1, <1>2 DEF LoadMiss
<1>6. /\ line'[c][a] = e
      /\ \A d \in Cores, x \in Addrs : d # c \/ x # a =>
            line'[d][x] = line[d][x] /\ st'[d][x] = st[d][x]
  BY <1>4, <1>5 DEF TypeOK, L1TypeOK
<1>7. wtimes' = wtimes
  BY DEF l2Vars
<1>8. e.have => e = line[c][a] /\ e.tag /\ (e.rts < pts[c] \/ Ended(a, e.rts))
  <2> SUFFICES ASSUME e.have PROVE e = line[c][a] /\ e.tag /\ (e.rts < pts[c] \/ Ended(a, e.rts))
    OBVIOUS
  <2>1. e = line[c][a] /\ e.tag
    BY <1>3 DEF NewLine
  <2>2. GivenUp(c, a)
    BY DEF RenewInv
  <2> QED BY <1>4, <2>1, <2>2, Unreadable
<1>9. GivenUp(c, a)'
  <2>1. Ended(a, e.rts) => Ended(a, line[c][a].rts)'
    BY <1>6, <1>7 DEF Ended, Newest
  <2> QED BY <1>4, <1>6, <1>8, <2>1 DEF GivenUp
<1>10. PICK m \in RequestMsg : m = a_issueGETS(c, r, e)
  BY <1>3, L1MessageTypes
<1>11. AskedFor(m)'
  <2>1. m.addr = a /\ m.rts = e.rts /\ m.inL1 = e.have /\ m.expired = (e.have /\ pts[c] > e.rts)
    BY <1>2, <1>10 DEF a_issueGETS
  <2>2. e.rts \in Nat /\ pts[c] \in Nat
    BY DEF L1Entry, TypeOK, L1TypeOK
  <2>3. m.inL1 /\ ~m.expired => Ended(a, e.rts)
    BY <1>8, <2>1, <2>2
  <2>4. Ended(a, e.rts) => Ended(a, e.rts)'
    BY <1>7 DEF Ended, Newest
  <2> QED BY <2>1, <2>3, <2>4 DEF AskedFor
<1>12. ASSUME NEW d \in Cores, NEW b \in Banks, NEW i \in DOMAIN reqNet'[d][b]
       PROVE  \/ \E j \in DOMAIN reqNet[d][b] : reqNet'[d][b][i] = reqNet[d][b][j]
              \/ AskedFor(reqNet[d][b][i])'
  <2>1. \/ \E j \in DOMAIN reqNet[d][b] : reqNet'[d][b][i] = reqNet[d][b][j]
        \/ reqNet'[d][b][i] = m
    BY <1>4, <1>10, SentRequests
  <2>2. CASE reqNet'[d][b][i] = m
    BY <1>11, <2>2 DEF AskedFor, Ended
  <2> QED BY <2>1, <2>2
<1>13. \A d \in Cores, x \in Addrs : line'[d][x] = line[d][x] \/ ~line'[d][x].have
  BY <1>6, <1>8
<1>14. \A b \in Banks, d \in Cores : AnswersNewer(b, d)'
  BY <1>4, <1>13, QuietAnswers
<1>15. \A d \in Cores : pts'[d] >= pts[d]
  BY <1>4, ClocksStill
<1>16. \A d \in Cores, x \in Addrs : (line'[d][x] = line[d][x] /\ st'[d][x] = st[d][x]) \/ GivenUp(d, x)'
  BY <1>6, <1>9
<1>17. \A b \in Banks : \A i \in DOMAIN l2in'[b] : \E j \in DOMAIN l2in[b] : l2in'[b][i] = l2in[b][j]
  BY <1>4
<1> QED BY <1>7, <1>12, <1>14, <1>15, <1>16, <1>17, StepRenew DEF Grows

\* A write gives the block up unless its lease is live.
LEMMA WriteThroughRenew ==
    ASSUME TypeOK, TypeOK', WriteInv', LinesOK, RenewInv, NEW c \in Cores, WriteThrough(c), UNCHANGED l2Vars
    PROVE  RenewInv'
<1>1. PICK r \in CacheMsg : r = Head(mandQ[c]) /\ r.addr \in Addrs /\ r.warp \in Warps
  BY MandatoryHead DEF WriteThrough, CacheMsg
<1>2. PICK a \in Addrs : a = r.addr
  BY <1>1
<1>3. PICK s : s = getState(c, a)
  OBVIOUS
<1>4. /\ st' = [st EXCEPT ![c][a] = IF s \in {"S", "SM"} THEN "SM" ELSE "I_I"]
      /\ SendRequest(c, d2t_sendToL2(c, r))
      /\ UNCHANGED <<l2in, respNet, pts, line>>
  BY <1>1, <1>2, <1>3 DEF WriteThrough
<1>5. /\ st'[c][a] = IF s \in {"S", "SM"} THEN "SM" ELSE "I_I"
      /\ \A d \in Cores, x \in Addrs : d # c \/ x # a => st'[d][x] = st[d][x]
  BY <1>4 DEF TypeOK, L1TypeOK
<1>6. wtimes' = wtimes
  BY DEF l2Vars
<1>7. GivenUp(c, a)'
  <2>1. GivenUp(c, a)
    BY DEF RenewInv
  <2>2. CASE s \in {"S", "SM"}
    BY <1>4, <1>5, <2>1, <2>2 DEF GivenUp
  <2>3. CASE s \notin {"S", "SM"}
    <3>1. line[c][a].have => line[c][a].tag /\ (line[c][a].rts < pts[c] \/ Ended(a, line[c][a].rts))
      BY <1>3, <2>1, <2>3, Unreadable DEF GivenUp
    <3>2. Ended(a, line[c][a].rts) => Ended(a, line[c][a].rts)'
      BY <1>4, <1>6 DEF Ended, Newest
    <3> QED BY <1>4, <3>1, <3>2 DEF GivenUp
  <2> QED BY <2>2, <2>3
<1>8. PICK m \in RequestMsg : m = d2t_sendToL2(c, r)
  <2>1. line[c][a] \in L1Entry
    BY DEF TypeOK, L1TypeOK
  <2> QED BY <2>1, L1MessageTypes
<1>9. m.type # "GETS"
  BY <1>8 DEF d2t_sendToL2
<1>10. ASSUME NEW d \in Cores, NEW b \in Banks, NEW i \in DOMAIN reqNet'[d][b]
       PROVE  \/ \E j \in DOMAIN reqNet[d][b] : reqNet'[d][b][i] = reqNet[d][b][j]
              \/ AskedFor(reqNet[d][b][i])'
  <2>1. \/ \E j \in DOMAIN reqNet[d][b] : reqNet'[d][b][i] = reqNet[d][b][j]
        \/ reqNet'[d][b][i] = m
    BY <1>4, <1>8, SentRequests
  <2>2. CASE reqNet'[d][b][i] = m
    BY <1>9, <2>2 DEF AskedFor
  <2> QED BY <2>1, <2>2
<1>11. \A b \in Banks, d \in Cores : AnswersNewer(b, d)'
  BY <1>4, QuietAnswers
<1>12. \A d \in Cores : pts'[d] >= pts[d]
  BY <1>4, ClocksStill
<1>13. \A d \in Cores, x \in Addrs : (line'[d][x] = line[d][x] /\ st'[d][x] = st[d][x]) \/ GivenUp(d, x)'
  BY <1>4, <1>5, <1>7
<1>14. \A b \in Banks : \A i \in DOMAIN l2in'[b] : \E j \in DOMAIN l2in[b] : l2in'[b][i] = l2in[b][j]
  BY <1>4
<1> QED BY <1>6, <1>10, <1>11, <1>12, <1>13, <1>14, StepRenew DEF Grows

\* A line that is replaced has no block.
LEMMA L1_ReplacementRenew ==
    ASSUME TypeOK, TypeOK', WriteInv', RenewInv, NEW c \in Cores, NEW v \in Addrs, L1_Replacement(c, v),
           UNCHANGED l2Vars
    PROVE  RenewInv'
<1>1. /\ line' = [line EXCEPT ![c][v] = NoLine] /\ st' = [st EXCEPT ![c][v] = "I"]
      /\ UNCHANGED <<l2in, reqNet, respNet, pts>>
  BY DEF L1_Replacement, netVars
<1>2. /\ ~line'[c][v].have
      /\ \A d \in Cores, x \in Addrs : d # c \/ x # v =>
            line'[d][x] = line[d][x] /\ st'[d][x] = st[d][x]
  BY <1>1 DEF TypeOK, L1TypeOK, NoLine
<1>3. wtimes' = wtimes
  BY DEF l2Vars
<1>4. \A d \in Cores, x \in Addrs : line'[d][x] = line[d][x] \/ ~line'[d][x].have
  BY <1>2
<1>5. \A b \in Banks, d \in Cores : AnswersNewer(b, d)'
  BY <1>1, <1>4, QuietAnswers
<1>6. \A d \in Cores : pts'[d] >= pts[d]
  BY <1>1, ClocksStill
<1>7. \A d \in Cores, x \in Addrs : (line'[d][x] = line[d][x] /\ st'[d][x] = st[d][x]) \/ GivenUp(d, x)'
  BY <1>2 DEF GivenUp
<1>8. /\ \A b \in Banks : \A i \in DOMAIN l2in'[b] : \E j \in DOMAIN l2in[b] : l2in'[b][i] = l2in[b][j]
      /\ \A d \in Cores, b \in Banks : \A i \in DOMAIN reqNet'[d][b] :
            \E j \in DOMAIN reqNet[d][b] : reqNet'[d][b][i] = reqNet[d][b][j]
  BY <1>1
<1> QED BY <1>3, <1>5, <1>6, <1>7, <1>8, StepRenew DEF Grows

\* A block that arrives can be read.
LEMMA DataRenew ==
    ASSUME TypeOK, TypeOK', WriteInv, WriteInv', ClockInv, FlightInv, RenewInv,
           NEW c \in Cores, NEW b \in Banks, Data(c, b), UNCHANGED l2Vars
    PROVE  RenewInv'
<1>1. respNet[b][c] # <<>>
  BY ZenonT(40) DEF Data
<1>2. PICK m \in ResponseMsg : m = Head(respNet[b][c]) /\ m.addr \in Addrs
  BY <1>1, ResponseHead
<1>3. PICK a \in Addrs : a = m.addr
  BY <1>2
<1>4. m.type = "DATA" /\ line[c][a].tag
  <2>1. m.type = "DATA"
    BY ZenonT(40), <1>2 DEF Data
  <2>2. Assertions
    BY FlightAssertions
  <2> QED BY <1>1, <1>2, <1>3, <2>1, <2>2 DEF Assertions
<1>5. /\ line' = [line EXCEPT ![c][a] =
                     [tag |-> line[c][a].tag, rts |-> m.rts, have |-> TRUE, ver |-> m.ver]]
      /\ pts' = [pts EXCEPT ![c] = tp_updateProcessorTimestamp(c, m)]
      /\ respNet' = [respNet EXCEPT ![b][c] = Tail(@)]
      /\ UNCHANGED <<reqNet, l2in>>
  BY ZenonT(40), <1>2, <1>3 DEF Data
<1>6. PICK done : st' = [st EXCEPT ![c][a] = IF done THEN "S" ELSE "SM"]
  BY ZenonT(40), <1>2, <1>3 DEF Data
<1>7. /\ line'[c][a].tag /\ line'[c][a].ver = m.ver /\ st'[c][a] \in {"S", "SM"}
      /\ \A d \in Cores, x \in Addrs : d # c \/ x # a =>
            line'[d][x] = line[d][x] /\ st'[d][x] = st[d][x]
  BY <1>4, <1>5, <1>6 DEF TypeOK, L1TypeOK
<1>8. wtimes' = wtimes
  BY DEF l2Vars
<1>9. \A d \in Banks, k \in Cores : AnswersNewer(d, k)'
  <2>1. /\ \A d \in Cores, x \in Addrs : d # c \/ x # m.addr => line'[d][x] = line[d][x]
        /\ m.type = "DATA" /\ line'[c][m.addr].ver = m.ver
    BY <1>3, <1>4, <1>7
  <2> QED BY <1>1, <1>2, <1>5, <2>1, TakenAnswers
<1>10. \A d \in Cores : pts'[d] >= pts[d]
  BY <1>1, <1>2, <1>5, <1>8, ClockMoved
<1>11. \A d \in Cores, x \in Addrs : (line'[d][x] = line[d][x] /\ st'[d][x] = st[d][x]) \/ GivenUp(d, x)'
  BY <1>7 DEF GivenUp
<1>12. /\ \A d \in Banks : \A i \in DOMAIN l2in'[d] : \E j \in DOMAIN l2in[d] : l2in'[d][i] = l2in[d][j]
       /\ \A k \in Cores, d \in Banks : \A i \in DOMAIN reqNet'[k][d] :
             \E j \in DOMAIN reqNet[k][d] : reqNet'[k][d][i] = reqNet[k][d][j]
  BY <1>5
<1> QED BY <1>8, <1>9, <1>10, <1>11, <1>12, StepRenew DEF Grows

\* An acknowledgement gives up a block that the write has made old.
LEMMA WriteDoneRenew ==
    ASSUME TypeOK, TypeOK', WriteInv, WriteInv', LeaseRespected, ClockInv, RenewInv,
           NEW c \in Cores, NEW b \in Banks, WriteDone(c, b), UNCHANGED l2Vars
    PROVE  RenewInv'
<1>1. respNet[b][c] # <<>>
  BY ZenonT(40) DEF WriteDone
<1>2. PICK m \in ResponseMsg : m = Head(respNet[b][c]) /\ m.addr \in Addrs /\ m.ver \in Nat
  BY <1>1, ResponseHead
<1>3. PICK a \in Addrs : a = m.addr
  BY <1>2
<1>4. m.type # "DATA"
  BY ZenonT(40), <1>2 DEF WriteDone
<1>5. /\ line' = line
      /\ pts' = [pts EXCEPT ![c] = tp_updateProcessorTimestamp(c, m)]
      /\ respNet' = [respNet EXCEPT ![b][c] = Tail(@)]
      /\ UNCHANGED <<reqNet, l2in>>
  BY ZenonT(40), <1>2, <1>3 DEF WriteDone
<1>6. PICK s : st' = [st EXCEPT ![c][a] = s]
  BY ZenonT(40), <1>2, <1>3 DEF WriteDone
<1>7. \A d \in Cores, x \in Addrs : d # c \/ x # a => st'[d][x] = st[d][x]
  BY <1>6 DEF TypeOK, L1TypeOK
<1>8. wtimes' = wtimes
  BY DEF l2Vars
<1>9. GivenUp(c, a)'
  <2> SUFFICES ASSUME line[c][a].have PROVE GivenUp(c, a)'
    BY <1>5 DEF GivenUp
  <2>1. PICK e \in L1Entry : e = line[c][a] /\ e.ver \in Nat /\ e.rts \in Nat
    BY DEF TypeOK, L1TypeOK, L1Entry
  <2>2. 1 \in DOMAIN respNet[b][c] /\ m = respNet[b][c][1]
    BY <1>1, <1>2, QueueFacts DEF TypeOK, NetTypeOK
  <2>3. Newer(m, c) /\ ResponseOK(m, b, c)
    BY <1>4, <2>2 DEF RenewInv, AnswersNewer, ClockInv
  <2>4. e.ver < m.ver /\ m.ver <= Newest(a) /\ Newest(a) \in Nat
    BY <1>3, <2>1, <2>3 DEF Newer, ResponseOK, Reached, TypeOK, L2TypeOK, Newest
  <2>5. e.ver < Newest(a)
    BY <1>2, <2>1, <2>4
  <2>6. LeaseOK(a, e.ver, e.rts)
    BY <2>1 DEF LeaseRespected
  <2>7. Ended(a, e.rts)
    BY <2>1, <2>5, <2>6, OldEnded
  <2>8. Ended(a, line[c][a].rts)'
    BY <1>5, <1>8, <2>1, <2>7 DEF Ended, Newest
  <2>9. line'[c][a].tag
    BY <1>5 DEF RenewInv, GivenUp
  <2> QED BY <2>8, <2>9 DEF GivenUp
<1>10. \A d \in Banks, k \in Cores : AnswersNewer(d, k)'
  <2>1. /\ \A d \in Cores, x \in Addrs : d # c \/ x # m.addr => line'[d][x] = line[d][x]
        /\ line'[c][m.addr] = line[c][m.addr]
    BY <1>5
  <2> QED BY <1>1, <1>2, <1>5, <2>1, TakenAnswers
<1>11. \A d \in Cores : pts'[d] >= pts[d]
  BY <1>1, <1>2, <1>5, <1>8, ClockMoved
<1>12. \A d \in Cores, x \in Addrs : (line'[d][x] = line[d][x] /\ st'[d][x] = st[d][x]) \/ GivenUp(d, x)'
  BY <1>5, <1>7, <1>9
<1>13. /\ \A d \in Banks : \A i \in DOMAIN l2in'[d] : \E j \in DOMAIN l2in[d] : l2in'[d][i] = l2in[d][j]
       /\ \A k \in Cores, d \in Banks : \A i \in DOMAIN reqNet'[k][d] :
             \E j \in DOMAIN reqNet[k][d] : reqNet'[k][d][i] = reqNet[k][d][j]
  BY <1>5
<1> QED BY <1>8, <1>10, <1>11, <1>12, <1>13, StepRenew DEF Grows

\* A step of the banks, the DRAM or the network.
LEMMA BankRenew ==
    ASSUME TypeOK, TypeOK', WriteInv', ClockInv, RenewInv, Grows, UNCHANGED l1Vars,
           \A c \in Cores, b \in Banks : \A i \in DOMAIN reqNet'[c][b] :
              \E j \in DOMAIN reqNet[c][b] : reqNet'[c][b][i] = reqNet[c][b][j],
           \A b \in Banks : \A i \in DOMAIN l2in'[b] :
              \/ \E j \in DOMAIN l2in[b] : l2in'[b][i] = l2in[b][j]
              \/ \E c \in Cores : \E j \in DOMAIN reqNet[c][b] : l2in'[b][i] = reqNet[c][b][j],
           \A b \in Banks, c \in Cores :
              \/ respNet'[b][c] = respNet[b][c]
              \/ \E m \in ResponseMsg : /\ respNet'[b][c] = Append(respNet[b][c], m)
                                        /\ m.type = "DATA" \/ m.ver > Newest(m.addr)
    PROVE  RenewInv'
<1>1. line' = line /\ st' = st /\ pts' = pts
  BY DEF l1Vars
<1>2. \A b \in Banks, c \in Cores : AnswersNewer(b, c)'
  BY <1>1, SentAnswers
<1>3. \A d \in Cores : pts'[d] >= pts[d]
  BY <1>1, ClocksStill
<1> QED BY <1>1, <1>2, <1>3, StepRenew

\* One response of a bank: a block, or the acknowledgement of a new version.
LEMMA OneAnswer ==
    ASSUME TypeOK, NEW d \in Banks, NEW m \in ResponseMsg, SendResponse(d, m),
           m.type = "DATA" \/ m.ver > Newest(m.addr)
    PROVE  \A b \in Banks, c \in Cores :
              \/ respNet'[b][c] = respNet[b][c]
              \/ \E n \in ResponseMsg : /\ respNet'[b][c] = Append(respNet[b][c], n)
                                        /\ n.type = "DATA" \/ n.ver > Newest(n.addr)
<1>1. PICK k \in Cores : k = CoreOf[m.warp]
  BY CoreOfAssumption DEF ResponseMsg
<1>2. respNet' = [respNet EXCEPT ![d][k] = Append(@, m)]
  BY <1>1 DEF SendResponse
<1>3. \A b \in Banks, c \in Cores :
         respNet'[b][c] = IF b = d /\ c = k THEN Append(respNet[b][c], m) ELSE respNet[b][c]
  BY <1>2 DEF TypeOK, NetTypeOK
<1> QED BY <1>3

\* What banks send to the requests they take: blocks, or acknowledgements of new
\* versions.
LEMMA RequestAnswers ==
    ASSUME TypeOK, WriteInv, NEW d \in Banks, L2Next(d)
    PROVE  \A b \in Banks, c \in Cores :
              \/ respNet'[b][c] = respNet[b][c]
              \/ \E n \in ResponseMsg : /\ respNet'[b][c] = Append(respNet[b][c], n)
                                        /\ n.type = "DATA" \/ n.ver > Newest(n.addr)
<1>1. CASE respNet' = respNet
  BY <1>1
<1>2. CASE WriteMiss(d)
  <2>1. PICK r \in RequestMsg : r = Head(l2in[d]) /\ r.addr \in Addrs /\ r.warp \in Warps
    BY <1>2, RequestHead DEF WriteMiss, Request
  <2>2. PICK t \in Nat : t = MissWts(TBEForWriteMiss(r), mts[d])
    BY <2>1, TBETypes, MtsFacts DEF TypeOK, L2TypeOK
  <2>3. PICK n \in Nat, v \in Nat : n = Newest(r.addr) /\ v = n + 1 /\ v > n
    BY <2>1 DEF TypeOK, L2TypeOK, Newest
  <2>4. SendResponse(d, WriteResponse("ACK", r.addr, r.warp, t, v))
    BY <1>2, <2>1, <2>2, <2>3 DEF WriteMiss
  <2>5. PICK m \in ResponseMsg : m = WriteResponse("ACK", r.addr, r.warp, t, v) /\ m.ver = v /\ m.addr = r.addr
    <3>1. WriteResponse("ACK", r.addr, r.warp, t, v) \in ResponseMsg
      BY <2>1 DEF WriteResponse, ResponseMsg
    <3> QED BY <3>1 DEF WriteResponse
  <2> QED BY <2>3, <2>4, <2>5, OneAnswer
<1>3. ASSUME NEW y \in {"DATA", "DATA_ATOMIC"}, WriteHit(d, y)
      PROVE  \A b \in Banks, c \in Cores :
              \/ respNet'[b][c] = respNet[b][c]
              \/ \E n \in ResponseMsg : /\ respNet'[b][c] = Append(respNet[b][c], n)
                                        /\ n.type = "DATA" \/ n.ver > Newest(n.addr)
  <2>1. PICK r \in RequestMsg : r = Head(l2in[d]) /\ r.addr \in Addrs /\ r.warp \in Warps
    BY <1>3, RequestHead DEF WriteHit, Request
  <2>2. PICK t \in Nat : t = tw_updateL2BlockWts(l2[r.addr], r)
    BY <2>1, RtsFacts DEF TypeOK, L2TypeOK
  <2>3. PICK n \in Nat, v \in Nat : n = Newest(r.addr) /\ v = n + 1 /\ v > n
    BY <2>1 DEF TypeOK, L2TypeOK, Newest
  <2>4. PICK z \in {"ACK", "DATA_ATOMIC"} : z = IF y = "DATA" THEN "ACK" ELSE y
    OBVIOUS
  <2>5. SendResponse(d, WriteResponse(z, r.addr, r.warp, t, v))
    BY <1>3, <2>1, <2>2, <2>3, <2>4 DEF WriteHit
  <2>6. PICK m \in ResponseMsg : m = WriteResponse(z, r.addr, r.warp, t, v) /\ m.ver = v /\ m.addr = r.addr
    <3>1. WriteResponse(z, r.addr, r.warp, t, v) \in ResponseMsg
      BY <2>1, <2>4 DEF WriteResponse, ResponseMsg
    <3> QED BY <3>1 DEF WriteResponse
  <2> QED BY <2>3, <2>5, <2>6, OneAnswer
<1>4. CASE GetsHit(d)
  <2>1. PICK r \in RequestMsg : r = Head(l2in[d]) /\ r.addr \in Addrs /\ r.warp \in Warps
    BY <1>4, RequestHead DEF GetsHit, Request
  <2>2. l2[r.addr] \in L2Entry
    BY <2>1 DEF TypeOK, L2TypeOK
  <2>3. PICK t \in Nat : t = tr_updateL2BlockRts(l2[r.addr], r)
    BY <2>1, <2>2, RtsFacts
  <2>4. PICK e \in L2Entry : e = [l2[r.addr] EXCEPT !.rts = t]
    BY <2>2 DEF L2Entry
  <2>5. SendResponse(d, DataResponse(r.addr, e, r.warp))
    BY <1>4, <2>1, <2>3, <2>4 DEF GetsHit
  <2>6. PICK m \in ResponseMsg : m = DataResponse(r.addr, e, r.warp) /\ m.type = "DATA"
    BY <2>1, L2MessageTypes DEF DataResponse
  <2> QED BY <2>5, <2>6, OneAnswer
<1>5. CASE GetsMiss(d) \/ AtomicMiss(d) \/ \E v \in Addrs : L2_Replacement(d, v)
  BY <1>1, <1>5 DEF GetsMiss, AtomicMiss, L2_Replacement, netVars
<1> QED BY <1>2, <1>3, <1>4, <1>5 DEF L2Next

\* What banks send when a fetch is over.
LEMMA FillAnswers ==
    ASSUME TypeOK, TypeOK', NEW a \in Addrs, MemData(a) \/ MemDataAtomic(a)
    PROVE  \A b \in Banks, c \in Cores :
              \/ respNet'[b][c] = respNet[b][c]
              \/ \E n \in ResponseMsg : /\ respNet'[b][c] = Append(respNet[b][c], n)
                                        /\ n.type = "DATA" \/ n.ver > Newest(n.addr)
<1> SUFFICES ASSUME NEW b \in Banks, NEW c \in Cores
             PROVE  \/ respNet'[b][c] = respNet[b][c]
                    \/ \E n \in ResponseMsg : /\ respNet'[b][c] = Append(respNet[b][c], n)
                                              /\ n.type = "DATA" \/ n.ver > Newest(n.addr)
  OBVIOUS
<1>1. PICK e \in L2Entry : e = l2'[a] /\ e.wts \in Nat /\ e.ver \in Nat
  BY DEF TypeOK, L2TypeOK, L2Entry
<1>2. BankOf[a] \in Banks /\ Newest(a) \in Nat /\ l2tbe[a].gets \subseteq Warps /\ l2tbe[a].wback \subseteq Warps
  BY BankOfAssumption DEF TypeOK, L2TypeOK, L2TBE, Newest
<1>3. CASE MemData(a)
  <2>1. PICK w : w = CHOOSE u \in l2tbe[a].gets : CoreOf[u] = c
    OBVIOUS
  <2>2. \/ respNet'[b][c] = respNet[b][c]
        \/ /\ \E u \in l2tbe[a].gets : CoreOf[u] = c
           /\ respNet'[b][c] = Append(respNet[b][c], DataResponse(a, e, w))
    BY <1>1, <1>2, <1>3, <2>1 DEF MemData, SendResponses, TypeOK, NetTypeOK, L2TypeOK
  <2>3. ASSUME \E u \in l2tbe[a].gets : CoreOf[u] = c
        PROVE  DataResponse(a, e, w) \in ResponseMsg /\ DataResponse(a, e, w).type = "DATA"
    <3>1. w \in Warps
      BY <1>2, <2>1, <2>3
    <3> QED BY <3>1, L2MessageTypes DEF DataResponse
  <2> QED BY <2>2, <2>3
<1>4. CASE MemDataAtomic(a)
  <2>1. PICK w : w = CHOOSE u \in l2tbe[a].wback : CoreOf[u] = c
    OBVIOUS
  <2>2. \/ respNet'[b][c] = respNet[b][c]
        \/ /\ \E u \in l2tbe[a].wback : CoreOf[u] = c
           /\ respNet'[b][c] = Append(respNet[b][c], WriteResponse("DATA_ATOMIC", a, w, e.wts, e.ver))
    BY <1>1, <1>2, <1>4, <2>1 DEF MemDataAtomic, SendResponses, TypeOK, NetTypeOK, L2TypeOK
  <2>3. e.ver > Newest(a)
    <3>1. PICK f \in L2Entry, v \in Nat : f = FilledEntry(a) /\ v = Newest(a) + 1 /\ v > Newest(a)
      BY <1>2, FillFacts
    <3>2. e = [f EXCEPT !.ver = v]
      BY <1>1, <1>4, <3>1 DEF MemDataAtomic, TypeOK, L2TypeOK
    <3>3. e.ver = v
      BY <3>2 DEF L2Entry
    <3> QED BY <3>1, <3>3
  <2>4. ASSUME \E u \in l2tbe[a].wback : CoreOf[u] = c
        PROVE  /\ WriteResponse("DATA_ATOMIC", a, w, e.wts, e.ver) \in ResponseMsg
               /\ WriteResponse("DATA_ATOMIC", a, w, e.wts, e.ver).ver = e.ver
               /\ WriteResponse("DATA_ATOMIC", a, w, e.wts, e.ver).addr = a
    <3>1. w \in Warps
      BY <1>2, <2>1, <2>4
    <3>2. WriteResponse("DATA_ATOMIC", a, w, e.wts, e.ver) \in ResponseMsg
      BY <1>1, <3>1, L2MessageTypes
    <3> QED BY <3>2 DEF WriteResponse
  <2>5. PICK m : m = WriteResponse("DATA_ATOMIC", a, w, e.wts, e.ver)
    OBVIOUS
  <2> QED BY <2>2, <2>3, <2>4, <2>5
<1> QED BY <1>3, <1>4

\* Every step keeps the lines that were asked for again.
LEMMA NextRenew ==
    TypeOK /\ WriteInv /\ WriteInv' /\ LeaseRespected /\ ClockInv /\ FlightInv /\ LinesOK
        /\ RenewInv /\ [Next]_vars => RenewInv'
<1> SUFFICES ASSUME TypeOK, WriteInv, WriteInv', LeaseRespected, ClockInv, FlightInv, LinesOK, RenewInv, [Next]_vars
             PROVE  RenewInv'
  OBVIOUS
<1>1. TypeOK' /\ Grows
  BY NextTypes, NextGrows
<1>2. ASSUME UNCHANGED <<l1Vars, reqNet, l2in, respNet>> PROVE RenewInv'
  BY <1>1, <1>2, BankRenew
<1>3. ASSUME NEW c \in Cores, L1Step(c) PROVE RenewInv'
  <2>1. UNCHANGED l2Vars
    BY <1>3 DEF L1Step
  <2>2. CASE LoadHit(c)
    BY <1>2, <2>2 DEF LoadHit
  <2>3. CASE LoadMiss(c)
    BY <1>1, <2>1, <2>3, LoadMissRenew
  <2>4. CASE WriteThrough(c)
    BY <1>1, <2>1, <2>4, WriteThroughRenew
  <2>5. ASSUME NEW v \in Addrs, L1_Replacement(c, v) PROVE RenewInv'
    BY <1>1, <2>1, <2>5, L1_ReplacementRenew
  <2>6. ASSUME NEW b \in Banks, Data(c, b) PROVE RenewInv'
    BY <1>1, <2>1, <2>6, DataRenew
  <2>7. ASSUME NEW b \in Banks, WriteDone(c, b) PROVE RenewInv'
    BY <1>1, <2>1, <2>7, WriteDoneRenew
  <2> QED BY <1>3, <2>2, <2>3, <2>4, <2>5, <2>6, <2>7 DEF L1Step, L1Next
<1>4. ASSUME NEW c \in Cores, NEW b \in Banks, Network(c, b) PROVE RenewInv'
  <2>1. UNCHANGED <<l1Vars, respNet>>
    BY <1>4 DEF Network
  <2>2. /\ \A d \in Cores, x \in Banks : \A i \in DOMAIN reqNet'[d][x] :
              \E j \in DOMAIN reqNet[d][x] : reqNet'[d][x][i] = reqNet[d][x][j]
        /\ \A x \in Banks : \A i \in DOMAIN l2in'[x] :
              \/ \E j \in DOMAIN l2in[x] : l2in'[x][i] = l2in[x][j]
              \/ x = b /\ \E j \in DOMAIN reqNet[c][b] : l2in'[x][i] = reqNet[c][b][j]
    <3>1. \A x \in Banks \ {b} : l2in'[x] = l2in[x]
      BY <1>4 DEF Network, Deliver, TypeOK, NetTypeOK
    <3> QED BY <1>4, <3>1, DeliveredRequests
  <2> QED BY <1>1, <2>1, <2>2, BankRenew
<1>5. ASSUME NEW b \in Banks, L2Step(b) PROVE RenewInv'
  <2>1. UNCHANGED l1Vars /\ L2Next(b)
    BY <1>5 DEF L2Step
  <2>2. reqNet' = reqNet /\ (l2in' = l2in \/ (l2in[b] # <<>> /\ l2in' = [l2in EXCEPT ![b] = Tail(@)]))
    BY <2>1 DEF L2Next, GetsMiss, WriteMiss, AtomicMiss, GetsHit, WriteHit, L2_Replacement, PopRequest, Request, netVars
  <2>3. \A d \in Banks : \A i \in DOMAIN l2in'[d] : \E j \in DOMAIN l2in[d] : l2in'[d][i] = l2in[d][j]
    BY <2>2, PoppedRequests
  <2> QED BY <1>1, <2>1, <2>2, <2>3, RequestAnswers, BankRenew
<1>6. ASSUME NEW a \in Addrs, Dram(a) PROVE RenewInv'
  <2>1. UNCHANGED <<l1Vars, reqNet, l2in>> /\ (MemData(a) \/ MemDataAtomic(a))
    BY <1>6 DEF Dram, MemData, MemDataAtomic
  <2> QED BY <1>1, <2>1, FillAnswers, BankRenew
<1>7. ASSUME NEW w \in Warps, Issue(w) PROVE UNCHANGED <<l1Vars, reqNet, l2in, respNet>>
  BY <1>7 DEF Issue, send_request
<1>8. ASSUME NEW c \in Cores, Writeback(c) \/ WriteAck(c) PROVE UNCHANGED <<l1Vars, reqNet, l2in, respNet>>
  BY <1>8 DEF Writeback, WriteAck, next_access, mark_skipped_write_done, netVars
<1>9. CASE UNCHANGED vars
  BY <1>2, <1>9 DEF vars, netVars
<1> QED BY <1>2, <1>3, <1>4, <1>5, <1>6, <1>7, <1>8, <1>9 DEF Next, Terminated

\* Initially no L1 holds a line and nothing is under way.
LEMMA InitRenew == Init => LinesOK /\ RenewInv
<1> SUFFICES ASSUME Init PROVE LinesOK /\ RenewInv
  OBVIOUS
<1>1. /\ \A c \in Cores, b \in Banks : reqNet[c][b] = <<>> /\ respNet[b][c] = <<>>
      /\ \A b \in Banks : l2in[b] = <<>>
      /\ \A c \in Cores, a \in Addrs : ~line[c][a].have /\ st[c][a] = "I"
      /\ \A a \in Addrs : wtimes[a] = <<>>
  BY DEF Init, NetInit, L1Init, L2Init, NoLine
<1>2. \A b \in Banks, c \in Cores : AnswersNewer(b, c)
  BY <1>1 DEF AnswersNewer, AfterBlocks
<1>3. Sorted
  BY <1>1 DEF Sorted, Newest
<1>4. LinesOK
  BY <1>1 DEF LinesOK, LineOK
<1> QED BY <1>1, <1>2, <1>3, <1>4 DEF RenewInv, GivenUp

\* The lines the L1s have given up and ask for again.
THEOREM RenewInvariant == Spec => []RenewInv
<1>1. TypeOK /\ LinesOK /\ [Next]_vars => LinesOK'
  BY NextLines
<1>2. TypeOK /\ WriteInv /\ WriteInv' /\ LeaseRespected /\ ClockInv /\ FlightInv /\ LinesOK
        /\ RenewInv /\ [Next]_vars => RenewInv'
  BY NextRenew
<1> QED BY <1>1, <1>2, InitRenew, TypeCorrect, WritesInvariant, LeasesRespected, ClocksInvariant,
           FlightInvariant, PTL DEF Spec

\* A write that came at time r or later bounds r by the entry's wts.
LEMMA RenewExpired == TypeOK /\ WriteInv /\ RenewInv => RenewalExpired
<1> SUFFICES ASSUME TypeOK, WriteInv, RenewInv, NEW b \in Banks, l2in[b] # <<>>
             PROVE  LET r == Head(l2in[b]) IN
                    r.type = "GETS" /\ l2st[r.addr] = "V" /\ r.inL1 /\ r.rts > l2[r.addr].wts => r.expired
  BY DEF RenewalExpired
<1>1. PICK r \in RequestMsg : r = Head(l2in[b]) /\ r.addr \in Addrs /\ r.rts \in Nat
  BY RequestHead DEF RequestMsg
<1>2. 1 \in DOMAIN l2in[b] /\ r = l2in[b][1]
  BY <1>1, QueueFacts DEF TypeOK, NetTypeOK
<1>3. SUFFICES ASSUME r.type = "GETS", l2st[r.addr] = "V", r.inL1, ~r.expired
               PROVE  ~(r.rts > l2[r.addr].wts)
  BY <1>1
<1>4. PICK a \in Addrs : a = r.addr
  BY <1>1
<1>5. Ended(a, r.rts)
  BY <1>2, <1>3, <1>4 DEF RenewInv, AskedFor
<1>6. PICK k \in 1..Newest(a) : r.rts <= wtimes[a][k]
  BY <1>5 DEF Ended
<1>7. PICK n \in Nat : n = Newest(a) /\ wtimes[a] \in Seq(Nat) /\ DOMAIN wtimes[a] = 1..n
  BY DEF TypeOK, L2TypeOK, Newest
<1>8. k \in 1..n /\ n \in 1..n /\ n > 0 /\ wtimes[a][k] \in Nat /\ wtimes[a][n] \in Nat
  BY <1>6, <1>7
<1>9. wtimes[a][k] <= wtimes[a][n]
  BY <1>7, <1>8 DEF RenewInv, Sorted
<1>10. wtimes[a][n] <= l2[a].wts /\ l2[a].wts \in Nat
  BY <1>3, <1>4, <1>7, <1>8 DEF WriteInv, LineInv, WriteBound, TypeOK, L2TypeOK, L2Entry
<1> QED BY <1>1, <1>4, <1>6, <1>8, <1>9, <1>10

\* An L1 that asks again for a line it holds, with a lease newer than the last
\* write to the line, does so because the lease expired: the assertion of
\* jj_popL1RequestQueue.
THEOREM RenewalsExpired == Spec => []RenewalExpired
BY RenewExpired, RenewInvariant, TypeCorrect, WritesInvariant, PTL

=============================================================================
