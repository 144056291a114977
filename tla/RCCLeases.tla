----------------------------- MODULE RCCLeases -----------------------------
(***************************************************************************)
(* The writes to a line and the leases on it, for every GPU, every lease    *)
(* and every program.                                                       *)
(*                                                                          *)
(* No write is lost and the writes to a line are in order: facts about the  *)
(* L2 banks alone.  NoLostWrites is inductive once the requests of a bank   *)
(* are known to be about its own lines; WritesInOrder needs a bound on the  *)
(* last write that survives the line's eviction (mts) and its fetch         *)
(* (max_write_pts).                                                         *)
(*                                                                          *)
(* No lease outlives the write that ends it: the bound on the leases of the *)
(* newest version is the rts of the L2 entry, or mts while the line is not  *)
(* in the L2.  It only grows between two writes, and a write takes a time   *)
(* that is not below it.                                                    *)
(***************************************************************************)
EXTENDS RCCTypes, FiniteSetTheorems

-----------------------------------------------------------------------------
(* Writes.                                                                  *)

\* A request travels to, and waits at, the bank of its line.
Routed ==
    /\ \A c \in Cores, b \in Banks : \A i \in DOMAIN reqNet[c][b] :
          BankOf[reqNet[c][b][i].addr] = b
    /\ \A b \in Banks : \A i \in DOMAIN l2in[b] : BankOf[l2in[b][i].addr] = b

\* The times from which the next write to the line takes its own.
WriteBound(a) ==
    IF l2st[a] = "V" THEN l2[a].wts
    ELSE IF Overwritten(a) THEN MissWts(l2tbe[a], mts[BankOf[a]])
    ELSE mts[BankOf[a]]

\* What the invariant says about one line.
LineInv(a) ==
    /\ l2st[a] = "V" => l2[a].ver = Newest(a) /\ (~l2[a].dirty => dram[a] = Newest(a))
    /\ Overwritten(a) => l2tbe[a].ver = Newest(a)
    /\ ~(l2st[a] = "V" \/ Overwritten(a)) => dram[a] = Newest(a)
    /\ l2st[a] = "IAV" => l2tbe[a].dirty
    /\ \A v \in 1..(Newest(a) - 1) : wtimes[a][v] <= wtimes[a][v + 1]
    /\ Newest(a) > 0 => wtimes[a][Newest(a)] <= WriteBound(a)

WriteInv == Routed /\ \A a \in Addrs : LineInv(a)

-----------------------------------------------------------------------------
(* Queues.                                                                  *)

\* What is left of a queue after a pop was in it before (PopRequest, Deliver).
LEMMA TailElements ==
    ASSUME NEW S, NEW q \in Seq(S), q # <<>>, NEW i \in DOMAIN Tail(q)
    PROVE  i + 1 \in DOMAIN q /\ Tail(q)[i] = q[i + 1]
BY EmptySeq, HeadTailProperties

\* What is in a queue after an enqueue was in it before or is the new message
\* (SendRequest, Deliver).
LEMMA AppendElements ==
    ASSUME NEW S, NEW q \in Seq(S), NEW m \in S, NEW i \in DOMAIN Append(q, m)
    PROVE  (i \in DOMAIN q /\ Append(q, m)[i] = q[i]) \/ Append(q, m)[i] = m
BY AppendProperties

\* Popping a bank's queue keeps its requests where they belong.
LEMMA PopRouted ==
    ASSUME TypeOK, Routed, NEW b \in Banks, l2in[b] # <<>>, PopRequest(b)
    PROVE  Routed'
<1>1. \A i \in DOMAIN Tail(l2in[b]) : BankOf[Tail(l2in[b])[i].addr] = b
  <2> TAKE i \in DOMAIN Tail(l2in[b])
  <2>1. i + 1 \in DOMAIN l2in[b] /\ Tail(l2in[b])[i] = l2in[b][i + 1]
    BY TailElements DEF TypeOK, NetTypeOK
  <2> QED BY <2>1 DEF Routed
<1>2. l2in' = [l2in EXCEPT ![b] = Tail(@)] /\ reqNet' = reqNet
  BY DEF PopRequest
<1>3. ASSUME NEW d \in Banks, NEW i \in DOMAIN l2in'[d] PROVE BankOf[l2in'[d][i].addr] = d
  BY <1>1, <1>2, <1>3 DEF Routed, TypeOK, NetTypeOK
<1> QED BY <1>2, <1>3 DEF Routed

\* A request the L1 sends goes to the bank of its line.
LEMMA SendRouted ==
    ASSUME TypeOK, Routed, NEW c \in Cores, NEW m \in RequestMsg, SendRequest(c, m),
           UNCHANGED l2in
    PROVE  Routed'
<1> DEFINE b == BankOf[m.addr]
<1>1. b \in Banks
  BY BankOfAssumption DEF RequestMsg
<1>2. \A i \in DOMAIN Append(reqNet[c][b], m) :
        BankOf[Append(reqNet[c][b], m)[i].addr] = b
  <2> TAKE i \in DOMAIN Append(reqNet[c][b], m)
  <2>1. reqNet[c][b] \in Seq(RequestMsg)
    BY <1>1 DEF TypeOK, NetTypeOK
  <2>2. \/ i \in DOMAIN reqNet[c][b] /\ Append(reqNet[c][b], m)[i] = reqNet[c][b][i]
        \/ Append(reqNet[c][b], m)[i] = m
    BY <2>1, AppendElements
  <2> QED BY <1>1, <2>2 DEF Routed
<1>3. reqNet' = [reqNet EXCEPT ![c][b] = Append(@, m)]
  BY DEF SendRequest
<1> HIDE DEF b
<1>4. ASSUME NEW c2 \in Cores, NEW d \in Banks, NEW i \in DOMAIN reqNet'[c2][d]
      PROVE  BankOf[reqNet'[c2][d][i].addr] = d
  BY SMTT(30), <1>1, <1>2, <1>3, <1>4 DEF Routed, TypeOK, NetTypeOK
<1> QED BY <1>4 DEF Routed

\* The L1 sends one request in a miss or a write.
LEMMA L1Requests ==
    ASSUME TypeOK, NEW c \in Cores, LoadMiss(c) \/ WriteThrough(c)
    PROVE  \E m \in RequestMsg : SendRequest(c, m) /\ UNCHANGED l2in
<1> DEFINE r == Head(mandQ[c])
           e == IF line[c][r.addr].tag THEN line[c][r.addr] ELSE NewLine
<1>1. r \in CacheMsg /\ r.addr \in Addrs
  BY MandatoryHead DEF LoadMiss, WriteThrough
<1>2. e \in L1Entry
  BY <1>1 DEF TypeOK, L1TypeOK, L1Entry, NewLine
<1>3. a_issueGETS(c, r, e) \in RequestMsg /\ d2t_sendToL2(c, r) \in RequestMsg
  BY <1>1, <1>2, L1MessageTypes
<1> QED BY <1>3 DEF LoadMiss, WriteThrough

\* A message that is delivered arrives at its bank.
LEMMA DeliverRouted ==
    ASSUME TypeOK, Routed, NEW c \in Cores, NEW b \in Banks, Deliver(c, b)
    PROVE  Routed'
<1> DEFINE q == reqNet[c][b]
           m == Head(q)
<1>1. q # <<>> /\ q \in Seq(RequestMsg) /\ m \in RequestMsg /\ BankOf[m.addr] = b
  BY QueueFacts DEF Deliver, TypeOK, NetTypeOK, Routed
<1>2. \A i \in DOMAIN Tail(q) : BankOf[Tail(q)[i].addr] = b
  BY <1>1, TailElements DEF Routed
<1>3. \A i \in DOMAIN Append(l2in[b], m) : BankOf[Append(l2in[b], m)[i].addr] = b
  <2> HIDE DEF m
  <2> QED BY <1>1, AppendElements DEF Routed, TypeOK, NetTypeOK
<1>4. l2in' = [l2in EXCEPT ![b] = Append(@, m)] /\ reqNet' = [reqNet EXCEPT ![c][b] = Tail(@)]
  BY DEF Deliver
<1> HIDE DEF m
<1>5. ASSUME NEW c2 \in Cores, NEW d \in Banks, NEW i \in DOMAIN reqNet'[c2][d]
      PROVE  BankOf[reqNet'[c2][d][i].addr] = d
  BY SMTT(30), <1>2, <1>4, <1>5 DEF Routed, TypeOK, NetTypeOK
<1>6. ASSUME NEW d \in Banks, NEW i \in DOMAIN l2in'[d]
      PROVE  BankOf[l2in'[d][i].addr] = d
  BY <1>3, <1>4, <1>6 DEF Routed, TypeOK, NetTypeOK
<1> QED BY <1>5, <1>6 DEF Routed

-----------------------------------------------------------------------------
(* Lines.                                                                   *)

\* A line that a step does not touch keeps its invariant while mts grows.
LEMMA LineFrame ==
    ASSUME TypeOK, NEW a \in Addrs, LineInv(a),
           l2st'[a] = l2st[a], l2'[a] = l2[a], l2tbe'[a] = l2tbe[a], dram'[a] = dram[a],
           wtimes'[a] = wtimes[a],
           mts'[BankOf[a]] \in Nat, mts'[BankOf[a]] >= mts[BankOf[a]]
    PROVE  LineInv(a)'
<1>1. mts[BankOf[a]] \in Nat /\ l2tbe[a].max_write_pts \in Nat
  BY BankOfAssumption DEF TypeOK, L2TypeOK, L2TBE
<1>2. MissWts(l2tbe[a], mts[BankOf[a]]) <= MissWts(l2tbe[a], mts'[BankOf[a]])
  BY <1>1 DEF MissWts, getTimeMax
<1>3. WriteBound(a) \in Nat /\ WriteBound(a)' \in Nat /\ WriteBound(a) <= WriteBound(a)'
  BY <1>1, <1>2 DEF WriteBound, Overwritten, MissWts, getTimeMax, TypeOK, L2TypeOK, L2Entry
<1>4. wtimes[a] \in Seq(Nat)
  BY DEF TypeOK, L2TypeOK
<1>5. Newest(a)' = Newest(a) /\ Overwritten(a)' = Overwritten(a)
  BY DEF Newest, Overwritten
<1>6. Newest(a) > 0 => wtimes[a][Newest(a)] \in Nat
  BY <1>4 DEF Newest
<1> QED BY <1>3, <1>5, <1>6 DEF LineInv

\* A step that only touches line a, and no mts.
LEMMA OneLine ==
    ASSUME TypeOK, \A x \in Addrs : LineInv(x), NEW a \in Addrs,
           \A x \in Addrs \ {a} :
               /\ l2st'[x] = l2st[x] /\ l2'[x] = l2[x] /\ l2tbe'[x] = l2tbe[x]
               /\ dram'[x] = dram[x] /\ wtimes'[x] = wtimes[x],
           mts' = mts, LineInv(a)'
    PROVE  \A x \in Addrs : LineInv(x)'
<1> TAKE x \in Addrs
<1>1. CASE x = a
  BY <1>1
<1>2. CASE x # a
  <2>1. mts'[BankOf[x]] \in Nat /\ mts'[BankOf[x]] >= mts[BankOf[x]]
    BY BankOfAssumption DEF TypeOK, L2TypeOK
  <2> QED BY <1>2, <2>1, LineFrame
<1> QED BY <1>1, <1>2

\* A write appends its time to the line's history, in order when the time is
\* at least the one of the last write.
LEMMA WriteAppended ==
    ASSUME TypeOK, NEW a \in Addrs, LineInv(a), NEW time \in Nat, time >= WriteBound(a),
           wtimes'[a] = Append(wtimes[a], time)
    PROVE  /\ Newest(a)' = Newest(a) + 1
           /\ Newest(a) \in Nat
           /\ wtimes'[a][Newest(a)'] = time
           /\ \A v \in 1..(Newest(a)' - 1) : wtimes'[a][v] <= wtimes'[a][v + 1]
<1>1. wtimes[a] \in Seq(Nat) /\ Newest(a) \in Nat
  BY DEF TypeOK, L2TypeOK, Newest
<1>2. /\ Newest(a)' = Newest(a) + 1
      /\ wtimes'[a][Newest(a) + 1] = time
      /\ \A v \in 1..Newest(a) : wtimes'[a][v] = wtimes[a][v] /\ wtimes[a][v] \in Nat
  BY <1>1 DEF Newest
<1>3. WriteBound(a) \in Nat
  BY BankOfAssumption
     DEF WriteBound, Overwritten, MissWts, getTimeMax, TypeOK, L2TypeOK, L2Entry, L2TBE
<1>4. Newest(a) > 0 => wtimes[a][Newest(a)] <= WriteBound(a)
  BY DEF LineInv
<1>5. \A v \in 1..(Newest(a) - 1) : wtimes[a][v] <= wtimes[a][v + 1]
  BY DEF LineInv
<1>6. ASSUME NEW v \in 1..Newest(a) PROVE wtimes'[a][v] <= wtimes'[a][v + 1]
  <2>1. CASE v = Newest(a)
    <3>1. wtimes[a][v] <= time
      BY <1>1, <1>2, <1>3, <1>4, <2>1
    <3> QED BY <1>2, <2>1, <3>1
  <2>2. CASE v # Newest(a)
    <3>1. v \in 1..(Newest(a) - 1) /\ v + 1 \in 1..Newest(a)
      BY <1>1, <2>2
    <3> QED BY <1>2, <1>5, <3>1
  <2> QED BY <2>1, <2>2
<1>7. Newest(a)' - 1 = Newest(a)
  BY <1>1, <1>2
<1>8. \A v \in 1..(Newest(a)' - 1) : wtimes'[a][v] <= wtimes'[a][v + 1]
  BY <1>6, <1>7
<1> QED BY <1>1, <1>2, <1>8

-----------------------------------------------------------------------------
(* One lemma per action of the L2.                                          *)

\* NP, IV: L1_GETS
LEMMA GetsMissWrites ==
    ASSUME TypeOK, WriteInv, NEW b \in Banks, GetsMiss(b)
    PROVE  WriteInv'
<1>1. PICK r \in RequestMsg : r = Head(l2in[b])
  BY RequestHead DEF GetsMiss, Request
<1> DEFINE a == r.addr
<1>2. a \in Addrs /\ l2in[b] # <<>> /\ l2tbe[a] \in L2TBE
  BY <1>1, RequestHead DEF GetsMiss, Request, TypeOK, L2TypeOK
<1>3. /\ l2tbe' = [l2tbe EXCEPT ![a] = TBEForGETS(r)]
      /\ l2st' = [l2st EXCEPT ![a] = "IV"]
      /\ l2st[a] \in {"NP", "IV"}
      /\ UNCHANGED <<l2, mts, dram, wtimes>>
  BY <1>1 DEF GetsMiss
<1>4. /\ l2tbe'[a] = TBEForGETS(r) /\ l2st'[a] = "IV"
      /\ \A x \in Addrs \ {a} : l2st'[x] = l2st[x] /\ l2tbe'[x] = l2tbe[x]
  BY <1>2, <1>3 DEF TypeOK, L2TypeOK
<1>5. LineInv(a)
  BY <1>2 DEF WriteInv
<1>6. LineInv(a)'
  <2> HIDE DEF a
  <2>1. CASE l2st[a] = "NP"
    <3>1. TBEForGETS(r).dirty = FALSE
      BY <2>1 DEF TBEForGETS, NoL2TBE, a
    <3> QED BY <1>3, <1>4, <1>5, <2>1, <3>1 DEF LineInv, Overwritten, Newest, WriteBound
  <2>2. CASE l2st[a] = "IV"
    <3>1. /\ TBEForGETS(r).dirty = l2tbe[a].dirty /\ TBEForGETS(r).ver = l2tbe[a].ver
          /\ TBEForGETS(r).max_write_pts = l2tbe[a].max_write_pts
      BY <1>2, <2>2 DEF TBEForGETS, L2TBE, a
    <3> QED BY <1>3, <1>4, <1>5, <2>2, <3>1
               DEF LineInv, Overwritten, Newest, WriteBound, MissWts
  <2> QED BY <1>3, <2>1, <2>2
<1> QED BY <1>2, <1>3, <1>4, <1>6, OneLine, PopRouted DEF WriteInv, GetsMiss

\* NP: L2_Atomic
LEMMA AtomicMissWrites ==
    ASSUME TypeOK, WriteInv, NEW b \in Banks, AtomicMiss(b)
    PROVE  WriteInv'
<1>1. PICK r \in RequestMsg : r = Head(l2in[b])
  BY RequestHead DEF AtomicMiss, Request
<1> DEFINE a == r.addr
<1>2. a \in Addrs /\ l2in[b] # <<>>
  BY <1>1, RequestHead DEF AtomicMiss, Request
<1>3. /\ l2tbe' = [l2tbe EXCEPT ![a] = TBEForWriteMiss(r)]
      /\ l2st' = [l2st EXCEPT ![a] = "IAV"]
      /\ l2st[a] = "NP"
      /\ UNCHANGED <<l2, mts, dram, wtimes>>
  BY <1>1 DEF AtomicMiss
<1>4. /\ l2tbe'[a] = TBEForWriteMiss(r) /\ l2st'[a] = "IAV"
      /\ \A x \in Addrs \ {a} : l2st'[x] = l2st[x] /\ l2tbe'[x] = l2tbe[x]
  BY <1>2, <1>3 DEF TypeOK, L2TypeOK
<1>5. LineInv(a)
  BY <1>2 DEF WriteInv
<1>6. TBEForWriteMiss(r).dirty = TRUE
  BY <1>3 DEF TBEForWriteMiss, NoL2TBE
<1>7. LineInv(a)'
  <2> HIDE DEF a
  <2> QED BY SMTT(30), <1>3, <1>4, <1>5, <1>6 DEF LineInv, Overwritten, Newest, WriteBound
<1> QED BY <1>2, <1>3, <1>4, <1>7, OneLine, PopRouted DEF WriteInv, AtomicMiss

\* NP, IV: L1_Write.  The time is at least the one of a write acknowledged
\* before, because max_write_pts and mts only grow.
LEMMA WriteMissWrites ==
    ASSUME TypeOK, WriteInv, NEW b \in Banks, WriteMiss(b)
    PROVE  WriteInv'
<1>1. PICK r \in RequestMsg : r = Head(l2in[b])
  BY RequestHead DEF WriteMiss, Request
<1> DEFINE a == r.addr
           t == TBEForWriteMiss(r)
           time == MissWts(t, mts[b])
           u == [t EXCEPT !.ver = Newest(a) + 1]
<1>2. a \in Addrs /\ l2in[b] # <<>> /\ l2tbe[a] \in L2TBE /\ BankOf[a] = b /\ mts[b] \in Nat
  BY <1>1, RequestHead, QueueFacts
     DEF WriteMiss, Request, TypeOK, NetTypeOK, L2TypeOK, WriteInv, Routed
<1>3. /\ l2tbe' = [l2tbe EXCEPT ![a] = u]
      /\ l2st' = [l2st EXCEPT ![a] = "IV"]
      /\ wtimes' = [wtimes EXCEPT ![a] = Append(@, time)]
      /\ l2st[a] \in {"NP", "IV"}
      /\ UNCHANGED <<l2, mts, dram>>
  BY <1>1 DEF WriteMiss
<1>4. /\ l2tbe'[a] = u /\ l2st'[a] = "IV" /\ wtimes'[a] = Append(wtimes[a], time)
      /\ \A x \in Addrs \ {a} : l2st'[x] = l2st[x] /\ l2tbe'[x] = l2tbe[x] /\ wtimes'[x] = wtimes[x]
  BY <1>2, <1>3 DEF TypeOK, L2TypeOK
<1>5. LineInv(a)
  BY <1>2 DEF WriteInv
<1>6. t \in L2TBE /\ time \in Nat /\ t.dirty = TRUE
  <2>1. t \in L2TBE
    BY TBETypes
  <2>2. t.dirty = TRUE
    BY <1>2 DEF TBEForWriteMiss, NoL2TBE, L2TBE
  <2> QED BY <1>2, <2>1, <2>2, MtsFacts
<1>7. u.dirty = TRUE /\ u.ver = Newest(a) + 1 /\ u.max_write_pts = t.max_write_pts
  <2> HIDE DEF t, a
  <2> QED BY <1>6 DEF L2TBE
<1>8. time >= WriteBound(a)
  <2>1. CASE l2st[a] = "NP"
    BY <1>2, <1>6, <2>1, MtsFacts DEF WriteBound, Overwritten
  <2>2. CASE l2st[a] = "IV"
    <3>1. t.max_write_pts = getTimeMax(r.pts, l2tbe[a].max_write_pts)
      BY <1>2, <2>2 DEF TBEForWriteMiss, L2TBE
    <3>2. r.pts \in Nat /\ l2tbe[a].max_write_pts \in Nat
      BY <1>2 DEF RequestMsg, L2TBE
    <3>3. MissWts(t, mts[b]) >= MissWts(l2tbe[a], mts[b]) /\ MissWts(t, mts[b]) >= mts[b]
      <4> HIDE DEF t, a
      <4> QED BY <1>2, <3>1, <3>2 DEF MissWts, getTimeMax
    <3> QED BY <1>2, <2>2, <3>3 DEF WriteBound
  <2> QED BY <1>3, <2>1, <2>2
<1>9. LineInv(a)'
  <2> HIDE DEF a, t, u, time
  <2>1. /\ Newest(a)' = Newest(a) + 1
        /\ wtimes'[a][Newest(a)'] = time
        /\ \A v \in 1..(Newest(a)' - 1) : wtimes'[a][v] <= wtimes'[a][v + 1]
    BY <1>2, <1>4, <1>5, <1>6, <1>8, WriteAppended
  <2>2. WriteBound(a)' = time /\ time <= time
    BY <1>2, <1>3, <1>4, <1>6, <1>7 DEF WriteBound, Overwritten, MissWts, time
  <2> QED BY <1>4, <1>7, <2>1, <2>2 DEF LineInv, Overwritten
<1> QED BY <1>2, <1>3, <1>4, <1>9, OneLine, PopRouted DEF WriteInv, WriteMiss

\* V: L1_GETS
LEMMA GetsHitWrites ==
    ASSUME TypeOK, WriteInv, NEW b \in Banks, GetsHit(b)
    PROVE  WriteInv'
<1>1. PICK r \in RequestMsg : r = Head(l2in[b])
  BY RequestHead DEF GetsHit, Request
<1> DEFINE a == r.addr
           e == [l2[a] EXCEPT !.rts = tr_updateL2BlockRts(l2[a], r)]
<1>2. a \in Addrs /\ l2in[b] # <<>> /\ l2[a] \in L2Entry
  BY <1>1, RequestHead DEF GetsHit, Request, TypeOK, L2TypeOK
<1>3. l2' = [l2 EXCEPT ![a] = e] /\ l2st[a] = "V" /\ UNCHANGED <<l2st, l2tbe, mts, dram, wtimes>>
  BY <1>1 DEF GetsHit
<1>4. /\ l2'[a].ver = l2[a].ver /\ l2'[a].dirty = l2[a].dirty /\ l2'[a].wts = l2[a].wts
      /\ \A x \in Addrs \ {a} : l2'[x] = l2[x]
  BY <1>2, <1>3 DEF TypeOK, L2TypeOK, L2Entry
<1>5. LineInv(a)
  BY <1>2 DEF WriteInv
<1>6. LineInv(a)'
  <2> HIDE DEF a
  <2> QED BY SMTT(30), <1>3, <1>4, <1>5 DEF LineInv, Overwritten, Newest, WriteBound
<1> QED BY <1>2, <1>3, <1>4, <1>6, OneLine, PopRouted DEF WriteInv, GetsHit

\* V: L1_Write, L2_Atomic
LEMMA WriteHitWrites ==
    ASSUME TypeOK, WriteInv, NEW b \in Banks, NEW t \in {"DATA", "DATA_ATOMIC"}, WriteHit(b, t)
    PROVE  WriteInv'
<1>1. PICK r \in RequestMsg : r = Head(l2in[b])
  BY RequestHead DEF WriteHit, Request
<1> DEFINE a == r.addr
           time == tw_updateL2BlockWts(l2[a], r)
           e == [rts |-> l2[a].rts, wts |-> time, dirty |-> TRUE, ver |-> Newest(a) + 1]
<1>2. a \in Addrs /\ l2in[b] # <<>> /\ l2[a] \in L2Entry
  BY <1>1, RequestHead DEF WriteHit, Request, TypeOK, L2TypeOK
<1>3. /\ l2' = [l2 EXCEPT ![a] = e]
      /\ wtimes' = [wtimes EXCEPT ![a] = Append(@, time)]
      /\ l2st[a] = "V"
      /\ UNCHANGED <<l2st, l2tbe, mts, dram>>
  BY <1>1 DEF WriteHit
<1>4. /\ l2'[a] = e /\ wtimes'[a] = Append(wtimes[a], time)
      /\ \A x \in Addrs \ {a} : l2'[x] = l2[x] /\ wtimes'[x] = wtimes[x]
  BY <1>2, <1>3 DEF TypeOK, L2TypeOK
<1>5. LineInv(a)
  BY <1>2 DEF WriteInv
<1>6. time \in Nat /\ time >= WriteBound(a)
  BY <1>2, <1>3, RtsFacts DEF WriteBound
<1>7. LineInv(a)'
  <2> HIDE DEF a, time
  <2>1. /\ Newest(a)' = Newest(a) + 1
        /\ wtimes'[a][Newest(a)'] = time
        /\ \A v \in 1..(Newest(a)' - 1) : wtimes'[a][v] <= wtimes'[a][v + 1]
    BY <1>2, <1>4, <1>5, <1>6, WriteAppended
  <2>2. WriteBound(a)' = time /\ time <= time
    BY <1>3, <1>4, <1>6 DEF WriteBound
  <2>3. l2st'[a] = "V" /\ l2'[a].ver = Newest(a)' /\ l2'[a].dirty = TRUE
    BY <1>3, <1>4, <2>1
  <2> QED BY <2>1, <2>2, <2>3 DEF LineInv, Overwritten
<1> QED BY ZenonT(40), <1>2, <1>3, <1>4, <1>7, OneLine, PopRouted DEF WriteInv, WriteHit

\* L2_Replacement, L2_Replacement_clean: a dirty block reaches the memory, and
\* mts takes over the entry's wts.
LEMMA L2_ReplacementWrites ==
    ASSUME TypeOK, WriteInv, NEW b \in Banks, NEW y \in Addrs, L2_Replacement(b, y)
    PROVE  WriteInv'
<1> DEFINE m == setmts_setMts(mts[b], l2[y])
<1>1. /\ mts' = [mts EXCEPT ![b] = m]
      /\ dram' = [dram EXCEPT ![y] = IF l2[y].dirty THEN l2[y].ver ELSE @]
      /\ l2st' = [l2st EXCEPT ![y] = "NP"]
      /\ l2' = [l2 EXCEPT ![y] = NoEntry]
      /\ BankOf[y] = b /\ l2st[y] = "V"
      /\ UNCHANGED <<l2tbe, wtimes, reqNet, l2in>>
  BY DEF L2_Replacement, netVars
<1>2. l2[y] \in L2Entry /\ mts[b] \in Nat
  BY DEF TypeOK, L2TypeOK
<1>3. m \in Nat /\ m >= mts[b] /\ m >= l2[y].wts
  BY <1>2, MtsFacts
<1> HIDE DEF m
<1>4. ASSUME NEW x \in Addrs PROVE mts'[BankOf[x]] \in Nat /\ mts'[BankOf[x]] >= mts[BankOf[x]]
  <2>1. BankOf[x] \in Banks /\ mts[BankOf[x]] \in Nat
    BY BankOfAssumption DEF TypeOK, L2TypeOK
  <2>2. mts'[BankOf[x]] = IF BankOf[x] = b THEN m ELSE mts[BankOf[x]]
    BY <1>1, <2>1 DEF TypeOK, L2TypeOK
  <2> QED BY <1>3, <2>1, <2>2
<1>5. /\ l2st'[y] = "NP" /\ mts'[BankOf[y]] = m
      /\ dram'[y] = IF l2[y].dirty THEN l2[y].ver ELSE dram[y]
  BY <1>1 DEF TypeOK, L2TypeOK
<1>6. LineInv(y)'
  <2>1. LineInv(y) /\ wtimes[y] \in Seq(Nat)
    BY DEF WriteInv, TypeOK, L2TypeOK
  <2>2. dram'[y] = Newest(y)
    BY <1>1, <1>5, <2>1 DEF LineInv
  <2>3. Newest(y)' = Newest(y) /\ WriteBound(y)' = m /\ WriteBound(y) = l2[y].wts /\ ~Overwritten(y)'
    BY <1>1, <1>5 DEF Newest, WriteBound, Overwritten
  <2>4. Newest(y) > 0 => wtimes[y][Newest(y)] <= m
    <3>1. Newest(y) > 0 => wtimes[y][Newest(y)] \in Nat /\ wtimes[y][Newest(y)] <= l2[y].wts
      BY <2>1, <2>3 DEF LineInv, Newest
    <3> QED BY <1>2, <1>3, <3>1 DEF L2Entry
  <2> QED BY <1>1, <1>5, <2>1, <2>2, <2>3, <2>4 DEF LineInv
<1>7. ASSUME NEW x \in Addrs, x # y PROVE LineInv(x)'
  <2>1. /\ l2st'[x] = l2st[x] /\ l2'[x] = l2[x] /\ l2tbe'[x] = l2tbe[x]
        /\ dram'[x] = dram[x] /\ wtimes'[x] = wtimes[x]
    BY <1>1, <1>7 DEF TypeOK, L2TypeOK
  <2> QED BY <1>4, <2>1, LineFrame DEF WriteInv
<1>8. Routed'
  BY <1>1 DEF WriteInv, Routed
<1> QED BY <1>6, <1>7, <1>8 DEF WriteInv

\* IV: Mem_Data_PR, Mem_Data_PW, Mem_Data_PRW.  The block of the TBE wins over
\* the one from memory exactly when a write was acknowledged meanwhile.
LEMMA MemDataWrites ==
    ASSUME TypeOK, WriteInv, NEW a \in Addrs, MemData(a)
    PROVE  WriteInv'
<1> DEFINE f == FilledEntry(a)
           time == trt_updateL2BlockRts(f, l2tbe[a])
           e == IF l2tbe[a].gets = {} THEN f ELSE [f EXCEPT !.rts = time]
<1>1. /\ l2' = [l2 EXCEPT ![a] = e]
      /\ l2st' = [l2st EXCEPT ![a] = "V"]
      /\ l2tbe' = [l2tbe EXCEPT ![a] = NoL2TBE]
      /\ l2st[a] = "IV"
      /\ UNCHANGED <<reqNet, l2in, mts, dram, wtimes>>
  BY DEF MemData
<1>2. f \in L2Entry
  BY FillFacts
<1>3. e.ver = f.ver /\ e.wts = f.wts /\ e.dirty = f.dirty
  <2> HIDE DEF f, time
  <2> QED BY <1>2 DEF L2Entry
<1>4. /\ f.ver = IF Overwritten(a) THEN l2tbe[a].ver ELSE dram[a]
      /\ f.dirty = Overwritten(a)
      /\ f.wts = WriteBound(a)
  <2>1. l2tbe[a].dirty \in BOOLEAN
    BY DEF TypeOK, L2TypeOK, L2TBE
  <2> QED BY <1>1, <2>1 DEF FilledEntry, Overwritten, WriteBound
<1> HIDE DEF e, f
<1>5. /\ l2'[a] = e /\ l2st'[a] = "V"
      /\ \A x \in Addrs \ {a} : l2st'[x] = l2st[x] /\ l2'[x] = l2[x] /\ l2tbe'[x] = l2tbe[x]
  BY <1>1 DEF TypeOK, L2TypeOK
<1>6. LineInv(a)'
  <2>1. LineInv(a)
    BY DEF WriteInv
  <2>2. Newest(a)' = Newest(a) /\ ~Overwritten(a)' /\ WriteBound(a)' = WriteBound(a)
    BY <1>1, <1>3, <1>4, <1>5 DEF Newest, Overwritten, WriteBound
  <2>3. l2'[a].ver = Newest(a) /\ (~l2'[a].dirty => dram'[a] = Newest(a))
    BY ZenonT(40), <1>1, <1>3, <1>4, <1>5, <2>1 DEF LineInv, Overwritten
  <2> QED BY <1>1, <1>5, <2>1, <2>2, <2>3 DEF LineInv
<1>7. Routed'
  BY <1>1 DEF WriteInv, Routed
<1> QED BY <1>1, <1>5, <1>6, <1>7, OneLine DEF WriteInv

\* IAV: Mem_Data_PW
LEMMA MemDataAtomicWrites ==
    ASSUME TypeOK, WriteInv, NEW a \in Addrs, MemDataAtomic(a)
    PROVE  WriteInv'
<1> DEFINE f == FilledEntry(a)
           v == Newest(a) + 1
           e == [f EXCEPT !.ver = v]
<1>1. /\ l2' = [l2 EXCEPT ![a] = e]
      /\ l2st' = [l2st EXCEPT ![a] = "V"]
      /\ l2tbe' = [l2tbe EXCEPT ![a] = NoL2TBE]
      /\ wtimes' = [wtimes EXCEPT ![a] = Append(@, e.wts)]
      /\ l2st[a] = "IAV"
      /\ UNCHANGED <<reqNet, l2in, mts, dram>>
  BY DEF MemDataAtomic
<1>2. f \in L2Entry /\ LineInv(a)
  BY FillFacts DEF WriteInv
<1>3. e.ver = v /\ e.wts = f.wts /\ e.dirty = f.dirty
  <2> HIDE DEF f, v
  <2> QED BY <1>2 DEF L2Entry
<1>4. f.dirty = TRUE /\ f.wts >= WriteBound(a) /\ f.wts \in Nat
  <2>1. l2tbe[a].dirty
    BY <1>1, <1>2 DEF LineInv
  <2>2. l2tbe[a] \in L2TBE /\ mts[BankOf[a]] \in Nat
    BY BankOfAssumption DEF TypeOK, L2TypeOK
  <2>3. f.wts = MissWts(l2tbe[a], mts[BankOf[a]]) /\ f.dirty = TRUE
    BY <2>1 DEF FilledEntry
  <2> QED BY <1>1, <2>2, <2>3, MtsFacts DEF WriteBound, Overwritten
<1> HIDE DEF e, f
<1>5. /\ l2'[a] = e /\ l2st'[a] = "V" /\ wtimes'[a] = Append(wtimes[a], e.wts)
      /\ \A x \in Addrs \ {a} : /\ l2st'[x] = l2st[x] /\ l2'[x] = l2[x]
                                 /\ l2tbe'[x] = l2tbe[x] /\ wtimes'[x] = wtimes[x]
  BY <1>1 DEF TypeOK, L2TypeOK
<1>6. LineInv(a)'
  <2>1. /\ Newest(a)' = Newest(a) + 1
        /\ wtimes'[a][Newest(a)'] = e.wts
        /\ \A x \in 1..(Newest(a)' - 1) : wtimes'[a][x] <= wtimes'[a][x + 1]
    BY ZenonT(40), <1>2, <1>3, <1>4, <1>5, WriteAppended
  <2>2. WriteBound(a)' = e.wts /\ e.wts <= e.wts
    BY <1>3, <1>4, <1>5 DEF WriteBound
  <2>3. l2st'[a] = "V" /\ l2'[a].ver = Newest(a)' /\ l2'[a].dirty = TRUE
    BY <1>3, <1>4, <1>5, <2>1
  <2> QED BY <2>1, <2>2, <2>3 DEF LineInv, Overwritten
<1>7. Routed'
  BY <1>1 DEF WriteInv, Routed
<1> QED BY <1>1, <1>5, <1>6, <1>7, OneLine DEF WriteInv

-----------------------------------------------------------------------------
\* Steps of the cores and of the network leave the lines of the L2 alone.
LEMMA CoreStepWrites ==
    ASSUME TypeOK, WriteInv, Routed', UNCHANGED l2Vars
    PROVE  WriteInv'
BY DEF WriteInv, LineInv, WriteBound, Overwritten, Newest, l2Vars

\* With empty caches and memory at version 0 the invariant of the writes holds.
LEMMA InitWrites == Init => WriteInv
BY BankOfAssumption
   DEF Init, NetInit, L2Init, WriteInv, Routed, LineInv, WriteBound, Overwritten, Newest,
       NoEntry, NoL2TBE

\* Every step keeps the invariant.
LEMMA NextWrites == TypeOK /\ WriteInv /\ [Next]_vars => WriteInv'
<1> SUFFICES ASSUME TypeOK, WriteInv, [Next]_vars PROVE WriteInv'
  OBVIOUS
<1>1. ASSUME NEW w \in Warps, Issue(w) PROVE WriteInv'
  <2>1. UNCHANGED <<reqNet, l2in, l2Vars>>
    BY <1>1 DEF Issue, send_request
  <2>2. Routed'
    BY <2>1 DEF WriteInv, Routed
  <2> QED BY <2>1, <2>2, CoreStepWrites
<1>2. ASSUME NEW c \in Cores, Writeback(c) PROVE WriteInv'
  <2>1. UNCHANGED <<reqNet, l2in, l2Vars>>
    BY <1>2 DEF Writeback, next_access, netVars
  <2>2. Routed'
    BY <2>1 DEF WriteInv, Routed
  <2> QED BY <2>1, <2>2, CoreStepWrites
<1>3. ASSUME NEW c \in Cores, WriteAck(c) PROVE WriteInv'
  <2>1. UNCHANGED <<reqNet, l2in, l2Vars>>
    BY <1>3 DEF WriteAck, mark_skipped_write_done, netVars
  <2>2. Routed'
    BY <2>1 DEF WriteInv, Routed
  <2> QED BY <2>1, <2>2, CoreStepWrites
<1>4. ASSUME NEW c \in Cores, L1Step(c) PROVE WriteInv'
  <2>1. CASE LoadMiss(c) \/ WriteThrough(c)
    <3>1. PICK m \in RequestMsg : SendRequest(c, m) /\ UNCHANGED l2in
      BY SMTT(30), <2>1, L1Requests
    <3> QED BY <1>4, <3>1, SendRouted, CoreStepWrites DEF L1Step, WriteInv
  <2>2. CASE ~(LoadMiss(c) \/ WriteThrough(c))
    <3>1. UNCHANGED <<reqNet, l2in, l2Vars>>
      BY ZenonT(40), <1>4, <2>2
      DEF L1Step, L1Next, LoadHit, L1_Replacement, Data, WriteDone, netVars
    <3>2. Routed'
      BY <3>1 DEF WriteInv, Routed
    <3> QED BY <3>1, <3>2, CoreStepWrites
  <2> QED BY <2>1, <2>2
<1>5. ASSUME NEW c \in Cores, NEW b \in Banks, Network(c, b) PROVE WriteInv'
  BY <1>5, DeliverRouted, CoreStepWrites DEF Network, WriteInv
<1>6. ASSUME NEW b \in Banks, L2Step(b) PROVE WriteInv'
  BY <1>6, GetsMissWrites, WriteMissWrites, AtomicMissWrites, GetsHitWrites, WriteHitWrites,
     L2_ReplacementWrites DEF L2Step, L2Next
<1>7. ASSUME NEW a \in Addrs, Dram(a) PROVE WriteInv'
  BY <1>7, MemDataWrites, MemDataAtomicWrites DEF Dram
<1>8. CASE UNCHANGED vars
  <2>1. UNCHANGED <<reqNet, l2in, l2Vars>>
    BY <1>8 DEF vars, netVars
  <2>2. Routed'
    BY <2>1 DEF WriteInv, Routed
  <2> QED BY <2>1, <2>2, CoreStepWrites
<1> QED BY <1>1, <1>2, <1>3, <1>4, <1>5, <1>6, <1>7, <1>8 DEF Next, Terminated

\* The invariant of the writes.
THEOREM WritesInvariant == Spec => []WriteInv
<1>1. TypeOK /\ WriteInv /\ [Next]_vars => WriteInv'
  BY NextWrites
<1> QED BY <1>1, InitWrites, TypeCorrect, PTL DEF Spec

\* No write is lost: the L2, the TBE of the fetch that overtakes it, or the
\* memory holds the newest version (d, mtr, mt, c_exclusiveReplacement).
THEOREM WritesKept == Spec => []NoLostWrites
<1>1. WriteInv => NoLostWrites
  BY DEF WriteInv, LineInv, NoLostWrites
<1> QED BY <1>1, WritesInvariant, PTL

\* The writes to a line are in the order of their times (tw, wat, mt, setmts).
THEOREM WritesOrdered == Spec => []WritesInOrder
<1>1. WriteInv => WritesInOrder
  BY DEF WriteInv, LineInv, WritesInOrder
<1> QED BY <1>1, WritesInvariant, PTL

-----------------------------------------------------------------------------
(* Leases.                                                                  *)

\* A step keeps every lease on line x.
Keeps(x) == \A v \in Nat, r \in Nat : LeaseOK(x, v, r) => LeaseOK(x, v, r)'

\* The bound is a time.
LEMMA LeaseBoundType ==
    ASSUME TypeOK, NEW x \in Addrs
    PROVE  LeaseBound(x) \in Nat
BY BankOfAssumption DEF LeaseBound, TypeOK, L2TypeOK, L2Entry

\* Between two writes the bound may only grow.
LEMMA KeptByGrowth ==
    ASSUME TypeOK, NEW x \in Addrs, wtimes'[x] = wtimes[x],
           LeaseBound(x)' \in Nat, LeaseBound(x)' >= LeaseBound(x)
    PROVE  Keeps(x)
<1>1. Newest(x)' = Newest(x) /\ LeaseBound(x) \in Nat
  BY LeaseBoundType DEF Newest
<1>2. ASSUME NEW v \in Nat, NEW r \in Nat, LeaseOK(x, v, r) PROVE LeaseOK(x, v, r)'
  <2>1. r <= LeaseBound(x) => r <= LeaseBound(x)'
    BY <1>1
  <2> QED BY <1>1, <1>2, <2>1 DEF LeaseOK
<1> QED BY <1>2 DEF Keeps

\* A write takes a time that is not below the bound.
LEMMA KeptByWrite ==
    ASSUME TypeOK, NEW x \in Addrs, NEW time \in Nat, time >= LeaseBound(x),
           wtimes'[x] = Append(wtimes[x], time)
    PROVE  Keeps(x)
<1>1. wtimes[x] \in Seq(Nat) /\ Newest(x) \in Nat /\ LeaseBound(x) \in Nat
  BY LeaseBoundType DEF TypeOK, L2TypeOK, Newest
<1>2. /\ Newest(x)' = Newest(x) + 1
      /\ wtimes'[x][Newest(x) + 1] = time
      /\ \A v \in 1..Newest(x) : wtimes'[x][v] = wtimes[x][v]
  BY <1>1 DEF Newest
<1>3. ASSUME NEW v \in Nat, NEW r \in Nat, LeaseOK(x, v, r) PROVE LeaseOK(x, v, r)'
  <2>1. v <= Newest(x)
    BY <1>3 DEF LeaseOK
  <2>2. v <= Newest(x)' /\ v # Newest(x)'
    BY <1>1, <1>2, <2>1
  <2>3. r <= wtimes'[x][v + 1]
    <3>1. CASE v = Newest(x)
      <4>1. r <= LeaseBound(x)
        BY <1>3, <3>1 DEF LeaseOK
      <4>2. r <= time
        BY <1>1, <4>1
      <4>3. wtimes'[x][v + 1] = time
        BY <1>2, <3>1
      <4> QED BY <4>2, <4>3
    <3>2. CASE v < Newest(x)
      <4>1. r <= wtimes[x][v + 1]
        BY <1>3, <3>2 DEF LeaseOK
      <4>2. v + 1 \in 1..Newest(x)
        BY <1>1, <3>2
      <4> QED BY <1>2, <4>1, <4>2
    <3>3. v = Newest(x) \/ v < Newest(x)
      BY <1>1, <2>1
    <3> QED BY <3>1, <3>2, <3>3
  <2> QED BY <2>2, <2>3 DEF LeaseOK
<1> QED BY <1>3 DEF Keeps

\* A step that leaves line x alone.
LEMMA KeptByFrame ==
    ASSUME TypeOK, NEW x \in Addrs, l2st'[x] = l2st[x], l2'[x] = l2[x],
           wtimes'[x] = wtimes[x], mts' = mts
    PROVE  Keeps(x)
<1>1. LeaseBound(x)' = LeaseBound(x)
  BY DEF LeaseBound
<1> QED BY <1>1, LeaseBoundType, KeptByGrowth

-----------------------------------------------------------------------------
(* One lemma per action of the L2: which leases it keeps.                   *)

\* A read miss that starts or joins a fetch shortens no lease bound (GetsMiss).
LEMMA GetsMissKeeps ==
    ASSUME TypeOK, NEW b \in Banks, GetsMiss(b)
    PROVE  \A x \in Addrs : Keeps(x)
<1>1. PICK r \in RequestMsg : r = Head(l2in[b]) /\ r.addr \in Addrs
  BY RequestHead DEF GetsMiss, Request
<1>2. /\ l2st' = [l2st EXCEPT ![r.addr] = "IV"] /\ l2st[r.addr] \in {"NP", "IV"}
      /\ UNCHANGED <<l2, mts, wtimes>>
  BY <1>1 DEF GetsMiss
<1> TAKE x \in Addrs
<1>3. LeaseBound(x)' = LeaseBound(x)
  BY <1>1, <1>2 DEF LeaseBound, TypeOK, L2TypeOK
<1> QED BY <1>2, <1>3, LeaseBoundType, KeptByGrowth

\* An atomic miss that starts a fetch shortens no lease bound (AtomicMiss).
LEMMA AtomicMissKeeps ==
    ASSUME TypeOK, NEW b \in Banks, AtomicMiss(b)
    PROVE  \A x \in Addrs : Keeps(x)
<1>1. PICK r \in RequestMsg : r = Head(l2in[b]) /\ r.addr \in Addrs
  BY RequestHead DEF AtomicMiss, Request
<1>2. /\ l2st' = [l2st EXCEPT ![r.addr] = "IAV"] /\ l2st[r.addr] = "NP"
      /\ UNCHANGED <<l2, mts, wtimes>>
  BY <1>1 DEF AtomicMiss
<1> TAKE x \in Addrs
<1>3. LeaseBound(x)' = LeaseBound(x)
  BY <1>1, <1>2 DEF LeaseBound, TypeOK, L2TypeOK
<1> QED BY <1>2, <1>3, LeaseBoundType, KeptByGrowth

\* A write that is acknowledged from the TBE is given a time no lease on the
\* old version reaches past, because mts bounds them all (wat, mt).
LEMMA WriteMissKeeps ==
    ASSUME TypeOK, WriteInv, NEW b \in Banks, WriteMiss(b)
    PROVE  /\ \A x \in Addrs : Keeps(x)
           /\ \E m \in ResponseMsg : SendResponse(b, m) /\ m.type # "DATA"
<1>1. PICK r \in RequestMsg : r = Head(l2in[b]) /\ r.addr \in Addrs /\ r.warp \in Warps
  BY RequestHead DEF WriteMiss, Request
<1> DEFINE a == r.addr
           time == MissWts(TBEForWriteMiss(r), mts[b])
           v == Newest(a) + 1
<1>2. BankOf[a] = b /\ mts[b] \in Nat
  BY <1>1, RequestHead, QueueFacts
     DEF WriteMiss, Request, TypeOK, NetTypeOK, L2TypeOK, WriteInv, Routed
<1>3. time \in Nat /\ time >= mts[b]
  BY <1>2, TBETypes, MtsFacts
<1>4. /\ l2st' = [l2st EXCEPT ![a] = "IV"] /\ l2st[a] \in {"NP", "IV"}
      /\ wtimes' = [wtimes EXCEPT ![a] = Append(@, time)]
      /\ SendResponse(b, WriteResponse("ACK", a, r.warp, time, v))
      /\ UNCHANGED <<l2, mts>>
  BY <1>1 DEF WriteMiss
<1>5. /\ WriteResponse("ACK", a, r.warp, time, v) \in ResponseMsg
      /\ WriteResponse("ACK", a, r.warp, time, v).type # "DATA"
  <2>1. v \in Nat
    BY <1>1 DEF TypeOK, L2TypeOK, Newest
  <2> HIDE DEF time, v
  <2> QED BY <1>1, <1>3, <2>1 DEF WriteResponse, ResponseMsg
<1> HIDE DEF time
<1>6. ASSUME NEW x \in Addrs PROVE Keeps(x)
  <2>1. CASE x = a
    <3>1. LeaseBound(x) = mts[b]
      BY <1>2, <1>4, <2>1 DEF LeaseBound
    <3>2. wtimes'[x] = Append(wtimes[x], time)
      BY <1>4, <2>1 DEF TypeOK, L2TypeOK
    <3> QED BY <1>3, <3>1, <3>2, KeptByWrite
  <2>2. CASE x # a
    <3>1. l2st'[x] = l2st[x] /\ wtimes'[x] = wtimes[x]
      BY <1>4, <2>2 DEF TypeOK, L2TypeOK
    <3> QED BY <1>4, <3>1, KeptByFrame
  <2> QED BY <2>1, <2>2
<1> QED BY <1>4, <1>6, <1>5

\* A read hit only extends the lease, and sends the new bound.
LEMMA GetsHitKeeps ==
    ASSUME TypeOK, WriteInv, NEW b \in Banks, GetsHit(b)
    PROVE  /\ \A x \in Addrs : Keeps(x)
           /\ \E m \in ResponseMsg : SendResponse(b, m) /\ LeaseOK(m.addr, m.ver, m.rts)'
<1>1. PICK r \in RequestMsg : r = Head(l2in[b]) /\ r.addr \in Addrs /\ r.warp \in Warps
  BY RequestHead DEF GetsHit, Request
<1> DEFINE a == r.addr
           rts == tr_updateL2BlockRts(l2[a], r)
           e == [l2[a] EXCEPT !.rts = rts]
<1>2. l2[a] \in L2Entry /\ rts \in Nat /\ rts >= l2[a].rts
  <2>1. l2[a] \in L2Entry
    BY <1>1 DEF TypeOK, L2TypeOK
  <2> QED BY <2>1, RtsFacts
<1>3. e \in L2Entry /\ e.rts = rts /\ e.ver = l2[a].ver
  <2> HIDE DEF rts, a
  <2> QED BY <1>2 DEF L2Entry
<1>4. /\ l2' = [l2 EXCEPT ![a] = e] /\ l2st[a] = "V"
      /\ SendResponse(b, DataResponse(a, e, r.warp))
      /\ UNCHANGED <<l2st, mts, wtimes>>
  BY <1>1 DEF GetsHit
<1>5. PICK m \in ResponseMsg : /\ m = DataResponse(a, e, r.warp)
                               /\ m.addr = a /\ m.ver = e.ver /\ m.rts = e.rts
  <2>1. DataResponse(a, e, r.warp) \in ResponseMsg
    <3> HIDE DEF e
    <3> QED BY <1>1, <1>3 DEF DataResponse, ResponseMsg, L2Entry
  <2> QED BY <2>1 DEF DataResponse
<1> HIDE DEF a, e, rts
<1>6. a \in Addrs
  BY <1>1 DEF a
<1>7. l2'[a] = e /\ \A x \in Addrs \ {a} : l2'[x] = l2[x]
  BY <1>4, <1>6 DEF TypeOK, L2TypeOK
<1>8. LeaseBound(a)' = rts /\ LeaseBound(a) = l2[a].rts
  BY <1>3, <1>4, <1>7 DEF LeaseBound, a
<1>9. ASSUME NEW x \in Addrs PROVE Keeps(x)
  <2>1. CASE x = a
    BY <1>2, <1>4, <1>8, <2>1, KeptByGrowth DEF a
  <2>2. CASE x # a
    BY <1>4, <1>7, <2>2, KeptByFrame
  <2> QED BY <2>1, <2>2
<1>10. LeaseOK(m.addr, m.ver, m.rts)'
  <2>1. m.ver = Newest(a) /\ Newest(a)' = Newest(a) /\ Newest(a) \in Nat
    BY <1>3, <1>4, <1>5, <1>6 DEF WriteInv, LineInv, Newest, TypeOK, L2TypeOK, a
  <2>2. m.rts \in Nat /\ m.rts <= LeaseBound(a)' /\ m.ver <= Newest(a)' /\ ~(m.ver < Newest(a)')
    BY <1>2, <1>3, <1>5, <1>8, <2>1
  <2> QED BY <1>5, <2>2 DEF LeaseOK, a
<1> QED BY <1>4, <1>5, <1>9, <1>10

\* A write hit comes after the lease, and is not answered with data.
LEMMA WriteHitKeeps ==
    ASSUME TypeOK, NEW b \in Banks, NEW t \in {"DATA", "DATA_ATOMIC"}, WriteHit(b, t)
    PROVE  /\ \A x \in Addrs : Keeps(x)
           /\ \E m \in ResponseMsg : SendResponse(b, m) /\ m.type # "DATA"
<1>1. PICK r \in RequestMsg : r = Head(l2in[b]) /\ r.addr \in Addrs /\ r.warp \in Warps
  BY RequestHead DEF WriteHit, Request
<1> DEFINE a == r.addr
           time == tw_updateL2BlockWts(l2[a], r)
           v == Newest(a) + 1
           type == IF t = "DATA" THEN "ACK" ELSE t
           e == [rts |-> l2[a].rts, wts |-> time, dirty |-> TRUE, ver |-> v]
<1>2. l2[a] \in L2Entry /\ l2[a].rts \in Nat /\ v \in Nat
  BY <1>1 DEF TypeOK, L2TypeOK, L2Entry, Newest
<1>3. time \in Nat /\ time >= l2[a].rts + 1
  BY <1>2, RtsFacts
<1>4. /\ l2' = [l2 EXCEPT ![a] = e] /\ l2st[a] = "V"
      /\ wtimes' = [wtimes EXCEPT ![a] = Append(@, time)]
      /\ SendResponse(b, WriteResponse(type, a, r.warp, time, v))
      /\ UNCHANGED <<l2st, mts>>
  BY <1>1 DEF WriteHit
<1>5. /\ WriteResponse(type, a, r.warp, time, v) \in ResponseMsg
      /\ WriteResponse(type, a, r.warp, time, v).type # "DATA"
  <2> HIDE DEF time, v
  <2> QED BY <1>1, <1>2, <1>3 DEF WriteResponse, ResponseMsg
<1> HIDE DEF time, e
<1>6. ASSUME NEW x \in Addrs PROVE Keeps(x)
  <2>1. CASE x = a
    <3>1. LeaseBound(x) = l2[a].rts /\ time >= l2[a].rts
      BY <1>2, <1>3, <1>4, <2>1 DEF LeaseBound
    <3>2. wtimes'[x] = Append(wtimes[x], time)
      BY <1>4, <2>1 DEF TypeOK, L2TypeOK
    <3> QED BY <1>3, <3>1, <3>2, KeptByWrite
  <2>2. CASE x # a
    <3>1. l2'[x] = l2[x] /\ wtimes'[x] = wtimes[x]
      BY <1>4, <2>2 DEF TypeOK, L2TypeOK
    <3> QED BY <1>4, <3>1, KeptByFrame
  <2> QED BY <2>1, <2>2
<1> QED BY <1>4, <1>5, <1>6

\* An eviction hands the bound of the line over to mts, and mts only grows for
\* the other lines of the bank.
LEMMA L2_ReplacementKeeps ==
    ASSUME TypeOK, NEW b \in Banks, NEW y \in Addrs, L2_Replacement(b, y)
    PROVE  \A x \in Addrs : Keeps(x)
<1> DEFINE m == setmts_setMts(mts[b], l2[y])
<1>1. /\ mts' = [mts EXCEPT ![b] = m]
      /\ l2st' = [l2st EXCEPT ![y] = "NP"]
      /\ l2' = [l2 EXCEPT ![y] = NoEntry]
      /\ BankOf[y] = b /\ l2st[y] = "V"
      /\ UNCHANGED wtimes
  BY DEF L2_Replacement
<1>2. l2[y] \in L2Entry /\ mts[b] \in Nat
  BY DEF TypeOK, L2TypeOK
<1>3. m \in Nat /\ m >= mts[b] /\ m >= l2[y].rts
  BY <1>2, MtsFacts
<1> HIDE DEF m
<1> TAKE x \in Addrs
<1>4. BankOf[x] \in Banks /\ mts[BankOf[x]] \in Nat /\ l2[x].rts \in Nat
  BY BankOfAssumption DEF TypeOK, L2TypeOK, L2Entry
<1>5. mts'[BankOf[x]] = IF BankOf[x] = b THEN m ELSE mts[BankOf[x]]
  BY <1>1, <1>4 DEF TypeOK, L2TypeOK
<1>6. LeaseBound(x)' \in Nat /\ LeaseBound(x)' >= LeaseBound(x)
  <2>1. CASE x = y
    <3>1. LeaseBound(x)' = m /\ LeaseBound(x) = l2[y].rts
      BY <1>1, <1>5, <2>1 DEF LeaseBound, TypeOK, L2TypeOK
    <3> QED BY <1>3, <3>1
  <2>2. CASE x # y
    <3>1. l2st'[x] = l2st[x] /\ l2'[x] = l2[x]
      BY <1>1, <2>2 DEF TypeOK, L2TypeOK
    <3>2. mts'[BankOf[x]] \in Nat /\ mts'[BankOf[x]] >= mts[BankOf[x]]
      BY <1>3, <1>4, <1>5
    <3> QED BY <1>4, <3>1, <3>2 DEF LeaseBound
  <2> QED BY <2>1, <2>2
<1> QED BY <1>1, <1>6, KeptByGrowth

\* The fill starts at mts, and every data response carries the new bound.
LEMMA MemDataKeeps ==
    ASSUME TypeOK, WriteInv, NEW a \in Addrs, MemData(a)
    PROVE  /\ \A x \in Addrs : Keeps(x)
           /\ LeaseOK(a, l2[a].ver, l2[a].rts)'
           /\ l2'[a] \in L2Entry
<1> DEFINE f == FilledEntry(a)
           rts == trt_updateL2BlockRts(f, l2tbe[a])
           e == IF l2tbe[a].gets = {} THEN f ELSE [f EXCEPT !.rts = rts]
<1>1. /\ l2' = [l2 EXCEPT ![a] = e] /\ l2st' = [l2st EXCEPT ![a] = "V"]
      /\ l2st[a] = "IV"
      /\ UNCHANGED <<mts, wtimes>>
  BY DEF MemData
<1>2. f \in L2Entry /\ f.rts = mts[BankOf[a]]
  BY FillFacts
<1>3. rts \in Nat /\ rts >= f.rts
  BY <1>2, TrtFacts DEF TypeOK, L2TypeOK
<1> HIDE DEF rts, f
<1>4. e \in L2Entry /\ e.rts \in Nat /\ e.rts >= mts[BankOf[a]]
  BY <1>2, <1>3 DEF L2Entry
<1> HIDE DEF e
<1>5. /\ l2'[a] = e /\ l2st'[a] = "V"
      /\ \A x \in Addrs \ {a} : l2'[x] = l2[x] /\ l2st'[x] = l2st[x]
  BY <1>1 DEF TypeOK, L2TypeOK
<1>6. LeaseBound(a)' = e.rts /\ LeaseBound(a) = mts[BankOf[a]]
  BY <1>1, <1>5 DEF LeaseBound
<1>7. ASSUME NEW x \in Addrs PROVE Keeps(x)
  <2>1. CASE x = a
    BY <1>1, <1>4, <1>6, <2>1, KeptByGrowth
  <2>2. CASE x # a
    BY <1>1, <1>5, <2>2, KeptByFrame
  <2> QED BY <2>1, <2>2
<1>8. e.ver = Newest(a) /\ Newest(a)' = Newest(a) /\ Newest(a) \in Nat
  <2>1. WriteInv'
    BY MemDataWrites
  <2>2. l2'[a].ver = Newest(a)'
    BY <1>5, <2>1 DEF WriteInv, LineInv
  <2> QED BY <1>1, <1>5, <2>2 DEF Newest, TypeOK, L2TypeOK
<1>9. LeaseOK(a, l2[a].ver, l2[a].rts)'
  <2>1. /\ l2'[a].rts <= LeaseBound(a)'
        /\ l2'[a].ver <= Newest(a)'
        /\ ~(l2'[a].ver < Newest(a)')
    BY <1>4, <1>5, <1>6, <1>8
  <2> QED BY <2>1 DEF LeaseOK
<1> QED BY <1>4, <1>5, <1>7, <1>9

\* An atomic on a line that was not there takes a time from mts.
LEMMA MemDataAtomicKeeps ==
    ASSUME TypeOK, NEW a \in Addrs, MemDataAtomic(a)
    PROVE  \A x \in Addrs : Keeps(x)
<1> DEFINE f == FilledEntry(a)
           v == Newest(a) + 1
           e == [f EXCEPT !.ver = v]
<1>1. /\ l2' = [l2 EXCEPT ![a] = e] /\ l2st' = [l2st EXCEPT ![a] = "V"]
      /\ wtimes' = [wtimes EXCEPT ![a] = Append(@, e.wts)]
      /\ l2st[a] = "IAV"
      /\ UNCHANGED mts
  BY DEF MemDataAtomic
<1>2. f \in L2Entry /\ f.wts \in Nat /\ f.wts >= mts[BankOf[a]]
  <2>1. l2tbe[a] \in L2TBE /\ mts[BankOf[a]] \in Nat
    BY BankOfAssumption DEF TypeOK, L2TypeOK
  <2>2. /\ MissWts(l2tbe[a], mts[BankOf[a]]) \in Nat
        /\ MissWts(l2tbe[a], mts[BankOf[a]]) >= mts[BankOf[a]]
    BY <2>1, MtsFacts
  <2> QED BY <2>1, <2>2, FillFacts DEF FilledEntry
<1>3. e.wts = f.wts
  <2> HIDE DEF f, v
  <2> QED BY <1>2 DEF L2Entry
<1> HIDE DEF e, f
<1> TAKE x \in Addrs
<1>4. CASE x = a
  <2>1. LeaseBound(x) = mts[BankOf[a]] /\ wtimes'[x] = Append(wtimes[x], e.wts)
    BY <1>1, <1>4 DEF LeaseBound, TypeOK, L2TypeOK
  <2> QED BY <1>2, <1>3, <2>1, KeptByWrite
<1>5. CASE x # a
  <2>1. l2'[x] = l2[x] /\ l2st'[x] = l2st[x] /\ wtimes'[x] = wtimes[x]
    BY <1>1, <1>5 DEF TypeOK, L2TypeOK
  <2> QED BY <1>1, <2>1, KeptByFrame
<1> QED BY <1>4, <1>5

-----------------------------------------------------------------------------
(* From the lines of the L2 to the leases the L1s hold and are sent.        *)

\* The L1s hold what they held, and a response is an old one, is not data, or
\* carries a lease that is in order.
LEMMA LeasesKept ==
    ASSUME TypeOK, TypeOK', LeaseRespected, \A x \in Addrs : Keeps(x), line' = line,
           \A b \in Banks, c \in Cores : \A i \in DOMAIN respNet'[b][c] :
              \/ \E j \in DOMAIN respNet[b][c] : respNet'[b][c][i] = respNet[b][c][j]
              \/ respNet'[b][c][i].type # "DATA"
              \/ (LeaseOK(respNet[b][c][i].addr, respNet[b][c][i].ver, respNet[b][c][i].rts))'
    PROVE  LeaseRespected'
<1>1. ASSUME NEW c \in Cores, NEW a \in Addrs, line'[c][a].have
      PROVE  LeaseOK(a, line[c][a].ver, line[c][a].rts)'
  <2>1. PICK e \in L1Entry : e = line[c][a] /\ e.ver \in Nat /\ e.rts \in Nat
    BY DEF TypeOK, L1TypeOK, L1Entry
  <2>2. LeaseOK(a, e.ver, e.rts)
    BY <1>1, <2>1 DEF LeaseRespected
  <2>3. LeaseOK(a, e.ver, e.rts)'
    BY <2>1, <2>2 DEF Keeps
  <2>4. e = line'[c][a]
    BY <2>1
  <2> QED BY <2>3, <2>4 DEF LeaseOK
<1>2. ASSUME NEW b \in Banks, NEW c \in Cores, NEW i \in DOMAIN respNet'[b][c],
             respNet'[b][c][i].type = "DATA"
      PROVE  (LeaseOK(respNet[b][c][i].addr, respNet[b][c][i].ver, respNet[b][c][i].rts))'
  <2>1. CASE \E j \in DOMAIN respNet[b][c] : respNet'[b][c][i] = respNet[b][c][j]
    <3>1. PICK j \in DOMAIN respNet[b][c] : respNet'[b][c][i] = respNet[b][c][j]
      BY <2>1
    <3>2. PICK m \in ResponseMsg : m = respNet[b][c][j] /\ m.addr \in Addrs
                                   /\ m.ver \in Nat /\ m.rts \in Nat
      <4>1. respNet[b][c][j] \in ResponseMsg
        BY DEF TypeOK, NetTypeOK
      <4> QED BY <4>1 DEF ResponseMsg
    <3>3. LeaseOK(m.addr, m.ver, m.rts)
      BY <1>2, <3>1, <3>2 DEF LeaseRespected
    <3>4. LeaseOK(m.addr, m.ver, m.rts)'
      BY <3>2, <3>3 DEF Keeps
    <3>5. m = respNet'[b][c][i]
      BY <3>1, <3>2
    <3> QED BY <3>4, <3>5 DEF LeaseOK
  <2> QED BY <1>2, <2>1
<1> QED BY <1>1, <1>2 DEF LeaseRespected

\* The same, when the responses do not change.
LEMMA LeasesKeptQuietly ==
    ASSUME TypeOK, TypeOK', LeaseRespected, \A x \in Addrs : Keeps(x), line' = line,
           respNet' = respNet
    PROVE  LeaseRespected'
BY LeasesKept

\* The same, when one response m is sent.
LEMMA LeasesKeptAnswering ==
    ASSUME TypeOK, TypeOK', LeaseRespected, \A x \in Addrs : Keeps(x), line' = line,
           NEW b \in Banks, NEW m \in ResponseMsg, SendResponse(b, m),
           m.type # "DATA" \/ LeaseOK(m.addr, m.ver, m.rts)'
    PROVE  LeaseRespected'
<1> DEFINE k == CoreOf[m.warp]
<1>1. k \in Cores
  BY CoreOfAssumption DEF ResponseMsg
<1>2. /\ respNet'[b][k] = Append(respNet[b][k], m)
      /\ \A d \in Banks, c \in Cores : d # b \/ c # k => respNet'[d][c] = respNet[d][c]
  BY <1>1 DEF SendResponse, TypeOK, NetTypeOK
<1> HIDE DEF k
<1>3. ASSUME NEW d \in Banks, NEW c \in Cores, NEW i \in DOMAIN respNet'[d][c]
      PROVE  \/ \E j \in DOMAIN respNet[d][c] : respNet'[d][c][i] = respNet[d][c][j]
             \/ respNet'[d][c][i] = m
  <2>1. CASE d = b /\ c = k
    <3>1. respNet[b][k] \in Seq(ResponseMsg) /\ i \in DOMAIN Append(respNet[b][k], m)
      BY <1>1, <1>2, <1>3, <2>1 DEF TypeOK, NetTypeOK
    <3>2. \/ i \in DOMAIN respNet[b][k] /\ Append(respNet[b][k], m)[i] = respNet[b][k][i]
          \/ Append(respNet[b][k], m)[i] = m
      BY <3>1, AppendElements
    <3> QED BY <1>2, <2>1, <3>2
  <2>2. CASE d # b \/ c # k
    BY <1>2, <1>3, <2>2
  <2> QED BY <2>1, <2>2
<1>4. ASSUME NEW d \in Banks, NEW c \in Cores, NEW i \in DOMAIN respNet'[d][c],
             respNet'[d][c][i] = m
      PROVE  \/ respNet'[d][c][i].type # "DATA"
             \/ (LeaseOK(respNet[d][c][i].addr, respNet[d][c][i].ver, respNet[d][c][i].rts))'
  BY <1>4 DEF LeaseOK
<1> QED BY <1>3, <1>4, LeasesKept

\* The responses after a fill: old ones, and new ones about the filled line.
LEMMA FillResponses ==
    ASSUME TypeOK, NEW a \in Addrs, MemData(a), NEW b \in Banks, NEW c \in Cores,
           NEW i \in DOMAIN respNet'[b][c]
    PROVE  \/ \E j \in DOMAIN respNet[b][c] : respNet'[b][c][i] = respNet[b][c][j]
           \/ /\ respNet'[b][c][i].type = "DATA"
              /\ respNet'[b][c][i].addr = a
              /\ respNet'[b][c][i].ver = l2'[a].ver
              /\ respNet'[b][c][i].rts = l2'[a].rts
<1> DEFINE t == l2tbe[a]
           e == l2'[a]
           w == CHOOSE w \in t.gets : CoreOf[w] = c
           m == DataResponse(a, e, w)
<1>1. BankOf[a] \in Banks /\ respNet[b][c] \in Seq(ResponseMsg)
  BY BankOfAssumption DEF TypeOK, NetTypeOK
<1>2. \/ respNet'[b][c] = respNet[b][c]
      \/ respNet'[b][c] = Append(respNet[b][c], m)
  BY <1>1 DEF MemData, SendResponses, TypeOK, NetTypeOK, L2TypeOK
<1>3. m.type = "DATA" /\ m.addr = a /\ m.ver = e.ver /\ m.rts = e.rts
  BY DEF DataResponse
<1> HIDE DEF m
<1>4. \/ \E j \in DOMAIN respNet[b][c] : respNet'[b][c][i] = respNet[b][c][j]
      \/ respNet'[b][c][i] = m
  BY <1>1, <1>2, AppendProperties
<1> QED BY <1>3, <1>4

\* The responses after an atomic that missed carry no lease.
LEMMA AtomicResponses ==
    ASSUME TypeOK, NEW a \in Addrs, MemDataAtomic(a), NEW b \in Banks, NEW c \in Cores,
           NEW i \in DOMAIN respNet'[b][c]
    PROVE  \/ \E j \in DOMAIN respNet[b][c] : respNet'[b][c][i] = respNet[b][c][j]
           \/ respNet'[b][c][i].type # "DATA"
<1> DEFINE t == l2tbe[a]
           e == l2'[a]
           w == CHOOSE w \in t.wback : CoreOf[w] = c
           m == WriteResponse("DATA_ATOMIC", a, w, e.wts, e.ver)
<1>1. BankOf[a] \in Banks /\ respNet[b][c] \in Seq(ResponseMsg)
  BY BankOfAssumption DEF TypeOK, NetTypeOK
<1>2. \/ respNet'[b][c] = respNet[b][c]
      \/ respNet'[b][c] = Append(respNet[b][c], m)
  BY <1>1 DEF MemDataAtomic, SendResponses, TypeOK, NetTypeOK, L2TypeOK
<1>3. m.type # "DATA"
  BY DEF WriteResponse
<1> HIDE DEF m
<1>4. \/ \E j \in DOMAIN respNet[b][c] : respNet'[b][c][i] = respNet[b][c][j]
      \/ respNet'[b][c][i] = m
  BY <1>1, <1>2, AppendProperties
<1> QED BY <1>3, <1>4

\* The L1 pops a response.
LEMMA PoppedResponses ==
    ASSUME TypeOK, NEW b \in Banks, NEW c \in Cores, respNet[b][c] # <<>>,
           respNet' = [respNet EXCEPT ![b][c] = Tail(@)],
           NEW d \in Banks, NEW k \in Cores, NEW i \in DOMAIN respNet'[d][k]
    PROVE  \E j \in DOMAIN respNet[d][k] : respNet'[d][k][i] = respNet[d][k][j]
<1>1. CASE d = b /\ k = c
  <2>1. respNet'[d][k] = Tail(respNet[b][c]) /\ respNet[b][c] \in Seq(ResponseMsg)
    BY <1>1 DEF TypeOK, NetTypeOK
  <2>2. i + 1 \in DOMAIN respNet[b][c] /\ Tail(respNet[b][c])[i] = respNet[b][c][i + 1]
    BY <2>1, TailElements
  <2> QED BY <1>1, <2>1, <2>2
<1>2. CASE d # b \/ k # c
  BY <1>2 DEF TypeOK, NetTypeOK
<1> QED BY <1>1, <1>2

-----------------------------------------------------------------------------
(* Steps of the L1.                                                         *)

\* Nothing an L1 does moves a lease bound.
LEMMA CoreStepKeeps ==
    ASSUME TypeOK, UNCHANGED l2Vars
    PROVE  \A x \in Addrs : Keeps(x)
BY KeptByFrame DEF l2Vars

\* Data arrives: the L1 takes over the lease of the response.
LEMMA DataLeases ==
    ASSUME TypeOK, LeaseRespected, NEW c \in Cores, NEW b \in Banks, Data(c, b),
           UNCHANGED l2Vars
    PROVE  LeaseRespected'
<1> DEFINE q == respNet[b][c]
<1>0. respNet[b][c] # <<>>
  BY ZenonT(40) DEF Data
<1>1. PICK m \in ResponseMsg : m = Head(q) /\ m.addr \in Addrs
  BY <1>0, ResponseHead
<1>2. q # <<>> /\ q \in Seq(ResponseMsg) /\ m = q[1] /\ 1 \in DOMAIN q /\ m.type = "DATA"
  BY <1>1, QueueFacts DEF Data, TypeOK, NetTypeOK
<1>3. \A x \in Addrs : \A v, r : LeaseOK(x, v, r)' <=> LeaseOK(x, v, r)
  BY DEF l2Vars, LeaseOK, LeaseBound, Newest
<1>4. LeaseOK(m.addr, m.ver, m.rts)
  BY <1>2 DEF LeaseRespected
<1>5. ASSUME NEW d \in Cores, NEW a \in Addrs, line'[d][a].have
      PROVE  LeaseOK(a, line'[d][a].ver, line'[d][a].rts)
  <2>1. CASE d = c /\ a = m.addr
    <3>1. line'[d][a].rts = m.rts /\ line'[d][a].ver = m.ver
      BY ZenonT(40), <1>1, <2>1 DEF Data, TypeOK, L1TypeOK
    <3> QED BY SMTT(30), <1>4, <2>1, <3>1
  <2>2. CASE d # c \/ a # m.addr
    <3>1. line'[d][a] = line[d][a]
      BY ZenonT(40), <1>1, <2>2 DEF Data, TypeOK, L1TypeOK
    <3> QED BY SMTT(30), <1>5, <3>1 DEF LeaseRespected
  <2> QED BY <2>1, <2>2
<1>6. ASSUME NEW d \in Banks, NEW k \in Cores, NEW i \in DOMAIN respNet'[d][k]
      PROVE  \E j \in DOMAIN respNet[d][k] : respNet'[d][k][i] = respNet[d][k][j]
  BY ZenonT(40), <1>6, PoppedResponses DEF Data
<1>7. ASSUME NEW d \in Banks, NEW k \in Cores, NEW i \in DOMAIN respNet'[d][k],
             respNet'[d][k][i].type = "DATA"
      PROVE  /\ LeaseOK(respNet'[d][k][i].addr, respNet'[d][k][i].ver, respNet'[d][k][i].rts)
             /\ respNet'[d][k][i].addr \in Addrs
  <2>1. PICK j \in DOMAIN respNet[d][k] : respNet'[d][k][i] = respNet[d][k][j]
    BY <1>6
  <2>2. respNet[d][k][j] \in ResponseMsg
    BY DEF TypeOK, NetTypeOK
  <2>3. respNet[d][k][j].addr \in Addrs
    BY SMTT(30), <2>2 DEF ResponseMsg
  <2> QED BY <1>7, <2>1, <2>3 DEF LeaseRespected
<1>8. ASSUME NEW d \in Cores, NEW a \in Addrs, line'[d][a].have
      PROVE  LeaseOK(a, line[d][a].ver, line[d][a].rts)'
  BY <1>3, <1>5, <1>8
<1>9. ASSUME NEW d \in Banks, NEW k \in Cores, NEW i \in DOMAIN respNet'[d][k],
             respNet'[d][k][i].type = "DATA"
      PROVE  LeaseOK(respNet[d][k][i].addr, respNet[d][k][i].ver, respNet[d][k][i].rts)'
  BY <1>3, <1>7, <1>9
<1> QED BY <1>8, <1>9 DEF LeaseRespected

\* A miss allocates a line without data, a replacement drops one.
LEMMA AllocationLeases ==
    ASSUME TypeOK, LeaseRespected, NEW c \in Cores, UNCHANGED l2Vars,
           LoadMiss(c) \/ \E v \in Addrs : L1_Replacement(c, v)
    PROVE  LeaseRespected'
<1>1. respNet' = respNet
  BY DEF LoadMiss, L1_Replacement, netVars
<1>2. ASSUME NEW d \in Cores, NEW a \in Addrs, line'[d][a].have
      PROVE  line'[d][a] = line[d][a]
  <2>1. CASE LoadMiss(c)
    <3>1. PICK r \in CacheMsg : r = Head(mandQ[c]) /\ r.addr \in Addrs
      BY ZenonT(40), <2>1, MandatoryHead DEF LoadMiss
    <3>2. line' = [line EXCEPT ![c][r.addr] =
                     IF line[c][r.addr].tag THEN line[c][r.addr] ELSE NewLine]
      BY ZenonT(40), <2>1, <3>1 DEF LoadMiss
    <3> QED BY ZenonT(40), <1>2, <3>1, <3>2 DEF NewLine, TypeOK, L1TypeOK
  <2>2. CASE \E v \in Addrs : L1_Replacement(c, v)
    BY <1>2, <2>2 DEF L1_Replacement, NoLine, TypeOK, L1TypeOK
  <2> QED BY <2>1, <2>2
<1>3. \A x \in Addrs : \A v, r : LeaseOK(x, v, r)' <=> LeaseOK(x, v, r)
  BY DEF l2Vars, LeaseOK, LeaseBound, Newest
<1>4. ASSUME NEW d \in Cores, NEW a \in Addrs, line'[d][a].have
      PROVE  LeaseOK(a, line[d][a].ver, line[d][a].rts)'
  <2>1. line'[d][a] = line[d][a]
    BY <1>2, <1>4
  <2>2. LeaseOK(a, line'[d][a].ver, line'[d][a].rts)
    BY <1>4, <2>1 DEF LeaseRespected
  <2> QED BY <1>3, <2>2
<1>5. ASSUME NEW d \in Banks, NEW k \in Cores, NEW i \in DOMAIN respNet'[d][k],
             respNet'[d][k][i].type = "DATA"
      PROVE  LeaseOK(respNet[d][k][i].addr, respNet[d][k][i].ver, respNet[d][k][i].rts)'
  <2>1. LeaseOK(respNet'[d][k][i].addr, respNet'[d][k][i].ver, respNet'[d][k][i].rts)
    BY <1>1, <1>5 DEF LeaseRespected
  <2>2. respNet[d][k] \in Seq(ResponseMsg) /\ i \in DOMAIN respNet[d][k]
    BY <1>1 DEF TypeOK, NetTypeOK
  <2>3. respNet[d][k][i] \in ResponseMsg
    BY <2>2
  <2>4. respNet'[d][k][i].addr \in Addrs
    BY <1>1, <2>3 DEF ResponseMsg
  <2> QED BY <1>3, <2>1, <2>4
<1> QED BY <1>4, <1>5 DEF LeaseRespected

-----------------------------------------------------------------------------
\* Before the first request nobody holds a lease.
LEMMA InitLeases == Init => LeaseRespected
BY DEF Init, NetInit, L1Init, LeaseRespected, NoLine

\* Every step keeps the leases in order.
LEMMA NextLeases == TypeOK /\ WriteInv /\ LeaseRespected /\ [Next]_vars => LeaseRespected'
<1> SUFFICES ASSUME TypeOK, WriteInv, LeaseRespected, [Next]_vars PROVE LeaseRespected'
  OBVIOUS
<1> USE NextTypes
<1>1. ASSUME NEW w \in Warps, Issue(w) PROVE LeaseRespected'
  BY <1>1, CoreStepKeeps, LeasesKeptQuietly DEF Issue, send_request, l1Vars
<1>2. ASSUME NEW c \in Cores, Writeback(c) PROVE LeaseRespected'
  BY <1>2, CoreStepKeeps, LeasesKeptQuietly DEF Writeback, next_access, l1Vars, netVars
<1>3. ASSUME NEW c \in Cores, WriteAck(c) PROVE LeaseRespected'
  BY <1>3, CoreStepKeeps, LeasesKeptQuietly DEF WriteAck, mark_skipped_write_done, l1Vars, netVars
<1>4. ASSUME NEW c \in Cores, L1Step(c) PROVE LeaseRespected'
  <2>1. UNCHANGED l2Vars /\ \A x \in Addrs : Keeps(x)
    BY <1>4, CoreStepKeeps DEF L1Step
  <2>2. CASE LoadHit(c)
    BY <2>1, <2>2, LeasesKeptQuietly DEF LoadHit, l1Vars
  <2>3. CASE LoadMiss(c) \/ \E v \in Addrs : L1_Replacement(c, v)
    BY <2>1, <2>3, AllocationLeases
  <2>4. CASE WriteThrough(c)
    BY <2>1, <2>4, LeasesKeptQuietly DEF WriteThrough
  <2>5. ASSUME NEW b \in Banks, Data(c, b) PROVE LeaseRespected'
    BY <2>1, <2>5, DataLeases
  <2>6. ASSUME NEW b \in Banks, WriteDone(c, b) PROVE LeaseRespected'
    <3>1. \A d \in Banks, k \in Cores : \A i \in DOMAIN respNet'[d][k] :
            \E j \in DOMAIN respNet[d][k] : respNet'[d][k][i] = respNet[d][k][j]
      BY ZenonT(40), <2>6, PoppedResponses DEF WriteDone
    <3>2. line' = line
      BY <2>6 DEF WriteDone
    <3> QED BY SMTT(30), <2>1, <3>1, <3>2, LeasesKept
  <2> QED BY <1>4, <2>2, <2>3, <2>4, <2>5, <2>6 DEF L1Step, L1Next
<1>5. ASSUME NEW c \in Cores, NEW b \in Banks, Network(c, b) PROVE LeaseRespected'
  BY <1>5, CoreStepKeeps, LeasesKeptQuietly DEF Network, l1Vars
<1>6. ASSUME NEW b \in Banks, L2Step(b) PROVE LeaseRespected'
  <2>1. line' = line
    BY <1>6 DEF L2Step, l1Vars
  <2>2. CASE GetsMiss(b)
    BY <2>1, <2>2, GetsMissKeeps, LeasesKeptQuietly DEF GetsMiss
  <2>3. CASE AtomicMiss(b)
    BY <2>1, <2>3, AtomicMissKeeps, LeasesKeptQuietly DEF AtomicMiss
  <2>4. CASE WriteMiss(b)
    BY <2>1, <2>4, WriteMissKeeps, LeasesKeptAnswering
  <2>5. CASE GetsHit(b)
    BY <2>1, <2>5, GetsHitKeeps, LeasesKeptAnswering
  <2>6. ASSUME NEW t \in {"DATA", "DATA_ATOMIC"}, WriteHit(b, t) PROVE LeaseRespected'
    BY <2>1, <2>6, WriteHitKeeps, LeasesKeptAnswering
  <2>7. ASSUME NEW v \in Addrs, L2_Replacement(b, v) PROVE LeaseRespected'
    BY <2>1, <2>7, L2_ReplacementKeeps, LeasesKeptQuietly DEF L2_Replacement, netVars
  <2> QED BY <1>6, <2>2, <2>3, <2>4, <2>5, <2>6, <2>7 DEF L2Step, L2Next
<1>7. ASSUME NEW a \in Addrs, Dram(a) PROVE LeaseRespected'
  <2>1. line' = line
    BY <1>7 DEF Dram, l1Vars
  <2>2. CASE MemData(a)
    <3>1. (\A x \in Addrs : Keeps(x)) /\ LeaseOK(a, l2[a].ver, l2[a].rts)'
      BY <2>2, MemDataKeeps
    <3>2. ASSUME NEW b \in Banks, NEW c \in Cores, NEW i \in DOMAIN respNet'[b][c]
          PROVE  \/ \E j \in DOMAIN respNet[b][c] : respNet'[b][c][i] = respNet[b][c][j]
                 \/ (LeaseOK(respNet[b][c][i].addr, respNet[b][c][i].ver, respNet[b][c][i].rts))'
      <4>1. CASE \E j \in DOMAIN respNet[b][c] : respNet'[b][c][i] = respNet[b][c][j]
        BY <4>1
      <4>2. CASE ~\E j \in DOMAIN respNet[b][c] : respNet'[b][c][i] = respNet[b][c][j]
        <5>1. /\ respNet'[b][c][i].addr = a
              /\ respNet'[b][c][i].ver = l2'[a].ver
              /\ respNet'[b][c][i].rts = l2'[a].rts
          BY <2>2, <4>2, FillResponses
        <5> QED BY <3>1, <5>1 DEF LeaseOK
      <4> QED BY <4>1, <4>2
    <3> QED BY <2>1, <3>1, <3>2, LeasesKept
  <2>3. CASE MemDataAtomic(a)
    <3>1. \A x \in Addrs : Keeps(x)
      BY <2>3, MemDataAtomicKeeps
    <3>2. \A b \in Banks, c \in Cores : \A i \in DOMAIN respNet'[b][c] :
            \/ \E j \in DOMAIN respNet[b][c] : respNet'[b][c][i] = respNet[b][c][j]
            \/ respNet'[b][c][i].type # "DATA"
      BY <2>3, AtomicResponses
    <3> QED BY <2>1, <3>1, <3>2, LeasesKept
  <2> QED BY <1>7, <2>2, <2>3 DEF Dram
<1>8. CASE UNCHANGED vars
  BY <1>8, CoreStepKeeps, LeasesKeptQuietly DEF vars, netVars, l1Vars
<1> QED BY <1>1, <1>2, <1>3, <1>4, <1>5, <1>6, <1>7, <1>8 DEF Next, Terminated

\* No lease outlives the write that ends it, evictions, refetches and early
\* acknowledgements included (tr, trt, tw, wat, mt, setmts).
THEOREM LeasesRespected == Spec => []LeaseRespected
<1>1. TypeOK /\ WriteInv /\ LeaseRespected /\ [Next]_vars => LeaseRespected'
  BY NextLeases
<1> QED BY <1>1, InitLeases, TypeCorrect, WritesInvariant, PTL DEF Spec
-----------------------------------------------------------------------------
(* Without evictions a lease ends before the write, not with it.            *)

\* The lines of a bank fit in it.
LinesFit ==
    \A b \in Banks : LET S == {a \in Addrs : BankOf[a] = b} IN
        IsFiniteSet(S) /\ Cardinality(S) <= L2Ways

\* The line stays in the L2, and the write that ends the lease is after it.
StrictOK(a, v, r) == l2st[a] = "V" /\ (v < Newest(a) => r < wtimes[a][v + 1])

Covered(a, v, r) == LeaseOK(a, v, r) /\ (LinesFit => StrictOK(a, v, r))

\* A step keeps every lease on line x and its distance from the next write.
KeepsCover(x) == \A v \in Nat, r \in Nat : Covered(x, v, r) => Covered(x, v, r)'

LeasesCovered ==
    /\ \A c \in Cores, a \in Addrs :
          line[c][a].have => Covered(a, line[c][a].ver, line[c][a].rts)
    /\ \A b \in Banks, c \in Cores : \A i \in DOMAIN respNet[b][c] :
          LET m == respNet[b][c][i] IN m.type = "DATA" => Covered(m.addr, m.ver, m.rts)

\* After a bank has sent one response.
LEMMA SentResponses ==
    ASSUME TypeOK, NEW b \in Banks, NEW m \in ResponseMsg, SendResponse(b, m),
           NEW d \in Banks, NEW c \in Cores, NEW i \in DOMAIN respNet'[d][c]
    PROVE  \/ \E j \in DOMAIN respNet[d][c] : respNet'[d][c][i] = respNet[d][c][j]
           \/ d = b /\ c = CoreOf[m.warp] /\ respNet'[d][c][i] = m
<1> DEFINE k == CoreOf[m.warp]
<1>1. k \in Cores
  BY CoreOfAssumption DEF ResponseMsg
<1>2. /\ respNet'[b][k] = Append(respNet[b][k], m)
      /\ d # b \/ c # k => respNet'[d][c] = respNet[d][c]
  BY <1>1 DEF SendResponse, TypeOK, NetTypeOK
<1> HIDE DEF k
<1>3. CASE d = b /\ c = k
  <2>1. respNet[b][k] \in Seq(ResponseMsg) /\ i \in DOMAIN Append(respNet[b][k], m)
    BY <1>1, <1>2, <1>3 DEF TypeOK, NetTypeOK
  <2>2. \/ i \in DOMAIN respNet[b][k] /\ Append(respNet[b][k], m)[i] = respNet[b][k][i]
        \/ Append(respNet[b][k], m)[i] = m
    BY <2>1, AppendElements
  <2> QED BY <1>2, <1>3, <2>2 DEF k
<1>4. CASE d # b \/ c # k
  BY <1>2, <1>4
<1> QED BY <1>3, <1>4

\* Lines that fit are never evicted.
LEMMA NothingEvicted ==
    ASSUME TypeOK, WriteInv, LinesFit, NEW b \in Banks, NEW v \in Addrs
    PROVE  ~L2_Replacement(b, v)
<1> SUFFICES ASSUME L2_Replacement(b, v) PROVE FALSE
  OBVIOUS
<1> DEFINE S == {a \in Addrs : BankOf[a] = b}
           T == {a \in Addrs : BankOf[a] = b /\ isTagPresent(a)}
<1>1. PICK h \in Addrs : BankOf[h] = b /\ ~isTagPresent(h)
  <2>1. l2in[b] # <<>> /\ ~isTagPresent(Head(l2in[b]).addr)
    BY DEF L2_Replacement
  <2>2. Head(l2in[b]).addr \in Addrs /\ Head(l2in[b]) = l2in[b][1] /\ 1 \in DOMAIN l2in[b]
    BY <2>1, RequestHead, QueueFacts DEF TypeOK, NetTypeOK
  <2> QED BY <2>1, <2>2 DEF WriteInv, Routed
<1>2. ~(Cardinality(T) < L2Ways)
  BY DEF L2_Replacement, L2cacheAvail
<1>3. IsFiniteSet(S) /\ Cardinality(S) <= L2Ways
  BY DEF LinesFit
<1>4. T \in SUBSET S /\ T # S
  BY <1>1
<1> HIDE DEF S, T
<1>5. /\ IsFiniteSet(T) /\ Cardinality(T) <= Cardinality(S)
      /\ Cardinality(S) # Cardinality(T)
  BY <1>3, <1>4, FS_Subset
<1>6. Cardinality(S) \in Nat /\ Cardinality(T) \in Nat
  BY <1>3, <1>5, FS_CardinalityType
<1> QED BY <1>2, <1>3, <1>5, <1>6, WaysAssumption

\* A line in the L2 stays there, and its next write is after its leases.
LEMMA StrictKept ==
    ASSUME TypeOK, NEW x \in Addrs, Keeps(x),
           LinesFit /\ l2st[x] = "V" =>
              /\ l2st'[x] = "V"
              /\ \/ wtimes'[x] = wtimes[x]
                 \/ \E t \in Nat : t > l2[x].rts /\ wtimes'[x] = Append(wtimes[x], t)
    PROVE  KeepsCover(x)
<1> SUFFICES ASSUME NEW v \in Nat, NEW r \in Nat, Covered(x, v, r) PROVE Covered(x, v, r)'
  BY DEF KeepsCover
<1>1. LeaseOK(x, v, r)'
  BY DEF Covered, Keeps
<1>2. ASSUME LinesFit PROVE StrictOK(x, v, r)'
  <2>1. LeaseOK(x, v, r) /\ StrictOK(x, v, r) /\ l2st[x] = "V" /\ l2st'[x] = "V"
    BY <1>2 DEF Covered, StrictOK
  <2>2. CASE wtimes'[x] = wtimes[x]
    BY <2>1, <2>2 DEF StrictOK, Newest
  <2>3. CASE \E t \in Nat : t > l2[x].rts /\ wtimes'[x] = Append(wtimes[x], t)
    <3>1. PICK t \in Nat : t > l2[x].rts /\ wtimes'[x] = Append(wtimes[x], t)
      BY <2>3
    <3>2. PICK n \in Nat, e \in Nat : n = Newest(x) /\ e = l2[x].rts
      BY DEF TypeOK, L2TypeOK, L2Entry, Newest
    <3>3. /\ Len(wtimes'[x]) = n + 1 /\ wtimes'[x][n + 1] = t
          /\ \A u \in 1..n : wtimes'[x][u] = wtimes[x][u]
      BY <3>1, <3>2 DEF TypeOK, L2TypeOK, Newest
    <3>4. v <= n /\ (v = n => r <= e) /\ (v < n => r < wtimes[x][v + 1])
      BY <2>1, <3>2 DEF LeaseOK, StrictOK, LeaseBound
    <3>5. r < wtimes'[x][v + 1]
      <4>1. CASE v = n
        BY <3>1, <3>2, <3>3, <3>4, <4>1
      <4>2. CASE v < n
        <5>1. v + 1 \in 1..n
          BY <4>2
        <5> QED BY <3>3, <3>4, <4>2, <5>1
      <4> QED BY <3>4, <4>1, <4>2
    <3> QED BY <2>1, <3>5 DEF StrictOK
  <2> QED BY <1>2, <2>1, <2>2, <2>3
<1> QED BY <1>1, <1>2 DEF Covered

\* A step that writes no line and takes none away.
LEMMA CoverKept ==
    ASSUME TypeOK, \A x \in Addrs : Keeps(x), wtimes' = wtimes,
           \A x \in Addrs : l2st[x] = "V" => l2st'[x] = "V"
    PROVE  \A x \in Addrs : KeepsCover(x)
BY StrictKept

\* Nothing an L1 does disturbs a lease.
LEMMA CoreStepCover ==
    ASSUME TypeOK, UNCHANGED l2Vars
    PROVE  \A x \in Addrs : KeepsCover(x)
BY CoreStepKeeps, CoverKept DEF l2Vars

\* A write hit is after the leases (tw_updateL2BlockWts).
LEMMA WriteHitCover ==
    ASSUME TypeOK, NEW b \in Banks, NEW t \in {"DATA", "DATA_ATOMIC"}, WriteHit(b, t)
    PROVE  \A x \in Addrs : KeepsCover(x)
<1>1. PICK r \in RequestMsg : r = Head(l2in[b]) /\ r.addr \in Addrs
  BY RequestHead DEF WriteHit, Request
<1>2. PICK a \in Addrs : a = r.addr
  BY <1>1
<1>3. PICK k \in Nat : k = tw_updateL2BlockWts(l2[a], r) /\ k > l2[a].rts
  <2>1. l2[a] \in L2Entry /\ l2[a].rts \in Nat
    BY DEF TypeOK, L2TypeOK, L2Entry
  <2> QED BY <2>1, RtsFacts
<1>4. wtimes' = [wtimes EXCEPT ![a] = Append(@, k)] /\ l2st' = l2st
  BY <1>1, <1>2, <1>3 DEF WriteHit
<1> SUFFICES ASSUME NEW x \in Addrs PROVE KeepsCover(x)
  OBVIOUS
<1>5. Keeps(x)
  BY WriteHitKeeps
<1>6. wtimes'[x] = IF x = a THEN Append(wtimes[x], k) ELSE wtimes[x]
  BY <1>4 DEF TypeOK, L2TypeOK
<1>7. \/ wtimes'[x] = wtimes[x]
      \/ \E u \in Nat : u > l2[x].rts /\ wtimes'[x] = Append(wtimes[x], u)
  BY <1>3, <1>6
<1> QED BY <1>4, <1>5, <1>7, StrictKept

\* Every step keeps the leases.
LEMMA NextCover ==
    ASSUME TypeOK, WriteInv, [Next]_vars
    PROVE  \A x \in Addrs : KeepsCover(x)
<1>1. CASE UNCHANGED l2Vars
  BY <1>1, CoreStepCover
<1>2. ASSUME NEW b \in Banks, L2Step(b) PROVE \A x \in Addrs : KeepsCover(x)
  <2>1. CASE GetsMiss(b)
    <3>1. \A x \in Addrs : l2st[x] = "V" => l2st'[x] = "V"
      BY <2>1, RequestHead DEF GetsMiss, Request, TypeOK, L2TypeOK
    <3>2. wtimes' = wtimes
      BY <2>1 DEF GetsMiss
    <3> QED BY <2>1, <3>1, <3>2, GetsMissKeeps, CoverKept
  <2>2. CASE AtomicMiss(b)
    <3>1. \A x \in Addrs : l2st[x] = "V" => l2st'[x] = "V"
      BY <2>2, RequestHead DEF AtomicMiss, Request, TypeOK, L2TypeOK
    <3>2. wtimes' = wtimes
      BY <2>2 DEF AtomicMiss
    <3> QED BY <2>2, <3>1, <3>2, AtomicMissKeeps, CoverKept
  <2>3. CASE WriteMiss(b)
    <3>0. PICK a \in Addrs : a = Head(l2in[b]).addr
      BY <2>3, RequestHead DEF WriteMiss, Request
    <3>1. PICK t : /\ l2st[a] # "V" /\ l2st' = [l2st EXCEPT ![a] = "IV"]
                   /\ wtimes' = [wtimes EXCEPT ![a] = Append(@, t)]
      BY <2>3, <3>0 DEF WriteMiss
    <3> SUFFICES ASSUME NEW x \in Addrs PROVE KeepsCover(x)
      OBVIOUS
    <3>2. l2st[x] = "V" => l2st'[x] = "V" /\ wtimes'[x] = wtimes[x]
      BY <3>1 DEF TypeOK, L2TypeOK
    <3> QED BY <2>3, <3>2, WriteMissKeeps, StrictKept
  <2>4. CASE GetsHit(b)
    <3>1. wtimes' = wtimes /\ l2st' = l2st
      BY <2>4 DEF GetsHit
    <3> QED BY <2>4, <3>1, GetsHitKeeps, CoverKept
  <2>5. ASSUME NEW t \in {"DATA", "DATA_ATOMIC"}, WriteHit(b, t) PROVE \A x \in Addrs : KeepsCover(x)
    BY <2>5, WriteHitCover
  <2>6. ASSUME NEW v \in Addrs, L2_Replacement(b, v) PROVE \A x \in Addrs : KeepsCover(x)
    <3>1. ~LinesFit
      BY <2>6, NothingEvicted
    <3>2. \A x \in Addrs : Keeps(x)
      BY <2>6, L2_ReplacementKeeps
    <3> QED BY <3>1, <3>2, StrictKept
  <2> QED BY <1>2, <2>1, <2>2, <2>3, <2>4, <2>5, <2>6 DEF L2Step, L2Next
<1>3. ASSUME NEW a \in Addrs, Dram(a) PROVE \A x \in Addrs : KeepsCover(x)
  <2>1. CASE MemData(a)
    <3>1. wtimes' = wtimes /\ \A x \in Addrs : l2st[x] = "V" => l2st'[x] = "V"
      BY <2>1 DEF MemData, TypeOK, L2TypeOK
    <3> QED BY <2>1, <3>1, MemDataKeeps, CoverKept
  <2>2. CASE MemDataAtomic(a)
    <3>1. PICK t : /\ l2st[a] # "V" /\ l2st' = [l2st EXCEPT ![a] = "V"]
                   /\ wtimes' = [wtimes EXCEPT ![a] = Append(@, t)]
      BY <2>2 DEF MemDataAtomic
    <3> SUFFICES ASSUME NEW x \in Addrs PROVE KeepsCover(x)
      OBVIOUS
    <3>2. l2st[x] = "V" => l2st'[x] = "V" /\ wtimes'[x] = wtimes[x]
      BY <3>1 DEF TypeOK, L2TypeOK
    <3> QED BY <2>2, <3>2, MemDataAtomicKeeps, StrictKept
  <2> QED BY <1>3, <2>1, <2>2 DEF Dram
<1> QED BY <1>1, <1>2, <1>3 DEF Next, Issue, Writeback, WriteAck, L1Step, Network, Terminated, vars


\* Where data responses come from: an entry of the L2 with the newest version.
LEMMA NewLeases ==
    ASSUME TypeOK, WriteInv, WriteInv', [Next]_vars,
           NEW d \in Banks, NEW c \in Cores, NEW i \in DOMAIN respNet'[d][c]
    PROVE  \/ \E j \in DOMAIN respNet[d][c] : respNet'[d][c][i] = respNet[d][c][j]
           \/ respNet'[d][c][i].type # "DATA"
           \/ \E a \in Addrs : /\ respNet'[d][c][i].addr = a /\ l2st'[a] = "V"
                               /\ respNet'[d][c][i].ver = Len(wtimes'[a])
<1> DEFINE Goal == \/ \E j \in DOMAIN respNet[d][c] : respNet'[d][c][i] = respNet[d][c][j]
                   \/ respNet'[d][c][i].type # "DATA"
                   \/ \E a \in Addrs : /\ respNet'[d][c][i].addr = a /\ l2st'[a] = "V"
                                       /\ respNet'[d][c][i].ver = Len(wtimes'[a])
<1> SUFFICES Goal
  OBVIOUS
<1>1. CASE respNet' = respNet
  BY <1>1
<1>2. ASSUME NEW k \in Cores, NEW b \in Banks, Data(k, b) \/ WriteDone(k, b) PROVE Goal
  <2>1. respNet[b][k] # <<>> /\ respNet' = [respNet EXCEPT ![b][k] = Tail(@)]
    <3>1. CASE Data(k, b)
      BY ZenonT(40), <3>1 DEF Data
    <3>2. CASE WriteDone(k, b)
      BY ZenonT(40), <3>2 DEF WriteDone
    <3> QED BY <1>2, <3>1, <3>2
  <2> QED BY <2>1, PoppedResponses
<1>3. ASSUME NEW k \in Cores, L1Step(k) PROVE Goal
  <2>1. ASSUME LoadHit(k) \/ LoadMiss(k) \/ WriteThrough(k) \/ \E v \in Addrs : L1_Replacement(k, v)
        PROVE  respNet' = respNet
    BY <2>1 DEF LoadHit, LoadMiss, WriteThrough, L1_Replacement, netVars
  <2> QED BY <1>1, <1>2, <1>3, <2>1 DEF L1Step, L1Next
<1>4. ASSUME NEW b \in Banks, L2Step(b) PROVE Goal
  <2>1. CASE GetsMiss(b) \/ AtomicMiss(b) \/ \E v \in Addrs : L2_Replacement(b, v)
    BY <1>1, <2>1 DEF GetsMiss, AtomicMiss, L2_Replacement, netVars
  <2>2. CASE WriteMiss(b)
    <3>1. PICK m \in ResponseMsg : SendResponse(b, m) /\ m.type # "DATA"
      BY <2>2, WriteMissKeeps
    <3> QED BY <3>1, SentResponses
  <2>3. ASSUME NEW t \in {"DATA", "DATA_ATOMIC"}, WriteHit(b, t) PROVE Goal
    <3>1. PICK m \in ResponseMsg : SendResponse(b, m) /\ m.type # "DATA"
      BY <2>3, WriteHitKeeps
    <3> QED BY <3>1, SentResponses
  <2>4. CASE GetsHit(b)
    <3>1. PICK r \in RequestMsg : r = Head(l2in[b]) /\ r.addr \in Addrs /\ r.warp \in Warps
      BY <2>4, RequestHead DEF GetsHit, Request
    <3>2. PICK a \in Addrs : a = r.addr
      BY <3>1
    <3>3. PICK e : /\ l2' = [l2 EXCEPT ![a] = e] /\ l2st[a] = "V" /\ l2st' = l2st
                   /\ SendResponse(b, DataResponse(a, e, r.warp))
      BY <2>4, <3>1, <3>2 DEF GetsHit
    <3>4. e = l2'[a] /\ e \in L2Entry
      <4>1. e = l2'[a]
        BY <3>3 DEF TypeOK, L2TypeOK
      <4>2. l2'[a] \in L2Entry
        BY NextTypes DEF TypeOK, L2TypeOK
      <4> QED BY <4>1, <4>2
    <3>5. PICK m \in ResponseMsg : SendResponse(b, m) /\ m.addr = a /\ m.ver = e.ver
      <4>1. DataResponse(a, e, r.warp) \in ResponseMsg
        BY <3>1, <3>4 DEF DataResponse, ResponseMsg, L2Entry
      <4> QED BY <3>3, <4>1 DEF DataResponse
    <3>6. l2st'[a] = "V" /\ m.ver = Len(wtimes'[a])
      BY <3>3, <3>4, <3>5 DEF WriteInv, LineInv, Newest
    <3> QED BY <3>5, <3>6, SentResponses
  <2> QED BY <1>4, <2>1, <2>2, <2>3, <2>4 DEF L2Step, L2Next
<1>5. ASSUME NEW a \in Addrs, Dram(a) PROVE Goal
  <2>1. CASE MemData(a)
    <3>1. l2st'[a] = "V"
      BY <2>1 DEF MemData, TypeOK, L2TypeOK
    <3>2. l2'[a].ver = Len(wtimes'[a])
      BY <3>1 DEF WriteInv, LineInv, Newest
    <3> QED BY <2>1, <3>1, <3>2, FillResponses
  <2>2. CASE MemDataAtomic(a)
    BY <2>2, AtomicResponses
  <2> QED BY <1>5, <2>1, <2>2 DEF Dram
<1>6. ASSUME \/ \E w \in Warps : Issue(w)
             \/ \E k \in Cores : Writeback(k) \/ WriteAck(k)
             \/ \E k \in Cores, b \in Banks : Network(k, b)
             \/ UNCHANGED vars
      PROVE  respNet' = respNet
  BY <1>6 DEF Issue, send_request, Writeback, next_access, WriteAck, mark_skipped_write_done,
              Network, vars, netVars
<1> HIDE DEF Goal
<1> QED BY <1>1, <1>3, <1>4, <1>5, <1>6 DEF Next, Terminated

\* Where the blocks of the L1s come from.
LEMMA NewBlocks ==
    ASSUME TypeOK, [Next]_vars, NEW c \in Cores, NEW a \in Addrs, line'[c][a].have
    PROVE  \/ line'[c][a] = line[c][a]
           \/ /\ UNCHANGED l2Vars
              /\ \E b \in Banks : \E j \in DOMAIN respNet[b][c] :
                    LET m == respNet[b][c][j] IN
                    /\ m.type = "DATA" /\ m.addr = a
                    /\ line'[c][a].ver = m.ver /\ line'[c][a].rts = m.rts
<1> DEFINE Goal == \/ line'[c][a] = line[c][a]
                   \/ /\ UNCHANGED l2Vars
                      /\ \E b \in Banks : \E j \in DOMAIN respNet[b][c] :
                            LET m == respNet[b][c][j] IN
                            /\ m.type = "DATA" /\ m.addr = a
                            /\ line'[c][a].ver = m.ver /\ line'[c][a].rts = m.rts
<1> SUFFICES Goal
  OBVIOUS
<1>1. CASE line' = line
  BY <1>1
<1>2. ASSUME NEW k \in Cores, L1Step(k) PROVE Goal
  <2>1. CASE LoadHit(k) \/ WriteThrough(k) \/ \E b \in Banks : WriteDone(k, b)
    BY <1>1, <2>1 DEF LoadHit, WriteThrough, WriteDone, l1Vars
  <2>2. CASE LoadMiss(k)
    <3>1. PICK r \in CacheMsg : r = Head(mandQ[k]) /\ r.addr \in Addrs
      BY ZenonT(40), <2>2, MandatoryHead DEF LoadMiss
    <3>2. line' = [line EXCEPT ![k][r.addr] =
                     IF line[k][r.addr].tag THEN line[k][r.addr] ELSE NewLine]
      BY ZenonT(40), <2>2, <3>1 DEF LoadMiss
    <3>3. line'[c][a] = line[c][a]
      BY ZenonT(40), <3>1, <3>2 DEF NewLine, TypeOK, L1TypeOK
    <3> QED BY <3>3
  <2>3. CASE \E v \in Addrs : L1_Replacement(k, v)
    <3>1. line'[c][a] = line[c][a]
      BY <2>3 DEF L1_Replacement, NoLine, TypeOK, L1TypeOK
    <3> QED BY <3>1
  <2>4. ASSUME NEW b \in Banks, Data(k, b) PROVE Goal
    <3>0. respNet[b][k] # <<>> /\ Head(respNet[b][k]).type = "DATA"
      BY ZenonT(40), <2>4 DEF Data
    <3>1. PICK m \in ResponseMsg : m = Head(respNet[b][k]) /\ m.addr \in Addrs
      BY <3>0, ResponseHead
    <3>2. 1 \in DOMAIN respNet[b][k] /\ m = respNet[b][k][1] /\ m.type = "DATA"
      BY <3>0, <3>1, QueueFacts DEF TypeOK, NetTypeOK
    <3>3. line' = [line EXCEPT ![k][m.addr] =
                     [tag |-> line[k][m.addr].tag, rts |-> m.rts, have |-> TRUE, ver |-> m.ver]]
      BY ZenonT(40), <2>4, <3>1 DEF Data
    <3>4. CASE k = c /\ m.addr = a
      <4>1. line'[c][a].rts = m.rts /\ line'[c][a].ver = m.ver
        BY <3>3, <3>4 DEF TypeOK, L1TypeOK
      <4>2. UNCHANGED l2Vars
        BY <1>2 DEF L1Step
      <4> QED BY <3>2, <3>4, <4>1, <4>2
    <3>5. CASE k # c \/ m.addr # a
      <4>1. line'[c][a] = line[c][a]
        BY <3>1, <3>3, <3>5 DEF TypeOK, L1TypeOK
      <4> QED BY <4>1
    <3> QED BY <3>4, <3>5
  <2> HIDE DEF Goal
  <2> QED BY <1>2, <2>1, <2>2, <2>3, <2>4 DEF L1Step, L1Next
<1>3. ASSUME \/ \E w \in Warps : Issue(w)
             \/ \E k \in Cores : Writeback(k) \/ WriteAck(k)
             \/ \E k \in Cores, b \in Banks : Network(k, b)
             \/ \E b \in Banks : L2Step(b)
             \/ \E x \in Addrs : Dram(x)
             \/ UNCHANGED vars
      PROVE  line' = line
  BY <1>3 DEF Issue, Writeback, WriteAck, Network, L2Step, Dram, vars, l1Vars
<1> HIDE DEF Goal
<1> QED BY <1>1, <1>2, <1>3 DEF Next, Terminated

\* Every step keeps the leases in order and, where nothing is evicted, apart
\* from the writes that end them.
LEMMA NextLeasesCovered ==
    TypeOK /\ WriteInv /\ LeaseRespected /\ LeasesCovered /\ [Next]_vars => LeasesCovered'
<1> SUFFICES ASSUME TypeOK, WriteInv, LeaseRespected, LeasesCovered, [Next]_vars PROVE LeasesCovered'
  OBVIOUS
<1>1. TypeOK' /\ WriteInv' /\ LeaseRespected' /\ \A x \in Addrs : KeepsCover(x)
  BY NextTypes, NextWrites, NextLeases, NextCover
<1>2. ASSUME NEW b \in Banks, NEW c \in Cores, NEW j \in DOMAIN respNet[b][c],
             respNet[b][c][j].type = "DATA"
      PROVE  \E m \in ResponseMsg : /\ m = respNet[b][c][j] /\ m.addr \in Addrs
                                    /\ m.ver \in Nat /\ m.rts \in Nat
                                    /\ Covered(m.addr, m.ver, m.rts)
                                    /\ Covered(m.addr, m.ver, m.rts)'
  <2>1. PICK m \in ResponseMsg : m = respNet[b][c][j]
    BY DEF TypeOK, NetTypeOK
  <2>2. m.addr \in Addrs /\ m.ver \in Nat /\ m.rts \in Nat
    BY DEF ResponseMsg
  <2>3. Covered(m.addr, m.ver, m.rts)
    BY <1>2, <2>1 DEF LeasesCovered
  <2>4. Covered(m.addr, m.ver, m.rts)'
    BY <1>1, <2>2, <2>3 DEF KeepsCover
  <2> QED BY <2>1, <2>2, <2>3, <2>4
<1>3. ASSUME NEW c \in Cores, NEW a \in Addrs, line'[c][a].have
      PROVE  Covered(a, line[c][a].ver, line[c][a].rts)'
  <2>1. CASE line'[c][a] = line[c][a]
    <3>1. PICK e \in L1Entry : e = line[c][a] /\ e = line'[c][a] /\ e.ver \in Nat /\ e.rts \in Nat
      BY <2>1 DEF TypeOK, L1TypeOK, L1Entry
    <3>2. Covered(a, e.ver, e.rts)
      BY <1>3, <3>1 DEF LeasesCovered
    <3>3. Covered(a, e.ver, e.rts)'
      BY <1>1, <3>1, <3>2 DEF KeepsCover
    <3> QED BY <3>1, <3>3 DEF Covered, LeaseOK, StrictOK
  <2>2. CASE line'[c][a] # line[c][a]
    <3>1. PICK b \in Banks : \E j \in DOMAIN respNet[b][c] :
             LET m == respNet[b][c][j] IN
             /\ m.type = "DATA" /\ m.addr = a
             /\ line'[c][a].ver = m.ver /\ line'[c][a].rts = m.rts
      BY <1>3, <2>2, NewBlocks
    <3>2. PICK j \in DOMAIN respNet[b][c] :
             LET m == respNet[b][c][j] IN
             /\ m.type = "DATA" /\ m.addr = a
             /\ line'[c][a].ver = m.ver /\ line'[c][a].rts = m.rts
      BY <3>1
    <3>3. PICK m \in ResponseMsg : m = respNet[b][c][j] /\ Covered(m.addr, m.ver, m.rts)'
      BY <1>2, <3>2
    <3> QED BY <3>2, <3>3 DEF Covered, LeaseOK, StrictOK
  <2> QED BY <2>1, <2>2
<1>4. ASSUME NEW b \in Banks, NEW c \in Cores, NEW i \in DOMAIN respNet'[b][c],
             respNet'[b][c][i].type = "DATA"
      PROVE  (Covered(respNet[b][c][i].addr, respNet[b][c][i].ver, respNet[b][c][i].rts))'
  <2>1. CASE \E j \in DOMAIN respNet[b][c] : respNet'[b][c][i] = respNet[b][c][j]
    <3>1. PICK j \in DOMAIN respNet[b][c] : respNet'[b][c][i] = respNet[b][c][j]
      BY <2>1
    <3>2. PICK m \in ResponseMsg : m = respNet[b][c][j] /\ Covered(m.addr, m.ver, m.rts)'
      BY <1>2, <1>4, <3>1
    <3> QED BY <3>1, <3>2 DEF Covered, LeaseOK, StrictOK
  <2>2. CASE ~\E j \in DOMAIN respNet[b][c] : respNet'[b][c][i] = respNet[b][c][j]
    <3>1. PICK a \in Addrs : /\ respNet'[b][c][i].addr = a /\ l2st'[a] = "V"
                             /\ respNet'[b][c][i].ver = Len(wtimes'[a])
      BY <1>1, <1>4, <2>2, NewLeases
    <3>2. (LeaseOK(respNet[b][c][i].addr, respNet[b][c][i].ver, respNet[b][c][i].rts))'
      BY <1>1, <1>4 DEF LeaseRespected
    <3>3. Len(wtimes'[a]) \in Nat
      BY <1>1 DEF TypeOK, L2TypeOK
    <3>4. (StrictOK(respNet[b][c][i].addr, respNet[b][c][i].ver, respNet[b][c][i].rts))'
      BY <3>1, <3>3 DEF StrictOK, Newest
    <3> QED BY <3>2, <3>4 DEF Covered
  <2> QED BY <2>1, <2>2
<1> QED BY <1>3, <1>4 DEF LeasesCovered

\* The leases with their distance from the writes that end them are an
\* invariant.
THEOREM LeasesStayCovered == Spec => []LeasesCovered
<1>1. Init => LeasesCovered
  BY DEF Init, NetInit, L1Init, LeasesCovered, NoLine
<1>2. TypeOK /\ WriteInv /\ LeaseRespected /\ LeasesCovered /\ [Next]_vars => LeasesCovered'
  BY NextLeasesCovered
<1> QED BY <1>1, <1>2, TypeCorrect, WritesInvariant, LeasesRespected, PTL DEF Spec

\* Where the lines fit in the L2, an L1 never holds an old version with a
\* lease that reaches the time of the next write: a clock that has reached
\* that time finds the line expired (tw_updateL2BlockWts, isLive).
THEOREM LeasesStrict == ASSUME LinesFit PROVE Spec => []StrictLease
<1>1. LeasesCovered => StrictLease
  BY DEF LeasesCovered, Covered, StrictOK, StrictLease
<1> QED BY <1>1, LeasesStayCovered, PTL

=============================================================================
