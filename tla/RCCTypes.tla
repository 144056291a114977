------------------------------ MODULE RCCTypes ------------------------------
(***************************************************************************)
(* Type correctness of RCC, for every GPU, every lease and every program.   *)
(***************************************************************************)
EXTENDS RCC, SequenceTheorems, TLAPS

(* The operators the controllers are built from.                            *)

\* getTimeMax is the larger of two times (RubySlicc's getTimeMax).
LEMMA MaxFacts ==
    ASSUME NEW s \in Nat, NEW t \in Nat
    PROVE  /\ getTimeMax(s, t) \in Nat
           /\ getTimeMax(s, t) >= s
           /\ getTimeMax(s, t) >= t
BY DEF getTimeMax

\* The head of a non-empty queue is one of its messages, the rest is a queue.
LEMMA QueueFacts ==
    ASSUME NEW S, NEW q \in Seq(S), q # <<>>
    PROVE  /\ Head(q) \in S
           /\ Tail(q) \in Seq(S)
           /\ 1 \in DOMAIN q
           /\ Head(q) = q[1]
BY EmptySeq, HeadTailProperties

\* The messages the L1 sends are RequestMsgs (a_issueGETS, d2t).
LEMMA L1MessageTypes ==
    ASSUME TypeOK, NEW c \in Cores, NEW r \in CacheMsg, NEW e \in L1Entry
    PROVE  /\ a_issueGETS(c, r, e) \in RequestMsg
           /\ d2t_sendToL2(c, r) \in RequestMsg
<1>1. /\ r.addr \in Addrs
      /\ r.warp \in Warps
      /\ pts[c] \in Nat
      /\ e.rts \in Nat
      /\ e.have \in BOOLEAN
  BY DEF TypeOK, L1TypeOK, CacheMsg, L1Entry
<1>2. (e.have /\ pts[c] > e.rts) \in BOOLEAN
  OBVIOUS
<1> QED BY <1>1, <1>2 DEF a_issueGETS, d2t_sendToL2, RequestMsg

\* The messages the L2 sends are ResponseMsgs (ds, dst, wa, wat).
LEMMA L2MessageTypes ==
    ASSUME NEW a \in Addrs, NEW e \in L2Entry, NEW w \in Warps,
           NEW time \in Nat, NEW v \in Nat
    PROVE  /\ DataResponse(a, e, w) \in ResponseMsg
           /\ WriteResponse("ACK", a, w, time, v) \in ResponseMsg
           /\ WriteResponse("DATA_ATOMIC", a, w, time, v) \in ResponseMsg
BY DEF DataResponse, WriteResponse, ResponseMsg, L2Entry

\* The timestamp rules of the L2 yield times, and what they bound: a write hit
\* comes after every lease (tw) and a read only extends the lease (tr, trt).
LEMMA RtsFacts ==
    ASSUME NEW e \in L2Entry
    PROVE  \A r \in RequestMsg :
              /\ tr_updateL2BlockRts(e, r) \in Nat
              /\ tr_updateL2BlockRts(e, r) >= e.rts
              /\ tw_updateL2BlockWts(e, r) \in Nat
              /\ tw_updateL2BlockWts(e, r) >= e.rts + 1
              /\ tw_updateL2BlockWts(e, r) >= e.wts
<1>1. e.rts \in Nat /\ e.wts \in Nat /\ Lease \in Nat
  BY LeaseAssumption DEF L2Entry
<1>2. \A r \in RequestMsg : r.pts \in Nat
  BY DEF RequestMsg
<1> QED BY <1>1, <1>2 DEF tr_updateL2BlockRts, tw_updateL2BlockWts, getTimeMax

\* A fill only extends the lease (trt).
LEMMA TrtFacts ==
    ASSUME NEW e \in L2Entry, NEW t \in L2TBE
    PROVE  /\ trt_updateL2BlockRts(e, t) \in Nat
           /\ trt_updateL2BlockRts(e, t) >= e.rts
<1>1. e.rts \in Nat /\ e.wts \in Nat /\ t.delta \in Nat /\ t.max_read_pts \in Nat
  BY DEF L2Entry, L2TBE
<1> QED BY <1>1 DEF trt_updateL2BlockRts, getTimeMax

\* A write miss and an eviction respect the bank's mts (wat, mt, setmts).
LEMMA MtsFacts ==
    ASSUME NEW m \in Nat
    PROVE  /\ \A t \in L2TBE : MissWts(t, m) \in Nat /\ MissWts(t, m) >= m
           /\ \A e \in L2Entry : /\ setmts_setMts(m, e) \in Nat
                                  /\ setmts_setMts(m, e) >= m
                                  /\ setmts_setMts(m, e) >= e.rts
                                  /\ setmts_setMts(m, e) >= e.wts
<1>1. \A t \in L2TBE : t.max_write_pts \in Nat
  BY DEF L2TBE
<1>2. \A e \in L2Entry : e.rts \in Nat /\ e.wts \in Nat
  BY DEF L2Entry
<1> QED BY <1>1, <1>2 DEF MissWts, setmts_setMts, getTimeMax

\* The fill takes the bank's mts as rts; its wts is at least mts.
LEMMA FillFacts ==
    ASSUME TypeOK, NEW a \in Addrs
    PROVE  /\ FilledEntry(a) \in L2Entry
           /\ FilledEntry(a).rts = mts[BankOf[a]]
<1>1. mts[BankOf[a]] \in Nat /\ l2tbe[a] \in L2TBE /\ dram[a] \in Nat
  BY BankOfAssumption DEF TypeOK, L2TypeOK
<1>2. MissWts(l2tbe[a], mts[BankOf[a]]) \in Nat
  BY <1>1, MaxFacts DEF MissWts, L2TBE
<1> QED BY <1>1, <1>2 DEF FilledEntry, L2Entry, L2TBE

\* The head of the mandatory queue is a request of a warp.
LEMMA MandatoryHead ==
    ASSUME TypeOK, NEW c \in Cores, mandQ[c] # <<>>
    PROVE  /\ Head(mandQ[c]) \in CacheMsg
           /\ Head(mandQ[c]).addr \in Addrs
           /\ Tail(mandQ[c]) \in Seq(CacheMsg)
<1>1. Head(mandQ[c]) \in CacheMsg /\ Tail(mandQ[c]) \in Seq(CacheMsg)
  BY QueueFacts DEF TypeOK, NetTypeOK
<1> QED BY <1>1 DEF CacheMsg

\* The head of a bank's queue is a request of an L1.
LEMMA RequestHead ==
    ASSUME TypeOK, NEW b \in Banks, l2in[b] # <<>>
    PROVE  /\ Head(l2in[b]) \in RequestMsg
           /\ Head(l2in[b]).addr \in Addrs
           /\ Head(l2in[b]).warp \in Warps
           /\ Head(l2in[b]).pts \in Nat
           /\ Tail(l2in[b]) \in Seq(RequestMsg)
<1>1. Head(l2in[b]) \in RequestMsg /\ Tail(l2in[b]) \in Seq(RequestMsg)
  BY QueueFacts DEF TypeOK, NetTypeOK
<1> QED BY <1>1 DEF RequestMsg

\* The head of a response network is a response of a bank.
LEMMA ResponseHead ==
    ASSUME TypeOK, NEW b \in Banks, NEW c \in Cores, respNet[b][c] # <<>>
    PROVE  /\ Head(respNet[b][c]) \in ResponseMsg
           /\ Head(respNet[b][c]).addr \in Addrs
           /\ Head(respNet[b][c]).warp \in Warps
           /\ Head(respNet[b][c]).wts \in Nat
           /\ Head(respNet[b][c]).rts \in Nat
           /\ Head(respNet[b][c]).ver \in Nat
           /\ Tail(respNet[b][c]) \in Seq(ResponseMsg)
<1>1. Head(respNet[b][c]) \in ResponseMsg /\ Tail(respNet[b][c]) \in Seq(ResponseMsg)
  BY QueueFacts DEF TypeOK, NetTypeOK
<1> QED BY <1>1 DEF ResponseMsg

-----------------------------------------------------------------------------
(* One lemma per action.                                                    *)

\* A read that is popped is a warp's, and the entry keeps its type (next_access).
LEMMA EntryTypes ==
    ASSUME NEW m \in MSHREntry, m.list # <<>>
    PROVE  /\ PopRead(m) \in MSHREntry
           /\ Head(m.list) \in Warps
<1>1. m.list \in Seq(Warps) /\ m.ver \in Nat
  BY DEF MSHREntry
<1>2. Tail(m.list) \in Seq(Warps) /\ Head(m.list) \in Warps
  BY <1>1, QueueFacts
<1> QED BY <1>1, <1>2 DEF PopRead, MSHREntry

\* What send_request and the callbacks do to an entry keeps its type.
LEMMA AddTypes ==
    ASSUME NEW m \in MSHREntry
    PROVE  /\ \A w \in Warps : add(m, "LD", w) \in MSHREntry
           /\ \A w \in Warps : add(m, "ST", w) \in MSHREntry
           /\ \A w \in Warps : add(m, "ATOMIC", w) \in MSHREntry
           /\ \A v \in Nat : [m EXCEPT !.ver = v] \in MSHREntry
           /\ \A w \in Warps : PopWrite(m, w) \in MSHREntry
<1>1. m.list \in Seq(Warps) /\ m.writes \in SUBSET Warps
  BY DEF MSHREntry
<1>2. \A w \in Warps : Append(m.list, w) \in Seq(Warps)
  BY <1>1
<1> QED BY <1>1, <1>2 DEF add, PopWrite, MSHREntry

\* A warp's request goes into the MSHR table and, unless it is merged, into
\* the mandatory queue (Issue).
LEMMA IssueTypes ==
    ASSUME TypeOK, NEW w \in Warps, Issue(w)
    PROVE  TypeOK'
<1> DEFINE i == Len(log[w]) + 1
<1>1. log[w] \in Seq(LogEntry) /\ i \in 1..Len(Prog[w])
  BY ProgAssumption DEF TypeOK, MSHRTypeOK, Issue
<1>2. PICK p \in Prog[w][i] : send_request(w, p[1], p[2])
  BY DEF Issue
<1>3. p[1] \in {"LD", "ST", "ATOMIC"} /\ p[2] \in Addrs
  <2>1. Prog[w][i] \in SUBSET ({"LD", "ST", "ATOMIC"} \X Addrs)
    BY <1>1, ProgAssumption
  <2> QED BY <2>1
<1> DEFINE op == p[1]
           a == p[2]
           c == CoreOf[w]
<1>4. c \in Cores
  BY CoreOfAssumption
<1>5. MSHRTypeOK'
  <2>1. n_gmem' \in [Warps -> Int]
    BY <1>2 DEF send_request, TypeOK, MSHRTypeOK
  <2>2. add(mshr[c][a], op, w) \in MSHREntry
    BY <1>3, <1>4, AddTypes DEF TypeOK, MSHRTypeOK
  <2>3. mshr' = [mshr EXCEPT ![c][a] = add(@, op, w)]
    BY <1>2 DEF send_request
  <2>4. mshr' \in [Cores -> [Addrs -> MSHREntry]]
    BY <1>3, <1>4, <2>2, <2>3 DEF TypeOK, MSHRTypeOK
  <2> QED BY <1>2, <2>1, <2>4 DEF send_request, TypeOK, MSHRTypeOK
<1>6. NetTypeOK'
  <2>1. [op |-> op, addr |-> a, warp |-> w] \in CacheMsg
    BY <1>3 DEF CacheMsg
  <2>2. mandQ' \in [Cores -> Seq(CacheMsg)]
    BY <1>2, <1>4, <2>1 DEF send_request, makeRequest, TypeOK, NetTypeOK
  <2> QED BY <1>2, <2>2 DEF send_request, TypeOK, NetTypeOK
<1> QED BY <1>5, <1>6 DEF Issue, TypeOK, L1TypeOK, L2TypeOK, l1Vars, l2Vars

\* The writeback stage pops a read (next_access).
LEMMA WritebackTypes ==
    ASSUME TypeOK, NEW c \in Cores, Writeback(c)
    PROVE  TypeOK'
<1>1. PICK a \in Addrs : a = Head(ready[c]) /\ Tail(ready[c]) \in Seq(Addrs)
  BY QueueFacts DEF Writeback, next_access, TypeOK, MSHRTypeOK
<1>2. PICK m \in MSHREntry : m = mshr[c][a]
  BY DEF TypeOK, MSHRTypeOK
<1>3. m.list # <<>> /\ m.ver \in Nat
  BY <1>1, <1>2 DEF Writeback, next_access, MSHREntry
<1>4. PICK w \in Warps : w = Head(m.list)
  BY <1>3, EntryTypes
<1> DEFINE l == [op |-> "LD", addr |-> a, ver |-> m.ver]
<1>5. l \in LogEntry
  BY <1>3 DEF LogEntry
<1>6. PopRead(m) \in MSHREntry /\ PopResponse(c, m) \in Seq(Addrs)
  BY SMTT(30), <1>1, <1>3, EntryTypes DEF PopResponse, TypeOK, MSHRTypeOK
<1>7. /\ mshr' = [mshr EXCEPT ![c][a] = PopRead(m)]
      /\ n_gmem' = [n_gmem EXCEPT ![w] = @ - 1]
      /\ log' = [log EXCEPT ![w] = Append(@, l)]
      /\ ready' = [ready EXCEPT ![c] = PopResponse(c, m)]
      /\ UNCHANGED <<netVars, skipL1, l1Vars, l2Vars>>
  BY ZenonT(40), <1>1, <1>2, <1>4 DEF Writeback, next_access, Complete
<1>8. MSHRTypeOK'
  <2> HIDE DEF l
  <2>1. n_gmem' \in [Warps -> Int]
    BY <1>7 DEF TypeOK, MSHRTypeOK
  <2>2. log' \in [Warps -> Seq(LogEntry)]
    <3>1. Append(log[w], l) \in Seq(LogEntry) /\ log \in [Warps -> Seq(LogEntry)]
      BY <1>5 DEF TypeOK, MSHRTypeOK
    <3> QED BY <1>7, <3>1
  <2>3. mshr' \in [Cores -> [Addrs -> MSHREntry]]
    BY <1>6, <1>7 DEF TypeOK, MSHRTypeOK
  <2>4. ready' \in [Cores -> Seq(Addrs)]
    BY <1>6, <1>7 DEF TypeOK, MSHRTypeOK
  <2> QED BY <1>7, <2>1, <2>2, <2>3, <2>4 DEF TypeOK, MSHRTypeOK
<1> QED BY <1>7, <1>8 DEF TypeOK, NetTypeOK, L1TypeOK, L2TypeOK, netVars, l1Vars, l2Vars

\* The writeback stage takes an acknowledgement (mark_skipped_write_done).
LEMMA WriteAckTypes ==
    ASSUME TypeOK, NEW c \in Cores, WriteAck(c)
    PROVE  TypeOK'
<1>1. PICK k \in SkipL1Request : k = Head(skipL1[c]) /\ Tail(skipL1[c]) \in Seq(SkipL1Request)
  BY QueueFacts DEF WriteAck, mark_skipped_write_done, TypeOK, MSHRTypeOK
<1>2. k.warp \in Warps /\ k.addr \in Addrs /\ k.ver \in Nat /\ k.op \in {"LD", "ST", "ATOMIC"}
  BY DEF SkipL1Request
<1> DEFINE l == [op |-> k.op, addr |-> k.addr, ver |-> k.ver]
<1>3. l \in LogEntry
  BY <1>2 DEF LogEntry
<1>4. PopWrite(mshr[c][k.addr], k.warp) \in MSHREntry
  BY <1>2, AddTypes DEF TypeOK, MSHRTypeOK
<1>5. /\ mshr' = [mshr EXCEPT ![c][k.addr] = PopWrite(@, k.warp)]
      /\ n_gmem' = [n_gmem EXCEPT ![k.warp] = @ - 1]
      /\ log' = [log EXCEPT ![k.warp] = Append(@, l)]
      /\ skipL1' = [skipL1 EXCEPT ![c] = Tail(@)]
      /\ UNCHANGED <<netVars, ready, l1Vars, l2Vars>>
  BY <1>1 DEF WriteAck, mark_skipped_write_done, Complete
<1>6. MSHRTypeOK'
  <2> HIDE DEF l
  <2> QED BY <1>1, <1>2, <1>3, <1>4, <1>5 DEF TypeOK, MSHRTypeOK
<1> QED BY <1>5, <1>6 DEF TypeOK, NetTypeOK, L1TypeOK, L2TypeOK, netVars, l1Vars, l2Vars

\* A message moves from an L1's network to a bank's queue (Deliver).
LEMMA NetworkTypes ==
    ASSUME TypeOK, NEW c \in Cores, NEW b \in Banks, Network(c, b)
    PROVE  TypeOK'
<1>1. Head(reqNet[c][b]) \in RequestMsg /\ Tail(reqNet[c][b]) \in Seq(RequestMsg)
  BY QueueFacts DEF Network, Deliver, TypeOK, NetTypeOK
<1>2. NetTypeOK'
  BY <1>1 DEF Network, Deliver, TypeOK, NetTypeOK
<1> QED BY <1>2 DEF Network, TypeOK, MSHRTypeOK, L1TypeOK, L2TypeOK, coreVars, l1Vars, l2Vars

\* Where the L1 pops its mandatory queue and sends a request to the L2.
LEMMA SendTypes ==
    ASSUME TypeOK, NEW c \in Cores, NEW m \in RequestMsg, mandQ[c] # <<>>,
           SendRequest(c, m), mandQ' = [mandQ EXCEPT ![c] = Tail(@)],
           UNCHANGED <<l2in, respNet>>
    PROVE  NetTypeOK'
<1>1. BankOf[m.addr] \in Banks
  BY BankOfAssumption DEF RequestMsg
<1>2. Tail(mandQ[c]) \in Seq(CacheMsg)
  BY QueueFacts DEF TypeOK, NetTypeOK
<1>3. reqNet' \in [Cores -> [Banks -> Seq(RequestMsg)]]
  BY <1>1 DEF SendRequest, TypeOK, NetTypeOK
<1> QED BY <1>2, <1>3 DEF TypeOK, NetTypeOK

\* A read callback adds a line to the ready queue (readCallback).
LEMMA ReadCallbackTypes ==
    ASSUME TypeOK, NEW c \in Cores, NEW a \in Addrs, NEW v \in Nat, readCallback(c, a, v)
    PROVE  MSHRTypeOK'
<1>1. [mshr[c][a] EXCEPT !.ver = v] \in MSHREntry
  BY AddTypes DEF TypeOK, MSHRTypeOK
<1>2. mshr' \in [Cores -> [Addrs -> MSHREntry]]
  BY <1>1 DEF readCallback, TypeOK, MSHRTypeOK
<1> QED BY <1>2 DEF readCallback, TypeOK, MSHRTypeOK

\* A load that hits marks its line ready (h_load_hit) and keeps every type.
LEMMA LoadHitTypes ==
    ASSUME TypeOK, NEW c \in Cores, LoadHit(c), UNCHANGED l2Vars
    PROVE  TypeOK'
<1> DEFINE r == Head(mandQ[c])
<1>1. r \in CacheMsg /\ r.addr \in Addrs /\ Tail(mandQ[c]) \in Seq(CacheMsg)
  BY MandatoryHead DEF LoadHit
<1>2. line[c][r.addr].ver \in Nat
  BY <1>1 DEF TypeOK, L1TypeOK, L1Entry
<1>3. MSHRTypeOK'
  BY <1>1, <1>2, ReadCallbackTypes DEF LoadHit
<1>4. NetTypeOK'
  BY <1>1 DEF LoadHit, TypeOK, NetTypeOK
<1> QED BY <1>3, <1>4 DEF LoadHit, TypeOK, L1TypeOK, L2TypeOK, l1Vars, l2Vars

\* A load that misses allocates a line and a TBE and sends a well-formed GETS
\* (a_issueGETS, i_allocateTBE).
LEMMA LoadMissTypes ==
    ASSUME TypeOK, NEW c \in Cores, LoadMiss(c), UNCHANGED l2Vars
    PROVE  TypeOK'
<1> DEFINE r == Head(mandQ[c])
           a == r.addr
           e == IF line[c][a].tag THEN line[c][a] ELSE NewLine
           s == getState(c, a)
           t == IF s = "I" THEN [NoTBE EXCEPT !.reads = 1]
                           ELSE [tbe[c][a] EXCEPT !.reads = tbe[c][a].reads + 1]
<1>1. r \in CacheMsg /\ a \in Addrs
  BY MandatoryHead DEF LoadMiss
<1>2. e \in L1Entry
  BY <1>1 DEF TypeOK, L1TypeOK, L1Entry, NewLine
<1>3. t \in L1TBE
  BY SMTT(30), <1>1 DEF TypeOK, L1TypeOK, L1TBE, NoTBE
<1>4. NetTypeOK'
  <2>1. a_issueGETS(c, r, e) \in RequestMsg
    BY SMTT(30), <1>1, <1>2, L1MessageTypes
  <2> QED BY ZenonT(40), <2>1, SendTypes DEF LoadMiss
<1>5. /\ line' = [line EXCEPT ![c][a] = e]
      /\ tbe' = [tbe EXCEPT ![c][a] = t]
      /\ st' = [st EXCEPT ![c][a] = IF s = "I" THEN "I_S" ELSE "I_I"]
      /\ UNCHANGED <<pts, coreVars>>
  BY DEF LoadMiss
<1>6. L1TypeOK'
  <2> HIDE DEF e, t, s, a
  <2> QED BY <1>1, <1>2, <1>3, <1>5 DEF TypeOK, L1TypeOK, L1State
<1> QED BY SMTT(30), <1>4, <1>5, <1>6 DEF TypeOK, MSHRTypeOK, L2TypeOK, coreVars, l2Vars

\* A store or atomic counts itself in the TBE and sends a well-formed write
\* (d2t, pw_incPendingWrite).
LEMMA WriteThroughTypes ==
    ASSUME TypeOK, NEW c \in Cores, WriteThrough(c), UNCHANGED l2Vars
    PROVE  TypeOK'
<1> DEFINE r == Head(mandQ[c])
           a == r.addr
           s == getState(c, a)
           t == TBEForWrite(c, a, s)
<1>1. r \in CacheMsg /\ a \in Addrs
  BY MandatoryHead DEF WriteThrough
<1>2. t \in L1TBE
  <2>1. line[c][a].rts \in Nat
    BY <1>1 DEF TypeOK, L1TypeOK, L1Entry
  <2>2. tbe[c][a] \in L1TBE
    BY <1>1 DEF TypeOK, L1TypeOK
  <2>3. [tbe[c][a] EXCEPT !.writes = tbe[c][a].writes + 1] \in L1TBE
    BY <2>2 DEF L1TBE
  <2>4. [rts |-> IF s = "S" THEN line[c][a].rts ELSE 0, reads |-> 0, writes |-> 1] \in L1TBE
    BY <2>1 DEF L1TBE
  <2> QED BY <2>3, <2>4 DEF TBEForWrite
<1>3. NetTypeOK'
  <2>1. d2t_sendToL2(c, r) \in RequestMsg
    <3>1. NewLine \in L1Entry
      BY DEF NewLine, L1Entry
    <3> QED BY <1>1, <3>1, L1MessageTypes
  <2> QED BY <2>1, SendTypes DEF WriteThrough
<1>4. /\ tbe' = [tbe EXCEPT ![c][a] = t]
      /\ st' = [st EXCEPT ![c][a] = IF s \in {"S", "SM"} THEN "SM" ELSE "I_I"]
      /\ UNCHANGED <<pts, line, coreVars>>
  BY DEF WriteThrough
<1>5. L1TypeOK'
  <2> HIDE DEF t, s, a
  <2> QED BY <1>1, <1>2, <1>4 DEF TypeOK, L1TypeOK, L1State
<1> QED BY <1>3, <1>4, <1>5 DEF TypeOK, MSHRTypeOK, L2TypeOK, coreVars, l2Vars

\* Dropping a line keeps every type (ff_deallocateL1CacheBlock).
LEMMA L1_ReplacementTypes ==
    ASSUME TypeOK, NEW c \in Cores, NEW v \in Addrs, L1_Replacement(c, v), UNCHANGED l2Vars
    PROVE  TypeOK'
<1>1. NoLine \in L1Entry
  BY DEF NoLine, L1Entry
<1>2. L1TypeOK'
  BY <1>1 DEF L1_Replacement, TypeOK, L1TypeOK, L1State
<1> QED BY SMTT(30), <1>2 DEF L1_Replacement, TypeOK, NetTypeOK, MSHRTypeOK, L2TypeOK,
                    netVars, coreVars, l2Vars

\* Data gives the line its lease and moves the clock within the naturals (tr,
\* tp, pr_decPendingRead).
LEMMA DataTypes ==
    ASSUME TypeOK, NEW c \in Cores, NEW b \in Banks, Data(c, b), UNCHANGED l2Vars
    PROVE  TypeOK'
<1> DEFINE m == Head(respNet[b][c])
           a == m.addr
           t == tbe[c][a]
           done == Done(t, m)
           e == [tag |-> line[c][a].tag, rts |-> m.rts, have |-> TRUE, ver |-> m.ver]
           u == IF done THEN NoTBE ELSE [t EXCEPT !.rts = m.rts, !.reads = t.reads - 1]
<1>0. respNet[b][c] # <<>>
  BY ZenonT(40) DEF Data
<1>1. /\ a \in Addrs /\ m.wts \in Nat /\ m.rts \in Nat /\ m.ver \in Nat
      /\ Tail(respNet[b][c]) \in Seq(ResponseMsg)
  BY <1>0, ResponseHead
<1>2. e \in L1Entry
  BY <1>1 DEF TypeOK, L1TypeOK, L1Entry
<1>3. u \in L1TBE
  <2>1. t \in L1TBE
    BY SMTT(30), <1>1 DEF TypeOK, L1TypeOK
  <2>2. [t EXCEPT !.rts = m.rts, !.reads = t.reads - 1] \in L1TBE
    <3>1. t.reads - 1 \in Int
      BY <2>1 DEF L1TBE
    <3>2. \A x \in L1TBE, n \in Nat, i \in Int : [x EXCEPT !.rts = n, !.reads = i] \in L1TBE
      BY DEF L1TBE
    <3> QED BY <1>1, <2>1, <3>1, <3>2
  <2>3. NoTBE \in L1TBE
    BY DEF L1TBE, NoTBE
  <2> HIDE DEF done
  <2> QED BY <2>2, <2>3
<1>4. tp_updateProcessorTimestamp(c, m) \in Nat
  BY <1>1, MaxFacts DEF tp_updateProcessorTimestamp, TypeOK, L1TypeOK
<1>5. /\ line' = [line EXCEPT ![c][a] = e]
      /\ tbe' = [tbe EXCEPT ![c][a] = u]
      /\ st' = [st EXCEPT ![c][a] = IF done THEN "S" ELSE "SM"]
      /\ pts' = [pts EXCEPT ![c] = tp_updateProcessorTimestamp(c, m)]
      /\ respNet' = [respNet EXCEPT ![b][c] = Tail(@)]
      /\ UNCHANGED <<mandQ, reqNet, l2in>>
      /\ readCallback(c, a, m.ver)
  BY DEF Data
<1>6. MSHRTypeOK'
  BY ZenonT(30), <1>1, <1>5, ReadCallbackTypes
<1>7. NetTypeOK'
  BY <1>1, <1>5 DEF TypeOK, NetTypeOK
<1>8. L1TypeOK'
  <2> HIDE DEF e, u, done, a
  <2> QED BY SMTT(30), <1>1, <1>2, <1>3, <1>4, <1>5 DEF TypeOK, L1TypeOK, L1State
<1> QED BY <1>6, <1>7, <1>8 DEF TypeOK, L2TypeOK, l2Vars

\* An acknowledgement moves the clock and is queued for the core (tp,
\* hh_store_hit, pw_decPendingWrite).
LEMMA WriteDoneTypes ==
    ASSUME TypeOK, NEW c \in Cores, NEW b \in Banks, WriteDone(c, b), UNCHANGED l2Vars
    PROVE  TypeOK'
<1> DEFINE m == Head(respNet[b][c])
           a == m.addr
           t == tbe[c][a]
           done == Done(t, m)
           u == IF done THEN NoTBE ELSE [t EXCEPT !.writes = t.writes - 1]
           op == IF m.type = "ACK" THEN "ST" ELSE "ATOMIC"
<1>0. respNet[b][c] # <<>>
  BY ZenonT(40) DEF WriteDone
<1>1. /\ a \in Addrs /\ m.warp \in Warps /\ m.wts \in Nat /\ m.ver \in Nat
      /\ Tail(respNet[b][c]) \in Seq(ResponseMsg)
  BY <1>0, ResponseHead
<1>2. u \in L1TBE
  <2>1. t \in L1TBE
    BY <1>1 DEF TypeOK, L1TypeOK
  <2> QED BY SMTT(60), <2>1 DEF L1TBE, NoTBE
<1>3. tp_updateProcessorTimestamp(c, m) \in Nat
  BY ZenonT(40), <1>1, MaxFacts DEF tp_updateProcessorTimestamp, TypeOK, L1TypeOK
<1>4. /\ tbe' = [tbe EXCEPT ![c][a] = u]
      /\ st' = [st EXCEPT ![c][a] = IF done THEN "I" ELSE "I_I"]
      /\ pts' = [pts EXCEPT ![c] = tp_updateProcessorTimestamp(c, m)]
      /\ respNet' = [respNet EXCEPT ![b][c] = Tail(@)]
      /\ UNCHANGED <<mandQ, reqNet, l2in, line>>
      /\ writeCallback(c, m.warp, op, a, m.ver)
  BY ZenonT(40) DEF WriteDone
<1>5. MSHRTypeOK'
  <2> DEFINE k == [op |-> op, addr |-> a, warp |-> m.warp, ver |-> m.ver]
  <2>1. k \in SkipL1Request
    BY SMTT(30), <1>1 DEF SkipL1Request
  <2>2. /\ skipL1' = [skipL1 EXCEPT ![c] = Append(@, k)]
        /\ UNCHANGED <<n_gmem, mshr, ready, log>>
    BY ZenonT(30), <1>4 DEF writeCallback
  <2> HIDE DEF k, a
  <2> QED BY <2>1, <2>2 DEF TypeOK, MSHRTypeOK
<1>6. NetTypeOK'
  BY <1>1, <1>4 DEF TypeOK, NetTypeOK
<1>7. L1TypeOK'
  <2> HIDE DEF u, done, a
  <2> QED BY <1>1, <1>2, <1>3, <1>4 DEF TypeOK, L1TypeOK, L1State
<1> QED BY <1>5, <1>6, <1>7 DEF TypeOK, L2TypeOK, l2Vars

\* A bank pops its request queue and answers one warp.
LEMMA AnswerTypes ==
    ASSUME TypeOK, NEW b \in Banks, l2in[b] # <<>>, PopRequest(b),
           NEW m \in ResponseMsg, SendResponse(b, m)
    PROVE  NetTypeOK'
<1>1. CoreOf[m.warp] \in Cores
  BY CoreOfAssumption DEF ResponseMsg
<1>2. Tail(l2in[b]) \in Seq(RequestMsg)
  BY RequestHead
<1>3. respNet' \in [Banks -> [Cores -> Seq(ResponseMsg)]]
  BY <1>1 DEF SendResponse, TypeOK, NetTypeOK
<1> QED BY <1>2, <1>3 DEF PopRequest, TypeOK, NetTypeOK

\* The TBE of a line that is fetched keeps its type (i_, il_allocateTBE).
LEMMA TBETypes ==
    ASSUME TypeOK, NEW r \in RequestMsg
    PROVE  TBEForGETS(r) \in L2TBE /\ TBEForWriteMiss(r) \in L2TBE
<1>1. r.addr \in Addrs /\ r.warp \in Warps /\ r.pts \in Nat /\ l2tbe[r.addr] \in L2TBE
  BY DEF RequestMsg, TypeOK, L2TypeOK
<1> DEFINE t == l2tbe[r.addr]
<1>2. /\ getTimeMax(r.pts, t.max_read_pts) \in Nat
      /\ getTimeMax(r.pts, t.max_write_pts) \in Nat
  BY <1>1, MaxFacts DEF L2TBE
<1>3. t.gets \cup {r.warp} \in SUBSET Warps
  BY <1>1 DEF L2TBE
<1> HIDE DEF t
<1>4. /\ [t EXCEPT !.max_read_pts = getTimeMax(r.pts, t.max_read_pts),
                   !.gets = t.gets \cup {r.warp}] \in L2TBE
      /\ [t EXCEPT !.max_write_pts = getTimeMax(r.pts, t.max_write_pts),
                   !.dirty = TRUE, !.wback = {r.warp}] \in L2TBE
  BY <1>1, <1>2, <1>3 DEF t, L2TBE
<1>5. /\ [NoL2TBE EXCEPT !.delta = Lease, !.max_read_pts = r.pts, !.gets = {r.warp}] \in L2TBE
      /\ [NoL2TBE EXCEPT !.max_write_pts = r.pts, !.dirty = TRUE, !.wback = {r.warp}] \in L2TBE
  BY <1>1, LeaseAssumption DEF NoL2TBE, L2TBE
<1> QED BY <1>4, <1>5 DEF TBEForGETS, TBEForWriteMiss, t

\* NP, IV: L1_GETS
LEMMA GetsMissTypes ==
    ASSUME TypeOK, NEW b \in Banks, GetsMiss(b), UNCHANGED <<coreVars, l1Vars>>
    PROVE  TypeOK'
<1> DEFINE r == Head(l2in[b])
<1>1. r \in RequestMsg /\ r.addr \in Addrs /\ Tail(l2in[b]) \in Seq(RequestMsg)
  BY RequestHead DEF GetsMiss, Request
<1>2. TBEForGETS(r) \in L2TBE
  BY <1>1, TBETypes
<1>3. NetTypeOK'
  BY <1>1 DEF GetsMiss, PopRequest, TypeOK, NetTypeOK
<1>4. L2TypeOK'
  BY <1>1, <1>2 DEF GetsMiss, TypeOK, L2TypeOK
<1> QED BY <1>3, <1>4 DEF TypeOK, MSHRTypeOK, L1TypeOK, coreVars, l1Vars

\* NP: L2_Atomic
LEMMA AtomicMissTypes ==
    ASSUME TypeOK, NEW b \in Banks, AtomicMiss(b), UNCHANGED <<coreVars, l1Vars>>
    PROVE  TypeOK'
<1> DEFINE r == Head(l2in[b])
<1>1. r \in RequestMsg /\ r.addr \in Addrs /\ Tail(l2in[b]) \in Seq(RequestMsg)
  BY RequestHead DEF AtomicMiss, Request
<1>2. TBEForWriteMiss(r) \in L2TBE
  BY <1>1, TBETypes
<1>3. NetTypeOK'
  BY <1>1 DEF AtomicMiss, PopRequest, TypeOK, NetTypeOK
<1>4. L2TypeOK'
  BY <1>1, <1>2 DEF AtomicMiss, TypeOK, L2TypeOK
<1> QED BY <1>3, <1>4 DEF TypeOK, MSHRTypeOK, L1TypeOK, coreVars, l1Vars

\* NP, IV: L1_Write
LEMMA WriteMissTypes ==
    ASSUME TypeOK, NEW b \in Banks, WriteMiss(b), UNCHANGED <<coreVars, l1Vars>>
    PROVE  TypeOK'
<1> DEFINE r == Head(l2in[b])
           a == r.addr
           t == TBEForWriteMiss(r)
           v == Newest(a) + 1
           time == MissWts(t, mts[b])
           u == [t EXCEPT !.ver = v]
<1>1. /\ r \in RequestMsg /\ a \in Addrs /\ r.warp \in Warps
      /\ Tail(l2in[b]) \in Seq(RequestMsg) /\ l2in[b] # <<>>
  BY RequestHead DEF WriteMiss, Request
<1>2. v \in Nat
  BY <1>1 DEF Newest, TypeOK, L2TypeOK
<1>3. t \in L2TBE
  BY <1>1, TBETypes
<1>4. time \in Nat
  BY <1>3, MaxFacts DEF MissWts, L2TBE, TypeOK, L2TypeOK
<1>5. u \in L2TBE
  <2> HIDE DEF t, v
  <2> QED BY <1>2, <1>3 DEF L2TBE
<1>6. /\ l2tbe' = [l2tbe EXCEPT ![a] = u]
      /\ l2st' = [l2st EXCEPT ![a] = "IV"]
      /\ wtimes' = [wtimes EXCEPT ![a] = Append(@, time)]
      /\ SendResponse(b, WriteResponse("ACK", a, r.warp, time, v))
      /\ PopRequest(b)
      /\ UNCHANGED <<l2, mts, dram>>
  BY DEF WriteMiss
<1> HIDE DEF u, time, v, a
<1>7. NetTypeOK'
  <2>1. WriteResponse("ACK", a, r.warp, time, v) \in ResponseMsg
    BY <1>1, <1>2, <1>4 DEF WriteResponse, ResponseMsg
  <2> QED BY <1>1, <1>6, <2>1, AnswerTypes
<1>8. L2TypeOK'
  BY <1>1, <1>4, <1>5, <1>6 DEF TypeOK, L2TypeOK
<1> QED BY <1>7, <1>8 DEF TypeOK, MSHRTypeOK, L1TypeOK, coreVars, l1Vars

\* V: L1_GETS
LEMMA GetsHitTypes ==
    ASSUME TypeOK, NEW b \in Banks, GetsHit(b), UNCHANGED <<coreVars, l1Vars>>
    PROVE  TypeOK'
<1> DEFINE r == Head(l2in[b])
           a == r.addr
           time == tr_updateL2BlockRts(l2[a], r)
           e == [l2[a] EXCEPT !.rts = time]
<1>1. r \in RequestMsg /\ a \in Addrs /\ r.warp \in Warps /\ l2in[b] # <<>>
  BY RequestHead DEF GetsHit, Request
<1>2. l2[a] \in L2Entry
  BY <1>1 DEF TypeOK, L2TypeOK
<1>3. e \in L2Entry
  <2>1. time \in Nat
    BY <1>1, <1>2, RtsFacts
  <2> HIDE DEF time
  <2> QED BY <1>2, <2>1 DEF L2Entry
<1>4. /\ l2' = [l2 EXCEPT ![a] = e]
      /\ SendResponse(b, DataResponse(a, e, r.warp))
      /\ PopRequest(b)
      /\ UNCHANGED <<l2st, l2tbe, mts, dram, wtimes>>
  BY DEF GetsHit
<1> HIDE DEF e, a
<1>5. NetTypeOK'
  <2>1. DataResponse(a, e, r.warp) \in ResponseMsg
    BY <1>1, <1>3 DEF DataResponse, ResponseMsg, L2Entry
  <2> QED BY <1>1, <1>4, <2>1, AnswerTypes
<1>6. L2TypeOK'
  BY <1>1, <1>3, <1>4 DEF TypeOK, L2TypeOK
<1> QED BY <1>5, <1>6 DEF TypeOK, MSHRTypeOK, L1TypeOK, coreVars, l1Vars

\* V: L1_Write, L2_Atomic
LEMMA WriteHitTypes ==
    ASSUME TypeOK, NEW b \in Banks, NEW t \in {"DATA", "DATA_ATOMIC"}, WriteHit(b, t),
           UNCHANGED <<coreVars, l1Vars>>
    PROVE  TypeOK'
<1> DEFINE r == Head(l2in[b])
           a == r.addr
           time == tw_updateL2BlockWts(l2[a], r)
           v == Newest(a) + 1
           e == [rts |-> l2[a].rts, wts |-> time, dirty |-> TRUE, ver |-> v]
           type == IF t = "DATA" THEN "ACK" ELSE t
<1>1. r \in RequestMsg /\ a \in Addrs /\ r.warp \in Warps /\ l2in[b] # <<>>
  BY RequestHead DEF WriteHit, Request
<1>2. l2[a] \in L2Entry
  BY <1>1 DEF TypeOK, L2TypeOK
<1>3. v \in Nat
  BY <1>1 DEF Newest, TypeOK, L2TypeOK
<1>4. time \in Nat
  BY <1>1, <1>2, RtsFacts
<1>5. e \in L2Entry
  <2> HIDE DEF time, v
  <2> QED BY <1>2, <1>3, <1>4 DEF L2Entry
<1>6. /\ l2' = [l2 EXCEPT ![a] = e]
      /\ wtimes' = [wtimes EXCEPT ![a] = Append(@, time)]
      /\ SendResponse(b, WriteResponse(type, a, r.warp, time, v))
      /\ PopRequest(b)
      /\ UNCHANGED <<l2st, l2tbe, mts, dram>>
  BY DEF WriteHit
<1> HIDE DEF e, a, time, v
<1>7. NetTypeOK'
  <2>1. WriteResponse(type, a, r.warp, time, v) \in ResponseMsg
    BY <1>1, <1>3, <1>4 DEF WriteResponse, ResponseMsg
  <2> QED BY <1>1, <1>6, <2>1, AnswerTypes
<1>8. L2TypeOK'
  BY <1>1, <1>4, <1>5, <1>6 DEF TypeOK, L2TypeOK
<1> QED BY <1>7, <1>8 DEF TypeOK, MSHRTypeOK, L1TypeOK, coreVars, l1Vars

\* L2_Replacement and L2_Replacement_clean
LEMMA L2_ReplacementTypes ==
    ASSUME TypeOK, NEW b \in Banks, NEW v \in Addrs, L2_Replacement(b, v),
           UNCHANGED <<coreVars, l1Vars>>
    PROVE  TypeOK'
<1>1. l2[v] \in L2Entry /\ mts[b] \in Nat /\ dram[v] \in Nat
  BY DEF TypeOK, L2TypeOK
<1>2. setmts_setMts(mts[b], l2[v]) \in Nat
  BY <1>1, MtsFacts
<1>3. (IF l2[v].dirty THEN l2[v].ver ELSE dram[v]) \in Nat
  BY <1>1 DEF L2Entry
<1>4. NoEntry \in L2Entry
  BY DEF NoEntry, L2Entry
<1>5. L2TypeOK'
  BY <1>2, <1>3, <1>4 DEF L2_Replacement, TypeOK, L2TypeOK
<1> QED BY <1>5 DEF L2_Replacement, TypeOK, NetTypeOK, MSHRTypeOK, L1TypeOK,
                    netVars, coreVars, l1Vars

\* IV: Mem_Data_PR, Mem_Data_PW, Mem_Data_PRW
LEMMA MemDataTypes ==
    ASSUME TypeOK, NEW a \in Addrs, MemData(a), UNCHANGED <<coreVars, l1Vars>>
    PROVE  TypeOK'
<1> DEFINE f == FilledEntry(a)
           t == l2tbe[a]
           time == trt_updateL2BlockRts(f, t)
           e == IF t.gets = {} THEN f ELSE [f EXCEPT !.rts = time]
           b == BankOf[a]
           q(c) == IF \E w \in t.gets : CoreOf[w] = c
                     THEN Append(respNet[b][c],
                                 DataResponse(a, e, CHOOSE w \in t.gets : CoreOf[w] = c))
                     ELSE respNet[b][c]
<1>1. f \in L2Entry /\ t \in L2TBE /\ b \in Banks /\ t.gets \in SUBSET Warps
  BY FillFacts, BankOfAssumption DEF TypeOK, L2TypeOK, L2TBE
<1>2. e \in L2Entry
  <2>1. time \in Nat
    BY <1>1, TrtFacts
  <2> HIDE DEF f, time
  <2> QED BY <1>1, <2>1 DEF L2Entry
<1>3. /\ l2' = [l2 EXCEPT ![a] = e]
      /\ l2st' = [l2st EXCEPT ![a] = "V"]
      /\ l2tbe' = [l2tbe EXCEPT ![a] = NoL2TBE]
      /\ respNet' = [respNet EXCEPT ![b] = [c \in Cores |-> q(c)]]
      /\ UNCHANGED <<mandQ, reqNet, l2in, mts, dram, wtimes>>
  BY DEF MemData, SendResponses
<1> HIDE DEF e
<1>4. NetTypeOK'
  <2>1. ASSUME NEW c \in Cores
        PROVE  q(c) \in Seq(ResponseMsg)
    <3>1. CASE \E w \in t.gets : CoreOf[w] = c
      <4> DEFINE w == CHOOSE w \in t.gets : CoreOf[w] = c
      <4>1. w \in Warps
        BY <1>1, <3>1
      <4> HIDE DEF w
      <4>2. DataResponse(a, e, w) \in ResponseMsg
        BY <1>2, <4>1 DEF DataResponse, ResponseMsg, L2Entry
      <4>3. Append(respNet[b][c], DataResponse(a, e, w)) \in Seq(ResponseMsg)
        BY <1>1, <4>2 DEF TypeOK, NetTypeOK
      <4> QED BY <3>1, <4>3 DEF w
    <3>2. CASE ~\E w \in t.gets : CoreOf[w] = c
      BY <1>1, <3>2 DEF TypeOK, NetTypeOK
    <3> QED BY <3>1, <3>2
  <2> HIDE DEF q
  <2> QED BY <1>1, <1>3, <2>1 DEF TypeOK, NetTypeOK
<1>5. L2TypeOK'
  <2>1. NoL2TBE \in L2TBE
    BY DEF NoL2TBE, L2TBE
  <2> QED BY <1>2, <1>3, <2>1 DEF TypeOK, L2TypeOK
<1> QED BY <1>4, <1>5 DEF TypeOK, MSHRTypeOK, L1TypeOK, coreVars, l1Vars

\* IAV: Mem_Data_PW
LEMMA MemDataAtomicTypes ==
    ASSUME TypeOK, NEW a \in Addrs, MemDataAtomic(a), UNCHANGED <<coreVars, l1Vars>>
    PROVE  TypeOK'
<1> DEFINE f == FilledEntry(a)
           t == l2tbe[a]
           v == Newest(a) + 1
           e == [f EXCEPT !.ver = v]
           b == BankOf[a]
           q(c) == IF \E w \in t.wback : CoreOf[w] = c
                     THEN Append(respNet[b][c],
                                 WriteResponse("DATA_ATOMIC", a,
                                   CHOOSE w \in t.wback : CoreOf[w] = c, e.wts, e.ver))
                     ELSE respNet[b][c]
<1>1. f \in L2Entry /\ b \in Banks /\ t.wback \in SUBSET Warps
  BY FillFacts, BankOfAssumption DEF TypeOK, L2TypeOK, L2TBE
<1>2. e \in L2Entry /\ e.wts \in Nat /\ e.ver \in Nat
  <2>1. v \in Nat
    BY DEF Newest, TypeOK, L2TypeOK
  <2> HIDE DEF f, v
  <2> QED BY <1>1, <2>1 DEF L2Entry
<1>3. /\ l2' = [l2 EXCEPT ![a] = e]
      /\ l2st' = [l2st EXCEPT ![a] = "V"]
      /\ l2tbe' = [l2tbe EXCEPT ![a] = NoL2TBE]
      /\ wtimes' = [wtimes EXCEPT ![a] = Append(@, e.wts)]
      /\ respNet' = [respNet EXCEPT ![b] = [c \in Cores |-> q(c)]]
      /\ UNCHANGED <<mandQ, reqNet, l2in, mts, dram>>
  BY DEF MemDataAtomic, SendResponses
<1> HIDE DEF e
<1>4. NetTypeOK'
  <2>1. ASSUME NEW c \in Cores
        PROVE  q(c) \in Seq(ResponseMsg)
    <3>1. CASE \E w \in t.wback : CoreOf[w] = c
      <4> DEFINE w == CHOOSE w \in t.wback : CoreOf[w] = c
      <4>1. w \in Warps
        BY <1>1, <3>1
      <4> HIDE DEF w
      <4>2. WriteResponse("DATA_ATOMIC", a, w, e.wts, e.ver) \in ResponseMsg
        BY <1>2, <4>1 DEF WriteResponse, ResponseMsg
      <4>3. Append(respNet[b][c], WriteResponse("DATA_ATOMIC", a, w, e.wts, e.ver))
              \in Seq(ResponseMsg)
        BY <1>1, <4>2 DEF TypeOK, NetTypeOK
      <4> QED BY <3>1, <4>3 DEF w
    <3>2. CASE ~\E w \in t.wback : CoreOf[w] = c
      BY <1>1, <3>2 DEF TypeOK, NetTypeOK
    <3> QED BY <3>1, <3>2
  <2> HIDE DEF q
  <2> QED BY <1>1, <1>3, <2>1 DEF TypeOK, NetTypeOK
<1>5. L2TypeOK'
  <2>1. NoL2TBE \in L2TBE
    BY DEF NoL2TBE, L2TBE
  <2> QED BY <1>2, <1>3, <2>1 DEF TypeOK, L2TypeOK
<1> QED BY <1>4, <1>5 DEF TypeOK, MSHRTypeOK, L1TypeOK, coreVars, l1Vars

-----------------------------------------------------------------------------
\* The empty GPU has the type.
LEMMA InitTypes == Init => TypeOK
<1> SUFFICES ASSUME Init PROVE TypeOK
  OBVIOUS
<1>1. NetTypeOK
  BY EmptySeq DEF Init, NetInit, NetTypeOK
<1>2. MSHRTypeOK
  BY EmptySeq DEF Init, MSHRInit, MSHRTypeOK, MSHREntry, NoMSHR
<1>3. L1TypeOK
  BY DEF Init, L1Init, L1TypeOK, L1State, L1Entry, L1TBE, NoLine, NoTBE
<1>4. L2TypeOK
  BY EmptySeq DEF Init, L2Init, L2TypeOK, L2Entry, L2TBE, NoEntry, NoL2TBE
<1> QED BY <1>1, <1>2, <1>3, <1>4 DEF TypeOK

\* No step leaves the type.
LEMMA NextTypes == TypeOK /\ [Next]_vars => TypeOK'
<1> SUFFICES ASSUME TypeOK, [Next]_vars PROVE TypeOK'
  OBVIOUS
<1>1. ASSUME NEW w \in Warps, Issue(w) PROVE TypeOK'
  BY <1>1, IssueTypes
<1>2. ASSUME NEW c \in Cores, Writeback(c) PROVE TypeOK'
  BY <1>2, WritebackTypes
<1>3. ASSUME NEW c \in Cores, WriteAck(c) PROVE TypeOK'
  BY <1>3, WriteAckTypes
<1>4. ASSUME NEW c \in Cores, L1Step(c) PROVE TypeOK'
  BY <1>4, LoadHitTypes, LoadMissTypes, WriteThroughTypes, L1_ReplacementTypes,
     DataTypes, WriteDoneTypes DEF L1Step, L1Next
<1>5. ASSUME NEW c \in Cores, NEW b \in Banks, Network(c, b) PROVE TypeOK'
  BY <1>5, NetworkTypes
<1>6. ASSUME NEW b \in Banks, L2Step(b) PROVE TypeOK'
  BY <1>6, GetsMissTypes, WriteMissTypes, AtomicMissTypes, GetsHitTypes, WriteHitTypes,
     L2_ReplacementTypes DEF L2Step, L2Next
<1>7. ASSUME NEW a \in Addrs, Dram(a) PROVE TypeOK'
  BY <1>7, MemDataTypes, MemDataAtomicTypes DEF Dram
<1>8. CASE UNCHANGED vars
  BY <1>8 DEF vars, TypeOK, NetTypeOK, MSHRTypeOK, L1TypeOK, L2TypeOK,
              netVars, coreVars, l1Vars, l2Vars
<1> QED BY <1>1, <1>2, <1>3, <1>4, <1>5, <1>6, <1>7, <1>8 DEF Next, Terminated

\* Type correctness: timestamps and versions never leave the naturals and the
\* queues only ever hold messages of their structure.
THEOREM TypeCorrect == Spec => []TypeOK
BY InitTypes, NextTypes, PTL DEF Spec
=============================================================================
