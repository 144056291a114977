----------------------------- MODULE RCCClocks -----------------------------
(***************************************************************************)
(* The clock of a core has reached every write its warps have seen, for     *)
(* every GPU, every lease and every program.  The proof follows a version   *)
(* from the L2 to the warp: a response carries a time that covers it, the   *)
(* L1 moves its clock to that time before it keeps the block or hands it    *)
(* on, and the line, the MSHR entry and the queue of acknowledgements are   *)
(* those of the core the warp runs on.                                      *)
(***************************************************************************)
EXTENDS RCCLeases

\* Version v of line a was written by time t.
Reached(a, v, t) == v <= Newest(a) /\ (v > 0 => wtimes[a][v] <= t)

\* A response from bank b to core c.
ResponseOK(m, b, c) ==
    CoreOf[m.warp] = c /\ BankOf[m.addr] = b /\ Reached(m.addr, m.ver, m.wts)

\* An acknowledgement that waits at core c.
SkipOK(k, c) == CoreOf[k.warp] = c /\ Reached(k.addr, k.ver, pts[c])

\* The MSHR entry of line a in core c.
EntryOK(m, a, c) ==
    /\ Reached(a, m.ver, pts[c])
    /\ \A i \in DOMAIN m.list : CoreOf[m.list[i]] = c
    /\ \A w \in m.writes : CoreOf[w] = c

ClockInv ==
    /\ \A c \in Cores : \A i \in DOMAIN mandQ[c] : CoreOf[mandQ[c][i].warp] = c
    /\ \A c \in Cores, b \in Banks : \A i \in DOMAIN reqNet[c][b] : CoreOf[reqNet[c][b][i].warp] = c
    /\ \A b \in Banks, c \in Cores : \A i \in DOMAIN respNet[b][c] :
          ResponseOK(respNet[b][c][i], b, c)
    /\ \A c \in Cores : \A i \in DOMAIN skipL1[c] : SkipOK(skipL1[c][i], c)
    /\ \A c \in Cores, a \in Addrs : EntryOK(mshr[c][a], a, c)
    /\ \A c \in Cores, a \in Addrs : Reached(a, line[c][a].ver, pts[c])
    /\ \A w \in Warps : \A i \in DOMAIN log[w] :
          Reached(log[w][i].addr, log[w][i].ver, pts[CoreOf[w]])

\* A step keeps what was reached reached, also by a later time.
Kept ==
    \A a \in Addrs, v \in Nat, s \in Nat, t \in Nat :
        s <= t /\ Reached(a, v, s) => Reached(a, v, t)'

-----------------------------------------------------------------------------
(* Versions.                                                                *)

\* The history of a line is only appended to.
LEMMA KeptByAppend ==
    ASSUME TypeOK,
           \A a \in Addrs : \/ wtimes'[a] = wtimes[a]
                            \/ \E t \in Nat : wtimes'[a] = Append(wtimes[a], t)
    PROVE  Kept
<1> SUFFICES ASSUME NEW a \in Addrs, NEW v \in Nat, NEW s \in Nat, NEW t \in Nat,
                    s <= t, Reached(a, v, s)
             PROVE  Reached(a, v, t)'
  BY DEF Kept
<1>1. wtimes[a] \in Seq(Nat) /\ v <= Len(wtimes[a]) /\ (v > 0 => wtimes[a][v] <= s)
  BY DEF TypeOK, L2TypeOK, Reached, Newest
<1>2. v <= Len(wtimes'[a]) /\ (v > 0 => wtimes'[a][v] = wtimes[a][v])
  <2>1. CASE wtimes'[a] = wtimes[a]
    BY <1>1, <2>1
  <2>2. CASE \E x \in Nat : wtimes'[a] = Append(wtimes[a], x)
    <3>1. PICK x \in Nat : wtimes'[a] = Append(wtimes[a], x)
      BY <2>2
    <3> QED BY <1>1, <3>1
  <2> QED BY <2>1, <2>2
<1>3. v > 0 => wtimes[a][v] \in Nat
  BY <1>1
<1> QED BY <1>1, <1>2, <1>3 DEF Reached, Newest

\* A step of the cores or of the network writes no version.
LEMMA KeptByCores ==
    ASSUME TypeOK, wtimes' = wtimes
    PROVE  Kept
BY KeptByAppend

\* What a line in the L2 is answered with covers its version.
LEMMA EntryReached ==
    ASSUME TypeOK, WriteInv, NEW a \in Addrs, l2st[a] = "V"
    PROVE  Reached(a, l2[a].ver, l2[a].wts)
<1>1. wtimes[a] \in Seq(Nat) /\ LineInv(a) /\ Newest(a) \in Nat
  BY DEF TypeOK, L2TypeOK, WriteInv, Newest
<1> QED BY <1>1 DEF LineInv, WriteBound, Reached

\* A step that only moves the clocks on, and after which every piece of the
\* state that the invariant is about is an old one or satisfies it anew.
LEMMA StepClocks ==
    ASSUME TypeOK, TypeOK', ClockInv, Kept,
           \A c \in Cores : pts'[c] >= pts[c],
           \A c \in Cores : \A i \in DOMAIN mandQ'[c] : CoreOf[mandQ'[c][i].warp] = c,
           \A c \in Cores, b \in Banks : \A i \in DOMAIN reqNet'[c][b] :
              CoreOf[reqNet'[c][b][i].warp] = c,
           \A b \in Banks, c \in Cores : \A i \in DOMAIN respNet'[b][c] :
              \/ \E j \in DOMAIN respNet[b][c] : respNet'[b][c][i] = respNet[b][c][j]
              \/ ResponseOK(respNet[b][c][i], b, c)',
           \A c \in Cores : \A i \in DOMAIN skipL1'[c] :
              \/ \E j \in DOMAIN skipL1[c] : skipL1'[c][i] = skipL1[c][j]
              \/ SkipOK(skipL1[c][i], c)',
           \A c \in Cores, a \in Addrs :
              mshr'[c][a] = mshr[c][a] \/ EntryOK(mshr[c][a], a, c)',
           \A c \in Cores, a \in Addrs :
              line'[c][a] = line[c][a] \/ Reached(a, line[c][a].ver, pts[c])',
           \A w \in Warps : \A i \in DOMAIN log'[w] :
              \/ \E j \in DOMAIN log[w] : log'[w][i] = log[w][j]
              \/ Reached(log[w][i].addr, log[w][i].ver, pts[CoreOf[w]])'
    PROVE  ClockInv'
<1>1. ASSUME NEW c \in Cores, NEW a \in Addrs, NEW v \in Nat, Reached(a, v, pts[c])
      PROVE  Reached(a, v, pts[c])'
  <2>1. PICK s \in Nat, t \in Nat : s = pts[c] /\ t = pts'[c] /\ s <= t
    BY DEF TypeOK, L1TypeOK
  <2>2. Reached(a, v, t)'
    BY <1>1, <2>1 DEF Kept
  <2> QED BY <2>1, <2>2 DEF Reached
<1>2. ASSUME NEW b \in Banks, NEW c \in Cores, NEW i \in DOMAIN respNet'[b][c]
      PROVE  ResponseOK(respNet[b][c][i], b, c)'
  <2>1. CASE \E j \in DOMAIN respNet[b][c] : respNet'[b][c][i] = respNet[b][c][j]
    <3>1. PICK j \in DOMAIN respNet[b][c] : respNet'[b][c][i] = respNet[b][c][j]
      BY <2>1
    <3>2. PICK m \in ResponseMsg : m = respNet[b][c][j]
      BY DEF TypeOK, NetTypeOK
    <3>3. m.addr \in Addrs /\ m.ver \in Nat /\ m.wts \in Nat /\ m.wts <= m.wts
      BY DEF ResponseMsg
    <3>4. ResponseOK(m, b, c)
      BY <3>2 DEF ClockInv
    <3>5. ResponseOK(m, b, c)'
      BY <3>3, <3>4 DEF ResponseOK, Kept
    <3>6. respNet'[b][c][i] = m
      BY <3>1, <3>2
    <3> QED BY <3>5, <3>6 DEF ResponseOK, Reached
  <2> QED BY <1>2, <2>1
<1>3. ASSUME NEW c \in Cores, NEW i \in DOMAIN skipL1'[c] PROVE SkipOK(skipL1[c][i], c)'
  <2>1. CASE \E j \in DOMAIN skipL1[c] : skipL1'[c][i] = skipL1[c][j]
    <3>1. PICK j \in DOMAIN skipL1[c] : skipL1'[c][i] = skipL1[c][j]
      BY <2>1
    <3>2. PICK k \in SkipL1Request : k = skipL1[c][j]
      BY DEF TypeOK, MSHRTypeOK
    <3>3. k.addr \in Addrs /\ k.ver \in Nat /\ SkipOK(k, c)
      BY <3>2 DEF SkipL1Request, ClockInv
    <3>4. SkipOK(k, c)'
      BY <1>1, <3>3 DEF SkipOK
    <3> QED BY <3>1, <3>2, <3>4 DEF SkipOK, Reached
  <2> QED BY <1>3, <2>1
<1>4. ASSUME NEW c \in Cores, NEW a \in Addrs PROVE EntryOK(mshr[c][a], a, c)'
  <2>1. CASE mshr'[c][a] = mshr[c][a]
    <3>1. PICK m \in MSHREntry : m = mshr[c][a]
      BY DEF TypeOK, MSHRTypeOK
    <3>2. m.ver \in Nat /\ EntryOK(m, a, c)
      BY <3>1 DEF MSHREntry, ClockInv
    <3>3. EntryOK(m, a, c)'
      BY <1>1, <3>2 DEF EntryOK
    <3> QED BY <2>1, <3>1, <3>3 DEF EntryOK, Reached
  <2> QED BY <2>1
<1>5. ASSUME NEW c \in Cores, NEW a \in Addrs PROVE Reached(a, line[c][a].ver, pts[c])'
  <2>1. CASE line'[c][a] = line[c][a]
    <3>1. PICK e \in L1Entry : e = line[c][a]
      BY DEF TypeOK, L1TypeOK
    <3>2. e.ver \in Nat /\ Reached(a, e.ver, pts[c])
      BY <3>1 DEF L1Entry, ClockInv
    <3>3. Reached(a, e.ver, pts[c])'
      BY <1>1, <3>2
    <3> QED BY <2>1, <3>1, <3>3 DEF Reached
  <2> QED BY <2>1
<1>6. ASSUME NEW w \in Warps, NEW i \in DOMAIN log'[w]
      PROVE  Reached(log[w][i].addr, log[w][i].ver, pts[CoreOf[w]])'
  <2>1. CASE \E j \in DOMAIN log[w] : log'[w][i] = log[w][j]
    <3>1. PICK j \in DOMAIN log[w] : log'[w][i] = log[w][j]
      BY <2>1
    <3>2. PICK e \in LogEntry : e = log[w][j]
      BY DEF TypeOK, MSHRTypeOK
    <3>3. e.addr \in Addrs /\ e.ver \in Nat /\ Reached(e.addr, e.ver, pts[CoreOf[w]])
      BY <3>2 DEF LogEntry, ClockInv
    <3>4. CoreOf[w] \in Cores
      BY CoreOfAssumption
    <3>5. Reached(e.addr, e.ver, pts[CoreOf[w]])'
      BY <1>1, <3>3, <3>4
    <3> QED BY <3>1, <3>2, <3>5 DEF Reached
  <2> QED BY <1>6, <2>1
<1> QED BY <1>2, <1>3, <1>4, <1>5, <1>6 DEF ClockInv

-----------------------------------------------------------------------------
(* Steps of the banks.                                                      *)

\* A step that leaves the cores alone, and whose responses are old or cover
\* their version.
LEMMA BankStepClocks ==
    ASSUME TypeOK, TypeOK', ClockInv, Kept, UNCHANGED <<mandQ, reqNet, coreVars, l1Vars>>,
           \A b \in Banks, c \in Cores : \A i \in DOMAIN respNet'[b][c] :
              \/ \E j \in DOMAIN respNet[b][c] : respNet'[b][c][i] = respNet[b][c][j]
              \/ ResponseOK(respNet[b][c][i], b, c)'
    PROVE  ClockInv'
<1>1. UNCHANGED <<skipL1, mshr, log, pts, line>>
  BY DEF coreVars, l1Vars
<1>2. \A c \in Cores : pts'[c] >= pts[c]
  BY <1>1 DEF TypeOK, L1TypeOK
<1>3. /\ \A c \in Cores : \A i \in DOMAIN mandQ'[c] : CoreOf[mandQ'[c][i].warp] = c
      /\ \A c \in Cores, b \in Banks : \A i \in DOMAIN reqNet'[c][b] :
            CoreOf[reqNet'[c][b][i].warp] = c
  BY DEF ClockInv
<1> QED BY <1>1, <1>2, <1>3, StepClocks

\* A step that sends one response which covers its version.
LEMMA AnswerClocks ==
    ASSUME TypeOK, TypeOK', ClockInv, Kept, UNCHANGED <<mandQ, reqNet, coreVars, l1Vars>>,
           NEW b \in Banks, NEW m \in ResponseMsg, SendResponse(b, m),
           BankOf[m.addr] = b, Reached(m.addr, m.ver, m.wts)'
    PROVE  ClockInv'
<1>1. ASSUME NEW d \in Banks, NEW c \in Cores, NEW i \in DOMAIN respNet'[d][c]
      PROVE  \/ \E j \in DOMAIN respNet[d][c] : respNet'[d][c][i] = respNet[d][c][j]
             \/ ResponseOK(respNet[d][c][i], d, c)'
  <2>1. CASE d = b /\ c = CoreOf[m.warp] /\ respNet'[d][c][i] = m
    BY <2>1 DEF ResponseOK, Reached
  <2> QED BY <1>1, <2>1, SentResponses
<1> QED BY <1>1, BankStepClocks

\* A write that misses is acknowledged with its own time (wat).
LEMMA WriteMissAnswer ==
    ASSUME TypeOK, WriteInv, NEW b \in Banks, WriteMiss(b)
    PROVE  /\ Kept
           /\ \E m \in ResponseMsg : /\ SendResponse(b, m) /\ BankOf[m.addr] = b
                                     /\ Reached(m.addr, m.ver, m.wts)'
<1>1. PICK r \in RequestMsg : r = Head(l2in[b]) /\ r.addr \in Addrs /\ r.warp \in Warps
  BY RequestHead DEF WriteMiss, Request
<1> DEFINE a == r.addr
           time == MissWts(TBEForWriteMiss(r), mts[b])
           v == Newest(a) + 1
           m == WriteResponse("ACK", a, r.warp, time, v)
<1>2. BankOf[a] = b /\ mts[b] \in Nat
  BY <1>1, RequestHead, QueueFacts
     DEF WriteMiss, Request, TypeOK, NetTypeOK, L2TypeOK, WriteInv, Routed
<1>3. time \in Nat
  BY <1>2, TBETypes, MtsFacts
<1>4. wtimes' = [wtimes EXCEPT ![a] = Append(@, time)] /\ SendResponse(b, m)
  BY <1>1 DEF WriteMiss
<1> HIDE DEF time
<1>5. wtimes[a] \in Seq(Nat) /\ v \in Nat /\ v = Len(wtimes[a]) + 1
  BY <1>1 DEF TypeOK, L2TypeOK, Newest
<1>6. wtimes'[a] = Append(wtimes[a], time) /\ \A x \in Addrs \ {a} : wtimes'[x] = wtimes[x]
  BY <1>1, <1>4 DEF TypeOK, L2TypeOK
<1>7. Kept
  BY <1>3, <1>6, KeptByAppend
<1>8. v <= Len(wtimes'[a]) /\ wtimes'[a][v] <= time
  BY <1>3, <1>5, <1>6
<1>9. m \in ResponseMsg /\ m.addr = a /\ m.ver = v /\ m.wts = time
  <2> HIDE DEF v
  <2> QED BY <1>1, <1>3, <1>5 DEF WriteResponse, ResponseMsg
<1> HIDE DEF m
<1>10. PICK k \in ResponseMsg : k = m
  BY <1>9
<1>11. Reached(k.addr, k.ver, k.wts)'
  <2> HIDE DEF v, a
  <2>1. PICK n \in Nat, x \in Addrs : n = v /\ x = a
    BY <1>1, <1>5 DEF a
  <2> QED BY <1>8, <1>9, <1>10, <2>1 DEF Reached, Newest
<1> QED BY <1>2, <1>4, <1>7, <1>9, <1>10, <1>11

\* A write that hits is acknowledged with its own time (wa, and atomic data).
LEMMA WriteHitAnswer ==
    ASSUME TypeOK, WriteInv, NEW b \in Banks, NEW t \in {"DATA", "DATA_ATOMIC"}, WriteHit(b, t)
    PROVE  /\ Kept
           /\ \E m \in ResponseMsg : /\ SendResponse(b, m) /\ BankOf[m.addr] = b
                                     /\ Reached(m.addr, m.ver, m.wts)'
<1>1. PICK r \in RequestMsg : r = Head(l2in[b]) /\ r.addr \in Addrs /\ r.warp \in Warps
  BY RequestHead DEF WriteHit, Request
<1> DEFINE a == r.addr
           time == tw_updateL2BlockWts(l2[a], r)
           v == Newest(a) + 1
           type == IF t = "DATA" THEN "ACK" ELSE t
           m == WriteResponse(type, a, r.warp, time, v)
<1>2. BankOf[a] = b
  BY <1>1, RequestHead, QueueFacts DEF WriteHit, Request, TypeOK, NetTypeOK, WriteInv, Routed
<1>3. time \in Nat
  BY <1>1, RtsFacts DEF TypeOK, L2TypeOK
<1>4. wtimes' = [wtimes EXCEPT ![a] = Append(@, time)] /\ SendResponse(b, m)
  BY <1>1 DEF WriteHit
<1> HIDE DEF time
<1>5. wtimes[a] \in Seq(Nat) /\ v \in Nat /\ v = Len(wtimes[a]) + 1
  BY <1>1 DEF TypeOK, L2TypeOK, Newest
<1>6. wtimes'[a] = Append(wtimes[a], time) /\ \A x \in Addrs \ {a} : wtimes'[x] = wtimes[x]
  BY <1>1, <1>4 DEF TypeOK, L2TypeOK
<1>7. Kept
  BY <1>3, <1>6, KeptByAppend
<1>8. v <= Len(wtimes'[a]) /\ wtimes'[a][v] <= time
  BY <1>3, <1>5, <1>6
<1>9. m \in ResponseMsg /\ m.addr = a /\ m.ver = v /\ m.wts = time
  <2>1. type \in {"ACK", "DATA_ATOMIC"}
    OBVIOUS
  <2> HIDE DEF type, v
  <2> QED BY <1>1, <1>3, <1>5, <2>1 DEF WriteResponse, ResponseMsg
<1> HIDE DEF m
<1>10. PICK k \in ResponseMsg : k = m
  BY <1>9
<1>11. Reached(k.addr, k.ver, k.wts)'
  <2> HIDE DEF v, a
  <2>1. PICK n \in Nat, x \in Addrs : n = v /\ x = a
    BY <1>1, <1>5 DEF a
  <2> QED BY <1>8, <1>9, <1>10, <2>1 DEF Reached, Newest
<1> QED BY <1>2, <1>4, <1>7, <1>9, <1>10, <1>11

\* A read that hits is answered with the entry's wts (ds).
LEMMA GetsHitAnswer ==
    ASSUME TypeOK, WriteInv, NEW b \in Banks, GetsHit(b)
    PROVE  /\ Kept
           /\ \E m \in ResponseMsg : /\ SendResponse(b, m) /\ BankOf[m.addr] = b
                                     /\ Reached(m.addr, m.ver, m.wts)'
<1>1. PICK r \in RequestMsg : r = Head(l2in[b]) /\ r.addr \in Addrs /\ r.warp \in Warps
  BY RequestHead DEF GetsHit, Request
<1> DEFINE a == r.addr
           rts == tr_updateL2BlockRts(l2[a], r)
           e == [l2[a] EXCEPT !.rts = rts]
           m == DataResponse(a, e, r.warp)
<1>2. BankOf[a] = b
  BY <1>1, RequestHead, QueueFacts DEF GetsHit, Request, TypeOK, NetTypeOK, WriteInv, Routed
<1>3. l2[a] \in L2Entry /\ rts \in Nat
  <2>1. l2[a] \in L2Entry
    BY <1>1 DEF TypeOK, L2TypeOK
  <2> QED BY <2>1, RtsFacts
<1>4. l2st[a] = "V" /\ SendResponse(b, m) /\ wtimes' = wtimes
  BY <1>1 DEF GetsHit
<1> HIDE DEF rts
<1>5. e \in L2Entry /\ e.wts = l2[a].wts /\ e.ver = l2[a].ver
  BY <1>3 DEF L2Entry
<1>6. Reached(a, l2[a].ver, l2[a].wts)
  BY <1>1, <1>4, EntryReached
<1> HIDE DEF e
<1>7. m \in ResponseMsg /\ m.addr = a /\ m.ver = l2[a].ver /\ m.wts = l2[a].wts
  BY <1>1, <1>5 DEF DataResponse, ResponseMsg, L2Entry
<1> HIDE DEF m
<1>8. PICK k \in ResponseMsg : k = m
  BY <1>7
<1>9. Reached(k.addr, k.ver, k.wts)'
  BY <1>4, <1>6, <1>7, <1>8 DEF Reached, Newest
<1> QED BY <1>2, <1>4, <1>7, <1>8, <1>9, KeptByCores

\* The responses after a fetch: old ones, and new ones to the cores that waited,
\* with the version and the time of the filled entry (dst, atomic data).
LEMMA FetchAnswers ==
    ASSUME TypeOK, NEW a \in Addrs, MemData(a) \/ MemDataAtomic(a),
           NEW b \in Banks, NEW c \in Cores, NEW i \in DOMAIN respNet'[b][c]
    PROVE  \/ \E j \in DOMAIN respNet[b][c] : respNet'[b][c][i] = respNet[b][c][j]
           \/ /\ b = BankOf[a]
              /\ CoreOf[respNet'[b][c][i].warp] = c
              /\ respNet'[b][c][i].addr = a
              /\ respNet'[b][c][i].ver = l2'[a].ver
              /\ respNet'[b][c][i].wts = l2'[a].wts
<1> DEFINE t == l2tbe[a]
           e == l2'[a]
           u == CHOOSE w \in t.gets : CoreOf[w] = c
           x == CHOOSE w \in t.wback : CoreOf[w] = c
           d == DataResponse(a, e, u)
           k == WriteResponse("DATA_ATOMIC", a, x, e.wts, e.ver)
<1>1. BankOf[a] \in Banks /\ respNet[b][c] \in Seq(ResponseMsg)
  BY BankOfAssumption DEF TypeOK, NetTypeOK
<1>2. \/ respNet'[b][c] = respNet[b][c]
      \/ respNet'[b][c] = Append(respNet[b][c], d) /\ b = BankOf[a] /\ CoreOf[d.warp] = c
      \/ respNet'[b][c] = Append(respNet[b][c], k) /\ b = BankOf[a] /\ CoreOf[k.warp] = c
  <2>1. CASE MemData(a)
    <3>1. d.warp = u
      BY DEF DataResponse
    <3>2. respNet'[b][c] = IF b = BankOf[a] /\ \E w \in t.gets : CoreOf[w] = c
                             THEN Append(respNet[b][c], d) ELSE respNet[b][c]
      BY <1>1, <2>1 DEF MemData, SendResponses, TypeOK, NetTypeOK, L2TypeOK
    <3>3. (\E w \in t.gets : CoreOf[w] = c) => CoreOf[u] = c
      OBVIOUS
    <3> HIDE DEF d, u
    <3> QED BY <3>1, <3>2, <3>3
  <2>2. CASE MemDataAtomic(a)
    <3>1. k.warp = x
      BY DEF WriteResponse
    <3>2. respNet'[b][c] = IF b = BankOf[a] /\ \E w \in t.wback : CoreOf[w] = c
                             THEN Append(respNet[b][c], k) ELSE respNet[b][c]
      BY <1>1, <2>2 DEF MemDataAtomic, SendResponses, TypeOK, NetTypeOK, L2TypeOK
    <3>3. (\E w \in t.wback : CoreOf[w] = c) => CoreOf[x] = c
      OBVIOUS
    <3> HIDE DEF k, x
    <3> QED BY <3>1, <3>2, <3>3
  <2> QED BY <2>1, <2>2
<1>3. /\ d.addr = a /\ d.ver = e.ver /\ d.wts = e.wts
      /\ k.addr = a /\ k.ver = e.ver /\ k.wts = e.wts
  BY DEF DataResponse, WriteResponse
<1> HIDE DEF d, k
<1>4. \/ \E j \in DOMAIN respNet[b][c] : respNet'[b][c][i] = respNet[b][c][j]
      \/ respNet'[b][c][i] = d /\ b = BankOf[a] /\ CoreOf[d.warp] = c
      \/ respNet'[b][c][i] = k /\ b = BankOf[a] /\ CoreOf[k.warp] = c
  BY SMTT(30), <1>1, <1>2, AppendProperties
<1> QED BY <1>3, <1>4

\* The end of a fetch.
LEMMA FetchClocks ==
    ASSUME TypeOK, TypeOK', WriteInv', ClockInv, NEW a \in Addrs,
           MemData(a) \/ MemDataAtomic(a), UNCHANGED <<coreVars, l1Vars>>
    PROVE  ClockInv'
<1>1. l2st'[a] = "V" /\ UNCHANGED <<mandQ, reqNet>>
  BY DEF MemData, MemDataAtomic, TypeOK, L2TypeOK
<1>2. Reached(a, l2[a].ver, l2[a].wts)'
  <2>1. wtimes'[a] \in Seq(Nat) /\ LineInv(a)' /\ Newest(a)' \in Nat
    BY DEF TypeOK, L2TypeOK, WriteInv, Newest
  <2> QED BY <1>1, <2>1 DEF LineInv, WriteBound, Reached
<1>3. Kept
  <2>1. CASE MemData(a)
    BY <2>1, KeptByCores DEF MemData
  <2>2. CASE MemDataAtomic(a)
    <3> DEFINE t == FilledEntry(a).wts
    <3>1. wtimes' = [wtimes EXCEPT ![a] = Append(@, t)]
      <4>1. FilledEntry(a) \in L2Entry
        BY FillFacts
      <4>2. [FilledEntry(a) EXCEPT !.ver = Newest(a) + 1].wts = t
        BY <4>1 DEF L2Entry
      <4> QED BY <2>2, <4>2 DEF MemDataAtomic
    <3> HIDE DEF t
    <3>2. wtimes[a] \in Seq(Nat) /\ wtimes'[a] \in Seq(Nat) /\ wtimes'[a] = Append(wtimes[a], t)
      BY <3>1 DEF TypeOK, L2TypeOK
    <3>3. t \in Nat
      <4>1. Len(wtimes[a]) + 1 \in DOMAIN wtimes'[a] /\ wtimes'[a][Len(wtimes[a]) + 1] = t
        BY <3>2, AppendProperties
      <4> QED BY <3>2, <4>1
    <3>4. \A x \in Addrs \ {a} : wtimes'[x] = wtimes[x]
      BY <3>1 DEF TypeOK, L2TypeOK
    <3> QED BY <3>2, <3>3, <3>4, KeptByAppend
  <2> QED BY <2>1, <2>2
<1>4. ASSUME NEW b \in Banks, NEW c \in Cores, NEW i \in DOMAIN respNet'[b][c]
      PROVE  \/ \E j \in DOMAIN respNet[b][c] : respNet'[b][c][i] = respNet[b][c][j]
             \/ ResponseOK(respNet[b][c][i], b, c)'
  <2>1. CASE \E j \in DOMAIN respNet[b][c] : respNet'[b][c][i] = respNet[b][c][j]
    BY <2>1
  <2>2. CASE ~\E j \in DOMAIN respNet[b][c] : respNet'[b][c][i] = respNet[b][c][j]
    <3>1. /\ b = BankOf[a]
          /\ CoreOf[respNet'[b][c][i].warp] = c
          /\ respNet'[b][c][i].addr = a
          /\ respNet'[b][c][i].ver = l2'[a].ver
          /\ respNet'[b][c][i].wts = l2'[a].wts
      BY <2>2, FetchAnswers
    <3> QED BY <1>2, <3>1 DEF ResponseOK, Reached
  <2> QED BY <2>1, <2>2
<1> QED BY <1>1, <1>3, <1>4, BankStepClocks

-----------------------------------------------------------------------------
(* Steps of the cores, the L1s and the network.                             *)

\* A step in which no clock, no history and no version moves but what is named.
LEMMA CoreStepClocks ==
    ASSUME TypeOK, TypeOK', ClockInv, wtimes' = wtimes, UNCHANGED <<pts, respNet>>,
           \A c \in Cores : \A i \in DOMAIN mandQ'[c] : CoreOf[mandQ'[c][i].warp] = c,
           \A c \in Cores, b \in Banks : \A i \in DOMAIN reqNet'[c][b] :
              CoreOf[reqNet'[c][b][i].warp] = c,
           \A c \in Cores : \A i \in DOMAIN skipL1'[c] :
              \E j \in DOMAIN skipL1[c] : skipL1'[c][i] = skipL1[c][j],
           \A c \in Cores, a \in Addrs :
              mshr'[c][a] = mshr[c][a] \/ EntryOK(mshr[c][a], a, c)',
           \A c \in Cores, a \in Addrs :
              line'[c][a] = line[c][a] \/ Reached(a, line[c][a].ver, pts[c])',
           \A w \in Warps : \A i \in DOMAIN log'[w] :
              \/ \E j \in DOMAIN log[w] : log'[w][i] = log[w][j]
              \/ Reached(log[w][i].addr, log[w][i].ver, pts[CoreOf[w]])'
    PROVE  ClockInv'
<1>1. \A c \in Cores : pts'[c] >= pts[c]
  BY DEF TypeOK, L1TypeOK
<1>2. Kept
  BY KeptByCores
<1> QED BY <1>1, <1>2, StepClocks

\* A warp's request joins the entry of its own core (Issue).
LEMMA IssueClocks ==
    ASSUME TypeOK, TypeOK', ClockInv, NEW w \in Warps, Issue(w)
    PROVE  ClockInv'
<1> DEFINE c == CoreOf[w]
           i == Len(log[w]) + 1
<1>1. c \in Cores
  BY CoreOfAssumption
<1>2. PICK p \in Prog[w][i] : send_request(w, p[1], p[2])
  BY DEF Issue
<1>3. p[2] \in Addrs /\ p[1] \in {"LD", "ST", "ATOMIC"}
  <2>1. log[w] \in Seq(LogEntry) /\ i \in 1..Len(Prog[w])
    BY ProgAssumption DEF TypeOK, MSHRTypeOK, Issue
  <2>2. Prog[w][i] \in SUBSET ({"LD", "ST", "ATOMIC"} \X Addrs)
    BY <2>1, ProgAssumption
  <2> QED BY <2>2
<1> DEFINE a == p[2]
           op == p[1]
           r == [op |-> op, addr |-> a, warp |-> w]
<1>4. /\ mandQ' = [mandQ EXCEPT ![c] = IF op = "LD" /\ ~do_access(c, a) THEN @ ELSE Append(@, r)]
      /\ mshr' = [mshr EXCEPT ![c][a] = add(@, op, w)]
      /\ UNCHANGED <<reqNet, respNet, skipL1, log>>
  BY <1>2 DEF send_request, makeRequest
<1>5. UNCHANGED <<pts, line, wtimes>>
  BY DEF Issue, l1Vars, l2Vars
<1>6. ASSUME NEW d \in Cores, NEW j \in DOMAIN mandQ'[d]
      PROVE  CoreOf[mandQ'[d][j].warp] = d
  <2>1. mandQ'[d] = mandQ[d] \/ (d = c /\ mandQ'[d] = Append(mandQ[d], r))
    BY <1>1, <1>4 DEF TypeOK, NetTypeOK
  <2>2. r \in CacheMsg /\ r.warp = w
    BY <1>3 DEF CacheMsg
  <2> HIDE DEF r
  <2>3. PICK q \in Seq(CacheMsg) : q = mandQ[d]
    BY DEF TypeOK, NetTypeOK
  <2>4. \A k \in DOMAIN q : CoreOf[q[k].warp] = d
    BY <2>3 DEF ClockInv
  <2>5. CASE mandQ'[d] = q
    BY <1>6, <2>4, <2>5
  <2>6. CASE d = c /\ mandQ'[d] = Append(q, r)
    <3>1. (j \in DOMAIN q /\ Append(q, r)[j] = q[j]) \/ Append(q, r)[j] = r
      BY <1>6, <2>2, <2>6, AppendElements
    <3> QED BY <2>2, <2>4, <2>6, <3>1
  <2> QED BY <2>1, <2>3, <2>5, <2>6
<1>7. ASSUME NEW d \in Cores, NEW x \in Addrs
      PROVE  mshr'[d][x] = mshr[d][x] \/ EntryOK(mshr[d][x], x, d)'
  <2>1. CASE d = c /\ x = a
    <3>1. PICK m \in MSHREntry : m = mshr[c][a]
      BY <1>1, <1>3 DEF TypeOK, MSHRTypeOK
    <3>2. mshr'[c][a] = add(m, op, w)
      BY <1>1, <1>3, <1>4, <3>1 DEF TypeOK, MSHRTypeOK
    <3>3. m.list \in Seq(Warps) /\ m.writes \in SUBSET Warps
      BY DEF MSHREntry
    <3>4. EntryOK(m, a, c)
      BY <1>1, <1>3, <3>1 DEF ClockInv
    <3>5. PICK n : n = add(m, op, w)
      OBVIOUS
    <3>6. n.ver = m.ver /\ (n.list = m.list \/ n.list = Append(m.list, w))
          /\ (n.writes = m.writes \/ n.writes = m.writes \cup {w})
      BY <3>5 DEF add, MSHREntry
    <3>7. EntryOK(n, a, c)
      <4>1. \A j \in DOMAIN n.list : CoreOf[n.list[j]] = c
        BY <3>3, <3>4, <3>6, AppendProperties DEF EntryOK
      <4>2. \A u \in n.writes : CoreOf[u] = c
        BY <3>4, <3>6 DEF EntryOK
      <4> QED BY <3>4, <3>6, <4>1, <4>2 DEF EntryOK
    <3> QED BY <1>5, <2>1, <3>2, <3>5, <3>7 DEF EntryOK, Reached, Newest
  <2>2. CASE d # c \/ x # a
    BY <1>1, <1>3, <1>4, <2>2 DEF TypeOK, MSHRTypeOK
  <2> QED BY <2>1, <2>2
<1> QED BY <1>4, <1>5, <1>6, <1>7, CoreStepClocks DEF ClockInv

\* A read is logged with the version of its core's entry (next_access).
LEMMA WritebackClocks ==
    ASSUME TypeOK, TypeOK', ClockInv, NEW c \in Cores, Writeback(c)
    PROVE  ClockInv'
<1>1. PICK a \in Addrs : a = Head(ready[c])
  BY QueueFacts DEF Writeback, next_access, TypeOK, MSHRTypeOK
<1>2. PICK m \in MSHREntry : m = mshr[c][a]
  BY DEF TypeOK, MSHRTypeOK
<1>3. m.list # <<>> /\ m.ver \in Nat /\ m.list \in Seq(Warps) /\ EntryOK(m, a, c)
  BY <1>1, <1>2 DEF Writeback, next_access, MSHREntry, ClockInv
<1>4. PICK w \in Warps : w = Head(m.list)
  BY <1>3, EntryTypes
<1>5. CoreOf[w] = c
  BY <1>3, <1>4, QueueFacts DEF EntryOK
<1> DEFINE l == [op |-> "LD", addr |-> a, ver |-> m.ver]
<1>6. /\ mshr' = [mshr EXCEPT ![c][a] = PopRead(m)]
      /\ log' = [log EXCEPT ![w] = Append(@, l)]
      /\ UNCHANGED <<netVars, skipL1, l1Vars, l2Vars>>
  BY ZenonT(40), <1>1, <1>2, <1>4 DEF Writeback, next_access, Complete
<1>7. UNCHANGED <<mandQ, reqNet, respNet, skipL1, pts, line, wtimes>>
  BY <1>6 DEF netVars, l1Vars, l2Vars
<1>8. ASSUME NEW d \in Cores, NEW x \in Addrs
      PROVE  mshr'[d][x] = mshr[d][x] \/ EntryOK(mshr[d][x], x, d)'
  <2>1. CASE d = c /\ x = a
    <3>1. PICK n : n = PopRead(m) /\ n = mshr'[c][a]
      BY <1>6 DEF TypeOK, MSHRTypeOK
    <3>2. n.writes = m.writes /\ n.list = Tail(m.list) /\ (n.ver = m.ver \/ n.ver = 0)
      BY <3>1 DEF PopRead, MSHREntry
    <3>3. \A i \in DOMAIN n.list : CoreOf[n.list[i]] = c
      BY <1>3, <3>2, TailElements DEF EntryOK
    <3>4. Reached(a, n.ver, pts[c])
      <4>1. Newest(a) \in Nat
        BY DEF TypeOK, L2TypeOK, Newest
      <4> QED BY <1>3, <3>2, <4>1 DEF EntryOK, Reached
    <3> QED BY <1>3, <1>7, <2>1, <3>1, <3>2, <3>3, <3>4 DEF EntryOK, Reached, Newest
  <2>2. CASE d # c \/ x # a
    BY <1>6, <2>2 DEF TypeOK, MSHRTypeOK
  <2> QED BY <2>1, <2>2
<1>9. ASSUME NEW u \in Warps, NEW i \in DOMAIN log'[u]
      PROVE  \/ \E j \in DOMAIN log[u] : log'[u][i] = log[u][j]
             \/ Reached(log[u][i].addr, log[u][i].ver, pts[CoreOf[u]])'
  <2>1. log[u] \in Seq(LogEntry) /\ l.addr = a /\ l.ver = m.ver
    BY DEF TypeOK, MSHRTypeOK
  <2>2. log'[u] = log[u] \/ (u = w /\ log'[u] = Append(log[u], l))
    BY <1>6 DEF TypeOK, MSHRTypeOK
  <2> HIDE DEF l
  <2>3. \/ \E j \in DOMAIN log[u] : log'[u][i] = log[u][j]
        \/ u = w /\ log'[u][i] = l
    BY <1>9, <2>1, <2>2, AppendProperties
  <2>4. CASE u = w /\ log'[u][i] = l
    BY <1>3, <1>5, <1>7, <2>1, <2>4 DEF EntryOK, Reached, Newest
  <2> QED BY <2>3, <2>4
<1> QED BY <1>7, <1>8, <1>9, CoreStepClocks DEF ClockInv

\* An acknowledgement is logged with the version it brought (mark_skipped_write_done).
LEMMA WriteAckClocks ==
    ASSUME TypeOK, TypeOK', ClockInv, NEW c \in Cores, WriteAck(c)
    PROVE  ClockInv'
<1>1. PICK k \in SkipL1Request : k = Head(skipL1[c]) /\ k = skipL1[c][1] /\ 1 \in DOMAIN skipL1[c]
  BY QueueFacts DEF WriteAck, mark_skipped_write_done, TypeOK, MSHRTypeOK
<1>2. k.warp \in Warps /\ k.addr \in Addrs /\ k.ver \in Nat /\ SkipOK(k, c)
  BY <1>1 DEF SkipL1Request, ClockInv
<1> DEFINE l == [op |-> k.op, addr |-> k.addr, ver |-> k.ver]
<1>3. /\ mshr' = [mshr EXCEPT ![c][k.addr] = PopWrite(@, k.warp)]
      /\ log' = [log EXCEPT ![k.warp] = Append(@, l)]
      /\ skipL1' = [skipL1 EXCEPT ![c] = Tail(@)] /\ skipL1[c] # <<>>
      /\ UNCHANGED <<netVars, l1Vars, l2Vars>>
  BY <1>1 DEF WriteAck, mark_skipped_write_done, Complete
<1>4. UNCHANGED <<mandQ, reqNet, respNet, pts, line, wtimes>>
  BY <1>3 DEF netVars, l1Vars, l2Vars
<1>5. ASSUME NEW d \in Cores, NEW x \in Addrs
      PROVE  mshr'[d][x] = mshr[d][x] \/ EntryOK(mshr[d][x], x, d)'
  <2>1. CASE d = c /\ x = k.addr
    <3>1. PICK m \in MSHREntry : m = mshr[c][x]
      BY DEF TypeOK, MSHRTypeOK
    <3>2. PICK n : n = PopWrite(m, k.warp) /\ n = mshr'[c][x]
      BY <1>2, <1>3, <2>1, <3>1 DEF TypeOK, MSHRTypeOK
    <3>3. n.writes = m.writes \ {k.warp} /\ n.list = m.list /\ n.ver = m.ver
      BY <3>2 DEF PopWrite, MSHREntry
    <3>4. EntryOK(m, x, c)
      BY <3>1 DEF ClockInv
    <3> QED BY <1>4, <2>1, <3>2, <3>3, <3>4 DEF EntryOK, Reached, Newest
  <2>2. CASE d # c \/ x # k.addr
    BY <1>2, <1>3, <2>2 DEF TypeOK, MSHRTypeOK
  <2> QED BY <2>1, <2>2
<1>6. ASSUME NEW u \in Warps, NEW i \in DOMAIN log'[u]
      PROVE  \/ \E j \in DOMAIN log[u] : log'[u][i] = log[u][j]
             \/ Reached(log[u][i].addr, log[u][i].ver, pts[CoreOf[u]])'
  <2>1. log[u] \in Seq(LogEntry) /\ l.addr = k.addr /\ l.ver = k.ver
    BY DEF TypeOK, MSHRTypeOK
  <2>2. log'[u] = log[u] \/ (u = k.warp /\ log'[u] = Append(log[u], l))
    BY <1>3 DEF TypeOK, MSHRTypeOK
  <2> HIDE DEF l
  <2>3. \/ \E j \in DOMAIN log[u] : log'[u][i] = log[u][j]
        \/ u = k.warp /\ log'[u][i] = l
    BY <1>6, <2>1, <2>2, AppendProperties
  <2>4. CASE u = k.warp /\ log'[u][i] = l
    BY <1>2, <1>4, <2>1, <2>4 DEF SkipOK, Reached, Newest
  <2> QED BY <2>3, <2>4
<1>7. ASSUME NEW d \in Cores, NEW i \in DOMAIN skipL1'[d]
      PROVE  \E j \in DOMAIN skipL1[d] : skipL1'[d][i] = skipL1[d][j]
  <2>1. skipL1[c] \in Seq(SkipL1Request) /\ skipL1[c] # <<>>
    BY <1>3 DEF TypeOK, MSHRTypeOK
  <2>2. skipL1'[d] = IF d = c THEN Tail(skipL1[c]) ELSE skipL1[d]
    BY <1>3 DEF TypeOK, MSHRTypeOK
  <2> QED BY <1>7, <2>1, <2>2, TailElements
<1> QED BY <1>4, <1>5, <1>6, <1>7, CoreStepClocks DEF ClockInv

\* Virtual network 0 delivers a request (Deliver).
LEMMA NetworkClocks ==
    ASSUME TypeOK, TypeOK', ClockInv, NEW c \in Cores, NEW b \in Banks, Network(c, b)
    PROVE  ClockInv'
<1>1. UNCHANGED <<mandQ, respNet, skipL1, mshr, log, pts, line, wtimes>>
  BY DEF Network, coreVars, l1Vars, l2Vars
<1>2. reqNet[c][b] \in Seq(RequestMsg) /\ reqNet[c][b] # <<>>
  BY DEF Network, Deliver, TypeOK, NetTypeOK
<1>3. ASSUME NEW d \in Cores, NEW e \in Banks, NEW i \in DOMAIN reqNet'[d][e]
      PROVE  CoreOf[reqNet'[d][e][i].warp] = d
  <2>1. reqNet'[d][e] = IF d = c /\ e = b THEN Tail(reqNet[c][b]) ELSE reqNet[d][e]
    BY DEF Network, Deliver, TypeOK, NetTypeOK
  <2> QED BY <1>2, <1>3, <2>1, TailElements DEF ClockInv
<1> QED BY <1>1, <1>3, CoreStepClocks DEF ClockInv


\* The L1 has popped its mandatory queue.
LEMMA MandatoryPopped ==
    ASSUME TypeOK, ClockInv, NEW c \in Cores, mandQ[c] # <<>>,
           mandQ' = [mandQ EXCEPT ![c] = Tail(@)]
    PROVE  /\ CoreOf[Head(mandQ[c]).warp] = c
           /\ \A d \in Cores : \A i \in DOMAIN mandQ'[d] : CoreOf[mandQ'[d][i].warp] = d
<1>1. mandQ[c] \in Seq(CacheMsg)
  BY DEF TypeOK, NetTypeOK
<1>2. \A d \in Cores : mandQ'[d] = IF d = c THEN Tail(mandQ[c]) ELSE mandQ[d]
  BY DEF TypeOK, NetTypeOK
<1>3. 1 \in DOMAIN mandQ[c] /\ Head(mandQ[c]) = mandQ[c][1]
  BY <1>1, QueueFacts
<1> QED BY <1>1, <1>2, <1>3, TailElements DEF ClockInv

\* The L1 has sent a request of one of its warps.
LEMMA RequestSent ==
    ASSUME TypeOK, ClockInv, NEW c \in Cores, NEW m \in RequestMsg, SendRequest(c, m),
           CoreOf[m.warp] = c
    PROVE  \A d \in Cores, b \in Banks : \A i \in DOMAIN reqNet'[d][b] :
              CoreOf[reqNet'[d][b][i].warp] = d
<1> SUFFICES ASSUME NEW d \in Cores, NEW b \in Banks, NEW i \in DOMAIN reqNet'[d][b]
             PROVE  CoreOf[reqNet'[d][b][i].warp] = d
  OBVIOUS
<1>1. BankOf[m.addr] \in Banks
  BY BankOfAssumption DEF RequestMsg
<1>2. /\ reqNet'[d][b] = reqNet[d][b] \/ (d = c /\ reqNet'[d][b] = Append(reqNet[d][b], m))
      /\ reqNet[d][b] \in Seq(RequestMsg)
  BY <1>1 DEF SendRequest, TypeOK, NetTypeOK
<1>3. \A j \in DOMAIN reqNet[d][b] : CoreOf[reqNet[d][b][j].warp] = d
  BY DEF ClockInv
<1>4. CASE d = c /\ reqNet'[d][b] = Append(reqNet[d][b], m)
  BY <1>2, <1>3, <1>4, AppendElements
<1> QED BY <1>2, <1>3, <1>4

\* A load that hits takes the version of the line (h_load_hit).
LEMMA LoadHitClocks ==
    ASSUME TypeOK, TypeOK', ClockInv, NEW c \in Cores, LoadHit(c), UNCHANGED l2Vars
    PROVE  ClockInv'
<1>1. PICK a \in Addrs : a = Head(mandQ[c]).addr
  BY MandatoryHead DEF LoadHit
<1>2. PICK v \in Nat : v = line[c][a].ver
  BY DEF TypeOK, L1TypeOK, L1Entry
<1>3. /\ mshr' = [mshr EXCEPT ![c][a] = [@ EXCEPT !.ver = v]]
      /\ mandQ' = [mandQ EXCEPT ![c] = Tail(@)] /\ mandQ[c] # <<>>
      /\ UNCHANGED <<skipL1, log, reqNet, respNet, l1Vars>>
  BY <1>1, <1>2 DEF LoadHit, readCallback
<1>4. UNCHANGED <<pts, line, wtimes>>
  BY <1>3 DEF l1Vars, l2Vars
<1>5. ASSUME NEW d \in Cores, NEW x \in Addrs
      PROVE  mshr'[d][x] = mshr[d][x] \/ EntryOK(mshr[d][x], x, d)'
  <2>1. CASE d = c /\ x = a
    <3>1. PICK m \in MSHREntry : m = mshr[c][a]
      BY DEF TypeOK, MSHRTypeOK
    <3>2. PICK n : n = [m EXCEPT !.ver = v] /\ n = mshr'[c][a]
      BY <1>3, <3>1 DEF TypeOK, MSHRTypeOK
    <3>3. n.writes = m.writes /\ n.list = m.list /\ n.ver = v
      BY <3>2 DEF MSHREntry
    <3>4. EntryOK(m, a, c) /\ Reached(a, v, pts[c])
      BY <1>2, <3>1 DEF ClockInv
    <3> QED BY <1>4, <2>1, <3>2, <3>3, <3>4 DEF EntryOK, Reached, Newest
  <2>2. CASE d # c \/ x # a
    BY <1>3, <2>2 DEF TypeOK, MSHRTypeOK
  <2> QED BY <2>1, <2>2
<1>6. \A d \in Cores : \A i \in DOMAIN mandQ'[d] : CoreOf[mandQ'[d][i].warp] = d
  BY <1>3, MandatoryPopped
<1> QED BY <1>3, <1>4, <1>5, <1>6, CoreStepClocks DEF ClockInv

\* A request to the L2 carries the warp that made it; a new line has no version.
LEMMA L1RequestClocks ==
    ASSUME TypeOK, TypeOK', ClockInv, NEW c \in Cores, LoadMiss(c) \/ WriteThrough(c),
           UNCHANGED l2Vars
    PROVE  ClockInv'
<1>1. PICK r \in CacheMsg : r = Head(mandQ[c]) /\ r.addr \in Addrs /\ r.warp \in Warps
  BY MandatoryHead DEF LoadMiss, WriteThrough, CacheMsg
<1> DEFINE a == r.addr
           e == IF line[c][a].tag THEN line[c][a] ELSE NewLine
<1>2. /\ mandQ' = [mandQ EXCEPT ![c] = Tail(@)] /\ mandQ[c] # <<>>
      /\ UNCHANGED <<respNet, pts, coreVars>>
      /\ line' = line \/ line' = [line EXCEPT ![c][a] = e]
      /\ SendRequest(c, a_issueGETS(c, r, e)) \/ SendRequest(c, d2t_sendToL2(c, r))
  BY <1>1 DEF LoadMiss, WriteThrough
<1>3. UNCHANGED <<skipL1, mshr, log, wtimes>>
  BY <1>2 DEF coreVars, l2Vars
<1>4. \A d \in Cores : \A i \in DOMAIN mandQ'[d] : CoreOf[mandQ'[d][i].warp] = d
  BY <1>2, MandatoryPopped
<1>5. \A d \in Cores, b \in Banks : \A i \in DOMAIN reqNet'[d][b] :
          CoreOf[reqNet'[d][b][i].warp] = d
  <2>1. e \in L1Entry
    BY <1>1 DEF TypeOK, L1TypeOK, L1Entry, NewLine
  <2>2. CoreOf[r.warp] = c
    BY <1>1, <1>2, MandatoryPopped
  <2>3. /\ a_issueGETS(c, r, e) \in RequestMsg /\ a_issueGETS(c, r, e).warp = r.warp
        /\ d2t_sendToL2(c, r) \in RequestMsg /\ d2t_sendToL2(c, r).warp = r.warp
    <3>1. a_issueGETS(c, r, e) \in RequestMsg /\ d2t_sendToL2(c, r) \in RequestMsg
      BY <2>1, L1MessageTypes
    <3> QED BY <3>1 DEF a_issueGETS, d2t_sendToL2
  <2> HIDE DEF e
  <2> QED BY <1>2, <2>2, <2>3, RequestSent
<1>6. ASSUME NEW d \in Cores, NEW x \in Addrs
      PROVE  line'[d][x] = line[d][x] \/ Reached(x, line[d][x].ver, pts[d])'
  <2>1. line'[d][x] = line[d][x] \/ line'[d][x] = NewLine
    <3>1. CASE line' = [line EXCEPT ![c][a] = e]
      <4>1. line'[d][x] = IF d = c /\ x = a THEN e ELSE line[d][x]
        BY <1>1, <3>1 DEF TypeOK, L1TypeOK
      <4> QED BY <4>1
    <3> QED BY <1>2, <3>1
  <2>2. Newest(x)' \in Nat
    BY DEF TypeOK, L2TypeOK, Newest
  <2> QED BY <2>1, <2>2 DEF NewLine, Reached
<1> QED BY <1>2, <1>3, <1>4, <1>5, <1>6, CoreStepClocks DEF ClockInv

\* A line that is dropped has no version.
LEMMA L1_ReplacementClocks ==
    ASSUME TypeOK, TypeOK', ClockInv, NEW c \in Cores, NEW v \in Addrs, L1_Replacement(c, v),
           UNCHANGED l2Vars
    PROVE  ClockInv'
<1>1. UNCHANGED <<mandQ, reqNet, respNet, pts, skipL1, mshr, log, wtimes>>
  BY DEF L1_Replacement, netVars, coreVars, l2Vars
<1>2. ASSUME NEW d \in Cores, NEW x \in Addrs
      PROVE  line'[d][x] = line[d][x] \/ Reached(x, line[d][x].ver, pts[d])'
  <2>1. line'[d][x] = line[d][x] \/ line'[d][x] = NoLine
    BY DEF L1_Replacement, TypeOK, L1TypeOK
  <2>2. Newest(x)' \in Nat
    BY DEF TypeOK, L2TypeOK, Newest
  <2> QED BY <2>1, <2>2 DEF NoLine, Reached
<1> QED BY <1>1, <1>2, CoreStepClocks DEF ClockInv

\* The L1 moves its clock to the time of a response before it uses the block
\* (tp_updateProcessorTimestamp), and the response is about a version it covers.
LEMMA ClockMoved ==
    ASSUME TypeOK, ClockInv, NEW c \in Cores, NEW b \in Banks, NEW m \in ResponseMsg,
           respNet[b][c] # <<>>, m = Head(respNet[b][c]), wtimes' = wtimes,
           pts' = [pts EXCEPT ![c] = tp_updateProcessorTimestamp(c, m)]
    PROVE  /\ \A d \in Cores : pts'[d] >= pts[d]
           /\ CoreOf[m.warp] = c
           /\ Reached(m.addr, m.ver, pts[c])'
<1>1. m.wts \in Nat /\ m.ver \in Nat /\ m.addr \in Addrs /\ pts[c] \in Nat
  BY DEF ResponseMsg, TypeOK, L1TypeOK
<1>2. ResponseOK(m, b, c)
  BY QueueFacts DEF TypeOK, NetTypeOK, ClockInv
<1>3. pts'[c] \in Nat /\ pts'[c] >= pts[c] /\ pts'[c] >= m.wts
  BY <1>1, MaxFacts DEF tp_updateProcessorTimestamp, TypeOK, L1TypeOK
<1>4. \A d \in Cores : pts[d] \in Nat /\ (d # c => pts'[d] = pts[d])
  BY DEF TypeOK, L1TypeOK
<1>5. \A d \in Cores : pts'[d] >= pts[d]
  BY <1>3, <1>4
<1>6. PICK t \in Nat : t = pts'[c]
  BY <1>3
<1>7. Reached(m.addr, m.ver, t)'
  <2>1. Kept
    BY KeptByCores
  <2> QED BY <1>1, <1>2, <1>3, <1>6, <2>1 DEF ResponseOK, Kept
<1> QED BY <1>2, <1>5, <1>6, <1>7 DEF ResponseOK, Reached

\* Data arrives: the line and the entry take over its version.
LEMMA DataClocks ==
    ASSUME TypeOK, TypeOK', ClockInv, NEW c \in Cores, NEW b \in Banks, Data(c, b),
           UNCHANGED l2Vars
    PROVE  ClockInv'
<1>0. respNet[b][c] # <<>>
  BY ZenonT(40) DEF Data
<1>1. PICK m \in ResponseMsg : m = Head(respNet[b][c]) /\ m.addr \in Addrs /\ m.ver \in Nat
  BY <1>0, ResponseHead
<1> DEFINE a == m.addr
<1>2. /\ mshr' = [mshr EXCEPT ![c][a] = [@ EXCEPT !.ver = m.ver]]
      /\ respNet' = [respNet EXCEPT ![b][c] = Tail(@)] /\ respNet[b][c] # <<>>
      /\ pts' = [pts EXCEPT ![c] = tp_updateProcessorTimestamp(c, m)]
      /\ line' = [line EXCEPT ![c][a] = [tag |-> @.tag, rts |-> m.rts, have |-> TRUE, ver |-> m.ver]]
      /\ UNCHANGED <<skipL1, log, mandQ, reqNet>>
  BY ZenonT(40), <1>1 DEF Data, readCallback
<1>3. wtimes' = wtimes
  BY DEF l2Vars
<1>4. /\ \A d \in Cores : pts'[d] >= pts[d]
      /\ Reached(a, m.ver, pts[c])'
  BY <1>1, <1>2, <1>3, ClockMoved
<1>5. ASSUME NEW d \in Cores, NEW x \in Addrs
      PROVE  mshr'[d][x] = mshr[d][x] \/ EntryOK(mshr[d][x], x, d)'
  <2>1. CASE d = c /\ x = a
    <3>1. PICK k \in MSHREntry : k = mshr[c][a]
      BY <1>1 DEF TypeOK, MSHRTypeOK
    <3>2. PICK n : n = [k EXCEPT !.ver = m.ver] /\ n = mshr'[c][a]
      BY <1>1, <1>2, <3>1 DEF TypeOK, MSHRTypeOK
    <3>3. n.writes = k.writes /\ n.list = k.list /\ n.ver = m.ver
      BY <3>2 DEF MSHREntry
    <3>4. EntryOK(k, a, c)
      BY <1>1, <3>1 DEF ClockInv
    <3> QED BY <1>4, <2>1, <3>2, <3>3, <3>4 DEF EntryOK, Reached
  <2>2. CASE d # c \/ x # a
    BY <1>1, <1>2, <2>2 DEF TypeOK, MSHRTypeOK
  <2> QED BY <2>1, <2>2
<1>6. ASSUME NEW d \in Cores, NEW x \in Addrs
      PROVE  line'[d][x] = line[d][x] \/ Reached(x, line[d][x].ver, pts[d])'
  <2>1. CASE d = c /\ x = a
    <3>1. line'[c][a].ver = m.ver
      BY <1>1, <1>2 DEF TypeOK, L1TypeOK
    <3> QED BY <1>4, <2>1, <3>1 DEF Reached
  <2>2. CASE d # c \/ x # a
    BY <1>1, <1>2, <2>2 DEF TypeOK, L1TypeOK
  <2> QED BY <2>1, <2>2
<1>7. \A d \in Banks, k \in Cores : \A i \in DOMAIN respNet'[d][k] :
          \E j \in DOMAIN respNet[d][k] : respNet'[d][k][i] = respNet[d][k][j]
  BY <1>2, PoppedResponses
<1>8. Kept
  BY <1>3, KeptByCores
<1>9. /\ \A d \in Cores : \A i \in DOMAIN mandQ'[d] : CoreOf[mandQ'[d][i].warp] = d
      /\ \A d \in Cores, x \in Banks : \A i \in DOMAIN reqNet'[d][x] :
            CoreOf[reqNet'[d][x][i].warp] = d
  BY <1>2 DEF ClockInv
<1>10. UNCHANGED <<skipL1, log>>
  BY <1>2
<1> QED BY <1>4, <1>5, <1>6, <1>7, <1>8, <1>9, <1>10, StepClocks

\* An acknowledgement is queued for the core with the version it is about.
LEMMA WriteDoneClocks ==
    ASSUME TypeOK, TypeOK', ClockInv, NEW c \in Cores, NEW b \in Banks, WriteDone(c, b),
           UNCHANGED l2Vars
    PROVE  ClockInv'
<1>0. respNet[b][c] # <<>>
  BY ZenonT(40) DEF WriteDone
<1>1. PICK m \in ResponseMsg : m = Head(respNet[b][c]) /\ m.addr \in Addrs /\ m.ver \in Nat
  BY <1>0, ResponseHead
<1> DEFINE k == [op |-> IF m.type = "ACK" THEN "ST" ELSE "ATOMIC", addr |-> m.addr,
                 warp |-> m.warp, ver |-> m.ver]
<1>2. /\ skipL1' = [skipL1 EXCEPT ![c] = Append(@, k)]
      /\ respNet' = [respNet EXCEPT ![b][c] = Tail(@)] /\ respNet[b][c] # <<>>
      /\ pts' = [pts EXCEPT ![c] = tp_updateProcessorTimestamp(c, m)]
      /\ UNCHANGED <<mshr, log, mandQ, reqNet, line>>
  BY ZenonT(30), <1>1 DEF WriteDone, writeCallback
<1>3. wtimes' = wtimes
  BY DEF l2Vars
<1>4. /\ \A d \in Cores : pts'[d] >= pts[d]
      /\ CoreOf[m.warp] = c
      /\ Reached(m.addr, m.ver, pts[c])'
  BY <1>1, <1>2, <1>3, ClockMoved
<1>5. ASSUME NEW d \in Cores, NEW i \in DOMAIN skipL1'[d]
      PROVE  \/ \E j \in DOMAIN skipL1[d] : skipL1'[d][i] = skipL1[d][j]
             \/ SkipOK(skipL1[d][i], d)'
  <2>1. k.warp = m.warp /\ k.addr = m.addr /\ k.ver = m.ver /\ skipL1[d] \in Seq(SkipL1Request)
    BY DEF TypeOK, MSHRTypeOK
  <2>2. skipL1'[d] = skipL1[d] \/ (d = c /\ skipL1'[d] = Append(skipL1[d], k))
    BY <1>2 DEF TypeOK, MSHRTypeOK
  <2> HIDE DEF k
  <2>3. \/ \E j \in DOMAIN skipL1[d] : skipL1'[d][i] = skipL1[d][j]
        \/ d = c /\ skipL1'[d][i] = k
    BY <1>5, <2>1, <2>2, AppendProperties
  <2>4. CASE d = c /\ skipL1'[d][i] = k
    BY <1>4, <2>1, <2>4 DEF SkipOK, Reached
  <2> QED BY <2>3, <2>4
<1>6. \A d \in Banks, x \in Cores : \A i \in DOMAIN respNet'[d][x] :
          \E j \in DOMAIN respNet[d][x] : respNet'[d][x][i] = respNet[d][x][j]
  BY <1>2, PoppedResponses
<1>7. Kept
  BY <1>3, KeptByCores
<1> QED BY <1>2, <1>4, <1>5, <1>6, <1>7, StepClocks DEF ClockInv

-----------------------------------------------------------------------------
\* Nothing has been read or written yet.
LEMMA InitClocks == Init => ClockInv
BY DEF Init, NetInit, MSHRInit, L1Init, L2Init, ClockInv, EntryOK, Reached, Newest,
       NoMSHR, NoLine

\* Every step keeps the invariant.
LEMMA NextClocks == TypeOK /\ WriteInv /\ ClockInv /\ [Next]_vars => ClockInv'
<1> SUFFICES ASSUME TypeOK, WriteInv, ClockInv, [Next]_vars PROVE ClockInv'
  OBVIOUS
<1>1. TypeOK' /\ WriteInv'
  BY NextTypes, NextWrites
<1>2. ASSUME NEW w \in Warps, Issue(w) PROVE ClockInv'
  BY <1>1, <1>2, IssueClocks
<1>3. ASSUME NEW c \in Cores, Writeback(c) PROVE ClockInv'
  BY <1>1, <1>3, WritebackClocks
<1>4. ASSUME NEW c \in Cores, WriteAck(c) PROVE ClockInv'
  BY <1>1, <1>4, WriteAckClocks
<1>5. ASSUME NEW c \in Cores, L1Step(c) PROVE ClockInv'
  BY <1>1, <1>5, LoadHitClocks, L1RequestClocks, L1_ReplacementClocks, DataClocks,
     WriteDoneClocks DEF L1Step, L1Next
<1>6. ASSUME NEW c \in Cores, NEW b \in Banks, Network(c, b) PROVE ClockInv'
  BY <1>1, <1>6, NetworkClocks
<1>7. ASSUME NEW b \in Banks, L2Step(b) PROVE ClockInv'
  <2>1. UNCHANGED <<coreVars, l1Vars>>
    BY <1>7 DEF L2Step
  <2>2. CASE WriteMiss(b) \/ GetsHit(b) \/ WriteHit(b, "DATA") \/ WriteHit(b, "DATA_ATOMIC")
    <3>1. UNCHANGED <<mandQ, reqNet>>
      BY <2>2 DEF WriteMiss, GetsHit, WriteHit, PopRequest
    <3>2. /\ Kept
          /\ \E m \in ResponseMsg : /\ SendResponse(b, m) /\ BankOf[m.addr] = b
                                    /\ Reached(m.addr, m.ver, m.wts)'
      BY <2>2, WriteMissAnswer, GetsHitAnswer, WriteHitAnswer
    <3> QED BY <1>1, <2>1, <3>1, <3>2, AnswerClocks
  <2>3. CASE GetsMiss(b) \/ AtomicMiss(b) \/ \E v \in Addrs : L2_Replacement(b, v)
    <3>1. UNCHANGED <<mandQ, reqNet, respNet, wtimes>>
      BY <2>3 DEF GetsMiss, AtomicMiss, L2_Replacement, PopRequest, netVars
    <3>2. Kept
      BY <3>1, KeptByCores
    <3> QED BY <1>1, <2>1, <3>1, <3>2, BankStepClocks
  <2> QED BY <1>7, <2>2, <2>3 DEF L2Step, L2Next
<1>8. ASSUME NEW a \in Addrs, Dram(a) PROVE ClockInv'
  BY <1>1, <1>8, FetchClocks DEF Dram
<1>9. CASE UNCHANGED vars
  <2>1. UNCHANGED <<mandQ, reqNet, respNet, coreVars, l1Vars, wtimes>>
    BY <1>9 DEF vars, netVars, l2Vars
  <2>2. Kept
    BY <2>1, KeptByCores
  <2> QED BY <1>1, <2>1, <2>2, BankStepClocks
<1> QED BY <1>2, <1>3, <1>4, <1>5, <1>6, <1>7, <1>8, <1>9 DEF Next, Terminated

\* The inductive invariant of the clocks.
THEOREM ClocksInvariant == Spec => []ClockInv
<1>1. TypeOK /\ WriteInv /\ ClockInv /\ [Next]_vars => ClockInv'
  BY NextClocks
<1> QED BY <1>1, InitClocks, TypeCorrect, WritesInvariant, PTL DEF Spec

\* The clock of a core has reached the time of every write its warps have read
\* or made (tp_updateProcessorTimestamp).
THEOREM ClocksCover == Spec => []ClockCoversAccesses
<1>1. ClockInv => ClockCoversAccesses
  BY DEF ClockInv, ClockCoversAccesses, Reached
<1> QED BY <1>1, ClocksInvariant, PTL

=============================================================================
