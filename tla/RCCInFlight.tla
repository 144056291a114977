---------------------------- MODULE RCCInFlight ----------------------------
(***************************************************************************)
(* Requests on their way, for every GPU, every lease and every program: no  *)
(* merge, fetch or reply loses or repeats one, the assertions of the        *)
(* controllers hold, and the counters of an L1's TBE count the ones beyond  *)
(* the L1.                                                                  *)
(*                                                                          *)
(* The reads of one line by one core are one request (the MSHR merges       *)
(* them), a write is a request of its own.  The proof names each request,   *)
(* says at which stage of its way it is held, and shows that a step either  *)
(* moves a request from one stage to another, makes one or ends one.        *)
(*                                                                          *)
(* The same names count the work done: a load moves logical time on by at   *)
(* most a lease and a write by at most one tick, so that the clocks are     *)
(* bounded by the accesses of the program.                                  *)
(***************************************************************************)
EXTENDS RCCClocks, RCCProperties, FiniteSetTheorems, FunctionTheorems

\* The names of the requests and the stages of their way.
Ids == ({"R"} \X Cores \X Addrs) \cup ({"W"} \X Warps \X Addrs)
BeyondL1 == {"req", "l2in", "tbe", "resp"}
Stages == {"mand", "back"} \cup BeyondL1

Id(read, w, a) == IF read THEN <<"R", CoreOf[w], a>> ELSE <<"W", w, a>>

\* The core a request belongs to.
HomeOf(id) == IF id[1] = "R" THEN id[2] ELSE CoreOf[id[2]]

\* The request a message is about.
CacheId == [r \in CacheMsg |-> Id(r.op = "LD", r.warp, r.addr)]
RequestId == [m \in RequestMsg |-> Id(m.type = "GETS", m.warp, m.addr)]
ResponseId == [m \in ResponseMsg |-> Id(m.type = "DATA", m.warp, m.addr)]
ReadyId(c) == [a \in Addrs |-> <<"R", c, a>>]
SkipId == [k \in SkipL1Request |-> <<"W", k.warp, k.addr>>]

\* Queue q has a message about request id, and at most one about each.
In(q, f, id) == \E i \in DOMAIN q : f[q[i]] = id
Once(q, f) == \A i, j \in DOMAIN q : f[q[i]] = f[q[j]] => i = j

\* The requests that wait for the fetch of line a.
InTBE(a) == {Id(TRUE, w, a) : w \in l2tbe[a].gets}
            \cup {Id(FALSE, w, a) : w \in IF l2st[a] = "IAV" THEN l2tbe[a].wback ELSE {}}

\* Request id is at stage s.
Held(id, s) ==
    LET c == HomeOf(id)
        b == BankOf[id[3]]
    IN \/ s = "mand" /\ In(mandQ[c], CacheId, id)
       \/ s = "req" /\ In(reqNet[c][b], RequestId, id)
       \/ s = "l2in" /\ In(l2in[b], RequestId, id)
       \/ s = "tbe" /\ id \in InTBE(id[3])
       \/ s = "resp" /\ In(respNet[b][c], ResponseId, id)
       \/ s = "back" /\ (In(ready[c], ReadyId(c), id) \/ In(skipL1[c], SkipId, id))

\* No queue holds a request twice.
OnceEach ==
    /\ \A c \in Cores : /\ Once(mandQ[c], CacheId)
                        /\ Once(ready[c], ReadyId(c))
                        /\ Once(skipL1[c], SkipId)
    /\ \A c \in Cores, b \in Banks : /\ Once(reqNet[c][b], RequestId)
                                     /\ Once(respNet[b][c], ResponseId)
    /\ \A b \in Banks : Once(l2in[b], RequestId)

\* A request is at one stage at a time.
Single == \A id \in Ids : \A s, t \in Stages : Held(id, s) /\ Held(id, t) => s = t

\* The TBE of a fetch: an atomic waits alone, a core's reads wait once.
TBEInv ==
    \A a \in Addrs :
        /\ l2st[a] \in {"NP", "V"} => l2tbe[a] = NoL2TBE
        /\ l2st[a] = "IAV" => l2tbe[a].gets = {} /\ \E w \in Warps : l2tbe[a].wback = {w}
        /\ \A w, u \in l2tbe[a].gets : CoreOf[w] = CoreOf[u] => w = u

\* u occurs in q; no element occurs twice in q.
Has(q, u) == \E i \in DOMAIN q : q[i] = u
Distinct(q) == \A i, j \in DOMAIN q : q[i] = q[j] => i = j

\* Warp w waits in the MSHR entry of line a, as a reader or as a writer.
Reads(w, a) == Has(mshr[CoreOf[w]][a].list, w)
Writes(w, a) == w \in mshr[CoreOf[w]][a].writes

\* A warp waits once, and as long as it has an access under way (the SC fence).
Busy ==
    /\ \A w \in Warps : n_gmem[w] \in {0, 1}
    /\ \A w \in Warps, a \in Addrs : Reads(w, a) \/ Writes(w, a) => n_gmem[w] = 1
    /\ \A w \in Warps, a \in Addrs : ~(Reads(w, a) /\ Writes(w, a))
    /\ \A w \in Warps : \A a, x \in Addrs :
          (Reads(w, a) \/ Writes(w, a)) /\ (Reads(w, x) \/ Writes(w, x)) => a = x
    /\ \A c \in Cores, a \in Addrs : Distinct(mshr[c][a].list)

\* A request is awaited by its MSHR entry exactly while it is somewhere.
Wanted(id) == IF id[1] = "R" THEN mshr[id[2]][id[3]].list # <<>> ELSE Writes(id[2], id[3])
Awaited == \A id \in Ids : Wanted(id) <=> \E s \in Stages : Held(id, s)

\* The requests that have left the L1 and are not answered.
Beyond(id) == \E s \in BeyondL1 : Held(id, s)
WritesBeyond(c, a) == {w \in Warps : CoreOf[w] = c /\ Beyond(<<"W", w, a>>)}

\* The L1's TBE counts them, and is there as long as there are some.
CountedAt(c, a) ==
    /\ tbe[c][a].reads = IF Beyond(<<"R", c, a>>) THEN 1 ELSE 0
    /\ IsFiniteSet(WritesBeyond(c, a))
    /\ tbe[c][a].writes = Cardinality(WritesBeyond(c, a))
    /\ TBEPresent(c, a) <=> tbe[c][a].reads + tbe[c][a].writes > 0
    /\ st[c][a] = "I_S" => tbe[c][a].reads > 0
    /\ tbe[c][a].reads > 0 => line[c][a].tag

Counted == \A c \in Cores, a \in Addrs : CountedAt(c, a)

FlightInv == OnceEach /\ Single /\ TBEInv /\ Busy /\ Awaited /\ Counted

-----------------------------------------------------------------------------
(* Queues.                                                                  *)

\* A dequeue takes the head's request away, and only that one.
LEMMA PopIn ==
    ASSUME NEW S, NEW q \in Seq(S), q # <<>>, NEW f, Once(q, f)
    PROVE  /\ Once(Tail(q), f)
           /\ In(q, f, f[Head(q)])
           /\ \A id : In(Tail(q), f, id) <=> In(q, f, id) /\ id # f[Head(q)]
<1>1. /\ Tail(q) \in Seq(S) /\ Len(q) \in Nat /\ Len(q) >= 1 /\ Head(q) = q[1]
      /\ Len(Tail(q)) = Len(q) - 1 /\ DOMAIN q = 1..Len(q) /\ DOMAIN Tail(q) = 1..(Len(q) - 1)
      /\ \A i \in 1..(Len(q) - 1) : Tail(q)[i] = q[i + 1]
  BY EmptySeq, HeadTailProperties
<1>2. Once(Tail(q), f)
  BY <1>1 DEF Once
<1>3. ASSUME NEW id
      PROVE  In(Tail(q), f, id) <=> In(q, f, id) /\ id # f[Head(q)]
  <2>1. ASSUME In(Tail(q), f, id) PROVE In(q, f, id) /\ id # f[Head(q)]
    <3>1. PICK i \in 1..(Len(q) - 1) : f[q[i + 1]] = id
      BY <1>1, <2>1 DEF In
    <3>2. i + 1 \in DOMAIN q /\ 1 \in DOMAIN q /\ i + 1 # 1
      BY <1>1
    <3> QED BY <1>1, <3>1, <3>2 DEF In, Once
  <2>2. ASSUME In(q, f, id), id # f[Head(q)] PROVE In(Tail(q), f, id)
    <3>1. PICK i \in 1..Len(q) : f[q[i]] = id
      BY <1>1, <2>2 DEF In
    <3>2. i # 1
      BY <1>1, <2>2, <3>1
    <3>3. i - 1 \in 1..(Len(q) - 1) /\ Tail(q)[i - 1] = q[i]
      BY <1>1, <3>2
    <3> QED BY <1>1, <3>1, <3>3 DEF In
  <2> QED BY <2>1, <2>2
<1>4. In(q, f, f[Head(q)])
  BY <1>1 DEF In
<1> QED BY <1>2, <1>3, <1>4

\* An enqueue adds a request that was not there.
LEMMA PushIn ==
    ASSUME NEW S, NEW q \in Seq(S), NEW m \in S, NEW f, Once(q, f), ~In(q, f, f[m])
    PROVE  /\ Once(Append(q, m), f)
           /\ \A id : In(Append(q, m), f, id) <=> In(q, f, id) \/ id = f[m]
<1> DEFINE p == Append(q, m)
<1>1. /\ Len(q) \in Nat /\ DOMAIN q = 1..Len(q) /\ DOMAIN p = 1..(Len(q) + 1)
      /\ p[Len(q) + 1] = m
      /\ \A i \in 1..Len(q) : p[i] = q[i]
  BY AppendProperties
<1>2. \A i \in DOMAIN p : i \in DOMAIN q \/ i = Len(q) + 1
  BY <1>1
<1> HIDE DEF p
<1>3. Once(p, f)
  BY <1>1, <1>2 DEF Once, In
<1>4. \A id : In(p, f, id) <=> In(q, f, id) \/ id = f[m]
  BY <1>1, <1>2 DEF In
<1> QED BY <1>3, <1>4 DEF p

-----------------------------------------------------------------------------
(* Names.                                                                   *)

\* What the names are made of.
LEMMA IdShape ==
    ASSUME NEW id \in Ids
    PROVE  /\ HomeOf(id) \in Cores
           /\ id[3] \in Addrs
           /\ BankOf[id[3]] \in Banks
           /\ \/ id[1] = "R" /\ id[2] \in Cores /\ id = <<"R", id[2], id[3]>>
              \/ id[1] = "W" /\ id[2] \in Warps /\ id = <<"W", id[2], id[3]>>
BY CoreOfAssumption, BankOfAssumption DEF Ids, HomeOf

\* The names of the messages.
LEMMA MessageIds ==
    /\ \A r \in CacheMsg : /\ CacheId[r] = Id(r.op = "LD", r.warp, r.addr)
                           /\ CacheId[r] \in Ids
                           /\ HomeOf(CacheId[r]) = CoreOf[r.warp]
                           /\ CacheId[r][3] = r.addr
    /\ \A m \in RequestMsg : /\ RequestId[m] = Id(m.type = "GETS", m.warp, m.addr)
                             /\ RequestId[m] \in Ids
                             /\ HomeOf(RequestId[m]) = CoreOf[m.warp]
                             /\ RequestId[m][3] = m.addr
    /\ \A m \in ResponseMsg : /\ ResponseId[m] = Id(m.type = "DATA", m.warp, m.addr)
                              /\ ResponseId[m] \in Ids
                              /\ HomeOf(ResponseId[m]) = CoreOf[m.warp]
                              /\ ResponseId[m][3] = m.addr
<1>1. ASSUME NEW r \in CacheMsg
      PROVE  /\ CacheId[r] = Id(r.op = "LD", r.warp, r.addr)
             /\ CacheId[r] \in Ids /\ HomeOf(CacheId[r]) = CoreOf[r.warp]
             /\ CacheId[r][3] = r.addr
  <2>1. r.warp \in Warps /\ r.addr \in Addrs /\ (r.op = "LD") \in BOOLEAN
    BY DEF CacheMsg
  <2>2. CacheId[r] = Id(r.op = "LD", r.warp, r.addr)
    BY DEF CacheId
  <2> QED BY <2>1, <2>2, CoreOfAssumption DEF Id, Ids, HomeOf
<1>2. ASSUME NEW m \in RequestMsg
      PROVE  /\ RequestId[m] = Id(m.type = "GETS", m.warp, m.addr)
             /\ RequestId[m] \in Ids /\ HomeOf(RequestId[m]) = CoreOf[m.warp]
             /\ RequestId[m][3] = m.addr
  <2>1. m.warp \in Warps /\ m.addr \in Addrs /\ (m.type = "GETS") \in BOOLEAN
    BY DEF RequestMsg
  <2>2. RequestId[m] = Id(m.type = "GETS", m.warp, m.addr)
    BY DEF RequestId
  <2> QED BY <2>1, <2>2, CoreOfAssumption DEF Id, Ids, HomeOf
<1>3. ASSUME NEW m \in ResponseMsg
      PROVE  /\ ResponseId[m] = Id(m.type = "DATA", m.warp, m.addr)
             /\ ResponseId[m] \in Ids /\ HomeOf(ResponseId[m]) = CoreOf[m.warp]
             /\ ResponseId[m][3] = m.addr
  <2>1. m.warp \in Warps /\ m.addr \in Addrs /\ (m.type = "DATA") \in BOOLEAN
    BY DEF ResponseMsg
  <2>2. ResponseId[m] = Id(m.type = "DATA", m.warp, m.addr)
    BY DEF ResponseId
  <2> QED BY <2>1, <2>2, CoreOfAssumption DEF Id, Ids, HomeOf
<1> QED BY <1>1, <1>2, <1>3

\* What a stage is, spelled out.
LEMMA HeldAt ==
    ASSUME NEW id
    PROVE  /\ Held(id, "mand") <=> In(mandQ[HomeOf(id)], CacheId, id)
           /\ Held(id, "req") <=> In(reqNet[HomeOf(id)][BankOf[id[3]]], RequestId, id)
           /\ Held(id, "l2in") <=> In(l2in[BankOf[id[3]]], RequestId, id)
           /\ Held(id, "tbe") <=> id \in InTBE(id[3])
           /\ Held(id, "resp") <=> In(respNet[BankOf[id[3]]][HomeOf(id)], ResponseId, id)
           /\ Held(id, "back") <=> \/ In(ready[HomeOf(id)], ReadyId(HomeOf(id)), id)
                                   \/ In(skipL1[HomeOf(id)], SkipId, id)
BY DEF Held

\* The same after a step.
LEMMA HeldNext ==
    ASSUME NEW id
    PROVE  /\ Held(id, "mand")' <=> In(mandQ'[HomeOf(id)], CacheId, id)
           /\ Held(id, "req")' <=> In(reqNet'[HomeOf(id)][BankOf[id[3]]], RequestId, id)
           /\ Held(id, "l2in")' <=> In(l2in'[BankOf[id[3]]], RequestId, id)
           /\ Held(id, "tbe")' <=> id \in InTBE(id[3])'
           /\ Held(id, "resp")' <=> In(respNet'[BankOf[id[3]]][HomeOf(id)], ResponseId, id)
           /\ Held(id, "back")' <=> \/ In(ready'[HomeOf(id)], ReadyId(HomeOf(id)), id)
                                    \/ In(skipL1'[HomeOf(id)], SkipId, id)
BY DEF Held, In, CacheId, RequestId, ResponseId, ReadyId, SkipId, HomeOf


-----------------------------------------------------------------------------
(* How one stage changes.                                                   *)

Same(s) == \A id \in Ids : Held(id, s)' <=> Held(id, s)
Enters(s, X) == \A id \in Ids : Held(id, s)' <=> Held(id, s) \/ id \in X
Leaves(s, X) ==
    /\ X \subseteq Ids
    /\ \A id \in X : Held(id, s)
    /\ \A id \in Ids : Held(id, s)' <=> Held(id, s) /\ id \notin X

\* A message waits in a queue of the core and the bank of its request.
LEMMA Homes ==
    ASSUME TypeOK, WriteInv, ClockInv, NEW id
    PROVE  /\ \A c \in Cores : In(mandQ[c], CacheId, id) => id \in Ids /\ HomeOf(id) = c
           /\ \A c \in Cores, b \in Banks : In(reqNet[c][b], RequestId, id) =>
                 id \in Ids /\ HomeOf(id) = c /\ BankOf[id[3]] = b
           /\ \A b \in Banks : In(l2in[b], RequestId, id) => id \in Ids /\ BankOf[id[3]] = b
           /\ \A c \in Cores, b \in Banks : In(respNet[b][c], ResponseId, id) =>
                 id \in Ids /\ HomeOf(id) = c /\ BankOf[id[3]] = b
           /\ \A c \in Cores : In(ready[c], ReadyId(c), id) =>
                 id \in Ids /\ HomeOf(id) = c /\ id[1] = "R"
           /\ \A c \in Cores : In(skipL1[c], SkipId, id) =>
                 id \in Ids /\ HomeOf(id) = c /\ id[1] = "W"
<1>1. ASSUME NEW c \in Cores, In(mandQ[c], CacheId, id) PROVE id \in Ids /\ HomeOf(id) = c
  <2>1. PICK i \in DOMAIN mandQ[c] : CacheId[mandQ[c][i]] = id
    BY <1>1 DEF In
  <2>2. mandQ[c][i] \in CacheMsg /\ CoreOf[mandQ[c][i].warp] = c
    BY DEF TypeOK, NetTypeOK, ClockInv
  <2> QED BY <2>1, <2>2, MessageIds
<1>2. ASSUME NEW c \in Cores, NEW b \in Banks, In(reqNet[c][b], RequestId, id)
      PROVE  id \in Ids /\ HomeOf(id) = c /\ BankOf[id[3]] = b
  <2>1. PICK i \in DOMAIN reqNet[c][b] : RequestId[reqNet[c][b][i]] = id
    BY <1>2 DEF In
  <2>2. /\ reqNet[c][b][i] \in RequestMsg /\ CoreOf[reqNet[c][b][i].warp] = c
        /\ BankOf[reqNet[c][b][i].addr] = b
    BY DEF TypeOK, NetTypeOK, ClockInv, WriteInv, Routed
  <2> QED BY <2>1, <2>2, MessageIds
<1>3. ASSUME NEW b \in Banks, In(l2in[b], RequestId, id)
      PROVE  id \in Ids /\ BankOf[id[3]] = b
  <2>1. PICK i \in DOMAIN l2in[b] : RequestId[l2in[b][i]] = id
    BY <1>3 DEF In
  <2>2. l2in[b][i] \in RequestMsg /\ BankOf[l2in[b][i].addr] = b
    BY DEF TypeOK, NetTypeOK, WriteInv, Routed
  <2> QED BY <2>1, <2>2, MessageIds
<1>4. ASSUME NEW c \in Cores, NEW b \in Banks, In(respNet[b][c], ResponseId, id)
      PROVE  id \in Ids /\ HomeOf(id) = c /\ BankOf[id[3]] = b
  <2>1. PICK i \in DOMAIN respNet[b][c] : ResponseId[respNet[b][c][i]] = id
    BY <1>4 DEF In
  <2>2. respNet[b][c][i] \in ResponseMsg /\ ResponseOK(respNet[b][c][i], b, c)
    BY DEF TypeOK, NetTypeOK, ClockInv
  <2> QED BY <2>1, <2>2, MessageIds DEF ResponseOK
<1>5. ASSUME NEW c \in Cores, In(ready[c], ReadyId(c), id)
      PROVE  id \in Ids /\ HomeOf(id) = c /\ id[1] = "R"
  <2>1. PICK i \in DOMAIN ready[c] : ReadyId(c)[ready[c][i]] = id
    BY <1>5 DEF In
  <2>2. ready[c][i] \in Addrs
    BY DEF TypeOK, MSHRTypeOK
  <2>3. id = <<"R", c, ready[c][i]>>
    BY <2>1, <2>2 DEF ReadyId
  <2> QED BY <2>2, <2>3 DEF Ids, HomeOf
<1>6. ASSUME NEW c \in Cores, In(skipL1[c], SkipId, id)
      PROVE  id \in Ids /\ HomeOf(id) = c /\ id[1] = "W"
  <2>1. PICK i \in DOMAIN skipL1[c] : SkipId[skipL1[c][i]] = id
    BY <1>6 DEF In
  <2>2. PICK k \in SkipL1Request : k = skipL1[c][i] /\ CoreOf[k.warp] = c
    BY DEF TypeOK, MSHRTypeOK, ClockInv, SkipOK
  <2>3. id = <<"W", k.warp, k.addr>> /\ k.warp \in Warps /\ k.addr \in Addrs
    BY <2>1, <2>2 DEF SkipId, SkipL1Request
  <2> QED BY <2>2, <2>3 DEF Ids, HomeOf
<1> QED BY <1>1, <1>2, <1>3, <1>4, <1>5, <1>6

\* The L1 takes a request from its mandatory queue.
LEMMA MandPopped ==
    ASSUME TypeOK, WriteInv, ClockInv, OnceEach, NEW c \in Cores, mandQ[c] # <<>>,
           mandQ' = [mandQ EXCEPT ![c] = Tail(@)]
    PROVE  /\ Leaves("mand", {CacheId[Head(mandQ[c])]})
           /\ \A d \in Cores : Once(mandQ'[d], CacheId)
<1> DEFINE h == CacheId[Head(mandQ[c])]
<1>1. mandQ[c] \in Seq(CacheMsg) /\ \A d \in Cores : Once(mandQ[d], CacheId)
  BY DEF TypeOK, NetTypeOK, OnceEach
<1>2. \A d \in Cores : mandQ'[d] = IF d = c THEN Tail(mandQ[c]) ELSE mandQ[d]
  BY DEF TypeOK, NetTypeOK
<1>3. /\ Once(Tail(mandQ[c]), CacheId) /\ In(mandQ[c], CacheId, h)
      /\ \A id : In(Tail(mandQ[c]), CacheId, id) <=> In(mandQ[c], CacheId, id) /\ id # h
  BY <1>1, PopIn
<1> HIDE DEF h
<1>4. h \in Ids /\ HomeOf(h) = c
  BY <1>3, Homes
<1>5. Held(h, "mand")
  BY <1>3, <1>4, HeldAt
<1>6. \A id \in Ids : Held(id, "mand")' <=> Held(id, "mand") /\ id # h
  BY <1>2, <1>3, <1>4, HeldAt, HeldNext, IdShape
<1> QED BY <1>1, <1>2, <1>3, <1>4, <1>5, <1>6 DEF Leaves, h

\* A core puts a request into its mandatory queue.
LEMMA MandPushed ==
    ASSUME TypeOK, OnceEach, NEW c \in Cores, NEW r \in CacheMsg, CoreOf[r.warp] = c,
           mandQ' = [mandQ EXCEPT ![c] = Append(@, r)], ~Held(CacheId[r], "mand")
    PROVE  /\ Enters("mand", {CacheId[r]})
           /\ \A d \in Cores : Once(mandQ'[d], CacheId)
<1> DEFINE h == CacheId[r]
<1>1. mandQ[c] \in Seq(CacheMsg) /\ \A d \in Cores : Once(mandQ[d], CacheId)
  BY DEF TypeOK, NetTypeOK, OnceEach
<1>2. \A d \in Cores : mandQ'[d] = IF d = c THEN Append(mandQ[c], r) ELSE mandQ[d]
  BY DEF TypeOK, NetTypeOK
<1>3. h \in Ids /\ HomeOf(h) = c
  BY MessageIds
<1>4. ~In(mandQ[c], CacheId, CacheId[r])
  BY <1>3, HeldAt
<1>5. /\ Once(Append(mandQ[c], r), CacheId)
      /\ \A id : In(Append(mandQ[c], r), CacheId, id) <=> In(mandQ[c], CacheId, id) \/ id = h
  BY <1>1, <1>4, PushIn
<1> HIDE DEF h
<1>6. \A id \in Ids : Held(id, "mand")' <=> Held(id, "mand") \/ id = h
  BY <1>2, <1>3, <1>5, HeldAt, HeldNext, IdShape
<1> QED BY <1>1, <1>2, <1>5, <1>6 DEF Enters, h

\* The L1 sends a request to the bank of its line.
LEMMA ReqPushed ==
    ASSUME TypeOK, OnceEach, NEW c \in Cores, NEW m \in RequestMsg, CoreOf[m.warp] = c,
           SendRequest(c, m), ~Held(RequestId[m], "req")
    PROVE  /\ Enters("req", {RequestId[m]})
           /\ \A d \in Cores, x \in Banks : Once(reqNet'[d][x], RequestId)
<1> DEFINE h == RequestId[m]
           b == BankOf[m.addr]
<1>1. b \in Banks
  BY BankOfAssumption DEF RequestMsg
<1>2. /\ reqNet[c][b] \in Seq(RequestMsg)
      /\ \A d \in Cores, x \in Banks : Once(reqNet[d][x], RequestId)
  BY <1>1 DEF TypeOK, NetTypeOK, OnceEach
<1>3. \A d \in Cores, x \in Banks :
          reqNet'[d][x] = IF d = c /\ x = b THEN Append(reqNet[c][b], m) ELSE reqNet[d][x]
  BY <1>1 DEF SendRequest, TypeOK, NetTypeOK
<1>4. h \in Ids /\ HomeOf(h) = c /\ BankOf[h[3]] = b
  BY MessageIds
<1>5. ~In(reqNet[c][b], RequestId, RequestId[m])
  BY <1>4, HeldAt
<1>6. /\ Once(Append(reqNet[c][b], m), RequestId)
      /\ \A id : In(Append(reqNet[c][b], m), RequestId, id) <=>
                    In(reqNet[c][b], RequestId, id) \/ id = h
  <2>1. PICK q \in Seq(RequestMsg) : q = reqNet[c][b] /\ Once(q, RequestId)
    BY <1>1, <1>2
  <2>2. ~In(q, RequestId, RequestId[m])
    BY <1>5, <2>1
  <2>3. /\ Once(Append(q, m), RequestId)
        /\ \A id : In(Append(q, m), RequestId, id) <=> In(q, RequestId, id) \/ id = h
    BY <2>1, <2>2, PushIn
  <2> QED BY <2>1, <2>3
<1> HIDE DEF h, b
<1>7. \A id \in Ids : Held(id, "req")' <=> Held(id, "req") \/ id = h
  BY <1>3, <1>4, <1>6, HeldAt, HeldNext, IdShape
<1> QED BY <1>2, <1>3, <1>6, <1>7 DEF Enters, h

\* Virtual network 0 takes a message from one queue to the other.
LEMMA ReqPopped ==
    ASSUME TypeOK, WriteInv, ClockInv, OnceEach, NEW c \in Cores, NEW b \in Banks,
           reqNet[c][b] # <<>>, reqNet' = [reqNet EXCEPT ![c][b] = Tail(@)]
    PROVE  /\ Leaves("req", {RequestId[Head(reqNet[c][b])]})
           /\ \A d \in Cores, x \in Banks : Once(reqNet'[d][x], RequestId)
<1> DEFINE h == RequestId[Head(reqNet[c][b])]
<1>1. /\ reqNet[c][b] \in Seq(RequestMsg)
      /\ \A d \in Cores, x \in Banks : Once(reqNet[d][x], RequestId)
  BY DEF TypeOK, NetTypeOK, OnceEach
<1>2. \A d \in Cores, x \in Banks :
          reqNet'[d][x] = IF d = c /\ x = b THEN Tail(reqNet[c][b]) ELSE reqNet[d][x]
  BY DEF TypeOK, NetTypeOK
<1>3. /\ Once(Tail(reqNet[c][b]), RequestId) /\ In(reqNet[c][b], RequestId, h)
      /\ \A id : In(Tail(reqNet[c][b]), RequestId, id) <=>
                    In(reqNet[c][b], RequestId, id) /\ id # h
  BY <1>1, PopIn
<1> HIDE DEF h
<1>4. h \in Ids /\ HomeOf(h) = c /\ BankOf[h[3]] = b
  BY <1>3, Homes
<1>5. Held(h, "req")
  BY <1>3, <1>4, HeldAt
<1>6. \A id \in Ids : Held(id, "req")' <=> Held(id, "req") /\ id # h
  BY <1>2, <1>3, <1>4, HeldAt, HeldNext, IdShape
<1> QED BY <1>1, <1>2, <1>3, <1>4, <1>5, <1>6 DEF Leaves, h

\* A message arrives at a bank.
LEMMA L2inPushed ==
    ASSUME TypeOK, OnceEach, NEW b \in Banks, NEW m \in RequestMsg, BankOf[m.addr] = b,
           l2in' = [l2in EXCEPT ![b] = Append(@, m)], ~Held(RequestId[m], "l2in")
    PROVE  /\ Enters("l2in", {RequestId[m]})
           /\ \A x \in Banks : Once(l2in'[x], RequestId)
<1> DEFINE h == RequestId[m]
<1>1. l2in[b] \in Seq(RequestMsg) /\ \A x \in Banks : Once(l2in[x], RequestId)
  BY DEF TypeOK, NetTypeOK, OnceEach
<1>2. \A x \in Banks : l2in'[x] = IF x = b THEN Append(l2in[b], m) ELSE l2in[x]
  BY DEF TypeOK, NetTypeOK
<1>3. h \in Ids /\ BankOf[h[3]] = b
  BY MessageIds
<1>4. ~In(l2in[b], RequestId, RequestId[m])
  BY <1>3, HeldAt
<1>5. /\ Once(Append(l2in[b], m), RequestId)
      /\ \A id : In(Append(l2in[b], m), RequestId, id) <=> In(l2in[b], RequestId, id) \/ id = h
  BY <1>1, <1>4, PushIn
<1> HIDE DEF h
<1>6. \A id \in Ids : Held(id, "l2in")' <=> Held(id, "l2in") \/ id = h
  BY <1>2, <1>3, <1>5, HeldAt, HeldNext, IdShape
<1> QED BY <1>1, <1>2, <1>5, <1>6 DEF Enters, h

\* A bank pops its request queue (jj_popL1RequestQueue).
LEMMA L2inPopped ==
    ASSUME TypeOK, WriteInv, ClockInv, OnceEach, NEW b \in Banks, l2in[b] # <<>>, PopRequest(b)
    PROVE  /\ Leaves("l2in", {RequestId[Head(l2in[b])]})
           /\ \A x \in Banks : Once(l2in'[x], RequestId)
<1> DEFINE h == RequestId[Head(l2in[b])]
<1>1. l2in[b] \in Seq(RequestMsg) /\ \A x \in Banks : Once(l2in[x], RequestId)
  BY DEF TypeOK, NetTypeOK, OnceEach
<1>2. \A x \in Banks : l2in'[x] = IF x = b THEN Tail(l2in[b]) ELSE l2in[x]
  BY DEF PopRequest, TypeOK, NetTypeOK
<1>3. /\ Once(Tail(l2in[b]), RequestId) /\ In(l2in[b], RequestId, h)
      /\ \A id : In(Tail(l2in[b]), RequestId, id) <=> In(l2in[b], RequestId, id) /\ id # h
  BY <1>1, PopIn
<1> HIDE DEF h
<1>4. h \in Ids /\ BankOf[h[3]] = b
  BY <1>3, Homes
<1>5. Held(h, "l2in")
  BY <1>3, <1>4, HeldAt
<1>6. \A id \in Ids : Held(id, "l2in")' <=> Held(id, "l2in") /\ id # h
  BY <1>2, <1>3, <1>4, HeldAt, HeldNext, IdShape
<1> QED BY <1>1, <1>2, <1>3, <1>4, <1>5, <1>6 DEF Leaves, h


\* A bank sends one response.
LEMMA RespPushed ==
    ASSUME TypeOK, OnceEach, NEW b \in Banks, NEW m \in ResponseMsg, BankOf[m.addr] = b,
           SendResponse(b, m), ~Held(ResponseId[m], "resp")
    PROVE  /\ Enters("resp", {ResponseId[m]})
           /\ \A d \in Cores, x \in Banks : Once(respNet'[x][d], ResponseId)
<1> DEFINE h == ResponseId[m]
           c == CoreOf[m.warp]
<1>1. c \in Cores
  BY CoreOfAssumption DEF ResponseMsg
<1>2. PICK q \in Seq(ResponseMsg) : q = respNet[b][c] /\ Once(q, ResponseId)
  BY <1>1 DEF TypeOK, NetTypeOK, OnceEach
<1>3. \A d \in Cores, x \in Banks :
          respNet'[x][d] = IF d = c /\ x = b THEN Append(q, m) ELSE respNet[x][d]
  BY <1>1, <1>2 DEF SendResponse, TypeOK, NetTypeOK
<1>4. h \in Ids /\ HomeOf(h) = c /\ BankOf[h[3]] = b
  BY MessageIds
<1>5. ~In(q, ResponseId, ResponseId[m])
  BY <1>2, <1>4, HeldAt
<1>6. /\ Once(Append(q, m), ResponseId)
      /\ \A id : In(Append(q, m), ResponseId, id) <=> In(q, ResponseId, id) \/ id = h
  BY <1>2, <1>5, PushIn
<1> HIDE DEF h, c
<1>7. \A id \in Ids : Held(id, "resp")' <=> Held(id, "resp") \/ id = h
  BY <1>2, <1>3, <1>4, <1>6, HeldAt, HeldNext, IdShape
<1> QED BY <1>3, <1>6, <1>7 DEF Enters, h, OnceEach

\* The L1 takes a response.
LEMMA RespPopped ==
    ASSUME TypeOK, WriteInv, ClockInv, OnceEach, NEW c \in Cores, NEW b \in Banks,
           respNet[b][c] # <<>>, respNet' = [respNet EXCEPT ![b][c] = Tail(@)]
    PROVE  /\ Leaves("resp", {ResponseId[Head(respNet[b][c])]})
           /\ \A d \in Cores, x \in Banks : Once(respNet'[x][d], ResponseId)
<1> DEFINE h == ResponseId[Head(respNet[b][c])]
<1>1. PICK q \in Seq(ResponseMsg) : q = respNet[b][c] /\ Once(q, ResponseId) /\ q # <<>>
  BY DEF TypeOK, NetTypeOK, OnceEach
<1>2. \A d \in Cores, x \in Banks :
          respNet'[x][d] = IF d = c /\ x = b THEN Tail(q) ELSE respNet[x][d]
  BY <1>1 DEF TypeOK, NetTypeOK
<1>3. /\ Once(Tail(q), ResponseId) /\ In(q, ResponseId, h)
      /\ \A id : In(Tail(q), ResponseId, id) <=> In(q, ResponseId, id) /\ id # h
  BY <1>1, PopIn
<1> HIDE DEF h
<1>4. h \in Ids /\ HomeOf(h) = c /\ BankOf[h[3]] = b
  BY <1>1, <1>3, Homes
<1>5. Held(h, "resp")
  BY <1>1, <1>3, <1>4, HeldAt
<1>6. \A id \in Ids : Held(id, "resp")' <=> Held(id, "resp") /\ id # h
  BY <1>1, <1>2, <1>3, <1>4, HeldAt, HeldNext, IdShape
<1> QED BY <1>2, <1>3, <1>4, <1>5, <1>6 DEF Leaves, h, OnceEach

\* A line is marked ready (readCallback).
LEMMA ReadyPushed ==
    ASSUME TypeOK, OnceEach, NEW c \in Cores, NEW a \in Addrs,
           ready' = [ready EXCEPT ![c] = Append(@, a)], skipL1' = skipL1,
           ~Held(<<"R", c, a>>, "back")
    PROVE  /\ Enters("back", {<<"R", c, a>>})
           /\ \A d \in Cores : Once(ready'[d], ReadyId(d))
<1> DEFINE h == <<"R", c, a>>
<1>1. PICK q \in Seq(Addrs) : q = ready[c] /\ Once(q, ReadyId(c))
  BY DEF TypeOK, MSHRTypeOK, OnceEach
<1>2. \A d \in Cores : ready'[d] = IF d = c THEN Append(q, a) ELSE ready[d]
  BY <1>1 DEF TypeOK, MSHRTypeOK
<1>3. h \in Ids /\ HomeOf(h) = c /\ ReadyId(c)[a] = h
  BY DEF Ids, HomeOf, ReadyId
<1> HIDE DEF h
<1>4. ~In(q, ReadyId(c), ReadyId(c)[a])
  BY <1>1, <1>3, HeldAt DEF h
<1>5. /\ Once(Append(q, a), ReadyId(c))
      /\ \A id : In(Append(q, a), ReadyId(c), id) <=> In(q, ReadyId(c), id) \/ id = h
  BY <1>1, <1>3, <1>4, PushIn
<1>6. \A id \in Ids : Held(id, "back")' <=> Held(id, "back") \/ id = h
  BY <1>1, <1>2, <1>3, <1>5, HeldAt, HeldNext, IdShape
<1> QED BY <1>2, <1>5, <1>6 DEF Enters, h, OnceEach

\* The last read of a line is popped.
LEMMA ReadyPopped ==
    ASSUME TypeOK, WriteInv, ClockInv, OnceEach, NEW c \in Cores, ready[c] # <<>>,
           ready' = [ready EXCEPT ![c] = Tail(@)], skipL1' = skipL1
    PROVE  /\ Leaves("back", {<<"R", c, Head(ready[c])>>})
           /\ \A d \in Cores : Once(ready'[d], ReadyId(d))
<1>1. PICK q \in Seq(Addrs) : q = ready[c] /\ Once(q, ReadyId(c)) /\ q # <<>>
  BY DEF TypeOK, MSHRTypeOK, OnceEach
<1> DEFINE h == ReadyId(c)[Head(q)]
<1>2. \A d \in Cores : ready'[d] = IF d = c THEN Tail(q) ELSE ready[d]
  BY <1>1 DEF TypeOK, MSHRTypeOK
<1>3. /\ Once(Tail(q), ReadyId(c)) /\ In(q, ReadyId(c), h)
      /\ \A id : In(Tail(q), ReadyId(c), id) <=> In(q, ReadyId(c), id) /\ id # h
  BY <1>1, PopIn
<1>4. h = <<"R", c, Head(q)>>
  BY <1>1, QueueFacts DEF ReadyId
<1> HIDE DEF h
<1>5. h \in Ids /\ HomeOf(h) = c /\ h[1] = "R"
  BY <1>1, <1>3, Homes
<1>6. Held(h, "back") /\ ~In(skipL1[c], SkipId, h)
  BY <1>1, <1>3, <1>5, HeldAt, Homes
<1>7. \A id \in Ids : Held(id, "back")' <=> Held(id, "back") /\ id # h
  BY <1>1, <1>2, <1>3, <1>5, <1>6, HeldAt, HeldNext, IdShape
<1>8. Leaves("back", {h})
  BY <1>5, <1>6, <1>7 DEF Leaves
<1> QED BY <1>1, <1>2, <1>3, <1>4, <1>8 DEF OnceEach

\* An acknowledgement is queued for the core (writeCallback).
LEMMA SkipPushed ==
    ASSUME TypeOK, OnceEach, NEW c \in Cores, NEW k \in SkipL1Request, CoreOf[k.warp] = c,
           skipL1' = [skipL1 EXCEPT ![c] = Append(@, k)], ready' = ready,
           ~Held(SkipId[k], "back")
    PROVE  /\ Enters("back", {SkipId[k]})
           /\ \A d \in Cores : Once(skipL1'[d], SkipId)
<1> DEFINE h == SkipId[k]
<1>1. PICK q \in Seq(SkipL1Request) : q = skipL1[c] /\ Once(q, SkipId)
  BY DEF TypeOK, MSHRTypeOK, OnceEach
<1>2. \A d \in Cores : skipL1'[d] = IF d = c THEN Append(q, k) ELSE skipL1[d]
  BY <1>1 DEF TypeOK, MSHRTypeOK
<1>3. h \in Ids /\ HomeOf(h) = c
  <2>1. h = <<"W", k.warp, k.addr>> /\ k.warp \in Warps /\ k.addr \in Addrs
    BY DEF SkipId, SkipL1Request
  <2> QED BY <2>1 DEF Ids, HomeOf
<1>4. ~In(q, SkipId, SkipId[k])
  BY <1>1, <1>3, HeldAt
<1>5. /\ Once(Append(q, k), SkipId)
      /\ \A id : In(Append(q, k), SkipId, id) <=> In(q, SkipId, id) \/ id = h
  BY <1>1, <1>4, PushIn
<1> HIDE DEF h
<1>6. \A id \in Ids : Held(id, "back")' <=> Held(id, "back") \/ id = h
  BY <1>1, <1>2, <1>3, <1>5, HeldAt, HeldNext, IdShape
<1> QED BY <1>2, <1>5, <1>6 DEF Enters, h, OnceEach

\* The core takes an acknowledgement (mark_skipped_write_done).
LEMMA SkipPopped ==
    ASSUME TypeOK, WriteInv, ClockInv, OnceEach, NEW c \in Cores, skipL1[c] # <<>>,
           skipL1' = [skipL1 EXCEPT ![c] = Tail(@)], ready' = ready
    PROVE  /\ Leaves("back", {SkipId[Head(skipL1[c])]})
           /\ \A d \in Cores : Once(skipL1'[d], SkipId)
<1> DEFINE h == SkipId[Head(skipL1[c])]
<1>1. PICK q \in Seq(SkipL1Request) : q = skipL1[c] /\ Once(q, SkipId) /\ q # <<>>
  BY DEF TypeOK, MSHRTypeOK, OnceEach
<1>2. \A d \in Cores : skipL1'[d] = IF d = c THEN Tail(q) ELSE skipL1[d]
  BY <1>1 DEF TypeOK, MSHRTypeOK
<1>3. /\ Once(Tail(q), SkipId) /\ In(q, SkipId, h)
      /\ \A id : In(Tail(q), SkipId, id) <=> In(q, SkipId, id) /\ id # h
  BY <1>1, PopIn
<1> HIDE DEF h
<1>4. h \in Ids /\ HomeOf(h) = c /\ h[1] = "W"
  BY <1>1, <1>3, Homes
<1>5. Held(h, "back") /\ ~In(ready[c], ReadyId(c), h)
  BY <1>1, <1>3, <1>4, HeldAt, Homes
<1>6. \A id \in Ids : Held(id, "back")' <=> Held(id, "back") /\ id # h
  BY <1>1, <1>2, <1>3, <1>4, <1>5, HeldAt, HeldNext, IdShape
<1> QED BY <1>2, <1>3, <1>4, <1>5, <1>6 DEF Leaves, h, OnceEach


\* A stage whose queues do not change.
LEMMA SameStages ==
    /\ mandQ' = mandQ => Same("mand")
    /\ reqNet' = reqNet => Same("req")
    /\ l2in' = l2in => Same("l2in")
    /\ l2st' = l2st /\ l2tbe' = l2tbe => Same("tbe")
    /\ respNet' = respNet => Same("resp")
    /\ ready' = ready /\ skipL1' = skipL1 => Same("back")
<1>1. l2st' = l2st /\ l2tbe' = l2tbe => \A id \in Ids : InTBE(id[3])' = InTBE(id[3])
  BY DEF InTBE, Id
<1> QED BY <1>1, HeldAt, HeldNext DEF Same

\* The requests that wait for a fetch are named after its line.
LEMMA InTBEFacts ==
    ASSUME TypeOK, NEW a \in Addrs
    PROVE  /\ InTBE(a) \subseteq Ids
           /\ \A id \in InTBE(a) : id[3] = a /\ Held(id, "tbe")
<1>1. l2tbe[a].gets \subseteq Warps /\ l2tbe[a].wback \subseteq Warps
  BY DEF TypeOK, L2TypeOK, L2TBE
<1>2. \A id \in InTBE(a) : id \in Ids /\ id[3] = a
  BY <1>1, CoreOfAssumption DEF InTBE, Id, Ids
<1> QED BY <1>2, HeldAt

\* A step that changes the fetch of one line.
LEMMA TBEStage ==
    ASSUME TypeOK, NEW a \in Addrs,
           \A x \in Addrs \ {a} : l2st'[x] = l2st[x] /\ l2tbe'[x] = l2tbe[x]
    PROVE  \A id \in Ids : Held(id, "tbe")' <=> IF id[3] = a THEN id \in InTBE(a)'
                                                            ELSE Held(id, "tbe")
<1>1. \A x \in Addrs \ {a} : InTBE(x)' = InTBE(x)
  BY DEF InTBE, Id
<1> QED BY <1>1, HeldAt, HeldNext, IdShape

-----------------------------------------------------------------------------
(* How requests move.                                                       *)

\* The requests X move from stage p to stage q.
Moved(X, p, q) ==
    /\ X \subseteq Ids
    /\ \A id \in X : Held(id, p)
    /\ \A id \in Ids, s \in Stages : Held(id, s)' <=> IF id \in X THEN s = q ELSE Held(id, s)

\* They leave one stage and enter another.
LEMMA MovedBetween ==
    ASSUME Single, NEW X, NEW p \in Stages, NEW q \in Stages, p # q,
           Leaves(p, X), Enters(q, X), \A s \in Stages \ {p, q} : Same(s)
    PROVE  Moved(X, p, q)
<1>1. X \subseteq Ids /\ \A id \in X : Held(id, p)
  BY DEF Leaves
<1>2. ASSUME NEW id \in Ids, NEW s \in Stages
      PROVE  Held(id, s)' <=> IF id \in X THEN s = q ELSE Held(id, s)
  <2>1. CASE s = p
    BY <2>1 DEF Leaves
  <2>2. CASE s = q
    BY <2>2 DEF Enters
  <2>3. CASE s \notin {p, q}
    <3>1. Held(id, s)' <=> Held(id, s)
      BY <2>3 DEF Same
    <3>2. id \in X => ~Held(id, s)
      BY <1>1, <2>3 DEF Single
    <3> QED BY <2>3, <3>1, <3>2
  <2> QED BY <2>1, <2>2, <2>3
<1> QED BY <1>1, <1>2 DEF Moved

\* A move keeps every request, at one stage.
LEMMA MovedKeeps ==
    ASSUME Single, NEW X, NEW p \in Stages, NEW q \in Stages, Moved(X, p, q)
    PROVE  /\ Single'
           /\ \A id \in Ids : (\E s \in Stages : Held(id, s))' <=> \E s \in Stages : Held(id, s)
           /\ p \in BeyondL1 /\ q \in BeyondL1 => \A id \in Ids : Beyond(id)' <=> Beyond(id)
<1>1. \A id \in Ids, s \in Stages : Held(id, s)' <=> IF id \in X THEN s = q ELSE Held(id, s)
  BY DEF Moved
<1>2. \A id \in X : id \in Ids /\ Held(id, p)
  BY DEF Moved
<1>3. Single'
  <2> SUFFICES ASSUME NEW id \in Ids, NEW s \in Stages, NEW t \in Stages,
                      Held(id, s)', Held(id, t)'
               PROVE  s = t
    BY DEF Single
  <2> QED BY <1>1 DEF Single
<1>4. ASSUME NEW id \in Ids
      PROVE  (\E s \in Stages : Held(id, s))' <=> \E s \in Stages : Held(id, s)
  BY <1>1, <1>2
<1>5. ASSUME p \in BeyondL1, q \in BeyondL1, NEW id \in Ids PROVE Beyond(id)' <=> Beyond(id)
  <2>1. \A s \in BeyondL1 : s \in Stages
    BY DEF Stages
  <2> QED BY <1>1, <1>2, <1>5, <2>1 DEF Beyond
<1> QED BY <1>3, <1>4, <1>5

\* A step that moves nothing.
LEMMA Unmoved ==
    ASSUME \A s \in Stages : Same(s), Single
    PROVE  /\ Single'
           /\ \A id \in Ids : (\E s \in Stages : Held(id, s))' <=> \E s \in Stages : Held(id, s)
           /\ \A id \in Ids : Beyond(id)' <=> Beyond(id)
<1>1. \A id \in Ids, s \in Stages : Held(id, s)' <=> Held(id, s)
  BY DEF Same
<1>2. \A s \in BeyondL1 : s \in Stages
  BY DEF Stages
<1>3. Single'
  BY <1>1 DEF Single
<1>4. \A id \in Ids : (\E s \in Stages : Held(id, s))' <=> \E s \in Stages : Held(id, s)
  BY <1>1
<1>5. \A id \in Ids : Beyond(id)' <=> Beyond(id)
  BY <1>1, <1>2 DEF Beyond
<1> QED BY <1>3, <1>4, <1>5


\* No queue holds a request twice, spelled out after a step.
LEMMA OnceNext ==
    ASSUME \A c \in Cores : /\ Once(mandQ'[c], CacheId)
                            /\ Once(ready'[c], ReadyId(c))
                            /\ Once(skipL1'[c], SkipId),
           \A c \in Cores, b \in Banks : /\ Once(reqNet'[c][b], RequestId)
                                         /\ Once(respNet'[b][c], ResponseId),
           \A b \in Banks : Once(l2in'[b], RequestId)
    PROVE  OnceEach'
BY DEF OnceEach, Once, CacheId, RequestId, ResponseId, ReadyId, SkipId

\* Virtual network 0: from the L1 to the bank.
LEMMA NetworkMoves ==
    ASSUME TypeOK, WriteInv, ClockInv, OnceEach, Single,
           NEW c \in Cores, NEW b \in Banks, Network(c, b)
    PROVE  OnceEach' /\ \E X : Moved(X, "req", "l2in")
<1>1. PICK m \in RequestMsg : m = Head(reqNet[c][b])
  BY QueueFacts DEF Network, Deliver, TypeOK, NetTypeOK
<1>2. /\ reqNet[c][b] # <<>> /\ reqNet' = [reqNet EXCEPT ![c][b] = Tail(@)]
      /\ l2in' = [l2in EXCEPT ![b] = Append(@, m)]
      /\ UNCHANGED <<mandQ, respNet, ready, skipL1, l2st, l2tbe>>
  BY <1>1 DEF Network, Deliver, coreVars, l2Vars
<1> DEFINE h == RequestId[m]
<1>3. Leaves("req", {h}) /\ \A d \in Cores, x \in Banks : Once(reqNet'[d][x], RequestId)
  BY <1>1, <1>2, ReqPopped
<1>4. h \in Ids /\ Held(h, "req")
  BY <1>3 DEF Leaves
<1>5. ~Held(h, "l2in")
  BY <1>4 DEF Single, Stages, BeyondL1
<1>6. BankOf[m.addr] = b
  BY <1>1, <1>2, QueueFacts DEF TypeOK, NetTypeOK, WriteInv, Routed
<1>7. Enters("l2in", {h}) /\ \A x \in Banks : Once(l2in'[x], RequestId)
  BY <1>2, <1>5, <1>6, L2inPushed
<1> HIDE DEF h
<1>8. \A s \in Stages \ {"req", "l2in"} : Same(s)
  BY <1>2, SameStages DEF Stages, BeyondL1
<1>9. Moved({h}, "req", "l2in")
  BY <1>3, <1>7, <1>8, MovedBetween DEF Stages, BeyondL1
<1>10. OnceEach'
  BY <1>2, <1>3, <1>7, OnceNext DEF OnceEach
<1> QED BY <1>9, <1>10

\* A load that misses, a store or an atomic: from the core's queue to the network.
LEMMA L1RequestMoves ==
    ASSUME TypeOK, WriteInv, ClockInv, OnceEach, Single, NEW c \in Cores,
           LoadMiss(c) \/ WriteThrough(c), UNCHANGED l2Vars
    PROVE  OnceEach' /\ Moved({CacheId[Head(mandQ[c])]}, "mand", "req")
<1>1. PICK r \in CacheMsg : r = Head(mandQ[c]) /\ r.addr \in Addrs
  BY MandatoryHead DEF LoadMiss, WriteThrough
<1> DEFINE e == IF line[c][r.addr].tag THEN line[c][r.addr] ELSE NewLine
           m == IF r.op = "LD" THEN a_issueGETS(c, r, e) ELSE d2t_sendToL2(c, r)
           h == CacheId[r]
<1>2. /\ mandQ' = [mandQ EXCEPT ![c] = Tail(@)] /\ mandQ[c] # <<>>
      /\ SendRequest(c, m)
      /\ UNCHANGED <<l2in, respNet, ready, skipL1, l2st, l2tbe>>
  BY <1>1 DEF LoadMiss, WriteThrough, coreVars, l2Vars
<1>3. CoreOf[r.warp] = c
  BY <1>1, <1>2, MandatoryPopped
<1>4. m \in RequestMsg /\ m.warp = r.warp /\ RequestId[m] = h
  <2>1. e \in L1Entry
    BY <1>1 DEF TypeOK, L1TypeOK, L1Entry, NewLine
  <2>2. a_issueGETS(c, r, e) \in RequestMsg /\ d2t_sendToL2(c, r) \in RequestMsg
    BY <2>1, L1MessageTypes
  <2>3. m \in RequestMsg /\ m.warp = r.warp /\ m.addr = r.addr /\ (m.type = "GETS" <=> r.op = "LD")
    BY <2>2 DEF a_issueGETS, d2t_sendToL2
  <2> HIDE DEF m
  <2>4. RequestId[m] = Id(m.type = "GETS", m.warp, m.addr) /\ h = Id(r.op = "LD", r.warp, r.addr)
    BY <2>3, MessageIds
  <2> QED BY <2>3, <2>4 DEF Id
<1> HIDE DEF m, h
<1>5. Leaves("mand", {h}) /\ \A d \in Cores : Once(mandQ'[d], CacheId)
  BY <1>1, <1>2, MandPopped DEF h
<1>6. ~Held(h, "req")
  BY <1>5 DEF Leaves, Single, Stages, BeyondL1
<1>7. /\ Enters("req", {h})
      /\ \A d \in Cores, x \in Banks : Once(reqNet'[d][x], RequestId)
  <2>1. PICK k \in RequestMsg : k = m
    BY <1>4
  <2> QED BY <1>2, <1>3, <1>4, <1>6, <2>1, ReqPushed
<1>8. \A s \in Stages \ {"mand", "req"} : Same(s)
  BY <1>2, SameStages DEF Stages, BeyondL1
<1>9. Moved({h}, "mand", "req")
  BY <1>5, <1>7, <1>8, MovedBetween DEF Stages, BeyondL1
<1>10. OnceEach'
  BY <1>2, <1>5, <1>7, OnceNext DEF OnceEach
<1> QED BY <1>1, <1>9, <1>10 DEF h

\* A load that hits: from the core's queue back to the core.
LEMMA LoadHitMoves ==
    ASSUME TypeOK, WriteInv, ClockInv, OnceEach, Single, NEW c \in Cores, LoadHit(c),
           UNCHANGED l2Vars
    PROVE  OnceEach' /\ Moved({CacheId[Head(mandQ[c])]}, "mand", "back")
<1>1. PICK r \in CacheMsg : r = Head(mandQ[c]) /\ r.addr \in Addrs
  BY MandatoryHead DEF LoadHit
<1> DEFINE h == CacheId[r]
<1>2. /\ mandQ' = [mandQ EXCEPT ![c] = Tail(@)] /\ mandQ[c] # <<>>
      /\ ready' = [ready EXCEPT ![c] = Append(@, r.addr)]
      /\ r.op = "LD"
      /\ UNCHANGED <<reqNet, l2in, respNet, skipL1, l2st, l2tbe>>
  BY <1>1 DEF LoadHit, readCallback, l2Vars
<1>3. CoreOf[r.warp] = c
  BY <1>1, <1>2, MandatoryPopped
<1>4. h = <<"R", c, r.addr>>
  BY <1>2, <1>3, MessageIds DEF Id
<1> HIDE DEF h
<1>5. Leaves("mand", {h}) /\ \A d \in Cores : Once(mandQ'[d], CacheId)
  BY <1>1, <1>2, MandPopped DEF h
<1>6. ~Held(h, "back")
  BY <1>5 DEF Leaves, Single, Stages, BeyondL1
<1>7. Enters("back", {h}) /\ \A d \in Cores : Once(ready'[d], ReadyId(d))
  BY <1>1, <1>2, <1>4, <1>6, ReadyPushed
<1>8. \A s \in Stages \ {"mand", "back"} : Same(s)
  BY <1>2, SameStages DEF Stages, BeyondL1
<1>9. Moved({h}, "mand", "back")
  BY <1>5, <1>7, <1>8, MovedBetween DEF Stages, BeyondL1
<1>10. OnceEach'
  BY <1>2, <1>5, <1>7, OnceNext DEF OnceEach
<1> QED BY <1>1, <1>9, <1>10 DEF h

\* Data arrives: from the network back to the core.
LEMMA DataMoves ==
    ASSUME TypeOK, WriteInv, ClockInv, OnceEach, Single, NEW c \in Cores, NEW b \in Banks,
           Data(c, b), UNCHANGED l2Vars
    PROVE  OnceEach' /\ Moved({<<"R", c, Head(respNet[b][c]).addr>>}, "resp", "back")
<1>0. respNet[b][c] # <<>>
  BY ZenonT(40) DEF Data
<1>1. PICK m \in ResponseMsg : m = Head(respNet[b][c]) /\ m.addr \in Addrs
  BY <1>0, ResponseHead
<1> DEFINE h == ResponseId[m]
<1>2. /\ respNet' = [respNet EXCEPT ![b][c] = Tail(@)] /\ respNet[b][c] # <<>>
      /\ ready' = [ready EXCEPT ![c] = Append(@, m.addr)]
      /\ m.type = "DATA"
      /\ UNCHANGED <<mandQ, reqNet, l2in, skipL1, l2st, l2tbe>>
  BY ZenonT(40), <1>1 DEF Data, readCallback, l2Vars
<1>3. CoreOf[m.warp] = c
  BY <1>1, <1>2, QueueFacts DEF TypeOK, NetTypeOK, ClockInv, ResponseOK
<1>4. h = <<"R", c, m.addr>>
  BY <1>2, <1>3, MessageIds DEF Id
<1> HIDE DEF h
<1>5. /\ Leaves("resp", {h})
      /\ \A d \in Cores, x \in Banks : Once(respNet'[x][d], ResponseId)
  BY <1>1, <1>2, RespPopped DEF h
<1>6. ~Held(h, "back")
  BY <1>5 DEF Leaves, Single, Stages, BeyondL1
<1>7. Enters("back", {h}) /\ \A d \in Cores : Once(ready'[d], ReadyId(d))
  BY <1>1, <1>2, <1>4, <1>6, ReadyPushed
<1>8. \A s \in Stages \ {"resp", "back"} : Same(s)
  BY <1>2, SameStages DEF Stages, BeyondL1
<1>9. Moved({h}, "resp", "back")
  BY <1>5, <1>7, <1>8, MovedBetween DEF Stages, BeyondL1
<1>10. OnceEach'
  BY <1>2, <1>5, <1>7, OnceNext DEF OnceEach
<1> QED BY <1>1, <1>4, <1>9, <1>10

\* An acknowledgement arrives.
LEMMA WriteDoneMoves ==
    ASSUME TypeOK, WriteInv, ClockInv, OnceEach, Single, NEW c \in Cores, NEW b \in Banks,
           WriteDone(c, b), UNCHANGED l2Vars
    PROVE  /\ OnceEach'
           /\ Moved({<<"W", Head(respNet[b][c]).warp, Head(respNet[b][c]).addr>>}, "resp", "back")
           /\ CoreOf[Head(respNet[b][c]).warp] = c
<1>0. respNet[b][c] # <<>>
  BY ZenonT(40) DEF WriteDone
<1>1. PICK m \in ResponseMsg : m = Head(respNet[b][c]) /\ m.addr \in Addrs
                              /\ m.warp \in Warps /\ m.ver \in Nat
  BY <1>0, ResponseHead
<1> DEFINE h == ResponseId[m]
           k == [op |-> IF m.type = "ACK" THEN "ST" ELSE "ATOMIC", addr |-> m.addr,
                 warp |-> m.warp, ver |-> m.ver]
<1>2. /\ respNet' = [respNet EXCEPT ![b][c] = Tail(@)] /\ respNet[b][c] # <<>>
      /\ skipL1' = [skipL1 EXCEPT ![c] = Append(@, k)]
      /\ m.type \in {"ACK", "DATA_ATOMIC"}
      /\ UNCHANGED <<mandQ, reqNet, l2in, ready, l2st, l2tbe>>
  BY ZenonT(30), <1>1 DEF WriteDone, writeCallback, l2Vars
<1>3. CoreOf[m.warp] = c
  BY <1>1, <1>2, QueueFacts DEF TypeOK, NetTypeOK, ClockInv, ResponseOK
<1>4. h = <<"W", m.warp, m.addr>>
  BY <1>2, MessageIds DEF Id
<1>5. k \in SkipL1Request /\ k.warp = m.warp /\ SkipId[k] = h
  <2>1. k \in SkipL1Request /\ k.warp = m.warp /\ k.addr = m.addr
    BY <1>1 DEF SkipL1Request
  <2> HIDE DEF k, h
  <2> QED BY <1>4, <2>1 DEF SkipId
<1> HIDE DEF h, k
<1>6. /\ Leaves("resp", {h})
      /\ \A d \in Cores, x \in Banks : Once(respNet'[x][d], ResponseId)
  BY <1>1, <1>2, RespPopped DEF h
<1>7. ~Held(h, "back")
  BY <1>6 DEF Leaves, Single, Stages, BeyondL1
<1>8. Enters("back", {h}) /\ \A d \in Cores : Once(skipL1'[d], SkipId)
  BY <1>2, <1>3, <1>5, <1>7, SkipPushed
<1>9. \A s \in Stages \ {"resp", "back"} : Same(s)
  BY <1>2, SameStages DEF Stages, BeyondL1
<1>10. Moved({h}, "resp", "back")
  BY <1>6, <1>8, <1>9, MovedBetween DEF Stages, BeyondL1
<1>11. OnceEach'
  BY <1>2, <1>6, <1>8, OnceNext DEF OnceEach
<1> QED BY <1>1, <1>3, <1>4, <1>10, <1>11


\* The TBEs of the other lines.
LEMMA TBEOthers ==
    ASSUME TBEInv, NEW a \in Addrs,
           \A x \in Addrs \ {a} : l2st'[x] = l2st[x] /\ l2tbe'[x] = l2tbe[x],
           /\ l2st'[a] \in {"NP", "V"} => l2tbe'[a] = NoL2TBE
           /\ l2st'[a] = "IAV" => l2tbe'[a].gets = {} /\ \E w \in Warps : l2tbe'[a].wback = {w}
           /\ \A w, u \in l2tbe'[a].gets : CoreOf[w] = CoreOf[u] => w = u
    PROVE  TBEInv'
BY DEF TBEInv, NoL2TBE

\* A miss waits for the fetch: from the bank's queue into the TBE.
LEMMA MissMoves ==
    ASSUME TypeOK, WriteInv, ClockInv, OnceEach, Single, TBEInv, NEW b \in Banks,
           GetsMiss(b) \/ AtomicMiss(b), UNCHANGED <<coreVars, l1Vars>>
    PROVE  OnceEach' /\ TBEInv' /\ \E X : Moved(X, "l2in", "tbe")
<1>1. PICK r \in RequestMsg : r = Head(l2in[b]) /\ r.addr \in Addrs /\ r.warp \in Warps
  BY RequestHead DEF GetsMiss, AtomicMiss, Request
<1> DEFINE a == r.addr
           h == RequestId[r]
<1>2. /\ l2in[b] # <<>> /\ PopRequest(b)
      /\ UNCHANGED <<mandQ, reqNet, respNet, ready, skipL1>>
  BY DEF GetsMiss, AtomicMiss, Request, PopRequest, coreVars
<1>3. \A x \in Addrs \ {a} : l2st'[x] = l2st[x] /\ l2tbe'[x] = l2tbe[x]
  BY <1>1 DEF GetsMiss, AtomicMiss, TypeOK, L2TypeOK
<1>4. Leaves("l2in", {h}) /\ \A x \in Banks : Once(l2in'[x], RequestId)
  BY <1>1, <1>2, L2inPopped
<1>5. h \in Ids /\ h[3] = a /\ h = Id(r.type = "GETS", r.warp, a)
  BY <1>1, MessageIds
<1>6. ~Held(h, "tbe")
  BY <1>4 DEF Leaves, Single, Stages, BeyondL1
<1>7. h \notin InTBE(a)
  BY <1>5, <1>6, HeldAt
<1>8. /\ InTBE(a)' = InTBE(a) \cup {h}
      /\ l2st'[a] \in {"NP", "V"} => l2tbe'[a] = NoL2TBE
      /\ l2st'[a] = "IAV" => l2tbe'[a].gets = {} /\ \E w \in Warps : l2tbe'[a].wback = {w}
      /\ \A w, u \in l2tbe'[a].gets : CoreOf[w] = CoreOf[u] => w = u
  <2>1. l2tbe[a] \in L2TBE /\ (l2st[a] = "NP" => l2tbe[a] = NoL2TBE)
    BY <1>1 DEF TypeOK, L2TypeOK, TBEInv
  <2>2. NoL2TBE.gets = {} /\ NoL2TBE.wback = {}
    BY DEF NoL2TBE
  <2>3. CASE GetsMiss(b)
    <3>1. /\ l2st[a] \in {"NP", "IV"} /\ r.type = "GETS"
          /\ l2tbe'[a] = TBEForGETS(r) /\ l2st'[a] = "IV"
      BY <1>1, <2>3 DEF GetsMiss, Request, TypeOK, L2TypeOK
    <3>2. TBEForGETS(r).gets = l2tbe[a].gets \cup {r.warp}
      <4>1. CASE l2st[a] = "NP"
        BY <2>1, <2>2, <4>1 DEF TBEForGETS, NoL2TBE
      <4>2. CASE l2st[a] # "NP"
        BY <2>1, <4>2 DEF TBEForGETS, L2TBE
      <4> QED BY <4>1, <4>2
    <3>3. l2tbe'[a].gets = l2tbe[a].gets \cup {r.warp}
      BY <3>1, <3>2
    <3>4. h = Id(TRUE, r.warp, a) /\ h = <<"R", CoreOf[r.warp], a>>
      BY <1>5, <3>1 DEF Id
    <3>5. InTBE(a) = {Id(TRUE, w, a) : w \in l2tbe[a].gets}
      BY <3>1 DEF InTBE
    <3>6. InTBE(a)' = {Id(TRUE, w, a) : w \in l2tbe[a].gets \cup {r.warp}}
      BY <3>1, <3>3 DEF InTBE, Id
    <3> HIDE DEF h
    <3>7. InTBE(a)' = InTBE(a) \cup {h}
      BY <3>4, <3>5, <3>6
    <3>8. \A w \in l2tbe[a].gets : CoreOf[w] # CoreOf[r.warp]
      BY <1>7, <3>4, <3>5 DEF Id
    <3>9. \A w, u \in l2tbe[a].gets : CoreOf[w] = CoreOf[u] => w = u
      BY <1>1 DEF TBEInv
    <3> QED BY <3>1, <3>3, <3>7, <3>8, <3>9
  <2>4. CASE AtomicMiss(b)
    <3>1. /\ l2st[a] = "NP" /\ r.type = "DATA_ATOMIC"
          /\ l2tbe'[a] = TBEForWriteMiss(r) /\ l2st'[a] = "IAV"
      BY <1>1, <2>4 DEF AtomicMiss, Request, TypeOK, L2TypeOK
    <3>2. TBEForWriteMiss(r).gets = {} /\ TBEForWriteMiss(r).wback = {r.warp}
      BY <2>2, <3>1 DEF TBEForWriteMiss, NoL2TBE
    <3>3. l2tbe'[a].gets = {} /\ l2tbe'[a].wback = {r.warp}
      BY <3>1, <3>2
    <3>4. h = Id(FALSE, r.warp, a)
      BY <1>5, <3>1 DEF Id
    <3>5. InTBE(a) = {}
      BY <2>1, <2>2, <3>1 DEF InTBE
    <3>6. InTBE(a)' = {Id(FALSE, r.warp, a)}
      BY <3>1, <3>3 DEF InTBE, Id
    <3> HIDE DEF h
    <3> QED BY <1>1, <3>1, <3>3, <3>4, <3>5, <3>6
  <2> QED BY <2>3, <2>4
<1>9. Enters("tbe", {h})
  <2>1. \A id \in Ids : Held(id, "tbe")' <=> IF id[3] = a THEN id \in InTBE(a)'
                                                          ELSE Held(id, "tbe")
    BY <1>1, <1>3, TBEStage
  <2> HIDE DEF h
  <2> QED BY <1>5, <1>8, <2>1, HeldAt DEF Enters
<1> HIDE DEF h
<1>10. \A s \in Stages \ {"l2in", "tbe"} : Same(s)
  BY <1>2, SameStages DEF Stages, BeyondL1
<1>11. Moved({h}, "l2in", "tbe")
  BY <1>4, <1>9, <1>10, MovedBetween DEF Stages, BeyondL1
<1>12. OnceEach'
  BY <1>2, <1>4, OnceNext DEF OnceEach
<1>13. TBEInv'
  BY <1>1, <1>3, <1>8, TBEOthers
<1> QED BY <1>11, <1>12, <1>13

\* A bank pops a request and answers it: from the bank's queue to the network.
LEMMA AnswerMoves ==
    ASSUME TypeOK, WriteInv, ClockInv, OnceEach, Single, NEW b \in Banks, l2in[b] # <<>>,
           PopRequest(b), NEW m \in ResponseMsg, SendResponse(b, m), BankOf[m.addr] = b,
           ResponseId[m] = RequestId[Head(l2in[b])], Same("tbe"), UNCHANGED coreVars
    PROVE  OnceEach' /\ \E X : Moved(X, "l2in", "resp")
<1> DEFINE h == ResponseId[m]
<1>1. UNCHANGED <<mandQ, reqNet, ready, skipL1>>
  BY DEF PopRequest, coreVars
<1>2. Leaves("l2in", {h}) /\ \A x \in Banks : Once(l2in'[x], RequestId)
  BY L2inPopped
<1>3. ~Held(h, "resp")
  BY <1>2 DEF Leaves, Single, Stages, BeyondL1
<1>4. Enters("resp", {h}) /\ \A d \in Cores, x \in Banks : Once(respNet'[x][d], ResponseId)
  BY <1>3, RespPushed
<1> HIDE DEF h
<1>5. \A s \in Stages \ {"l2in", "resp"} : Same(s)
  BY <1>1, SameStages DEF Stages, BeyondL1
<1>6. Moved({h}, "l2in", "resp")
  BY <1>2, <1>4, <1>5, MovedBetween DEF Stages, BeyondL1
<1>7. OnceEach'
  BY <1>1, <1>2, <1>4, OnceNext DEF OnceEach
<1> QED BY <1>6, <1>7


\* A hit is answered at once (ds, wa, and atomic data).
LEMMA HitMoves ==
    ASSUME TypeOK, WriteInv, ClockInv, OnceEach, Single, TBEInv, NEW b \in Banks,
           GetsHit(b) \/ WriteHit(b, "DATA") \/ WriteHit(b, "DATA_ATOMIC"),
           UNCHANGED <<coreVars, l1Vars>>
    PROVE  OnceEach' /\ TBEInv' /\ \E X : Moved(X, "l2in", "resp")
<1>1. PICK r \in RequestMsg : r = Head(l2in[b]) /\ r.addr \in Addrs /\ r.warp \in Warps
  BY RequestHead DEF GetsHit, WriteHit, Request
<1>2. l2in[b] # <<>> /\ PopRequest(b) /\ UNCHANGED <<l2st, l2tbe>>
  BY DEF GetsHit, WriteHit, Request
<1>3. BankOf[r.addr] = b
  BY <1>1, <1>2, QueueFacts DEF TypeOK, NetTypeOK, WriteInv, Routed
<1>4. PICK m \in ResponseMsg : /\ SendResponse(b, m)
                               /\ m.addr = r.addr /\ m.warp = r.warp
                               /\ m.type = "DATA" <=> r.type = "GETS"
  <2>1. l2[r.addr] \in L2Entry /\ Newest(r.addr) + 1 \in Nat
    BY <1>1 DEF TypeOK, L2TypeOK, Newest
  <2>2. CASE GetsHit(b)
    <3> DEFINE e == [l2[r.addr] EXCEPT !.rts = tr_updateL2BlockRts(l2[r.addr], r)]
               m == DataResponse(r.addr, e, r.warp)
    <3>1. tr_updateL2BlockRts(l2[r.addr], r) \in Nat
      BY <2>1, RtsFacts
    <3>2. e \in L2Entry
      BY <2>1, <3>1 DEF L2Entry
    <3>3. SendResponse(b, m) /\ r.type = "GETS"
      BY <1>1, <2>2 DEF GetsHit, Request
    <3> HIDE DEF e
    <3>4. m \in ResponseMsg /\ m.addr = r.addr /\ m.warp = r.warp /\ m.type = "DATA"
      BY <1>1, <3>2 DEF DataResponse, ResponseMsg, L2Entry
    <3> HIDE DEF m
    <3> QED BY <3>3, <3>4
  <2>3. ASSUME NEW t \in {"DATA", "DATA_ATOMIC"}, WriteHit(b, t)
        PROVE  \E m \in ResponseMsg : /\ SendResponse(b, m)
                                      /\ m.addr = r.addr /\ m.warp = r.warp
                                      /\ m.type = "DATA" <=> r.type = "GETS"
    <3> DEFINE time == tw_updateL2BlockWts(l2[r.addr], r)
               v == Newest(r.addr) + 1
               type == IF t = "DATA" THEN "ACK" ELSE t
               m == WriteResponse(type, r.addr, r.warp, time, v)
    <3>1. time \in Nat
      BY <2>1, RtsFacts
    <3>2. SendResponse(b, m) /\ r.type = t
      BY <1>1, <2>3 DEF WriteHit, Request
    <3>3. type \in {"ACK", "DATA_ATOMIC"}
      OBVIOUS
    <3> HIDE DEF time, v, type
    <3>4. m \in ResponseMsg /\ m.addr = r.addr /\ m.warp = r.warp /\ m.type = type
      BY <1>1, <2>1, <3>1, <3>3 DEF WriteResponse, ResponseMsg, v
    <3> HIDE DEF m
    <3> QED BY <3>2, <3>3, <3>4
  <2> QED BY <2>2, <2>3
<1>5. ResponseId[m] = RequestId[Head(l2in[b])]
  <2>1. ResponseId[m] = Id(m.type = "DATA", m.warp, m.addr)
    BY MessageIds
  <2>2. RequestId[r] = Id(r.type = "GETS", r.warp, r.addr)
    BY MessageIds
  <2> QED BY <1>1, <1>4, <2>1, <2>2 DEF Id
<1>6. Same("tbe")
  BY <1>2, SameStages
<1>7. TBEInv'
  BY <1>2 DEF TBEInv, NoL2TBE
<1> QED BY <1>2, <1>3, <1>4, <1>5, <1>6, <1>7, AnswerMoves

\* A write that misses is acknowledged at once; the fetch has nobody to answer
\* for it (wat).
LEMMA WriteMissMoves ==
    ASSUME TypeOK, WriteInv, ClockInv, OnceEach, Single, TBEInv, NEW b \in Banks,
           WriteMiss(b), UNCHANGED <<coreVars, l1Vars>>
    PROVE  OnceEach' /\ TBEInv' /\ \E X : Moved(X, "l2in", "resp")
<1>1. PICK r \in RequestMsg : r = Head(l2in[b]) /\ r.addr \in Addrs /\ r.warp \in Warps
  BY RequestHead DEF WriteMiss, Request
<1> DEFINE a == r.addr
           t == TBEForWriteMiss(r)
           u == [t EXCEPT !.ver = Newest(a) + 1]
           m == WriteResponse("ACK", a, r.warp, MissWts(t, mts[b]), Newest(a) + 1)
<1>2. /\ l2in[b] # <<>> /\ PopRequest(b) /\ r.type = "DATA" /\ l2st[a] \in {"NP", "IV"}
      /\ l2tbe' = [l2tbe EXCEPT ![a] = u] /\ l2st' = [l2st EXCEPT ![a] = "IV"]
      /\ SendResponse(b, m)
  BY <1>1 DEF WriteMiss, Request
<1>3. BankOf[a] = b
  BY <1>1, <1>2, QueueFacts DEF TypeOK, NetTypeOK, WriteInv, Routed
<1>4. t \in L2TBE /\ Newest(a) + 1 \in Nat /\ mts[b] \in Nat
  BY <1>1, TBETypes DEF TypeOK, L2TypeOK, Newest
<1>5. MissWts(t, mts[b]) \in Nat
  BY <1>4, MtsFacts
<1>6. u.gets = l2tbe[a].gets
  <2>1. l2tbe[a] \in L2TBE /\ (l2st[a] = "NP" => l2tbe[a] = NoL2TBE)
    BY <1>1 DEF TypeOK, L2TypeOK, TBEInv
  <2>2. t.gets = l2tbe[a].gets
    <3>1. CASE l2st[a] = "NP"
      BY <2>1, <3>1 DEF TBEForWriteMiss, NoL2TBE
    <3>2. CASE l2st[a] # "NP"
      BY <2>1, <3>2 DEF TBEForWriteMiss, L2TBE
    <3> QED BY <3>1, <3>2
  <2> HIDE DEF t
  <2> QED BY <1>4, <2>2 DEF L2TBE
<1>7. PICK k \in ResponseMsg : k = m /\ k.addr = a /\ k.warp = r.warp /\ k.type = "ACK"
  <2>1. PICK time \in Nat, v \in Nat : time = MissWts(t, mts[b]) /\ v = Newest(a) + 1
    BY <1>4, <1>5
  <2>2. m = WriteResponse("ACK", a, r.warp, time, v)
    BY <2>1
  <2> HIDE DEF m
  <2> QED BY <1>1, <2>1, <2>2 DEF WriteResponse, ResponseMsg
<1>8. ResponseId[k] = RequestId[Head(l2in[b])]
  <2>1. ResponseId[k] = Id(k.type = "DATA", k.warp, k.addr)
    BY MessageIds
  <2>2. RequestId[r] = Id(r.type = "GETS", r.warp, r.addr)
    BY MessageIds
  <2> HIDE DEF m
  <2> QED BY <1>1, <1>2, <1>7, <2>1, <2>2 DEF Id
<1> HIDE DEF u, m
<1>9. /\ \A x \in Addrs \ {a} : l2st'[x] = l2st[x] /\ l2tbe'[x] = l2tbe[x]
      /\ l2st'[a] = "IV" /\ l2tbe'[a] = u
  BY <1>1, <1>2 DEF TypeOK, L2TypeOK
<1>10. InTBE(a)' = InTBE(a)
  <2>1. InTBE(a) = {Id(TRUE, w, a) : w \in l2tbe[a].gets}
    BY <1>2 DEF InTBE
  <2>2. InTBE(a)' = {Id(TRUE, w, a) : w \in l2tbe[a].gets}
    BY <1>6, <1>9 DEF InTBE, Id
  <2> QED BY <2>1, <2>2
<1>11. Same("tbe")
  <2>1. \A id \in Ids : Held(id, "tbe")' <=> IF id[3] = a THEN id \in InTBE(a)'
                                                          ELSE Held(id, "tbe")
    BY <1>1, <1>9, TBEStage
  <2> QED BY <1>10, <2>1, HeldAt DEF Same
<1>12. TBEInv'
  <2>1. \A w, x \in l2tbe[a].gets : CoreOf[w] = CoreOf[x] => w = x
    BY <1>1 DEF TBEInv
  <2> QED BY <1>1, <1>6, <1>9, <2>1, TBEOthers
<1> QED BY <1>2, <1>3, <1>7, <1>8, <1>11, <1>12, AnswerMoves

\* The fetch is back: every request that waited for it is answered, once.
LEMMA FetchMoves ==
    ASSUME TypeOK, TypeOK', WriteInv, ClockInv, OnceEach, Single, TBEInv, NEW a \in Addrs,
           MemData(a) \/ MemDataAtomic(a), UNCHANGED <<coreVars, l1Vars>>
    PROVE  OnceEach' /\ TBEInv' /\ Moved(InTBE(a), "tbe", "resp")
<1> DEFINE b == BankOf[a]
           t == l2tbe[a]
           ws == IF l2st[a] = "IAV" THEN t.wback ELSE t.gets
           X == InTBE(a)
<1>1. /\ b \in Banks /\ ws \subseteq Warps
      /\ \A w \in ws : CoreOf[w] \in Cores
  BY BankOfAssumption, CoreOfAssumption DEF TypeOK, L2TypeOK, L2TBE
<1>2. /\ l2st' = [l2st EXCEPT ![a] = "V"] /\ l2tbe' = [l2tbe EXCEPT ![a] = NoL2TBE]
      /\ UNCHANGED <<mandQ, reqNet, l2in, ready, skipL1>>
  BY DEF MemData, MemDataAtomic, coreVars
<1>3. /\ \A x \in Addrs \ {a} : l2st'[x] = l2st[x] /\ l2tbe'[x] = l2tbe[x]
      /\ l2st'[a] = "V" /\ l2tbe'[a] = NoL2TBE
  BY <1>2 DEF TypeOK, L2TypeOK
<1>4. X = {Id(l2st[a] # "IAV", w, a) : w \in ws}
  <2>1. CASE MemData(a)
    <3>1. l2st[a] = "IV"
      BY <2>1 DEF MemData
    <3> QED BY <3>1 DEF InTBE, Id
  <2>2. CASE MemDataAtomic(a)
    <3>1. l2st[a] = "IAV" /\ t.gets = {}
      BY <2>2 DEF MemDataAtomic, TBEInv
    <3> QED BY <3>1 DEF InTBE, Id
  <2> QED BY <2>1, <2>2
<1>5. ASSUME NEW c \in Cores
      PROVE  \/ /\ respNet'[b][c] = respNet[b][c]
                /\ \A id \in X : HomeOf(id) # c
             \/ \E m \in ResponseMsg : /\ respNet'[b][c] = Append(respNet[b][c], m)
                                       /\ ResponseId[m] \in X
                                       /\ \A id \in X : HomeOf(id) = c <=> id = ResponseId[m]
  <2>1. CASE MemData(a)
    <3> DEFINE u == CHOOSE w \in t.gets : CoreOf[w] = c
               m == DataResponse(a, l2'[a], u)
    <3>1. l2st[a] = "IV" /\ ws = t.gets
      BY <2>1 DEF MemData
    <3>2. respNet'[b][c] = IF \E w \in t.gets : CoreOf[w] = c
                             THEN Append(respNet[b][c], m) ELSE respNet[b][c]
      BY <1>1, <2>1 DEF MemData, SendResponses, TypeOK, NetTypeOK, L2TypeOK
    <3>3. X = {<<"R", CoreOf[w], a>> : w \in t.gets}
      BY <1>4, <3>1 DEF Id
    <3>4. CASE \E w \in t.gets : CoreOf[w] = c
      <4>1. u \in t.gets /\ CoreOf[u] = c
        BY <3>4
      <4> HIDE DEF u
      <4>2. l2'[a] \in L2Entry /\ u \in Warps
        BY <1>1, <3>1, <4>1 DEF TypeOK, L2TypeOK
      <4>3. m \in ResponseMsg /\ m.addr = a /\ m.warp = u /\ m.type = "DATA"
        BY <4>2 DEF DataResponse, ResponseMsg, L2Entry
      <4> HIDE DEF m
      <4>4. ResponseId[m] = <<"R", c, a>>
        BY <4>1, <4>3, MessageIds DEF Id
      <4> HIDE DEF X
      <4>5. ResponseId[m] \in X /\ \A id \in X : HomeOf(id) = c <=> id = ResponseId[m]
        BY <3>3, <4>1, <4>4 DEF HomeOf
      <4> QED BY <3>2, <3>4, <4>3, <4>5
    <3>5. CASE ~\E w \in t.gets : CoreOf[w] = c
      <4> HIDE DEF X
      <4> QED BY <3>2, <3>3, <3>5 DEF HomeOf
    <3> QED BY <3>4, <3>5
  <2>2. CASE MemDataAtomic(a)
    <3> DEFINE e == [FilledEntry(a) EXCEPT !.ver = Newest(a) + 1]
               u == CHOOSE w \in t.wback : CoreOf[w] = c
               m == WriteResponse("DATA_ATOMIC", a, u, e.wts, e.ver)
    <3>1. l2st[a] = "IAV" /\ ws = t.wback
      BY <2>2 DEF MemDataAtomic
    <3>2. PICK x \in Warps : t.wback = {x}
      BY <3>1 DEF TBEInv
    <3>3. respNet'[b][c] = IF \E w \in t.wback : CoreOf[w] = c
                             THEN Append(respNet[b][c], m) ELSE respNet[b][c]
      BY <1>1, <2>2 DEF MemDataAtomic, SendResponses, TypeOK, NetTypeOK, L2TypeOK
    <3>4. X = {<<"W", x, a>>}
      BY <1>4, <3>1, <3>2 DEF Id
    <3>5. CASE CoreOf[x] = c
      <4>1. u = x
        BY <3>2, <3>5
      <4>2. e.wts \in Nat /\ e.ver \in Nat
        <5>1. FilledEntry(a) \in L2Entry /\ Newest(a) + 1 \in Nat
          BY FillFacts DEF TypeOK, L2TypeOK, Newest
        <5> QED BY <5>1 DEF L2Entry
      <4> HIDE DEF u, e
      <4>3. m \in ResponseMsg /\ m.addr = a /\ m.warp = x /\ m.type = "DATA_ATOMIC"
        BY <4>1, <4>2 DEF WriteResponse, ResponseMsg
      <4> HIDE DEF m
      <4>4. ResponseId[m] = <<"W", x, a>>
        BY <4>3, MessageIds DEF Id
      <4> HIDE DEF X
      <4>5. ResponseId[m] \in X /\ \A id \in X : HomeOf(id) = c <=> id = ResponseId[m]
        BY <3>4, <3>5, <4>4 DEF HomeOf
      <4> QED BY <3>2, <3>3, <3>5, <4>3, <4>5
    <3>6. CASE CoreOf[x] # c
      <4> HIDE DEF X
      <4> QED BY <3>2, <3>3, <3>4, <3>6 DEF HomeOf
    <3> QED BY <3>5, <3>6
  <2> QED BY <2>1, <2>2
<1>6. \A c \in Cores, x \in Banks \ {b} : respNet'[x][c] = respNet[x][c]
  BY <1>1 DEF MemData, MemDataAtomic, SendResponses, TypeOK, NetTypeOK
<1>7. X \subseteq Ids /\ \A id \in X : id[3] = a /\ Held(id, "tbe") /\ ~Held(id, "resp")
  <2>1. X \subseteq Ids /\ \A id \in X : id[3] = a /\ Held(id, "tbe")
    BY InTBEFacts
  <2> QED BY <2>1 DEF Single, Stages, BeyondL1
<1> HIDE DEF X, ws
<1>8. ASSUME NEW c \in Cores
      PROVE  /\ Once(respNet'[b][c], ResponseId)
             /\ \A id \in Ids : HomeOf(id) = c =>
                   (In(respNet'[b][c], ResponseId, id)
                      <=> In(respNet[b][c], ResponseId, id) \/ id \in X)
  <2>1. PICK q \in Seq(ResponseMsg) : q = respNet[b][c] /\ Once(q, ResponseId)
    BY <1>1 DEF TypeOK, NetTypeOK, OnceEach
  <2>2. CASE respNet'[b][c] = respNet[b][c] /\ \A id \in X : HomeOf(id) # c
    BY <2>1, <2>2
  <2>3. ASSUME NEW m \in ResponseMsg, respNet'[b][c] = Append(q, m), ResponseId[m] \in X,
               \A id \in X : HomeOf(id) = c <=> id = ResponseId[m]
        PROVE  /\ Once(respNet'[b][c], ResponseId)
               /\ \A id \in Ids : HomeOf(id) = c =>
                     (In(respNet'[b][c], ResponseId, id)
                        <=> In(respNet[b][c], ResponseId, id) \/ id \in X)
    <3>1. ~In(q, ResponseId, ResponseId[m])
      BY <1>7, <2>1, <2>3, HeldAt
    <3>2. /\ Once(Append(q, m), ResponseId)
          /\ \A id : In(Append(q, m), ResponseId, id)
                       <=> In(q, ResponseId, id) \/ id = ResponseId[m]
      BY <2>1, <3>1, PushIn
    <3> QED BY <2>1, <2>3, <3>2
  <2> QED BY <1>5, <2>1, <2>2, <2>3
<1>9. Enters("resp", X)
  <2> SUFFICES ASSUME NEW id \in Ids
               PROVE  Held(id, "resp")' <=> Held(id, "resp") \/ id \in X
    BY DEF Enters
  <2>1. HomeOf(id) \in Cores /\ BankOf[id[3]] \in Banks
    BY IdShape
  <2>2. CASE BankOf[id[3]] = b
    BY <1>8, <2>1, <2>2, HeldAt, HeldNext
  <2>3. CASE BankOf[id[3]] # b
    BY <1>6, <1>7, <2>1, <2>3, HeldAt, HeldNext
  <2> QED BY <2>2, <2>3
<1>10. Leaves("tbe", X)
  <2>1. InTBE(a)' = {}
    BY <1>3 DEF InTBE, NoL2TBE
  <2>2. \A id \in Ids : Held(id, "tbe")' <=> IF id[3] = a THEN id \in InTBE(a)'
                                                          ELSE Held(id, "tbe")
    BY <1>3, TBEStage
  <2>3. \A id \in Ids : id[3] = a => (Held(id, "tbe") <=> id \in X)
    BY HeldAt DEF X
  <2> QED BY <1>7, <2>1, <2>2, <2>3 DEF Leaves
<1>11. \A s \in Stages \ {"tbe", "resp"} : Same(s)
  BY <1>2, SameStages DEF Stages, BeyondL1
<1>12. Moved(X, "tbe", "resp")
  BY <1>9, <1>10, <1>11, MovedBetween DEF Stages, BeyondL1
<1>13. OnceEach'
  <2>1. \A c \in Cores, x \in Banks : Once(respNet'[x][c], ResponseId)
    BY <1>6, <1>8 DEF OnceEach
  <2> QED BY <1>2, <2>1, OnceNext DEF OnceEach
<1>14. TBEInv'
  BY <1>3, TBEOthers DEF NoL2TBE
<1> QED BY <1>12, <1>13, <1>14 DEF X

-----------------------------------------------------------------------------
(* What a move leaves as it was.                                            *)

\* The L1's counters for a line stay when no request for it passes the L1.
LEMMA CountsKept ==
    ASSUME NEW c \in Cores, NEW a \in Addrs, CountedAt(c, a),
           tbe'[c][a] = tbe[c][a], st'[c][a] = st[c][a], line'[c][a].tag = line[c][a].tag,
           \A id \in Ids : HomeOf(id) = c /\ id[3] = a => (Beyond(id)' <=> Beyond(id))
    PROVE  CountedAt(c, a)'
<1>1. <<"R", c, a>> \in Ids /\ HomeOf(<<"R", c, a>>) = c /\ <<"R", c, a>>[3] = a
  BY DEF Ids, HomeOf
<1>2. \A w \in Warps : /\ <<"W", w, a>> \in Ids /\ HomeOf(<<"W", w, a>>) = CoreOf[w]
                        /\ <<"W", w, a>>[3] = a
  BY DEF Ids, HomeOf
<1>3. WritesBeyond(c, a)' = WritesBeyond(c, a)
  BY <1>2 DEF WritesBeyond
<1>4. Beyond(<<"R", c, a>>)' <=> Beyond(<<"R", c, a>>)
  BY <1>1
<1>5. TBEPresent(c, a)' = TBEPresent(c, a)
  BY DEF TBEPresent
<1>6. (IsFiniteSet(WritesBeyond(c, a)))' /\ (tbe[c][a].writes = Cardinality(WritesBeyond(c, a)))'
  BY <1>3 DEF CountedAt
<1>7. (tbe[c][a].reads = IF Beyond(<<"R", c, a>>) THEN 1 ELSE 0)'
  BY <1>4 DEF CountedAt
<1> QED BY <1>5, <1>6, <1>7 DEF CountedAt

\* The cores do not see a move.
LEMMA CoresKept ==
    ASSUME Single, Awaited, Busy, NEW X, NEW p \in Stages, NEW q \in Stages, Moved(X, p, q),
           n_gmem' = n_gmem,
           \A c \in Cores, a \in Addrs : /\ mshr'[c][a].list = mshr[c][a].list
                                         /\ mshr'[c][a].writes = mshr[c][a].writes
    PROVE  Single' /\ Awaited' /\ Busy'
<1>1. \A w \in Warps : CoreOf[w] \in Cores
  BY CoreOfAssumption
<1>2. \A w \in Warps, a \in Addrs : (Reads(w, a)' <=> Reads(w, a)) /\ (Writes(w, a)' <=> Writes(w, a))
  BY <1>1 DEF Reads, Writes
<1>3. Busy'
  BY <1>2 DEF Busy
<1>4. \A id \in Ids : Wanted(id)' <=> Wanted(id)
  BY <1>2, IdShape DEF Wanted
<1>5. Awaited'
  BY <1>4, MovedKeeps DEF Awaited
<1> QED BY <1>3, <1>5, MovedKeeps

-----------------------------------------------------------------------------
(* The counters of an L1.                                                   *)

\* The state of a line as the controller sees it: transient exactly when the
\* line has a TBE; an upgrade may have become a plain write meanwhile.
LEMMA StateFacts ==
    ASSUME TypeOK, NEW c \in Cores, NEW a \in Addrs
    PROVE  /\ TBEPresent(c, a) => /\ getState(c, a) \in Transient
                                  /\ getState(c, a) = "I_S" => st[c][a] = "I_S"
                                  /\ getState(c, a) = "I_I" => st[c][a] \in {"I_I", "SM"}
                                  /\ getState(c, a) = "SM" => st[c][a] = "SM"
           /\ ~TBEPresent(c, a) => getState(c, a) \in {"I", "S"}
<1>1. st[c][a] \in L1State
  BY DEF TypeOK, L1TypeOK
<1>2. CASE TBEPresent(c, a)
  <2>1. getState(c, a) = IF st[c][a] = "SM" /\ ~isLive(c, a) THEN "I_I" ELSE st[c][a]
    BY <1>2 DEF getState
  <2> QED BY <1>1, <1>2, <2>1 DEF TBEPresent, L1State, Transient
<1>3. CASE ~TBEPresent(c, a) /\ line[c][a].tag
  <2>1. getState(c, a) = IF isLive(c, a) THEN st[c][a] ELSE "I"
    BY <1>3 DEF getState
  <2> QED BY <1>1, <1>3, <2>1 DEF TBEPresent, L1State, Transient
<1>4. CASE ~TBEPresent(c, a) /\ ~line[c][a].tag
  <2>1. getState(c, a) = "I"
    BY <1>4 DEF getState
  <2> QED BY <1>4, <2>1
<1> QED BY <1>2, <1>3, <1>4

\* The stages, one by one.
LEMMA StageNames ==
    /\ {"mand", "back", "req", "l2in", "tbe", "resp"} \subseteq Stages
    /\ {"req", "l2in", "tbe", "resp"} \subseteq BeyondL1
    /\ "mand" \notin BeyondL1 /\ "back" \notin BeyondL1
BY DEF Stages, BeyondL1

\* The name of a read.
LEMMA ReadName ==
    ASSUME NEW c \in Cores, NEW a \in Addrs
    PROVE  \E h \in Ids : h = <<"R", c, a>> /\ HomeOf(h) = c /\ h[3] = a
<1>1. <<"R", c, a>> \in Ids /\ HomeOf(<<"R", c, a>>) = c /\ <<"R", c, a>>[3] = a
  BY DEF Ids, HomeOf
<1> QED BY <1>1, Zenon

\* The name of a write.
LEMMA WriteName ==
    ASSUME NEW w \in Warps, NEW a \in Addrs
    PROVE  \E h \in Ids : h = <<"W", w, a>> /\ HomeOf(h) = CoreOf[w] /\ h[3] = a
<1>1. <<"W", w, a>> \in Ids /\ HomeOf(<<"W", w, a>>) = CoreOf[w] /\ <<"W", w, a>>[3] = a
  BY DEF Ids, HomeOf
<1> QED BY <1>1, Zenon

\* A request that leaves the L1, or comes back to it.
LEMMA PassesL1 ==
    ASSUME Single, NEW h \in Ids, NEW p \in Stages, NEW q \in Stages, Moved({h}, p, q)
    PROVE  /\ p \notin BeyondL1 /\ q \in BeyondL1 => ~Beyond(h) /\ Beyond(h)'
           /\ p \in BeyondL1 /\ q \notin BeyondL1 => Beyond(h) /\ ~Beyond(h)'
           /\ \A id \in Ids \ {h} : Beyond(id)' <=> Beyond(id)
<1>1. \A s \in BeyondL1 : s \in Stages
  BY DEF Stages
<1>2. Held(h, p) /\ \A s \in Stages : Held(h, s)' <=> s = q
  BY DEF Moved
<1>3. \A id \in Ids \ {h} : \A s \in Stages : Held(id, s)' <=> Held(id, s)
  BY DEF Moved
<1>4. \A s \in Stages : Held(h, s) => s = p
  BY <1>2 DEF Single
<1>5. \A id \in Ids \ {h} : Beyond(id)' <=> Beyond(id)
  BY <1>1, <1>3 DEF Beyond
<1>6. Beyond(h)' <=> q \in BeyondL1
  BY <1>1, <1>2 DEF Beyond
<1>7. Beyond(h) <=> p \in BeyondL1
  BY <1>1, <1>2, <1>4 DEF Beyond
<1> QED BY <1>5, <1>6, <1>7

\* A read that passes the L1 is not a write that does.
LEMMA ReadPasses ==
    ASSUME NEW c \in Cores, NEW a \in Addrs,
           \A id \in Ids \ {<<"R", c, a>>} : Beyond(id)' <=> Beyond(id)
    PROVE  WritesBeyond(c, a)' = WritesBeyond(c, a)
<1>1. \A w \in Warps : <<"W", w, a>> \in Ids /\ <<"W", w, a>> # <<"R", c, a>>
  BY DEF Ids
<1> QED BY <1>1 DEF WritesBeyond

\* A write that passes the L1.
LEMMA WritePasses ==
    ASSUME NEW w \in Warps, NEW c \in Cores, CoreOf[w] = c, NEW a \in Addrs,
           \A id \in Ids \ {<<"W", w, a>>} : Beyond(id)' <=> Beyond(id)
    PROVE  /\ Beyond(<<"R", c, a>>)' <=> Beyond(<<"R", c, a>>)
           /\ ~Beyond(<<"W", w, a>>) /\ Beyond(<<"W", w, a>>)' =>
                 w \notin WritesBeyond(c, a) /\ WritesBeyond(c, a)' = WritesBeyond(c, a) \cup {w}
           /\ Beyond(<<"W", w, a>>) /\ ~Beyond(<<"W", w, a>>)' =>
                 w \in WritesBeyond(c, a) /\ WritesBeyond(c, a)' = WritesBeyond(c, a) \ {w}
<1>1. \A u \in Warps : <<"W", u, a>> \in Ids /\ (u # w => <<"W", u, a>> # <<"W", w, a>>)
  BY DEF Ids
<1>2. <<"R", c, a>> \in Ids /\ <<"R", c, a>> # <<"W", w, a>>
  BY DEF Ids
<1>3. \A u \in Warps \ {w} : Beyond(<<"W", u, a>>)' <=> Beyond(<<"W", u, a>>)
  BY <1>1
<1>4. ASSUME ~Beyond(<<"W", w, a>>), Beyond(<<"W", w, a>>)'
      PROVE  w \notin WritesBeyond(c, a) /\ WritesBeyond(c, a)' = WritesBeyond(c, a) \cup {w}
  BY <1>3, <1>4 DEF WritesBeyond
<1>5. ASSUME Beyond(<<"W", w, a>>), ~Beyond(<<"W", w, a>>)'
      PROVE  w \in WritesBeyond(c, a) /\ WritesBeyond(c, a)' = WritesBeyond(c, a) \ {w}
  BY <1>3, <1>5 DEF WritesBeyond
<1> QED BY <1>2, <1>4, <1>5

\* A step about one line of one core keeps the counters of the others.
LEMMA OneLineCounts ==
    ASSUME Counted, NEW c \in Cores, NEW a \in Addrs, NEW h \in Ids, HomeOf(h) = c, h[3] = a,
           \A id \in Ids \ {h} : Beyond(id)' <=> Beyond(id),
           \A d \in Cores, x \in Addrs : d # c \/ x # a =>
              /\ tbe'[d][x] = tbe[d][x] /\ st'[d][x] = st[d][x]
              /\ line'[d][x].tag = line[d][x].tag,
           CountedAt(c, a)'
    PROVE  Counted'
<1> SUFFICES ASSUME NEW d \in Cores, NEW x \in Addrs, d # c \/ x # a PROVE CountedAt(d, x)'
  BY DEF Counted
<1>1. \A id \in Ids : HomeOf(id) = d /\ id[3] = x => (Beyond(id)' <=> Beyond(id))
  OBVIOUS
<1>2. /\ tbe'[d][x] = tbe[d][x] /\ st'[d][x] = st[d][x] /\ line'[d][x].tag = line[d][x].tag
      /\ CountedAt(d, x)
  BY DEF Counted
<1> QED BY <1>1, <1>2, CountsKept

\* The counters as numbers.
LEMMA CountFacts ==
    ASSUME TypeOK, Counted, NEW c \in Cores, NEW a \in Addrs
    PROVE  /\ tbe[c][a].reads \in {0, 1}
           /\ tbe[c][a].reads = 1 <=> Beyond(<<"R", c, a>>)
           /\ tbe[c][a].writes \in Nat
           /\ ~TBEPresent(c, a) => tbe[c][a].reads = 0 /\ tbe[c][a].writes = 0
           /\ \A w \in WritesBeyond(c, a) : tbe[c][a].writes >= 1
<1>1. CountedAt(c, a)
  BY DEF Counted
<1>2. tbe[c][a].reads \in {0, 1} /\ (tbe[c][a].reads = 1 <=> Beyond(<<"R", c, a>>))
  BY <1>1 DEF CountedAt
<1>3. tbe[c][a].writes \in Nat
  BY <1>1, FS_CardinalityType DEF CountedAt
<1>4. ASSUME ~TBEPresent(c, a) PROVE tbe[c][a].reads = 0 /\ tbe[c][a].writes = 0
  <2>1. ~(tbe[c][a].reads + tbe[c][a].writes > 0)
    BY <1>1, <1>4 DEF CountedAt
  <2> QED BY <1>2, <1>3, <2>1
<1>5. ASSUME NEW w \in WritesBeyond(c, a) PROVE tbe[c][a].writes >= 1
  <2>1. Cardinality(WritesBeyond(c, a)) # 0
    BY <1>1, <1>5, FS_EmptySet DEF CountedAt
  <2>2. tbe[c][a].writes = Cardinality(WritesBeyond(c, a))
    BY <1>1 DEF CountedAt
  <2> QED BY <1>3, <2>1, <2>2
<1> QED BY <1>2, <1>3, <1>4, <1>5

\* The line of a load or a write at the head of the mandatory queue.
LEMMA HeadRequest ==
    ASSUME TypeOK, ClockInv, NEW c \in Cores, mandQ[c] # <<>>
    PROVE  \E r \in CacheMsg : /\ r = Head(mandQ[c]) /\ r.addr \in Addrs /\ r.warp \in Warps
                               /\ CoreOf[r.warp] = c
                               /\ r.op = "LD" => CacheId[r] = <<"R", c, r.addr>>
                               /\ r.op # "LD" => CacheId[r] = <<"W", r.warp, r.addr>>
<1>1. PICK r \in CacheMsg : r = Head(mandQ[c])
  BY MandatoryHead
<1>2. r.addr \in Addrs /\ r.warp \in Warps
  BY DEF CacheMsg
<1>3. mandQ[c] \in Seq(CacheMsg)
  BY DEF TypeOK, NetTypeOK
<1>4. CoreOf[r.warp] = c
  BY <1>1, <1>3, QueueFacts DEF ClockInv
<1>5. CacheId[r] = Id(r.op = "LD", r.warp, r.addr)
  BY MessageIds
<1>6. /\ r.op = "LD" => CacheId[r] = <<"R", c, r.addr>>
      /\ r.op # "LD" => CacheId[r] = <<"W", r.warp, r.addr>>
  BY <1>4, <1>5 DEF Id
<1> QED BY <1>1, <1>2, <1>4, <1>6

\* A load that misses is counted (pr_incPendingRead).
LEMMA LoadMissCounts ==
    ASSUME TypeOK, ClockInv, Single, Counted, NEW c \in Cores, LoadMiss(c),
           Moved({CacheId[Head(mandQ[c])]}, "mand", "req")
    PROVE  Counted'
<1>1. PICK r \in CacheMsg : /\ r = Head(mandQ[c]) /\ r.addr \in Addrs
                            /\ r.op = "LD" /\ CacheId[r] = <<"R", c, r.addr>>
  <2>1. mandQ[c] # <<>> /\ Head(mandQ[c]).op = "LD"
    BY DEF LoadMiss
  <2> QED BY <2>1, HeadRequest
<1>2. PICK a \in Addrs : a = r.addr
  BY <1>1
<1>3. PICK h \in Ids : h = <<"R", c, a>> /\ HomeOf(h) = c /\ h[3] = a
  BY ReadName
<1> DEFINE s == getState(c, a)
           t == IF s = "I" THEN [NoTBE EXCEPT !.reads = 1]
                           ELSE [tbe[c][a] EXCEPT !.reads = tbe[c][a].reads + 1]
<1>4. Moved({h}, "mand", "req")
  BY <1>1, <1>2, <1>3
<1>5. ~Beyond(h) /\ Beyond(h)' /\ \A id \in Ids \ {h} : Beyond(id)' <=> Beyond(id)
  BY <1>4, PassesL1, StageNames
<1>6. /\ tbe' = [tbe EXCEPT ![c][a] = t]
      /\ st' = [st EXCEPT ![c][a] = IF s = "I" THEN "I_S" ELSE "I_I"]
      /\ line' = [line EXCEPT ![c][a] = IF line[c][a].tag THEN line[c][a] ELSE NewLine]
      /\ s \in {"I", "I_I"}
  BY <1>1, <1>2 DEF LoadMiss
<1>7. tbe[c][a].reads = 0 /\ tbe[c][a].writes \in Nat /\ (s = "I" => tbe[c][a].writes = 0)
  <2>1. s = "I" => ~TBEPresent(c, a)
    BY StateFacts DEF Transient
  <2> HIDE DEF s
  <2> QED BY <1>3, <1>5, <2>1, CountFacts
<1>8. t.reads = 1 /\ t.writes = tbe[c][a].writes
  <2>1. tbe[c][a] \in L1TBE
    BY DEF TypeOK, L1TypeOK
  <2> HIDE DEF s
  <2> QED BY <1>7, <2>1 DEF L1TBE, NoTBE
<1> HIDE DEF t, s
<1>9. /\ tbe'[c][a] = t /\ st'[c][a] = (IF s = "I" THEN "I_S" ELSE "I_I") /\ line'[c][a].tag
      /\ \A d \in Cores, x \in Addrs : d # c \/ x # a =>
              /\ tbe'[d][x] = tbe[d][x] /\ st'[d][x] = st[d][x]
              /\ line'[d][x].tag = line[d][x].tag
  BY <1>6 DEF TypeOK, L1TypeOK, L1Entry, NewLine
<1>10. WritesBeyond(c, a)' = WritesBeyond(c, a)
  BY <1>5, <1>3, ReadPasses
<1>11. TBEPresent(c, a)'
  BY <1>9 DEF TBEPresent, Transient
<1>12. IsFiniteSet(WritesBeyond(c, a)) /\ tbe[c][a].writes = Cardinality(WritesBeyond(c, a))
  BY DEF Counted, CountedAt
<1>13. CountedAt(c, a)'
  BY <1>5, <1>7, <1>8, <1>9, <1>10, <1>11, <1>12, <1>3 DEF CountedAt
<1> QED BY <1>3, <1>5, <1>9, <1>13, OneLineCounts

\* A store or an atomic is counted (pw_incPendingWrite).
LEMMA WriteThroughCounts ==
    ASSUME TypeOK, ClockInv, Single, Counted, NEW c \in Cores, WriteThrough(c),
           Moved({CacheId[Head(mandQ[c])]}, "mand", "req")
    PROVE  Counted'
<1>1. PICK r \in CacheMsg : /\ r = Head(mandQ[c]) /\ r.addr \in Addrs /\ r.warp \in Warps
                            /\ CoreOf[r.warp] = c /\ CacheId[r] = <<"W", r.warp, r.addr>>
  <2>1. mandQ[c] # <<>> /\ Head(mandQ[c]).op # "LD"
    BY DEF WriteThrough
  <2> QED BY <2>1, HeadRequest
<1>2. PICK a \in Addrs, w \in Warps : a = r.addr /\ w = r.warp /\ CoreOf[w] = c
  BY <1>1
<1>3. PICK h \in Ids : h = <<"W", w, a>> /\ HomeOf(h) = c /\ h[3] = a
  BY <1>2, WriteName
<1> DEFINE s == getState(c, a)
           t == TBEForWrite(c, a, s)
<1>4. Moved({h}, "mand", "req")
  BY <1>1, <1>2, <1>3
<1>5. ~Beyond(h) /\ Beyond(h)' /\ \A id \in Ids \ {h} : Beyond(id)' <=> Beyond(id)
  BY <1>4, PassesL1, StageNames
<1>6. /\ tbe' = [tbe EXCEPT ![c][a] = t]
      /\ st' = [st EXCEPT ![c][a] = IF s \in {"S", "SM"} THEN "SM" ELSE "I_I"]
      /\ line' = line
  BY <1>1, <1>2 DEF WriteThrough
<1>7. s \in {"I", "S"} => tbe[c][a].reads = 0 /\ tbe[c][a].writes = 0
  <2>1. s \in {"I", "S"} => ~TBEPresent(c, a)
    BY StateFacts DEF Transient
  <2> HIDE DEF s
  <2> QED BY <2>1, CountFacts
<1>8. tbe[c][a].reads \in {0, 1} /\ tbe[c][a].writes \in Nat
  BY CountFacts
<1>9. t.reads = tbe[c][a].reads /\ t.writes = tbe[c][a].writes + 1
  <2>1. tbe[c][a] \in L1TBE
    BY DEF TypeOK, L1TypeOK
  <2> HIDE DEF s
  <2> QED BY <1>7, <1>8, <2>1 DEF L1TBE, TBEForWrite
<1> HIDE DEF t, s
<1>10. /\ tbe'[c][a] = t /\ st'[c][a] \in {"SM", "I_I"} /\ line'[c][a] = line[c][a]
       /\ \A d \in Cores, x \in Addrs : d # c \/ x # a =>
              /\ tbe'[d][x] = tbe[d][x] /\ st'[d][x] = st[d][x]
              /\ line'[d][x].tag = line[d][x].tag
  BY <1>6 DEF TypeOK, L1TypeOK
<1>11. /\ Beyond(<<"R", c, a>>)' <=> Beyond(<<"R", c, a>>)
       /\ w \notin WritesBeyond(c, a) /\ WritesBeyond(c, a)' = WritesBeyond(c, a) \cup {w}
  BY <1>2, <1>3, <1>5, WritePasses
<1>12. CountedAt(c, a)
  BY DEF Counted
<1>13. (IsFiniteSet(WritesBeyond(c, a)))' /\ (tbe[c][a].writes = Cardinality(WritesBeyond(c, a)))'
  BY <1>9, <1>10, <1>11, <1>12, FS_AddElement DEF CountedAt
<1>14. TBEPresent(c, a)'
  BY <1>10 DEF TBEPresent, Transient
<1>15. CountedAt(c, a)'
  BY <1>8, <1>9, <1>10, <1>11, <1>12, <1>13, <1>14 DEF CountedAt
<1> QED BY <1>3, <1>5, <1>10, <1>15, OneLineCounts

\* Data is taken off the count; the last answer frees the TBE.
LEMMA DataCounts ==
    ASSUME TypeOK, Single, Counted, NEW c \in Cores, NEW b \in Banks, Data(c, b),
           Moved({<<"R", c, Head(respNet[b][c]).addr>>}, "resp", "back")
    PROVE  Counted'
<1>0. respNet[b][c] # <<>>
  BY ZenonT(40) DEF Data
<1>1. PICK m \in ResponseMsg : m = Head(respNet[b][c]) /\ m.addr \in Addrs
  BY <1>0, ResponseHead
<1>2. PICK a \in Addrs : a = m.addr
  BY <1>1
<1>3. PICK h \in Ids : h = <<"R", c, a>> /\ HomeOf(h) = c /\ h[3] = a
  BY ReadName
<1> DEFINE e == tbe[c][a]
           t == IF Done(e, m) THEN NoTBE ELSE [e EXCEPT !.rts = m.rts, !.reads = e.reads - 1]
<1>4. Moved({h}, "resp", "back")
  BY <1>1, <1>2, <1>3
<1>5. Beyond(h) /\ ~Beyond(h)' /\ \A id \in Ids \ {h} : Beyond(id)' <=> Beyond(id)
  BY <1>4, PassesL1, StageNames
<1>6. /\ tbe' = [tbe EXCEPT ![c][a] = t]
      /\ st' = [st EXCEPT ![c][a] = IF Done(e, m) THEN "S" ELSE "SM"]
      /\ line' = [line EXCEPT ![c][a] = [tag |-> @.tag, rts |-> m.rts, have |-> TRUE, ver |-> m.ver]]
      /\ m.type = "DATA"
  BY ZenonT(40), <1>1, <1>2 DEF Data
<1>7. e.reads = 1 /\ e.writes \in Nat
  BY <1>3, <1>5, CountFacts
<1>8. t.reads = 0 /\ t.writes = e.writes
  <2>1. e \in L1TBE
    BY DEF TypeOK, L1TypeOK
  <2> QED BY <1>6, <1>7, <2>1 DEF L1TBE, NoTBE, Done
<1>9. IF e.writes = 0 THEN st'[c][a] = "S" ELSE st'[c][a] = "SM"
  BY <1>6 DEF Done, TypeOK, L1TypeOK
<1> HIDE DEF t
<1>10. /\ tbe'[c][a] = t
       /\ \A d \in Cores, x \in Addrs : d # c \/ x # a =>
              /\ tbe'[d][x] = tbe[d][x] /\ st'[d][x] = st[d][x]
              /\ line'[d][x].tag = line[d][x].tag
  BY <1>6 DEF TypeOK, L1TypeOK
<1>11. WritesBeyond(c, a)' = WritesBeyond(c, a)
  BY <1>3, <1>5, ReadPasses
<1>12. TBEPresent(c, a)' <=> e.writes # 0
  BY <1>9 DEF TBEPresent, Transient
<1>13. IsFiniteSet(WritesBeyond(c, a)) /\ e.writes = Cardinality(WritesBeyond(c, a))
  BY DEF Counted, CountedAt
<1>14. st'[c][a] # "I_S"
  BY <1>9
<1>15. CountedAt(c, a)'
  BY <1>3, <1>5, <1>7, <1>8, <1>10, <1>11, <1>12, <1>13, <1>14 DEF CountedAt
<1> QED BY <1>3, <1>5, <1>10, <1>15, OneLineCounts

\* An acknowledgement is taken off the count; the last answer frees the TBE.
LEMMA WriteDoneCounts ==
    ASSUME TypeOK, Single, Counted, NEW c \in Cores, NEW b \in Banks, WriteDone(c, b),
           Moved({<<"W", Head(respNet[b][c]).warp, Head(respNet[b][c]).addr>>}, "resp", "back"),
           CoreOf[Head(respNet[b][c]).warp] = c
    PROVE  Counted'
<1>1. PICK m \in ResponseMsg : m = Head(respNet[b][c]) /\ m.addr \in Addrs /\ m.warp \in Warps
  <2>1. respNet[b][c] # <<>>
    BY ZenonT(40) DEF WriteDone
  <2> QED BY <2>1, ResponseHead
<1>2. PICK a \in Addrs, w \in Warps : a = m.addr /\ w = m.warp /\ CoreOf[w] = c
  BY <1>1
<1>3. PICK h \in Ids : h = <<"W", w, a>> /\ HomeOf(h) = c /\ h[3] = a
  BY <1>2, WriteName
<1> DEFINE e == tbe[c][a]
           t == IF Done(e, m) THEN NoTBE ELSE [e EXCEPT !.writes = e.writes - 1]
<1>4. Moved({h}, "resp", "back")
  BY <1>1, <1>2, <1>3
<1>5. Beyond(h) /\ ~Beyond(h)' /\ \A id \in Ids \ {h} : Beyond(id)' <=> Beyond(id)
  BY <1>4, PassesL1, StageNames
<1>6. /\ tbe' = [tbe EXCEPT ![c][a] = t]
      /\ st' = [st EXCEPT ![c][a] = IF Done(e, m) THEN "I" ELSE "I_I"]
      /\ line' = line
      /\ m.type \in {"ACK", "DATA_ATOMIC"}
  BY ZenonT(40), <1>1, <1>2 DEF WriteDone
<1>7. /\ Beyond(<<"R", c, a>>)' <=> Beyond(<<"R", c, a>>)
      /\ w \in WritesBeyond(c, a) /\ WritesBeyond(c, a)' = WritesBeyond(c, a) \ {w}
  BY <1>2, <1>3, <1>5, WritePasses
<1>8. e.reads \in {0, 1} /\ e.writes \in Nat /\ e.writes >= 1
  BY <1>7, CountFacts
<1>9. Done(e, m) <=> e.reads = 0 /\ e.writes = 1
  BY <1>6, <1>8 DEF Done
<1>10. t.reads = e.reads /\ t.writes = e.writes - 1
  <2>1. e \in L1TBE
    BY DEF TypeOK, L1TypeOK
  <2> QED BY <1>8, <1>9, <2>1 DEF L1TBE, NoTBE
<1> HIDE DEF t
<1>11. /\ tbe'[c][a] = t /\ line'[c][a] = line[c][a]
       /\ IF Done(e, m) THEN st'[c][a] = "I" ELSE st'[c][a] = "I_I"
       /\ \A d \in Cores, x \in Addrs : d # c \/ x # a =>
              /\ tbe'[d][x] = tbe[d][x] /\ st'[d][x] = st[d][x]
              /\ line'[d][x].tag = line[d][x].tag
  BY <1>6 DEF TypeOK, L1TypeOK
<1>12. CountedAt(c, a)
  BY DEF Counted
<1>13. (IsFiniteSet(WritesBeyond(c, a)))' /\ (tbe[c][a].writes = Cardinality(WritesBeyond(c, a)))'
  BY <1>7, <1>10, <1>11, <1>12, FS_RemoveElement DEF CountedAt
<1>14. TBEPresent(c, a)' <=> ~Done(e, m)
  BY <1>11 DEF TBEPresent, Transient
<1>15. st'[c][a] # "I_S"
  BY <1>11
<1>16. t.reads + t.writes > 0 <=> ~(e.reads = 0 /\ e.writes = 1)
  BY <1>8, <1>10
<1>17. CountedAt(c, a)'
  BY <1>7, <1>9, <1>10, <1>11, <1>12, <1>13, <1>14, <1>15, <1>16 DEF CountedAt
<1> QED BY <1>3, <1>5, <1>11, <1>17, OneLineCounts

\* A line that waits for data is not replaced.
LEMMA L1_ReplacementCounts ==
    ASSUME TypeOK, Counted, NEW c \in Cores, NEW v \in Addrs, L1_Replacement(c, v),
           \A id \in Ids : Beyond(id)' <=> Beyond(id)
    PROVE  Counted'
<1>1. /\ tbe' = tbe /\ getState(c, v) \in {"I", "S"}
      /\ line' = [line EXCEPT ![c][v] = NoLine] /\ st' = [st EXCEPT ![c][v] = "I"]
  BY DEF L1_Replacement
<1>2. ~TBEPresent(c, v)
  BY <1>1, StateFacts DEF Transient
<1>3. tbe[c][v].reads = 0 /\ tbe[c][v].writes = 0
  BY <1>2, CountFacts
<1>4. PICK h \in Ids : h = <<"R", c, v>> /\ HomeOf(h) = c /\ h[3] = v
  BY ReadName
<1>5. /\ tbe'[c][v] = tbe[c][v] /\ st'[c][v] = "I"
      /\ \A d \in Cores, x \in Addrs : d # c \/ x # v =>
              /\ tbe'[d][x] = tbe[d][x] /\ st'[d][x] = st[d][x]
              /\ line'[d][x].tag = line[d][x].tag
  BY <1>1 DEF TypeOK, L1TypeOK
<1>6. ~TBEPresent(c, v)'
  BY <1>5 DEF TBEPresent, Transient
<1>7. CountedAt(c, v)
  BY DEF Counted
<1>8. WritesBeyond(c, v)' = WritesBeyond(c, v)
  BY ReadPasses
<1>9. CountedAt(c, v)'
  BY <1>3, <1>4, <1>5, <1>6, <1>7, <1>8 DEF CountedAt
<1> QED BY <1>4, <1>5, <1>9, OneLineCounts

-----------------------------------------------------------------------------
(* A core makes a request, and takes the answer.                            *)

\* A request that is new.
LEMMA RequestMade ==
    ASSUME Single, NEW h \in Ids, \A s \in Stages : ~Held(h, s), Enters("mand", {h}),
           \A s \in Stages \ {"mand"} : Same(s)
    PROVE  /\ Single'
           /\ \A id \in Ids : (\E s \in Stages : Held(id, s))'
                                 <=> (\E s \in Stages : Held(id, s)) \/ id = h
           /\ \A id \in Ids : Beyond(id)' <=> Beyond(id)
<1>1. \A id \in Ids, s \in Stages : Held(id, s)' <=> Held(id, s) \/ (id = h /\ s = "mand")
  BY DEF Enters, Same
<1>2. \A id \in Ids, s \in BeyondL1 : Held(id, s)' <=> Held(id, s)
  <2>1. \A s \in BeyondL1 : s \in Stages \ {"mand"}
    BY DEF Stages, BeyondL1
  <2> QED BY <2>1 DEF Same
<1>3. Single'
  BY <1>1 DEF Single
<1>4. \A id \in Ids : (\E s \in Stages : Held(id, s))'
                         <=> (\E s \in Stages : Held(id, s)) \/ id = h
  BY <1>1, StageNames
<1>5. \A id \in Ids : Beyond(id)' <=> Beyond(id)
  BY <1>2 DEF Beyond
<1> QED BY <1>3, <1>4, <1>5

\* A request that is over.
LEMMA RequestOver ==
    ASSUME Single, NEW h \in Ids, Leaves("back", {h}), \A s \in Stages \ {"back"} : Same(s)
    PROVE  /\ Single'
           /\ \A id \in Ids : (\E s \in Stages : Held(id, s))'
                                 <=> (\E s \in Stages : Held(id, s)) /\ id # h
           /\ \A id \in Ids : Beyond(id)' <=> Beyond(id)
<1>1. /\ Held(h, "back")
      /\ \A id \in Ids, s \in Stages : Held(id, s)' <=> Held(id, s) /\ ~(id = h /\ s = "back")
  BY DEF Leaves, Same
<1>2. \A id \in Ids, s \in BeyondL1 : Held(id, s)' <=> Held(id, s)
  <2>1. \A s \in BeyondL1 : s \in Stages \ {"back"}
    BY DEF Stages, BeyondL1
  <2> QED BY <2>1 DEF Same
<1>3. Single'
  BY <1>1 DEF Single
<1>4. \A s \in Stages : Held(h, s) => s = "back"
  BY <1>1, StageNames DEF Single
<1>5. \A id \in Ids : (\E s \in Stages : Held(id, s))'
                         <=> (\E s \in Stages : Held(id, s)) /\ id # h
  BY <1>1, <1>4
<1>6. \A id \in Ids : Beyond(id)' <=> Beyond(id)
  BY <1>2 DEF Beyond
<1> QED BY <1>3, <1>5, <1>6

\* p is q with a new last element w, or without its first element.
Pushed(p, q, w) ==
    /\ p # <<>> /\ Distinct(p)
    /\ \A u : Has(p, u) <=> Has(q, u) \/ u = w

Popped(p, q) ==
    /\ Head(q) \in Warps /\ Has(q, Head(q)) /\ Distinct(p)
    /\ p = <<>> <=> Len(q) = 1
    /\ \A u : Has(p, u) <=> Has(q, u) /\ u # Head(q)

\* A list without repetitions gets a new element.
LEMMA ListPushed ==
    ASSUME NEW q \in Seq(Warps), NEW w \in Warps, Distinct(q), ~Has(q, w)
    PROVE  Pushed(Append(q, w), q, w)
<1> DEFINE p == Append(q, w)
<1>1. /\ Len(q) \in Nat /\ DOMAIN q = 1..Len(q) /\ DOMAIN p = 1..(Len(q) + 1)
      /\ p[Len(q) + 1] = w
      /\ \A i \in 1..Len(q) : p[i] = q[i]
      /\ p # <<>>
  BY AppendProperties
<1>2. \A i \in DOMAIN p : i \in DOMAIN q \/ i = Len(q) + 1
  BY <1>1
<1> HIDE DEF p
<1>3. Distinct(p)
  BY <1>1, <1>2 DEF Distinct, Has
<1>4. \A u : Has(p, u) <=> Has(q, u) \/ u = w
  BY <1>1, <1>2 DEF Has
<1>5. Pushed(p, q, w)
  BY <1>1, <1>3, <1>4 DEF Pushed
<1> QED BY <1>5 DEF p

\* The first element of a list without repetitions is taken.
LEMMA ListPopped ==
    ASSUME NEW q \in Seq(Warps), q # <<>>, Distinct(q)
    PROVE  Popped(Tail(q), q)
<1> DEFINE p == Tail(q)
<1>1. /\ p \in Seq(Warps) /\ Len(q) \in Nat /\ Len(q) >= 1 /\ Head(q) = q[1] /\ Head(q) \in Warps
      /\ Len(p) = Len(q) - 1 /\ DOMAIN q = 1..Len(q) /\ DOMAIN p = 1..(Len(q) - 1)
      /\ \A i \in 1..(Len(q) - 1) : p[i] = q[i + 1]
  BY EmptySeq, HeadTailProperties
<1> HIDE DEF p
<1>2. p = <<>> <=> Len(q) = 1
  <2>1. p = <<>> <=> Len(p) = 0
    BY <1>1, EmptySeq
  <2> QED BY <1>1, <2>1
<1>3. Distinct(p)
  BY SMTT(30), <1>1 DEF Distinct
<1>4. 1 \in DOMAIN q /\ Has(q, Head(q))
  BY <1>1 DEF Has
<1>5. ASSUME NEW u PROVE Has(p, u) <=> Has(q, u) /\ u # Head(q)
  <2>1. ASSUME NEW i \in DOMAIN p, p[i] = u PROVE Has(q, u) /\ u # Head(q)
    <3>1. i + 1 \in DOMAIN q /\ q[i + 1] = u /\ i + 1 # 1
      BY <1>1, <2>1
    <3> QED BY <1>1, <1>4, <3>1 DEF Distinct, Has
  <2>2. ASSUME NEW i \in DOMAIN q, q[i] = u, u # Head(q) PROVE Has(p, u)
    <3>1. i - 1 \in DOMAIN p /\ p[i - 1] = u
      BY <1>1, <2>2
    <3> QED BY <3>1 DEF Has
  <2> QED BY <2>1, <2>2 DEF Has
<1>6. Popped(p, q)
  BY <1>1, <1>2, <1>3, <1>4, <1>5 DEF Popped
<1> QED BY <1>6 DEF p

\* The fence lets a warp make one access at a time.
LEMMA BusyMade ==
    ASSUME TypeOK, Busy, NEW w \in Warps, NEW a \in Addrs, NEW op, n_gmem[w] = 0,
           n_gmem' = [n_gmem EXCEPT ![w] = @ + 1],
           \A u \in Warps, x \in Addrs :
              /\ Reads(u, x)' => Reads(u, x) \/ (op = "LD" /\ u = w /\ x = a)
              /\ Writes(u, x)' => Writes(u, x) \/ (op # "LD" /\ u = w /\ x = a),
           \A c \in Cores, x \in Addrs : Distinct(mshr'[c][x].list)
    PROVE  Busy'
<1>1. \A x \in Addrs : ~Reads(w, x) /\ ~Writes(w, x)
  BY DEF Busy
<1>2. \A u \in Warps : n_gmem'[u] = IF u = w THEN 1 ELSE n_gmem[u]
  BY DEF TypeOK, MSHRTypeOK
<1>3. \A u \in Warps : n_gmem'[u] \in {0, 1}
  BY <1>2 DEF Busy
<1>4. \A u \in Warps, x \in Addrs : Reads(u, x)' \/ Writes(u, x)' => n_gmem'[u] = 1
  BY <1>2 DEF Busy
<1>5. \A u \in Warps, x \in Addrs : ~(Reads(u, x)' /\ Writes(u, x)')
  BY <1>1 DEF Busy
<1>6. \A u \in Warps : \A x, y \in Addrs :
          (Reads(u, x)' \/ Writes(u, x)') /\ (Reads(u, y)' \/ Writes(u, y)') => x = y
  BY <1>1 DEF Busy
<1>7. (\A c \in Cores, x \in Addrs : Distinct(mshr[c][x].list))'
  BY DEF Distinct
<1> QED BY <1>3, <1>4, <1>5, <1>6, <1>7 DEF Busy

\* A warp whose access is done waits no more.
LEMMA BusyOver ==
    ASSUME TypeOK, Busy, NEW w \in Warps, NEW a \in Addrs, Reads(w, a) \/ Writes(w, a),
           n_gmem' = [n_gmem EXCEPT ![w] = @ - 1],
           \A u \in Warps, x \in Addrs :
              /\ Reads(u, x)' => Reads(u, x) /\ (Reads(w, a) => u # w \/ x # a)
              /\ Writes(u, x)' => Writes(u, x) /\ (Writes(w, a) => u # w \/ x # a),
           \A c \in Cores, x \in Addrs : Distinct(mshr'[c][x].list)
    PROVE  Busy'
<1>1. \A x \in Addrs : ~Reads(w, x)' /\ ~Writes(w, x)'
  BY DEF Busy
<1>2. n_gmem[w] = 1
  BY DEF Busy
<1>3. \A u \in Warps : n_gmem'[u] = IF u = w THEN 0 ELSE n_gmem[u]
  BY <1>2 DEF TypeOK, MSHRTypeOK
<1>4. \A u \in Warps : n_gmem'[u] \in {0, 1}
  BY <1>3 DEF Busy
<1>5. \A u \in Warps, x \in Addrs : Reads(u, x)' \/ Writes(u, x)' => n_gmem'[u] = 1
  BY <1>1, <1>3 DEF Busy
<1>6. \A u \in Warps, x \in Addrs : ~(Reads(u, x)' /\ Writes(u, x)')
  BY DEF Busy
<1>7. \A u \in Warps : \A x, y \in Addrs :
          (Reads(u, x)' \/ Writes(u, x)') /\ (Reads(u, y)' \/ Writes(u, y)') => x = y
  BY DEF Busy
<1>8. (\A c \in Cores, x \in Addrs : Distinct(mshr[c][x].list))'
  BY DEF Distinct
<1> QED BY <1>4, <1>5, <1>6, <1>7, <1>8 DEF Busy

\* A warp issues an access: it makes a request, or joins the reads of a line
\* whose request is under way.
LEMMA IssueFlight ==
    ASSUME TypeOK, WriteInv, ClockInv, FlightInv, NEW w \in Warps, Issue(w)
    PROVE  FlightInv'
<1> DEFINE c == CoreOf[w]
<1>1. c \in Cores
  BY CoreOfAssumption
<1>2. PICK op \in {"LD", "ST", "ATOMIC"}, a \in Addrs : send_request(w, op, a)
  <2>1. PICK p \in Prog[w][Len(log[w]) + 1] : send_request(w, p[1], p[2])
    BY DEF Issue
  <2>2. Len(log[w]) \in Nat /\ Len(log[w]) < Len(Prog[w])
    BY DEF Issue, TypeOK, MSHRTypeOK
  <2>3. Len(log[w]) + 1 \in 1..Len(Prog[w])
    BY <2>2, ProgAssumption
  <2>4. Prog[w][Len(log[w]) + 1] \in SUBSET ({"LD", "ST", "ATOMIC"} \X Addrs)
    BY <2>3, ProgAssumption
  <2> QED BY <2>1, <2>4
<1> DEFINE m == mshr[c][a]
           r == [op |-> op, addr |-> a, warp |-> w]
           h == IF op = "LD" THEN <<"R", c, a>> ELSE <<"W", w, a>>
<1>3. n_gmem[w] = 0
  BY <1>2 DEF send_request, warp_waiting_at_sc_fence, FlightInv, Busy
<1>4. \A x \in Addrs : ~Reads(w, x) /\ ~Writes(w, x)
  BY <1>3 DEF FlightInv, Busy
<1>5. /\ n_gmem' = [n_gmem EXCEPT ![w] = @ + 1]
      /\ mshr' = [mshr EXCEPT ![c][a] = add(@, op, w)]
      /\ mandQ' = [mandQ EXCEPT ![c] = IF op = "LD" /\ m.list # <<>> THEN @ ELSE Append(@, r)]
      /\ UNCHANGED <<reqNet, l2in, respNet, ready, skipL1, l2st, l2tbe, tbe, st, line>>
  BY <1>2 DEF send_request, do_access, makeRequest, Issue, l1Vars, l2Vars
<1>6. /\ m \in MSHREntry /\ m.list \in Seq(Warps)
      /\ mshr'[c][a].list = (IF op = "LD" THEN Append(m.list, w) ELSE m.list)
      /\ mshr'[c][a].writes = (IF op = "LD" THEN m.writes ELSE m.writes \cup {w})
      /\ \A d \in Cores, x \in Addrs : d # c \/ x # a => mshr'[d][x] = mshr[d][x]
  <2>1. /\ m \in MSHREntry /\ mshr'[c][a] = add(m, op, w)
        /\ \A d \in Cores, x \in Addrs : d # c \/ x # a => mshr'[d][x] = mshr[d][x]
    BY <1>1, <1>5 DEF TypeOK, MSHRTypeOK
  <2> HIDE DEF m
  <2>2. /\ add(m, op, w).list = (IF op = "LD" THEN Append(m.list, w) ELSE m.list)
        /\ add(m, op, w).writes = (IF op = "LD" THEN m.writes ELSE m.writes \cup {w})
    BY <2>1 DEF MSHREntry, add
  <2> QED BY <2>1, <2>2 DEF MSHREntry
<1>7. /\ Distinct(m.list)
      /\ ~Has(m.list, w)
  BY <1>1, <1>4 DEF FlightInv, Busy, Reads
<1>8. PICK q \in Seq(Warps), p \in Seq(Warps) :
          q = m.list /\ p = Append(q, w) /\ Pushed(p, q, w)
  <2>1. PICK q \in Seq(Warps) : q = m.list /\ Distinct(q) /\ ~Has(q, w)
    BY <1>6, <1>7
  <2>2. Append(q, w) \in Seq(Warps)
    OBVIOUS
  <2>3. Pushed(Append(q, w), q, w)
    BY <2>1, ListPushed
  <2> HIDE DEF m
  <2> QED BY <2>1, <2>2, <2>3, Zenon
<1> HIDE DEF m
<1>9. \A u \in Warps, x \in Addrs :
          /\ Reads(u, x)' <=> Reads(u, x) \/ (op = "LD" /\ u = w /\ x = a)
          /\ Writes(u, x)' <=> Writes(u, x) \/ (op # "LD" /\ u = w /\ x = a)
  <2> SUFFICES ASSUME NEW u \in Warps, NEW x \in Addrs
               PROVE  /\ Reads(u, x)' <=> Reads(u, x) \/ (op = "LD" /\ u = w /\ x = a)
                      /\ Writes(u, x)' <=> Writes(u, x) \/ (op # "LD" /\ u = w /\ x = a)
    OBVIOUS
  <2>1. CoreOf[u] \in Cores
    BY CoreOfAssumption
  <2>2. CASE CoreOf[u] = c /\ x = a
    <3>1. mshr[CoreOf[u]][x].list = q /\ mshr[CoreOf[u]][x].writes = m.writes
      BY <1>8, <2>2 DEF m
    <3>2. /\ mshr'[CoreOf[u]][x].list = IF op = "LD" THEN p ELSE q
          /\ mshr'[CoreOf[u]][x].writes = IF op = "LD" THEN m.writes ELSE m.writes \cup {w}
      BY <1>6, <1>8, <2>2
    <3> QED BY <1>8, <2>2, <3>1, <3>2 DEF Reads, Writes, Pushed
  <2>3. CASE ~(CoreOf[u] = c /\ x = a)
    <3>1. mshr'[CoreOf[u]][x] = mshr[CoreOf[u]][x]
      BY <1>6, <2>1, <2>3
    <3>2. ~(u = w /\ x = a)
      BY <2>3
    <3> QED BY <3>1, <3>2 DEF Reads, Writes
  <2> QED BY <2>2, <2>3
<1>10. \A d \in Cores, x \in Addrs : Distinct(mshr'[d][x].list)
  BY <1>6, <1>7, <1>8 DEF FlightInv, Busy, Pushed
<1>11. Busy'
  <2>1. Busy /\ n_gmem' = [n_gmem EXCEPT ![w] = @ + 1]
    BY <1>5 DEF FlightInv
  <2>2. \A u \in Warps, x \in Addrs :
          /\ Reads(u, x)' => Reads(u, x) \/ (op = "LD" /\ u = w /\ x = a)
          /\ Writes(u, x)' => Writes(u, x) \/ (op # "LD" /\ u = w /\ x = a)
    BY <1>9
  <2> QED BY <1>3, <1>10, <2>1, <2>2, BusyMade
<1>12. h \in Ids /\ HomeOf(h) = c /\ (m.list = <<>> \/ op # "LD" => ~Wanted(h))
       /\ \A id \in Ids : Wanted(id)' <=> Wanted(id) \/ id = h
  <2>1. h \in Ids /\ HomeOf(h) = c
    BY <1>1 DEF Ids, HomeOf
  <2>2. m.list = <<>> \/ op # "LD" => ~Wanted(h)
    BY <1>4 DEF Wanted, m
  <2>3. ASSUME NEW id \in Ids PROVE Wanted(id)' <=> Wanted(id) \/ id = h
    <3>1. CASE id[1] = "R"
      <4>1. id[2] \in Cores /\ id[3] \in Addrs /\ id = <<"R", id[2], id[3]>>
        BY <3>1, IdShape
      <4>2. Wanted(id) <=> mshr[id[2]][id[3]].list # <<>>
        BY <3>1 DEF Wanted
      <4>3. Wanted(id)' <=> mshr'[id[2]][id[3]].list # <<>>
        BY <3>1 DEF Wanted
      <4>4. CASE id[2] = c /\ id[3] = a
        <5>1. id = h <=> op = "LD"
          BY <4>1, <4>4
        <5>2. mshr[id[2]][id[3]].list = q
          BY <1>8, <4>4 DEF m
        <5>3. mshr'[id[2]][id[3]].list = IF op = "LD" THEN p ELSE q
          BY <1>6, <1>8, <4>4
        <5> HIDE DEF h
        <5> QED BY <1>8, <4>2, <4>3, <5>1, <5>2, <5>3 DEF Pushed
      <4>5. CASE ~(id[2] = c /\ id[3] = a)
        <5>1. id # h
          BY <4>1, <4>5
        <5>2. mshr'[id[2]][id[3]] = mshr[id[2]][id[3]]
          BY <1>6, <4>1, <4>5
        <5> HIDE DEF h
        <5> QED BY <4>2, <4>3, <5>1, <5>2
      <4> QED BY <4>4, <4>5
    <3>2. CASE id[1] = "W"
      <4>1. id[2] \in Warps /\ id[3] \in Addrs /\ id = <<"W", id[2], id[3]>>
        BY <3>2, IdShape
      <4>2. (Wanted(id) <=> Writes(id[2], id[3])) /\ (Wanted(id)' <=> Writes(id[2], id[3])')
        BY <3>2 DEF Wanted
      <4>3. id = h <=> op # "LD" /\ id[2] = w /\ id[3] = a
        BY <4>1
      <4> HIDE DEF h
      <4> QED BY <1>9, <4>1, <4>2, <4>3
    <3> QED BY <3>1, <3>2, IdShape
  <2> QED BY <2>1, <2>2, <2>3
<1>13. Single' /\ Awaited' /\ (\A id \in Ids : Beyond(id)' <=> Beyond(id))
       /\ \A d \in Cores : Once(mandQ'[d], CacheId)
  <2>1. \A s \in Stages \ {"mand"} : Same(s)
    BY <1>5, SameStages DEF Stages, BeyondL1
  <2> HIDE DEF h
  <2>2. CASE op = "LD" /\ m.list # <<>>
    <3>1. mandQ' = mandQ
      BY <1>5, <2>2 DEF TypeOK, NetTypeOK
    <3>2. \A s \in Stages : Same(s)
      BY <2>1, <3>1, SameStages
    <3>3. Wanted(h)
      BY <2>2 DEF Wanted, h, m
    <3> QED BY <1>12, <3>1, <3>2, <3>3, Unmoved DEF FlightInv, Awaited, OnceEach
  <2>3. CASE ~(op = "LD" /\ m.list # <<>>)
    <3>1. mandQ' = [mandQ EXCEPT ![c] = Append(@, r)]
      BY <1>5, <2>3
    <3>2. \A s \in Stages : ~Held(h, s)
      BY <1>12, <2>3 DEF FlightInv, Awaited
    <3>3. r \in CacheMsg /\ r.warp = w /\ CacheId[r] = h
      <4>1. r \in CacheMsg /\ r.warp = w /\ r.addr = a /\ r.op = op
        BY DEF CacheMsg
      <4> HIDE DEF r
      <4>2. CacheId[r] = Id(r.op = "LD", r.warp, r.addr)
        BY <4>1, MessageIds
      <4> QED BY <4>1, <4>2 DEF Id, h
    <3> HIDE DEF r
    <3>4. Enters("mand", {h}) /\ \A d \in Cores : Once(mandQ'[d], CacheId)
      BY <1>1, <3>1, <3>2, <3>3, StageNames, MandPushed DEF FlightInv
    <3> QED BY <1>12, <2>1, <3>2, <3>4, RequestMade DEF FlightInv, Awaited
  <2> QED BY <2>2, <2>3
<1>14. OnceEach'
  BY <1>5, <1>13, OnceNext DEF FlightInv, OnceEach
<1>15. TBEInv'
  BY <1>5 DEF FlightInv, TBEInv, NoL2TBE
<1>16. Counted'
  BY <1>5, <1>13, CountsKept DEF FlightInv, Counted
<1> QED BY <1>11, <1>13, <1>14, <1>15, <1>16 DEF FlightInv

\* The writeback stage pops one read; the last one of a line ends the request.
LEMMA WritebackFlight ==
    ASSUME TypeOK, WriteInv, ClockInv, FlightInv, NEW c \in Cores, Writeback(c)
    PROVE  FlightInv'
<1>1. ready[c] # <<>> /\ ready[c] \in Seq(Addrs)
  BY DEF Writeback, next_access, TypeOK, MSHRTypeOK
<1>2. PICK a \in Addrs : a = Head(ready[c])
  BY <1>1, QueueFacts
<1> DEFINE m == mshr[c][a]
<1>3. PICK q \in Seq(Warps), p \in Seq(Warps) : q = m.list /\ q # <<>> /\ p = Tail(q) /\ Distinct(q)
  <2>1. m.list # <<>>
    BY <1>2 DEF Writeback, next_access
  <2>2. m.list \in Seq(Warps) /\ Distinct(m.list)
    BY DEF TypeOK, MSHRTypeOK, MSHREntry, FlightInv, Busy
  <2> HIDE DEF m
  <2>3. Tail(m.list) \in Seq(Warps)
    BY <2>1, <2>2, QueueFacts
  <2> QED BY <2>1, <2>2, <2>3
<1>4. Popped(p, q)
  <2>1. Popped(Tail(q), q)
    BY <1>3, ListPopped
  <2> QED BY <1>3, <2>1
<1>5. PICK w \in Warps : w = Head(q) /\ CoreOf[w] = c
  <2>1. PICK i \in DOMAIN m.list : m.list[i] = Head(q)
    BY <1>3, <1>4 DEF Has, Popped
  <2>2. CoreOf[Head(q)] = c
    BY <2>1 DEF ClockInv, EntryOK
  <2> QED BY <1>4, <2>2 DEF Popped
<1>6. /\ n_gmem' = [n_gmem EXCEPT ![w] = @ - 1]
      /\ mshr' = [mshr EXCEPT ![c][a] = PopRead(@)]
      /\ ready' = [ready EXCEPT ![c] = IF Len(q) = 1 THEN Tail(@) ELSE @]
      /\ UNCHANGED <<mandQ, reqNet, l2in, respNet, skipL1, l2st, l2tbe, tbe, st, line>>
  <2>1. /\ Complete(Head(m.list), "LD", a, m.ver)
        /\ mshr' = [mshr EXCEPT ![c][a] = PopRead(@)]
        /\ ready' = [ready EXCEPT ![c] = PopResponse(c, m)]
        /\ UNCHANGED <<netVars, skipL1, l1Vars, l2Vars>>
    BY <1>2 DEF Writeback, next_access
  <2> HIDE DEF m
  <2>2. n_gmem' = [n_gmem EXCEPT ![w] = @ - 1]
    BY <1>3, <1>5, <2>1 DEF Complete
  <2>3. PopResponse(c, m) = IF Len(q) = 1 THEN Tail(ready[c]) ELSE ready[c]
    BY <1>3 DEF PopResponse
  <2> QED BY <2>1, <2>2, <2>3 DEF netVars, l1Vars, l2Vars
<1>7. /\ mshr'[c][a].list = p /\ mshr'[c][a].writes = m.writes
      /\ \A d \in Cores, x \in Addrs : d # c \/ x # a => mshr'[d][x] = mshr[d][x]
  <2>1. /\ m \in MSHREntry /\ mshr'[c][a] = PopRead(m)
        /\ \A d \in Cores, x \in Addrs : d # c \/ x # a => mshr'[d][x] = mshr[d][x]
    BY <1>6 DEF TypeOK, MSHRTypeOK
  <2> HIDE DEF m
  <2>2. PopRead(m).list = p /\ PopRead(m).writes = m.writes
    BY <1>3, <2>1 DEF MSHREntry, PopRead
  <2> QED BY <2>1, <2>2
<1> HIDE DEF m
<1>8. Reads(w, a)
  BY <1>3, <1>4, <1>5 DEF Reads, m, Popped
<1>9. \A u \in Warps, x \in Addrs :
          /\ Reads(u, x)' <=> Reads(u, x) /\ (u # w \/ x # a)
          /\ Writes(u, x)' <=> Writes(u, x)
  <2> SUFFICES ASSUME NEW u \in Warps, NEW x \in Addrs
               PROVE  /\ Reads(u, x)' <=> Reads(u, x) /\ (u # w \/ x # a)
                      /\ Writes(u, x)' <=> Writes(u, x)
    OBVIOUS
  <2>1. CoreOf[u] \in Cores
    BY CoreOfAssumption
  <2>2. CASE CoreOf[u] = c /\ x = a
    <3>1. mshr[CoreOf[u]][x].list = q /\ mshr[CoreOf[u]][x].writes = m.writes
      BY <1>3, <2>2 DEF m
    <3>2. mshr'[CoreOf[u]][x].list = p /\ mshr'[CoreOf[u]][x].writes = m.writes
      BY <1>7, <2>2
    <3> QED BY <1>4, <1>5, <2>2, <3>1, <3>2 DEF Reads, Writes, Popped
  <2>3. CASE ~(CoreOf[u] = c /\ x = a)
    <3>1. mshr'[CoreOf[u]][x] = mshr[CoreOf[u]][x]
      BY <1>7, <2>1, <2>3
    <3>2. u # w \/ x # a
      BY <1>5, <2>3
    <3> QED BY <3>1, <3>2 DEF Reads, Writes
  <2> QED BY <2>2, <2>3
<1>10. \A d \in Cores, x \in Addrs : Distinct(mshr'[d][x].list)
  BY <1>4, <1>7 DEF FlightInv, Busy, Popped
<1>11. Busy'
  <2>1. Busy /\ n_gmem' = [n_gmem EXCEPT ![w] = @ - 1] /\ (Reads(w, a) \/ Writes(w, a))
    BY <1>6, <1>8 DEF FlightInv
  <2>2. ~Writes(w, a)
    BY <1>8 DEF FlightInv, Busy
  <2>3. \A u \in Warps, x \in Addrs :
          /\ Reads(u, x)' => Reads(u, x) /\ (Reads(w, a) => u # w \/ x # a)
          /\ Writes(u, x)' => Writes(u, x) /\ (Writes(w, a) => u # w \/ x # a)
    BY <1>9, <2>2
  <2> QED BY <1>10, <2>1, <2>3, BusyOver
<1>12. PICK h \in Ids : h = <<"R", c, a>>
  BY ReadName
<1>13. \A id \in Ids : Wanted(id)' <=> Wanted(id) /\ ~(id = h /\ Len(q) = 1)
  <2> SUFFICES ASSUME NEW id \in Ids
               PROVE  Wanted(id)' <=> Wanted(id) /\ ~(id = h /\ Len(q) = 1)
    OBVIOUS
  <2>1. CASE id[1] = "R"
    <3>1. id[2] \in Cores /\ id[3] \in Addrs /\ id = <<"R", id[2], id[3]>>
      BY <2>1, IdShape
    <3>2. /\ Wanted(id) <=> mshr[id[2]][id[3]].list # <<>>
          /\ Wanted(id)' <=> mshr'[id[2]][id[3]].list # <<>>
      BY <2>1 DEF Wanted
    <3>3. CASE id[2] = c /\ id[3] = a
      <4>1. id = h
        BY <1>12, <3>1, <3>3
      <4>2. mshr[id[2]][id[3]].list = q /\ mshr'[id[2]][id[3]].list = p
        BY <1>3, <1>7, <3>3 DEF m
      <4> QED BY <1>3, <1>4, <3>2, <4>1, <4>2 DEF Popped
    <3>4. CASE ~(id[2] = c /\ id[3] = a)
      <4>1. id # h
        BY <1>12, <3>1, <3>4
      <4>2. mshr'[id[2]][id[3]] = mshr[id[2]][id[3]]
        BY <1>7, <3>1, <3>4
      <4> QED BY <3>2, <4>1, <4>2
    <3> QED BY <3>3, <3>4
  <2>2. CASE id[1] = "W"
    <3>1. id[2] \in Warps /\ id[3] \in Addrs /\ id # h
      BY <1>12, <2>2, IdShape
    <3>2. (Wanted(id) <=> Writes(id[2], id[3])) /\ (Wanted(id)' <=> Writes(id[2], id[3])')
      BY <2>2 DEF Wanted
    <3> QED BY <1>9, <3>1, <3>2
  <2> QED BY <2>1, <2>2, IdShape
<1>14. Single' /\ Awaited' /\ (\A id \in Ids : Beyond(id)' <=> Beyond(id))
       /\ \A d \in Cores : Once(ready'[d], ReadyId(d))
  <2>1. \A s \in Stages \ {"back"} : Same(s)
    BY <1>6, SameStages DEF Stages, BeyondL1
  <2>2. CASE Len(q) # 1
    <3>1. ready' = ready /\ skipL1' = skipL1
      BY <1>6, <2>2 DEF TypeOK, MSHRTypeOK
    <3>2. \A s \in Stages : Same(s)
      BY <2>1, <3>1, SameStages
    <3> QED BY <1>13, <2>2, <3>1, <3>2, Unmoved DEF FlightInv, Awaited, OnceEach
  <2>3. CASE Len(q) = 1
    <3>1. ready' = [ready EXCEPT ![c] = Tail(@)] /\ skipL1' = skipL1
      BY <1>6, <2>3
    <3>2. Leaves("back", {h}) /\ \A d \in Cores : Once(ready'[d], ReadyId(d))
      BY <1>1, <1>2, <1>12, <3>1, ReadyPopped DEF FlightInv
    <3> QED BY <1>13, <2>1, <2>3, <3>2, RequestOver DEF FlightInv, Awaited
  <2> QED BY <2>2, <2>3
<1>15. OnceEach'
  BY <1>6, <1>14, OnceNext DEF FlightInv, OnceEach
<1>16. TBEInv'
  BY <1>6 DEF FlightInv, TBEInv, NoL2TBE
<1>17. Counted'
  BY <1>6, <1>14, CountsKept DEF FlightInv, Counted
<1> QED BY <1>11, <1>14, <1>15, <1>16, <1>17 DEF FlightInv

\* The writeback stage takes one acknowledgement: the write is over.
LEMMA WriteAckFlight ==
    ASSUME TypeOK, WriteInv, ClockInv, FlightInv, NEW c \in Cores, WriteAck(c)
    PROVE  FlightInv'
<1>1. skipL1[c] # <<>> /\ skipL1[c] \in Seq(SkipL1Request)
  BY DEF WriteAck, mark_skipped_write_done, TypeOK, MSHRTypeOK
<1>2. PICK k \in SkipL1Request : k = Head(skipL1[c]) /\ CoreOf[k.warp] = c
  BY <1>1, QueueFacts DEF ClockInv, SkipOK
<1>3. PICK a \in Addrs, w \in Warps : a = k.addr /\ w = k.warp /\ CoreOf[w] = c
  BY <1>2 DEF SkipL1Request
<1>4. PICK h \in Ids : h = <<"W", w, a>>
  BY WriteName
<1>5. SkipId[k] = h
  BY <1>2, <1>3, <1>4 DEF SkipId
<1> DEFINE m == mshr[c][a]
<1>6. /\ n_gmem' = [n_gmem EXCEPT ![w] = @ - 1]
      /\ mshr' = [mshr EXCEPT ![c][a] = PopWrite(@, w)]
      /\ skipL1' = [skipL1 EXCEPT ![c] = Tail(@)]
      /\ UNCHANGED <<mandQ, reqNet, l2in, respNet, ready, l2st, l2tbe, tbe, st, line>>
  BY <1>2, <1>3 DEF WriteAck, mark_skipped_write_done, Complete, netVars, l1Vars, l2Vars
<1>7. /\ mshr'[c][a].list = m.list /\ mshr'[c][a].writes = m.writes \ {w}
      /\ \A d \in Cores, x \in Addrs : d # c \/ x # a => mshr'[d][x] = mshr[d][x]
  <2>1. /\ m \in MSHREntry /\ mshr'[c][a] = PopWrite(m, w)
        /\ \A d \in Cores, x \in Addrs : d # c \/ x # a => mshr'[d][x] = mshr[d][x]
    BY <1>6 DEF TypeOK, MSHRTypeOK
  <2> HIDE DEF m
  <2>2. PopWrite(m, w).list = m.list /\ PopWrite(m, w).writes = m.writes \ {w}
    BY <2>1 DEF MSHREntry, PopWrite
  <2> QED BY <2>1, <2>2
<1> HIDE DEF m
<1>8. Leaves("back", {h}) /\ \A d \in Cores : Once(skipL1'[d], SkipId)
  BY <1>1, <1>2, <1>5, <1>6, SkipPopped DEF FlightInv
<1>9. Writes(w, a)
  <2>1. Held(h, "back")
    BY <1>8 DEF Leaves
  <2>2. Wanted(h)
    BY <2>1, StageNames DEF FlightInv, Awaited
  <2> QED BY <1>4, <2>2 DEF Wanted
<1>10. \A u \in Warps, x \in Addrs :
          /\ Reads(u, x)' <=> Reads(u, x)
          /\ Writes(u, x)' <=> Writes(u, x) /\ (u # w \/ x # a)
  <2> SUFFICES ASSUME NEW u \in Warps, NEW x \in Addrs
               PROVE  /\ Reads(u, x)' <=> Reads(u, x)
                      /\ Writes(u, x)' <=> Writes(u, x) /\ (u # w \/ x # a)
    OBVIOUS
  <2>1. CoreOf[u] \in Cores
    BY CoreOfAssumption
  <2>2. CASE CoreOf[u] = c /\ x = a
    BY <1>7, <2>2 DEF Reads, Writes, m
  <2>3. CASE ~(CoreOf[u] = c /\ x = a)
    <3>1. mshr'[CoreOf[u]][x] = mshr[CoreOf[u]][x]
      BY <1>7, <2>1, <2>3
    <3>2. u # w \/ x # a
      BY <1>3, <2>3
    <3> QED BY <3>1, <3>2 DEF Reads, Writes
  <2> QED BY <2>2, <2>3
<1>11. \A d \in Cores, x \in Addrs : mshr'[d][x].list = mshr[d][x].list
  BY <1>7 DEF m
<1>12. Busy'
  <2>1. Busy /\ n_gmem' = [n_gmem EXCEPT ![w] = @ - 1] /\ (Reads(w, a) \/ Writes(w, a))
    BY <1>6, <1>9 DEF FlightInv
  <2>2. ~Reads(w, a)
    BY <1>9 DEF FlightInv, Busy
  <2>3. \A u \in Warps, x \in Addrs :
          /\ Reads(u, x)' => Reads(u, x) /\ (Reads(w, a) => u # w \/ x # a)
          /\ Writes(u, x)' => Writes(u, x) /\ (Writes(w, a) => u # w \/ x # a)
    BY <1>10, <2>2
  <2>4. \A d \in Cores, x \in Addrs : Distinct(mshr'[d][x].list)
    BY <1>11 DEF FlightInv, Busy
  <2> QED BY <2>1, <2>3, <2>4, BusyOver
<1>13. \A id \in Ids : Wanted(id)' <=> Wanted(id) /\ id # h
  <2> SUFFICES ASSUME NEW id \in Ids PROVE Wanted(id)' <=> Wanted(id) /\ id # h
    OBVIOUS
  <2>1. CASE id[1] = "R"
    <3>1. id[2] \in Cores /\ id[3] \in Addrs /\ id # h
      BY <1>4, <2>1, IdShape
    <3> QED BY <1>11, <2>1, <3>1 DEF Wanted
  <2>2. CASE id[1] = "W"
    <3>1. id[2] \in Warps /\ id[3] \in Addrs /\ (id = h <=> id[2] = w /\ id[3] = a)
      BY <1>4, <2>2, IdShape
    <3>2. (Wanted(id) <=> Writes(id[2], id[3])) /\ (Wanted(id)' <=> Writes(id[2], id[3])')
      BY <2>2 DEF Wanted
    <3> QED BY <1>10, <3>1, <3>2
  <2> QED BY <2>1, <2>2, IdShape
<1>14. \A s \in Stages \ {"back"} : Same(s)
  BY <1>6, SameStages DEF Stages, BeyondL1
<1>15. Single' /\ Awaited' /\ \A id \in Ids : Beyond(id)' <=> Beyond(id)
  BY <1>8, <1>13, <1>14, RequestOver DEF FlightInv, Awaited
<1>16. OnceEach'
  BY <1>6, <1>8, OnceNext DEF FlightInv, OnceEach
<1>17. TBEInv'
  BY <1>6 DEF FlightInv, TBEInv, NoL2TBE
<1>18. Counted'
  BY <1>6, <1>15, CountsKept DEF FlightInv, Counted
<1> QED BY <1>12, <1>15, <1>16, <1>17, <1>18 DEF FlightInv

-----------------------------------------------------------------------------
(* The invariant.                                                           *)

\* A step of the network, a bank or the DRAM, which no core and no L1 sees.
LEMMA BeyondStep ==
    ASSUME FlightInv, OnceEach', TBEInv', UNCHANGED <<coreVars, l1Vars>>,
           NEW X, NEW p \in BeyondL1, NEW q \in BeyondL1, Moved(X, p, q)
    PROVE  FlightInv'
<1>1. UNCHANGED <<n_gmem, mshr, tbe, st, line>>
  BY DEF coreVars, l1Vars
<1>2. p \in Stages /\ q \in Stages
  BY DEF Stages
<1>3. Single' /\ Awaited' /\ Busy'
  BY <1>1, <1>2, CoresKept DEF FlightInv
<1>4. \A id \in Ids : Beyond(id)' <=> Beyond(id)
  BY <1>2, MovedKeeps DEF FlightInv
<1>5. Counted'
  BY <1>1, <1>4, CountsKept DEF FlightInv, Counted
<1> QED BY <1>3, <1>5 DEF FlightInv

\* A step that moves no request and that no core sees.
LEMMA StillStep ==
    ASSUME FlightInv, TBEInv', \A s \in Stages : Same(s), UNCHANGED <<netVars, coreVars>>
    PROVE  OnceEach' /\ TBEInv' /\ Single' /\ Awaited' /\ Busy'
           /\ \A id \in Ids : Beyond(id)' <=> Beyond(id)
<1>1. UNCHANGED <<n_gmem, mshr, mandQ, reqNet, l2in, respNet, ready, skipL1>>
  BY DEF coreVars, netVars
<1>2. Single' /\ \A id \in Ids : /\ Beyond(id)' <=> Beyond(id)
                                 /\ (\E s \in Stages : Held(id, s))' <=> \E s \in Stages : Held(id, s)
  BY Unmoved DEF FlightInv
<1>3. \A id \in Ids : Wanted(id)' <=> Wanted(id)
  BY <1>1 DEF Wanted, Writes
<1>4. Awaited'
  BY <1>2, <1>3 DEF FlightInv, Awaited
<1>5. Busy'
  BY <1>1 DEF FlightInv, Busy, Reads, Writes
<1>6. OnceEach'
  BY <1>1, OnceNext DEF FlightInv, OnceEach
<1> QED BY <1>2, <1>4, <1>5, <1>6

\* A bank evicts a line: only lines without a fetch go.
LEMMA L2_ReplacementFlight ==
    ASSUME TypeOK, FlightInv, NEW b \in Banks, NEW v \in Addrs, L2_Replacement(b, v),
           UNCHANGED <<coreVars, l1Vars>>
    PROVE  FlightInv'
<1>1. /\ UNCHANGED <<netVars, l2tbe>> /\ l2st[v] = "V" /\ l2st' = [l2st EXCEPT ![v] = "NP"]
  BY DEF L2_Replacement
<1>2. /\ \A x \in Addrs \ {v} : l2st'[x] = l2st[x] /\ l2tbe'[x] = l2tbe[x]
      /\ l2st'[v] = "NP" /\ l2tbe'[v] = NoL2TBE /\ l2tbe[v] = NoL2TBE
  BY <1>1 DEF TypeOK, L2TypeOK, FlightInv, TBEInv
<1>3. TBEInv'
  BY <1>2, TBEOthers DEF FlightInv, NoL2TBE
<1>4. InTBE(v)' = {} /\ InTBE(v) = {}
  BY <1>1, <1>2 DEF InTBE, NoL2TBE
<1>5. Same("tbe")
  <2>1. \A id \in Ids : Held(id, "tbe")' <=> IF id[3] = v THEN id \in InTBE(v)'
                                                          ELSE Held(id, "tbe")
    BY <1>2, TBEStage
  <2> QED BY <1>4, <2>1, HeldAt DEF Same
<1>6. \A s \in Stages : Same(s)
  BY <1>1, <1>5, SameStages DEF netVars, coreVars, Stages, BeyondL1
<1>7. OnceEach' /\ Single' /\ Awaited' /\ Busy' /\ \A id \in Ids : Beyond(id)' <=> Beyond(id)
  BY <1>1, <1>3, <1>6, StillStep
<1>8. UNCHANGED <<tbe, st, line>>
  BY DEF l1Vars
<1>9. Counted'
  BY <1>7, <1>8, CountsKept DEF FlightInv, Counted
<1> QED BY <1>3, <1>7, <1>9 DEF FlightInv

\* An L1 evicts a line: only lines without a TBE go.
LEMMA L1_ReplacementFlight ==
    ASSUME TypeOK, FlightInv, NEW c \in Cores, NEW v \in Addrs, L1_Replacement(c, v),
           UNCHANGED l2Vars
    PROVE  FlightInv'
<1>1. UNCHANGED <<netVars, coreVars, l2st, l2tbe>>
  BY DEF L1_Replacement, l2Vars
<1>2. TBEInv'
  BY <1>1 DEF FlightInv, TBEInv, NoL2TBE
<1>3. \A s \in Stages : Same(s)
  BY <1>1, SameStages DEF netVars, coreVars, Stages, BeyondL1
<1>4. OnceEach' /\ Single' /\ Awaited' /\ Busy' /\ \A id \in Ids : Beyond(id)' <=> Beyond(id)
  BY <1>1, <1>2, <1>3, StillStep
<1>5. Counted'
  BY <1>4, L1_ReplacementCounts DEF FlightInv
<1> QED BY <1>2, <1>4, <1>5 DEF FlightInv

\* A load, a store or an atomic at the L1, and the answer to it.
LEMMA L1Flight ==
    ASSUME TypeOK, WriteInv, ClockInv, FlightInv, NEW c \in Cores, UNCHANGED l2Vars,
           \/ LoadHit(c) \/ LoadMiss(c) \/ WriteThrough(c)
           \/ \E b \in Banks : Data(c, b) \/ WriteDone(c, b)
    PROVE  FlightInv'
<1>1. TBEInv'
  BY DEF l2Vars, FlightInv, TBEInv, NoL2TBE
<1>2. ASSUME NEW a \in Addrs, NEW v, readCallback(c, a, v)
      PROVE  n_gmem' = n_gmem /\ \A d \in Cores, x \in Addrs :
                /\ mshr'[d][x].list = mshr[d][x].list
                /\ mshr'[d][x].writes = mshr[d][x].writes
  BY <1>2 DEF readCallback, TypeOK, MSHRTypeOK, MSHREntry
<1>3. CASE LoadHit(c)
  <2>1. PICK r \in CacheMsg : /\ r = Head(mandQ[c]) /\ r.addr \in Addrs
                              /\ CacheId[r] = <<"R", c, r.addr>>
    <3>1. mandQ[c] # <<>> /\ Head(mandQ[c]).op = "LD"
      BY <1>3 DEF LoadHit
    <3> QED BY <3>1, HeadRequest
  <2>2. PICK h \in Ids : h = CacheId[r]
    BY <2>1, ReadName
  <2>3. OnceEach' /\ Moved({h}, "mand", "back")
    BY <1>3, <2>1, <2>2, LoadHitMoves DEF FlightInv
  <2>4. readCallback(c, r.addr, line[c][r.addr].ver) /\ UNCHANGED <<tbe, st, line>>
    BY <1>3, <2>1 DEF LoadHit, l1Vars
  <2>5. Single' /\ Awaited' /\ Busy'
    BY <1>2, <2>1, <2>3, <2>4, StageNames, CoresKept DEF FlightInv
  <2>6. \A id \in Ids : Beyond(id)' <=> Beyond(id)
    <3>1. \A id \in Ids \ {h} : Beyond(id)' <=> Beyond(id)
      BY <2>3, StageNames, PassesL1 DEF FlightInv
    <3>2. Held(h, "mand") /\ Held(h, "back")'
      BY <2>3, StageNames DEF Moved
    <3>3. \A s \in BeyondL1 : s \in Stages /\ s # "mand" /\ s # "back"
      BY DEF Stages, BeyondL1
    <3>4. ~Beyond(h)
      BY <3>2, <3>3, StageNames DEF FlightInv, Single, Beyond
    <3>5. ~Beyond(h)'
      BY <2>5, <3>2, <3>3, StageNames DEF Single, Beyond
    <3> QED BY <3>1, <3>4, <3>5
  <2>7. Counted'
    BY <2>4, <2>6, CountsKept DEF FlightInv, Counted
  <2> QED BY <1>1, <2>3, <2>5, <2>7 DEF FlightInv
<1>4. CASE LoadMiss(c) \/ WriteThrough(c)
  <2>1. OnceEach' /\ Moved({CacheId[Head(mandQ[c])]}, "mand", "req")
    BY <1>4, L1RequestMoves DEF FlightInv
  <2>2. UNCHANGED <<n_gmem, mshr>>
    <3>1. UNCHANGED coreVars
      BY <1>4, Zenon DEF LoadMiss, WriteThrough
    <3> QED BY <3>1 DEF coreVars
  <2>3. Single' /\ Awaited' /\ Busy'
    BY <2>1, <2>2, StageNames, CoresKept DEF FlightInv
  <2>4. Counted'
    BY <1>4, <2>1, LoadMissCounts, WriteThroughCounts DEF FlightInv
  <2> QED BY <1>1, <2>1, <2>3, <2>4 DEF FlightInv
<1>5. ASSUME NEW b \in Banks, Data(c, b) PROVE FlightInv'
  <2>1. OnceEach' /\ Moved({<<"R", c, Head(respNet[b][c]).addr>>}, "resp", "back")
    BY <1>5, DataMoves DEF FlightInv
  <2>2. respNet[b][c] # <<>> /\ readCallback(c, Head(respNet[b][c]).addr, Head(respNet[b][c]).ver)
    BY ZenonT(40), <1>5 DEF Data
  <2>3. Head(respNet[b][c]).addr \in Addrs
    BY <2>2, ResponseHead
  <2>4. Single' /\ Awaited' /\ Busy'
    <3>1. n_gmem' = n_gmem /\ \A d \in Cores, x \in Addrs :
                /\ mshr'[d][x].list = mshr[d][x].list
                /\ mshr'[d][x].writes = mshr[d][x].writes
      BY <1>2, <2>2, <2>3
    <3> QED BY <2>1, <3>1, StageNames, CoresKept DEF FlightInv
  <2>5. Counted'
    BY <1>5, <2>1, DataCounts DEF FlightInv
  <2> QED BY <1>1, <2>1, <2>4, <2>5 DEF FlightInv
<1>6. ASSUME NEW b \in Banks, WriteDone(c, b) PROVE FlightInv'
  <2>1. /\ OnceEach'
        /\ Moved({<<"W", Head(respNet[b][c]).warp, Head(respNet[b][c]).addr>>}, "resp", "back")
        /\ CoreOf[Head(respNet[b][c]).warp] = c
    BY <1>6, WriteDoneMoves DEF FlightInv
  <2>2. UNCHANGED <<n_gmem, mshr>>
    <3>1. \E w, op, a, v : writeCallback(c, w, op, a, v)
      BY ZenonT(40), <1>6 DEF WriteDone
    <3> QED BY <3>1 DEF writeCallback
  <2>3. Single' /\ Awaited' /\ Busy'
    BY <2>1, <2>2, StageNames, CoresKept DEF FlightInv
  <2>4. Counted'
    BY <1>6, <2>1, WriteDoneCounts DEF FlightInv
  <2> QED BY <1>1, <2>1, <2>3, <2>4 DEF FlightInv
<1> QED BY <1>3, <1>4, <1>5, <1>6

\* Nothing is under way at the start.
LEMMA InitFlight == Init => FlightInv
<1> SUFFICES ASSUME Init PROVE FlightInv
  OBVIOUS
<1>1. /\ \A c \in Cores : mandQ[c] = <<>> /\ ready[c] = <<>> /\ skipL1[c] = <<>>
      /\ \A c \in Cores, b \in Banks : reqNet[c][b] = <<>> /\ respNet[b][c] = <<>>
      /\ \A b \in Banks : l2in[b] = <<>>
      /\ \A a \in Addrs : l2st[a] = "NP" /\ l2tbe[a] = NoL2TBE
  BY DEF Init, NetInit, MSHRInit, L2Init
<1>2. /\ \A w \in Warps : n_gmem[w] = 0
      /\ \A c \in Cores, a \in Addrs : mshr[c][a].list = <<>> /\ mshr[c][a].writes = {}
      /\ \A c \in Cores, a \in Addrs : st[c][a] = "I" /\ tbe[c][a].reads = 0 /\ tbe[c][a].writes = 0
  BY DEF Init, MSHRInit, L1Init, NoMSHR, NoTBE
<1>3. DOMAIN <<>> = {}
  OBVIOUS
<1>4. \A id \in Ids : \A s \in Stages : ~Held(id, s)
  <2> SUFFICES ASSUME NEW id \in Ids, NEW s \in Stages, Held(id, s) PROVE FALSE
    OBVIOUS
  <2>1. InTBE(id[3]) = {}
    <3>1. l2st[id[3]] = "NP" /\ l2tbe[id[3]].gets = {}
      BY <1>1, IdShape DEF NoL2TBE
    <3> QED BY <3>1 DEF InTBE
  <2>2. \A f : ~In(<<>>, f, id)
    BY <1>3 DEF In
  <2>3. /\ mandQ[HomeOf(id)] = <<>> /\ ready[HomeOf(id)] = <<>> /\ skipL1[HomeOf(id)] = <<>>
        /\ reqNet[HomeOf(id)][BankOf[id[3]]] = <<>> /\ respNet[BankOf[id[3]]][HomeOf(id)] = <<>>
        /\ l2in[BankOf[id[3]]] = <<>>
    BY <1>1, IdShape
  <2> QED BY <2>1, <2>2, <2>3 DEF Held
<1>5. OnceEach
  <2>1. \A f : Once(<<>>, f)
    BY <1>3 DEF Once
  <2> QED BY <1>1, <2>1 DEF OnceEach
<1>6. Single
  BY <1>4 DEF Single
<1>7. TBEInv
  BY <1>1 DEF TBEInv, NoL2TBE
<1>8. \A w \in Warps, a \in Addrs : ~Reads(w, a) /\ ~Writes(w, a)
  BY <1>2, <1>3, CoreOfAssumption DEF Reads, Writes, Has
<1>9. Busy
  <2>1. \A c \in Cores, a \in Addrs : Distinct(mshr[c][a].list)
    BY <1>2, <1>3 DEF Distinct
  <2> QED BY <1>2, <1>8, <2>1 DEF Busy
<1>10. Awaited
  BY <1>2, <1>4, <1>8, IdShape DEF Awaited, Wanted
<1>11. Counted
  <2> SUFFICES ASSUME NEW c \in Cores, NEW a \in Addrs PROVE CountedAt(c, a)
    BY DEF Counted
  <2>1. \A id \in Ids : ~Beyond(id)
    BY <1>4 DEF Beyond, Stages
  <2>2. ~Beyond(<<"R", c, a>>)
    BY <2>1, ReadName
  <2>3. \A w \in Warps : ~Beyond(<<"W", w, a>>)
    BY <2>1, WriteName
  <2>4. WritesBeyond(c, a) = {}
    BY <2>3 DEF WritesBeyond
  <2>5. ~TBEPresent(c, a)
    BY <1>2 DEF TBEPresent, Transient
  <2> QED BY <1>2, <2>2, <2>4, <2>5, FS_EmptySet DEF CountedAt
<1> QED BY <1>5, <1>6, <1>7, <1>9, <1>10, <1>11 DEF FlightInv

\* One step per action of the specification.
LEMMA NextFlight == TypeOK /\ WriteInv /\ ClockInv /\ FlightInv /\ [Next]_vars => FlightInv'
<1> SUFFICES ASSUME TypeOK, WriteInv, ClockInv, FlightInv, [Next]_vars PROVE FlightInv'
  OBVIOUS
<1>1. TypeOK'
  BY NextTypes
<1>2. ASSUME NEW w \in Warps, Issue(w) PROVE FlightInv'
  BY <1>2, IssueFlight
<1>3. ASSUME NEW c \in Cores, Writeback(c) PROVE FlightInv'
  BY <1>3, WritebackFlight
<1>4. ASSUME NEW c \in Cores, WriteAck(c) PROVE FlightInv'
  BY <1>4, WriteAckFlight
<1>5. ASSUME NEW c \in Cores, L1Step(c) PROVE FlightInv'
  <2>1. UNCHANGED l2Vars
    BY <1>5 DEF L1Step
  <2>2. CASE \E v \in Addrs : L1_Replacement(c, v)
    BY <2>1, <2>2, L1_ReplacementFlight
  <2>3. CASE ~\E v \in Addrs : L1_Replacement(c, v)
    BY <1>5, <2>1, <2>3, L1Flight DEF L1Step, L1Next
  <2> QED BY <2>2, <2>3
<1>6. ASSUME NEW c \in Cores, NEW b \in Banks, Network(c, b) PROVE FlightInv'
  <2>1. PICK X : Moved(X, "req", "l2in")
    BY <1>6, NetworkMoves DEF FlightInv
  <2>2. OnceEach'
    BY <1>6, NetworkMoves DEF FlightInv
  <2>3. UNCHANGED <<coreVars, l1Vars>> /\ UNCHANGED <<l2st, l2tbe>>
    BY <1>6 DEF Network, l2Vars
  <2>4. TBEInv'
    BY <2>3 DEF FlightInv, TBEInv, NoL2TBE
  <2> QED BY <2>1, <2>2, <2>3, <2>4, StageNames, BeyondStep
<1>7. ASSUME NEW b \in Banks, L2Step(b) PROVE FlightInv'
  <2>1. UNCHANGED <<coreVars, l1Vars>>
    BY <1>7 DEF L2Step
  <2>2. CASE GetsMiss(b) \/ AtomicMiss(b)
    <3>1. OnceEach' /\ TBEInv' /\ \E X : Moved(X, "l2in", "tbe")
      BY <2>1, <2>2, MissMoves DEF FlightInv
    <3> QED BY <2>1, <3>1, StageNames, BeyondStep
  <2>3. CASE WriteMiss(b) \/ GetsHit(b) \/ WriteHit(b, "DATA") \/ WriteHit(b, "DATA_ATOMIC")
    <3>1. OnceEach' /\ TBEInv' /\ \E X : Moved(X, "l2in", "resp")
      BY <2>1, <2>3, WriteMissMoves, HitMoves DEF FlightInv
    <3> QED BY <2>1, <3>1, StageNames, BeyondStep
  <2>4. CASE \E v \in Addrs : L2_Replacement(b, v)
    BY <2>1, <2>4, L2_ReplacementFlight
  <2> QED BY <1>7, <2>2, <2>3, <2>4 DEF L2Step, L2Next
<1>8. ASSUME NEW a \in Addrs, Dram(a) PROVE FlightInv'
  <2>1. UNCHANGED <<coreVars, l1Vars>> /\ (MemData(a) \/ MemDataAtomic(a))
    BY <1>8 DEF Dram
  <2>2. OnceEach' /\ TBEInv' /\ Moved(InTBE(a), "tbe", "resp")
    BY <1>1, <2>1, FetchMoves DEF FlightInv
  <2> QED BY <2>1, <2>2, StageNames, BeyondStep
<1>9. CASE UNCHANGED vars
  <2>1. UNCHANGED <<netVars, coreVars>> /\ UNCHANGED <<l2st, l2tbe, tbe, st, line>>
    BY <1>9 DEF vars, l1Vars, l2Vars
  <2>2. TBEInv'
    BY <2>1 DEF FlightInv, TBEInv, NoL2TBE
  <2>3. \A s \in Stages : Same(s)
    BY <2>1, SameStages DEF netVars, coreVars, Stages, BeyondL1
  <2>4. OnceEach' /\ Single' /\ Awaited' /\ Busy' /\ \A id \in Ids : Beyond(id)' <=> Beyond(id)
    BY <2>1, <2>2, <2>3, StillStep
  <2>5. Counted'
    BY <2>1, <2>4, CountsKept DEF FlightInv, Counted
  <2> QED BY <2>2, <2>4, <2>5 DEF FlightInv
<1> QED BY <1>2, <1>3, <1>4, <1>5, <1>6, <1>7, <1>8, <1>9 DEF Next, Terminated

\* The inductive invariant of the requests: each is at one stage of its way,
\* awaited by its MSHR entry, and counted by the L1's TBE while it is beyond the L1.
THEOREM FlightInvariant == Spec => []FlightInv
<1>1. TypeOK /\ WriteInv /\ ClockInv /\ FlightInv /\ [Next]_vars => FlightInv'
  BY NextFlight
<1> QED BY <1>1, InitFlight, TypeCorrect, WritesInvariant, ClocksInvariant, PTL DEF Spec

\* What the controllers assert follows from it.
LEMMA FlightAssertions == TypeOK /\ WriteInv /\ ClockInv /\ FlightInv => Assertions
<1> SUFFICES ASSUME TypeOK, WriteInv, ClockInv, FlightInv PROVE Assertions
  OBVIOUS
<1>1. ASSUME NEW b \in Banks, NEW c \in Cores, respNet[b][c] # <<>>
      PROVE  LET m == Head(respNet[b][c]) IN
             /\ TBEPresent(c, m.addr)
             /\ IF m.type = "DATA"
                  THEN tbe[c][m.addr].reads = 1 /\ line[c][m.addr].tag
                  ELSE tbe[c][m.addr].writes > 0
  <2>1. respNet[b][c] \in Seq(ResponseMsg)
    BY DEF TypeOK, NetTypeOK
  <2>2. PICK m \in ResponseMsg : m = Head(respNet[b][c]) /\ ResponseOK(m, b, c)
    BY <1>1, <2>1, QueueFacts DEF ClockInv
  <2>3. PICK a \in Addrs, w \in Warps : a = m.addr /\ w = m.warp /\ CoreOf[w] = c /\ BankOf[a] = b
    BY <2>2 DEF ResponseOK, ResponseMsg
  <2>4. In(respNet[b][c], ResponseId, ResponseId[m])
    BY <1>1, <2>1, <2>2, QueueFacts DEF In
  <2>5. PICK h \in Ids : /\ h = ResponseId[m] /\ HomeOf(h) = c /\ h[3] = a
                         /\ m.type = "DATA" => h = <<"R", c, a>>
                         /\ m.type # "DATA" => h = <<"W", w, a>>
    <3>1. /\ ResponseId[m] = Id(m.type = "DATA", m.warp, m.addr) /\ ResponseId[m] \in Ids
          /\ HomeOf(ResponseId[m]) = CoreOf[m.warp] /\ ResponseId[m][3] = m.addr
      BY MessageIds
    <3> QED BY <2>3, <3>1 DEF Id
  <2>6. Beyond(h)
    <3>1. Held(h, "resp")
      BY <2>3, <2>4, <2>5, HeldAt
    <3> QED BY <3>1, StageNames DEF Beyond
  <2>7. CountedAt(c, a) /\ tbe[c][a].reads \in {0, 1} /\ tbe[c][a].writes \in Nat
    BY CountFacts DEF FlightInv, Counted
  <2>8. CASE m.type = "DATA"
    <3>1. tbe[c][a].reads = 1
      BY <2>5, <2>6, <2>8, CountFacts DEF FlightInv
    <3>2. TBEPresent(c, a) /\ line[c][a].tag
      BY <2>7, <3>1 DEF CountedAt
    <3> QED BY <2>2, <2>3, <2>8, <3>1, <3>2
  <2>9. CASE m.type # "DATA"
    <3>1. w \in WritesBeyond(c, a)
      BY <2>3, <2>5, <2>6, <2>9 DEF WritesBeyond
    <3>2. tbe[c][a].writes >= 1
      BY <3>1, CountFacts DEF FlightInv
    <3>3. TBEPresent(c, a) /\ tbe[c][a].writes > 0
      BY <2>7, <3>2 DEF CountedAt
    <3> QED BY <2>2, <2>3, <2>9, <3>3
  <2> QED BY <2>8, <2>9
<1>2. ASSUME NEW c \in Cores, mandQ[c] # <<>>
      PROVE  LET r == Head(mandQ[c]) IN r.op = "LD" => getState(c, r.addr) # "I_S"
  <2>1. PICK r \in CacheMsg : /\ r = Head(mandQ[c]) /\ r.addr \in Addrs
                              /\ r.op = "LD" => CacheId[r] = <<"R", c, r.addr>>
    BY <1>2, HeadRequest
  <2>2. SUFFICES ASSUME r.op = "LD", getState(c, r.addr) = "I_S" PROVE FALSE
    BY <2>1
  <2>3. PICK a \in Addrs : a = r.addr
    BY <2>1
  <2>4. PICK h \in Ids : h = <<"R", c, a>> /\ HomeOf(h) = c /\ h[3] = a
    BY ReadName
  <2>5. Held(h, "mand")
    <3>1. mandQ[c] \in Seq(CacheMsg)
      BY DEF TypeOK, NetTypeOK
    <3>2. In(mandQ[c], CacheId, CacheId[r])
      BY <1>2, <2>1, <3>1, QueueFacts DEF In
    <3> QED BY <2>1, <2>2, <2>3, <2>4, <3>2, HeldAt
  <2>6. ~Beyond(h)
    <3>1. \A s \in BeyondL1 : s \in Stages /\ s # "mand"
      BY DEF Stages, BeyondL1
    <3> QED BY <2>5, <3>1, StageNames DEF FlightInv, Single, Beyond
  <2>7. tbe[c][a].reads = 0
    BY <2>4, <2>6, CountFacts DEF FlightInv
  <2>8. st[c][a] = "I_S"
    BY <2>2, <2>3, StateFacts
  <2>9. CountedAt(c, a)
    BY DEF FlightInv, Counted
  <2>10. tbe[c][a].reads > 0
    BY <2>8, <2>9 DEF CountedAt
  <2> QED BY <2>7, <2>10
<1>3. ASSUME NEW c \in Cores, NEW i \in DOMAIN ready[c] PROVE mshr[c][ready[c][i]].list # <<>>
  <2>1. PICK a \in Addrs : a = ready[c][i]
    BY DEF TypeOK, MSHRTypeOK
  <2>2. PICK h \in Ids : h = <<"R", c, a>> /\ HomeOf(h) = c /\ h[3] = a
    BY ReadName
  <2>3. In(ready[c], ReadyId(c), h)
    BY <2>1, <2>2 DEF In, ReadyId
  <2>4. Wanted(h)
    BY <2>2, <2>3, HeldAt, StageNames DEF FlightInv, Awaited
  <2> QED BY <2>1, <2>2, <2>4 DEF Wanted
<1>4. ASSUME NEW c \in Cores, NEW i \in DOMAIN skipL1[c]
      PROVE  skipL1[c][i].warp \in mshr[c][skipL1[c][i].addr].writes
  <2>1. PICK k \in SkipL1Request : k = skipL1[c][i] /\ CoreOf[k.warp] = c
    BY DEF TypeOK, MSHRTypeOK, ClockInv, SkipOK
  <2>2. PICK a \in Addrs, w \in Warps : a = k.addr /\ w = k.warp /\ CoreOf[w] = c
    BY <2>1 DEF SkipL1Request
  <2>3. PICK h \in Ids : h = <<"W", w, a>> /\ HomeOf(h) = c /\ h[3] = a
    BY <2>2, WriteName
  <2>4. In(skipL1[c], SkipId, h)
    BY <2>1, <2>2, <2>3 DEF In, SkipId
  <2>5. Wanted(h)
    BY <2>3, <2>4, HeldAt, StageNames DEF FlightInv, Awaited
  <2>6. Writes(w, a)
    BY <2>3, <2>5 DEF Wanted
  <2> QED BY <2>1, <2>2, <2>6 DEF Writes
<1> QED BY <1>1, <1>2, <1>3, <1>4 DEF Assertions

\* No assertion of the controllers fails, for every GPU, lease and program: a
\* response finds a TBE that counts it and its line, no load meets I_S, and
\* what comes back to a core is awaited there.
THEOREM AssertionsHold == Spec => []Assertions
BY FlightAssertions, FlightInvariant, TypeCorrect, WritesInvariant, ClocksInvariant, PTL

-----------------------------------------------------------------------------
(* The counters count message by message.  The requests of a line at each   *)
(* stage are a set, the stage's queue holds one message for each of them,   *)
(* and the sets of the stages divide the requests of the line.              *)

\* The reads ("R") or writes ("W") of line a by core c; the ones at a stage.
Of(k, c, a) == {id \in Ids : id[1] = k /\ HomeOf(id) = c /\ id[3] = a}
AtStage(k, c, a, s) == {id \in Of(k, c, a) : Held(id, s)}

-----------------------------------------------------------------------------
(* Counting.                                                                *)

\* A bijection from a finite set.
LEMMA SameCount ==
    ASSUME NEW S, IsFiniteSet(S), NEW T, NEW g \in [S -> T],
           \A x, y \in S : g[x] = g[y] => x = y, \A t \in T : \E x \in S : g[x] = t
    PROVE  IsFiniteSet(T) /\ Cardinality(T) = Cardinality(S)
<1>1. g \in Bijection(S, T)
  BY DEF Bijection, Injection, Surjection, IsInjective
<1>2. ExistsBijection(S, T)
  BY <1>1, Fun_ExistsBij
<1> QED BY <1>2, FS_Bijection

\* What InFlight counts.
LEMMA InFlightReads ==
    ASSUME NEW c \in Cores, NEW a \in Addrs
    PROVE  LET b == BankOf[a] IN
           InFlight(c, a, TRUE) =
              Cardinality({i \in DOMAIN reqNet[c][b] : /\ reqNet[c][b][i].addr = a
                              /\ CoreOf[reqNet[c][b][i].warp] = c /\ reqNet[c][b][i].type = "GETS"})
              + Cardinality({i \in DOMAIN l2in[b] : /\ l2in[b][i].addr = a
                              /\ CoreOf[l2in[b][i].warp] = c /\ l2in[b][i].type = "GETS"})
              + Cardinality({i \in DOMAIN respNet[b][c] : /\ respNet[b][c][i].addr = a
                              /\ respNet[b][c][i].type = "DATA"})
              + Cardinality({w \in l2tbe[a].gets : CoreOf[w] = c})
BY DEF InFlight, InQueue

\* What InFlight counts.
LEMMA InFlightWrites ==
    ASSUME NEW c \in Cores, NEW a \in Addrs
    PROVE  LET b == BankOf[a] IN
           InFlight(c, a, FALSE) =
              Cardinality({i \in DOMAIN reqNet[c][b] : /\ reqNet[c][b][i].addr = a
                              /\ CoreOf[reqNet[c][b][i].warp] = c /\ reqNet[c][b][i].type # "GETS"})
              + Cardinality({i \in DOMAIN l2in[b] : /\ l2in[b][i].addr = a
                              /\ CoreOf[l2in[b][i].warp] = c /\ l2in[b][i].type # "GETS"})
              + Cardinality({i \in DOMAIN respNet[b][c] : /\ respNet[b][c][i].addr = a
                              /\ respNet[b][c][i].type # "DATA"})
              + Cardinality({w \in IF l2st[a] = "IAV" THEN l2tbe[a].wback ELSE {} : CoreOf[w] = c})
BY DEF InFlight, InQueue

-----------------------------------------------------------------------------
(* One message for each request at a stage.                                 *)

\* The requests in a queue of core c whose messages m stand for the names f[m].
LEMMA StageCount ==
    ASSUME NEW S, NEW q \in Seq(S), NEW f, Once(q, f), NEW c \in Cores, NEW a \in Addrs,
           NEW s, NEW k, NEW I \in SUBSET (DOMAIN q),
           \A i \in DOMAIN q : i \in I <=> f[q[i]] \in Of(k, c, a),
           \A id \in Of(k, c, a) : Held(id, s) <=> In(q, f, id)
    PROVE  IsFiniteSet(AtStage(k, c, a, s)) /\ Cardinality(AtStage(k, c, a, s)) = Cardinality(I)
<1> DEFINE X == AtStage(k, c, a, s)
<1>1. ASSUME NEW i \in I PROVE f[q[i]] \in X
  BY DEF AtStage, In
<1>2. ASSUME NEW id \in X PROVE \E i \in I : f[q[i]] = id
  <2>1. id \in Of(k, c, a) /\ In(q, f, id)
    BY <1>2 DEF AtStage
  <2>2. PICK i \in DOMAIN q : f[q[i]] = id
    BY <2>1 DEF In
  <2> QED BY <2>1, <2>2
<1> HIDE DEF X
<1> DEFINE g == [i \in I |-> f[q[i]]]
<1>3. Len(q) \in Nat /\ DOMAIN q = 1..Len(q)
  OBVIOUS
<1>4. IsFiniteSet(1..Len(q))
  BY <1>3, FS_Interval
<1>5. IsFiniteSet(I)
  BY <1>3, <1>4, FS_Subset
<1>6. g \in [I -> X]
  BY <1>1
<1>7. \A i, j \in I : g[i] = g[j] => i = j
  BY DEF Once
<1>8. \A id \in X : \E i \in I : g[i] = id
  BY <1>2
<1> HIDE DEF g
<1>9. IsFiniteSet(X) /\ Cardinality(X) = Cardinality(I)
  BY <1>5, <1>6, <1>7, <1>8, SameCount
<1> QED BY <1>9 DEF X

\* The mandatory queue.
LEMMA MandCount ==
    ASSUME TypeOK, WriteInv, ClockInv, OnceEach, NEW c \in Cores, NEW a \in Addrs
    PROVE  LET q == mandQ[c] IN
           /\ IsFiniteSet(AtStage("R", c, a, "mand")) /\ IsFiniteSet(AtStage("W", c, a, "mand"))
           /\ Cardinality(AtStage("R", c, a, "mand"))
                = Cardinality({i \in DOMAIN q : q[i].addr = a /\ q[i].op = "LD"})
           /\ Cardinality(AtStage("W", c, a, "mand"))
                = Cardinality({i \in DOMAIN q : q[i].addr = a /\ q[i].op # "LD"})
<1>1. PICK q \in Seq(CacheMsg) : q = mandQ[c]
  BY DEF TypeOK, NetTypeOK
<1>2. Once(q, CacheId)
  BY <1>1 DEF OnceEach
<1>3. ASSUME NEW i \in DOMAIN q
      PROVE  /\ q[i].op = "LD" /\ q[i].addr = a <=> CacheId[q[i]] \in Of("R", c, a)
             /\ q[i].op # "LD" /\ q[i].addr = a <=> CacheId[q[i]] \in Of("W", c, a)
  <2>1. PICK r \in CacheMsg : r = q[i] /\ CoreOf[r.warp] = c
    BY <1>1 DEF ClockInv
  <2>2. /\ CacheId[r] = Id(r.op = "LD", r.warp, r.addr) /\ CacheId[r] \in Ids
        /\ HomeOf(CacheId[r]) = c /\ CacheId[r][3] = r.addr
    BY <2>1, MessageIds
  <2>3. CacheId[r][1] = IF r.op = "LD" THEN "R" ELSE "W"
    BY <2>2 DEF Id
  <2> QED BY <2>1, <2>2, <2>3 DEF Of
<1>4. \A k : \A id \in Of(k, c, a) : Held(id, "mand") <=> In(q, CacheId, id)
  BY <1>1, HeldAt DEF Of
<1> DEFINE I == {i \in DOMAIN q : q[i].addr = a /\ q[i].op = "LD"}
           J == {i \in DOMAIN q : q[i].addr = a /\ q[i].op # "LD"}
<1>5. /\ I \in SUBSET DOMAIN q /\ \A i \in DOMAIN q : i \in I <=> CacheId[q[i]] \in Of("R", c, a)
      /\ J \in SUBSET DOMAIN q /\ \A i \in DOMAIN q : i \in J <=> CacheId[q[i]] \in Of("W", c, a)
  BY <1>3
<1> HIDE DEF I, J
<1>6. /\ IsFiniteSet(AtStage("R", c, a, "mand"))
      /\ Cardinality(AtStage("R", c, a, "mand")) = Cardinality(I)
  BY <1>2, <1>4, <1>5, StageCount
<1>7. /\ IsFiniteSet(AtStage("W", c, a, "mand"))
      /\ Cardinality(AtStage("W", c, a, "mand")) = Cardinality(J)
  BY <1>2, <1>4, <1>5, StageCount
<1> QED BY <1>1, <1>6, <1>7 DEF I, J

\* Virtual network 0.
LEMMA ReqCount ==
    ASSUME TypeOK, WriteInv, ClockInv, OnceEach, NEW c \in Cores, NEW a \in Addrs
    PROVE  LET b == BankOf[a]
               q == reqNet[c][b] IN
           /\ IsFiniteSet(AtStage("R", c, a, "req")) /\ IsFiniteSet(AtStage("W", c, a, "req"))
           /\ Cardinality(AtStage("R", c, a, "req"))
                = Cardinality({i \in DOMAIN q : q[i].addr = a /\ CoreOf[q[i].warp] = c /\ q[i].type = "GETS"})
           /\ Cardinality(AtStage("W", c, a, "req"))
                = Cardinality({i \in DOMAIN q : q[i].addr = a /\ CoreOf[q[i].warp] = c /\ q[i].type # "GETS"})
<1> DEFINE b == BankOf[a]
<1>0. b \in Banks
  BY BankOfAssumption
<1>1. PICK q \in Seq(RequestMsg) : q = reqNet[c][b]
  BY <1>0 DEF TypeOK, NetTypeOK
<1>2. Once(q, RequestId)
  BY <1>0, <1>1 DEF OnceEach
<1>3. ASSUME NEW i \in DOMAIN q
      PROVE  /\ q[i].addr = a /\ CoreOf[q[i].warp] = c /\ q[i].type = "GETS" <=> RequestId[q[i]] \in Of("R", c, a)
             /\ q[i].addr = a /\ CoreOf[q[i].warp] = c /\ q[i].type # "GETS" <=> RequestId[q[i]] \in Of("W", c, a)
  <2>1. PICK r \in RequestMsg : r = q[i]
    BY <1>0, <1>1
  <2>2. /\ RequestId[r] = Id(r.type = "GETS", r.warp, r.addr) /\ RequestId[r] \in Ids
        /\ HomeOf(RequestId[r]) = CoreOf[r.warp] /\ RequestId[r][3] = r.addr
    BY <2>1, MessageIds
  <2>3. RequestId[r][1] = IF r.type = "GETS" THEN "R" ELSE "W"
    BY <2>2 DEF Id
  <2>4. PICK id \in Ids : id = RequestId[r]
    BY <2>2
  <2>5. /\ id \in Of("R", c, a) <=> r.type = "GETS" /\ CoreOf[r.warp] = c /\ r.addr = a
        /\ id \in Of("W", c, a) <=> r.type # "GETS" /\ CoreOf[r.warp] = c /\ r.addr = a
    BY <2>2, <2>3, <2>4 DEF Of
  <2> QED BY <2>1, <2>4, <2>5
<1>4. \A k : \A id \in Of(k, c, a) : Held(id, "req") <=> In(q, RequestId, id)
  BY <1>1, HeldAt DEF Of
<1> DEFINE I == {i \in DOMAIN q : q[i].addr = a /\ CoreOf[q[i].warp] = c /\ q[i].type = "GETS"}
           J == {i \in DOMAIN q : q[i].addr = a /\ CoreOf[q[i].warp] = c /\ q[i].type # "GETS"}
<1>5. /\ I \in SUBSET DOMAIN q /\ \A i \in DOMAIN q : i \in I <=> RequestId[q[i]] \in Of("R", c, a)
      /\ J \in SUBSET DOMAIN q /\ \A i \in DOMAIN q : i \in J <=> RequestId[q[i]] \in Of("W", c, a)
  BY <1>3
<1> HIDE DEF I, J
<1>6. /\ IsFiniteSet(AtStage("R", c, a, "req"))
      /\ Cardinality(AtStage("R", c, a, "req")) = Cardinality(I)
  BY <1>2, <1>4, <1>5, StageCount
<1>7. /\ IsFiniteSet(AtStage("W", c, a, "req"))
      /\ Cardinality(AtStage("W", c, a, "req")) = Cardinality(J)
  BY <1>2, <1>4, <1>5, StageCount
<1> QED BY <1>1, <1>6, <1>7 DEF I, J

\* The queue of a bank.
LEMMA L2inCount ==
    ASSUME TypeOK, WriteInv, ClockInv, OnceEach, NEW c \in Cores, NEW a \in Addrs
    PROVE  LET b == BankOf[a]
               q == l2in[b] IN
           /\ IsFiniteSet(AtStage("R", c, a, "l2in")) /\ IsFiniteSet(AtStage("W", c, a, "l2in"))
           /\ Cardinality(AtStage("R", c, a, "l2in"))
                = Cardinality({i \in DOMAIN q : q[i].addr = a /\ CoreOf[q[i].warp] = c /\ q[i].type = "GETS"})
           /\ Cardinality(AtStage("W", c, a, "l2in"))
                = Cardinality({i \in DOMAIN q : q[i].addr = a /\ CoreOf[q[i].warp] = c /\ q[i].type # "GETS"})
<1> DEFINE b == BankOf[a]
<1>0. b \in Banks
  BY BankOfAssumption
<1>1. PICK q \in Seq(RequestMsg) : q = l2in[b]
  BY <1>0 DEF TypeOK, NetTypeOK
<1>2. Once(q, RequestId)
  BY <1>0, <1>1 DEF OnceEach
<1>3. ASSUME NEW i \in DOMAIN q
      PROVE  /\ q[i].addr = a /\ CoreOf[q[i].warp] = c /\ q[i].type = "GETS" <=> RequestId[q[i]] \in Of("R", c, a)
             /\ q[i].addr = a /\ CoreOf[q[i].warp] = c /\ q[i].type # "GETS" <=> RequestId[q[i]] \in Of("W", c, a)
  <2>1. PICK r \in RequestMsg : r = q[i]
    BY <1>0, <1>1
  <2>2. /\ RequestId[r] = Id(r.type = "GETS", r.warp, r.addr) /\ RequestId[r] \in Ids
        /\ HomeOf(RequestId[r]) = CoreOf[r.warp] /\ RequestId[r][3] = r.addr
    BY <2>1, MessageIds
  <2>3. RequestId[r][1] = IF r.type = "GETS" THEN "R" ELSE "W"
    BY <2>2 DEF Id
  <2>4. PICK id \in Ids : id = RequestId[r]
    BY <2>2
  <2>5. /\ id \in Of("R", c, a) <=> r.type = "GETS" /\ CoreOf[r.warp] = c /\ r.addr = a
        /\ id \in Of("W", c, a) <=> r.type # "GETS" /\ CoreOf[r.warp] = c /\ r.addr = a
    BY <2>2, <2>3, <2>4 DEF Of
  <2> QED BY <2>1, <2>4, <2>5
<1>4. \A k : \A id \in Of(k, c, a) : Held(id, "l2in") <=> In(q, RequestId, id)
  BY <1>1, HeldAt DEF Of
<1> DEFINE I == {i \in DOMAIN q : q[i].addr = a /\ CoreOf[q[i].warp] = c /\ q[i].type = "GETS"}
           J == {i \in DOMAIN q : q[i].addr = a /\ CoreOf[q[i].warp] = c /\ q[i].type # "GETS"}
<1>5. /\ I \in SUBSET DOMAIN q /\ \A i \in DOMAIN q : i \in I <=> RequestId[q[i]] \in Of("R", c, a)
      /\ J \in SUBSET DOMAIN q /\ \A i \in DOMAIN q : i \in J <=> RequestId[q[i]] \in Of("W", c, a)
  BY <1>3
<1> HIDE DEF I, J
<1>6. /\ IsFiniteSet(AtStage("R", c, a, "l2in"))
      /\ Cardinality(AtStage("R", c, a, "l2in")) = Cardinality(I)
  BY <1>2, <1>4, <1>5, StageCount
<1>7. /\ IsFiniteSet(AtStage("W", c, a, "l2in"))
      /\ Cardinality(AtStage("W", c, a, "l2in")) = Cardinality(J)
  BY <1>2, <1>4, <1>5, StageCount
<1> QED BY <1>1, <1>6, <1>7 DEF I, J

\* Virtual network 1.
LEMMA RespCount ==
    ASSUME TypeOK, WriteInv, ClockInv, OnceEach, NEW c \in Cores, NEW a \in Addrs
    PROVE  LET b == BankOf[a]
               q == respNet[b][c] IN
           /\ IsFiniteSet(AtStage("R", c, a, "resp")) /\ IsFiniteSet(AtStage("W", c, a, "resp"))
           /\ Cardinality(AtStage("R", c, a, "resp"))
                = Cardinality({i \in DOMAIN q : q[i].addr = a /\ q[i].type = "DATA"})
           /\ Cardinality(AtStage("W", c, a, "resp"))
                = Cardinality({i \in DOMAIN q : q[i].addr = a /\ q[i].type # "DATA"})
<1> DEFINE b == BankOf[a]
<1>0. b \in Banks
  BY BankOfAssumption
<1>1. PICK q \in Seq(ResponseMsg) : q = respNet[b][c]
  BY <1>0 DEF TypeOK, NetTypeOK
<1>2. Once(q, ResponseId)
  BY <1>0, <1>1 DEF OnceEach
<1>3. ASSUME NEW i \in DOMAIN q
      PROVE  /\ q[i].addr = a /\ q[i].type = "DATA" <=> ResponseId[q[i]] \in Of("R", c, a)
             /\ q[i].addr = a /\ q[i].type # "DATA" <=> ResponseId[q[i]] \in Of("W", c, a)
  <2>1. PICK r \in ResponseMsg : r = q[i] /\ CoreOf[r.warp] = c
    BY <1>0, <1>1 DEF ClockInv, ResponseOK
  <2>2. /\ ResponseId[r] = Id(r.type = "DATA", r.warp, r.addr) /\ ResponseId[r] \in Ids
        /\ HomeOf(ResponseId[r]) = CoreOf[r.warp] /\ ResponseId[r][3] = r.addr
    BY <2>1, MessageIds
  <2>3. ResponseId[r][1] = IF r.type = "DATA" THEN "R" ELSE "W"
    BY <2>2 DEF Id
  <2>4. PICK id \in Ids : id = ResponseId[r]
    BY <2>2
  <2>5. /\ id \in Of("R", c, a) <=> r.type = "DATA" /\ CoreOf[r.warp] = c /\ r.addr = a
        /\ id \in Of("W", c, a) <=> r.type # "DATA" /\ CoreOf[r.warp] = c /\ r.addr = a
    BY <2>2, <2>3, <2>4 DEF Of
  <2> QED BY <2>1, <2>4, <2>5
<1>4. \A k : \A id \in Of(k, c, a) : Held(id, "resp") <=> In(q, ResponseId, id)
  BY <1>1, HeldAt DEF Of
<1> DEFINE I == {i \in DOMAIN q : q[i].addr = a /\ q[i].type = "DATA"}
           J == {i \in DOMAIN q : q[i].addr = a /\ q[i].type # "DATA"}
<1>5. /\ I \in SUBSET DOMAIN q /\ \A i \in DOMAIN q : i \in I <=> ResponseId[q[i]] \in Of("R", c, a)
      /\ J \in SUBSET DOMAIN q /\ \A i \in DOMAIN q : i \in J <=> ResponseId[q[i]] \in Of("W", c, a)
  BY <1>3
<1> HIDE DEF I, J
<1>6. /\ IsFiniteSet(AtStage("R", c, a, "resp"))
      /\ Cardinality(AtStage("R", c, a, "resp")) = Cardinality(I)
  BY <1>2, <1>4, <1>5, StageCount
<1>7. /\ IsFiniteSet(AtStage("W", c, a, "resp"))
      /\ Cardinality(AtStage("W", c, a, "resp")) = Cardinality(J)
  BY SMTT(30), <1>2, <1>4, <1>5, StageCount
<1> QED BY <1>1, <1>6, <1>7 DEF I, J

\* The reads that wait in a fetch: one for each core.
LEMMA FetchReads ==
    ASSUME TypeOK, TBEInv, NEW c \in Cores, NEW a \in Addrs
    PROVE  /\ IsFiniteSet(AtStage("R", c, a, "tbe"))
           /\ Cardinality(AtStage("R", c, a, "tbe"))
                = Cardinality({w \in l2tbe[a].gets : CoreOf[w] = c})
<1> DEFINE S == {w \in l2tbe[a].gets : CoreOf[w] = c}
           X == AtStage("R", c, a, "tbe")
           g == [w \in S |-> <<"R", c, a>>]
<1>1. S \subseteq Warps /\ \A w, u \in S : w = u
  BY DEF TypeOK, L2TypeOK, L2TBE, TBEInv
<1>2. IsFiniteSet(S)
  <2>1. CASE S = {}
    BY <2>1, FS_EmptySet
  <2>2. ASSUME NEW w \in S PROVE IsFiniteSet(S)
    <3>1. S = {w}
      BY <1>1
    <3> QED BY <3>1, FS_Singleton
  <2> HIDE DEF S
  <2> QED BY <2>1, <2>2
<1>3. ASSUME NEW id PROVE id \in X <=> id = <<"R", c, a>> /\ S # {}
  <2>1. PICK h \in Ids : h = <<"R", c, a>> /\ HomeOf(h) = c /\ h[3] = a
    BY ReadName
  <2>2. id \in Of("R", c, a) <=> id = h
    BY <2>1, IdShape DEF Of, HomeOf
  <2>3. Held(h, "tbe") <=> h \in InTBE(a)
    BY <2>1, HeldAt
  <2>4. h \in InTBE(a) <=> S # {}
    BY <2>1 DEF InTBE, Id
  <2> HIDE DEF S
  <2> QED BY <2>1, <2>2, <2>3, <2>4 DEF AtStage
<1>4. g \in [S -> X] /\ (\A w, u \in S : g[w] = g[u] => w = u) /\ \A id \in X : \E w \in S : g[w] = id
  <2> HIDE DEF X, S
  <2> QED BY <1>1, <1>3
<1> HIDE DEF g, S, X
<1>5. IsFiniteSet(X) /\ Cardinality(X) = Cardinality(S)
  BY <1>2, <1>4, SameCount
<1> QED BY <1>5 DEF S, X

\* The atomic that waits in a fetch.
LEMMA FetchWrites ==
    ASSUME TypeOK, TBEInv, NEW c \in Cores, NEW a \in Addrs
    PROVE  /\ IsFiniteSet(AtStage("W", c, a, "tbe"))
           /\ Cardinality(AtStage("W", c, a, "tbe"))
                = Cardinality({w \in IF l2st[a] = "IAV" THEN l2tbe[a].wback ELSE {} : CoreOf[w] = c})
<1> DEFINE T == IF l2st[a] = "IAV" THEN l2tbe[a].wback ELSE {}
           S == {w \in T : CoreOf[w] = c}
           X == AtStage("W", c, a, "tbe")
           g == [w \in S |-> <<"W", w, a>>]
<1>1. T \subseteq Warps /\ (T = {} \/ \E w : T = {w})
  BY DEF TypeOK, L2TypeOK, L2TBE, TBEInv
<1>2. IsFiniteSet(S)
  <2> HIDE DEF T
  <2>1. S = {} \/ \E w : S = {w}
    BY <1>1
  <2> HIDE DEF S
  <2> QED BY <2>1, FS_EmptySet, FS_Singleton
<1>3. ASSUME NEW id PROVE id \in X <=> \E w \in S : id = <<"W", w, a>>
  <2>1. ASSUME NEW w \in Warps, CoreOf[w] = c, id = <<"W", w, a>> PROVE id \in X <=> w \in S
    <3>1. id \in Ids /\ HomeOf(id) = c /\ id[3] = a /\ id[1] = "W"
      BY <2>1 DEF Ids, HomeOf
    <3>2. id \in X <=> id \in InTBE(a)
      BY <3>1, HeldAt DEF AtStage, Of
    <3>3. id \in InTBE(a) <=> w \in T
      BY <2>1 DEF InTBE, Id
    <3> HIDE DEF X, T
    <3> QED BY <2>1, <3>2, <3>3
  <2>2. ASSUME id \in X PROVE \E w \in Warps : CoreOf[w] = c /\ id = <<"W", w, a>>
    <3>1. id \in Ids /\ id[1] = "W" /\ HomeOf(id) = c /\ id[3] = a
      BY <2>2 DEF AtStage, Of
    <3>2. id[2] \in Warps /\ id = <<"W", id[2], a>> /\ CoreOf[id[2]] = c
      BY <3>1, IdShape DEF HomeOf
    <3> QED BY <3>2
  <2>3. \A w \in S : w \in Warps /\ CoreOf[w] = c
    BY <1>1
  <2> HIDE DEF X, S
  <2> QED BY <2>1, <2>2, <2>3
<1>4. g \in [S -> X] /\ (\A w, u \in S : g[w] = g[u] => w = u) /\ \A id \in X : \E w \in S : g[w] = id
  <2> HIDE DEF X, S
  <2> QED BY <1>3
<1> HIDE DEF g, S, X
<1>5. IsFiniteSet(X) /\ Cardinality(X) = Cardinality(S)
  BY <1>2, <1>4, SameCount
<1> QED BY <1>5 DEF S, X

\* The lines ready at an L1.
LEMMA ReadyCount ==
    ASSUME TypeOK, WriteInv, ClockInv, OnceEach, NEW c \in Cores, NEW a \in Addrs
    PROVE  LET q == ready[c] IN
           /\ IsFiniteSet(AtStage("R", c, a, "back"))
           /\ Cardinality(AtStage("R", c, a, "back")) = Cardinality({i \in DOMAIN q : q[i] = a})
<1>1. PICK q \in Seq(Addrs) : q = ready[c]
  BY DEF TypeOK, MSHRTypeOK
<1>2. Once(q, ReadyId(c))
  BY <1>1 DEF OnceEach
<1>3. ASSUME NEW i \in DOMAIN q PROVE q[i] = a <=> ReadyId(c)[q[i]] \in Of("R", c, a)
  <2>1. PICK x \in Addrs : x = q[i]
    BY <1>1
  <2>2. PICK h \in Ids : h = <<"R", c, x>> /\ HomeOf(h) = c /\ h[3] = x
    BY ReadName
  <2>3. ReadyId(c)[x] = h /\ h[1] = "R"
    BY <2>2 DEF ReadyId
  <2> QED BY <2>1, <2>2, <2>3 DEF Of
<1>4. \A id \in Of("R", c, a) : Held(id, "back") <=> In(q, ReadyId(c), id)
  <2>1. TAKE id \in Of("R", c, a)
  <2>2. id[1] = "R" /\ HomeOf(id) = c
    BY DEF Of
  <2>3. ~In(skipL1[c], SkipId, id)
    BY <2>2, Homes
  <2> QED BY <1>1, <2>2, <2>3, HeldAt
<1> DEFINE I == {i \in DOMAIN q : q[i] = a}
<1>5. I \in SUBSET DOMAIN q /\ \A i \in DOMAIN q : i \in I <=> ReadyId(c)[q[i]] \in Of("R", c, a)
  BY <1>3
<1> HIDE DEF I
<1>6. /\ IsFiniteSet(AtStage("R", c, a, "back"))
      /\ Cardinality(AtStage("R", c, a, "back")) = Cardinality(I)
  BY <1>2, <1>4, <1>5, StageCount
<1> QED BY <1>1, <1>6 DEF I

\* The acknowledged writes.
LEMMA SkipCount ==
    ASSUME TypeOK, WriteInv, ClockInv, OnceEach, NEW c \in Cores, NEW a \in Addrs
    PROVE  LET q == skipL1[c] IN
           /\ IsFiniteSet(AtStage("W", c, a, "back"))
           /\ Cardinality(AtStage("W", c, a, "back")) = Cardinality({i \in DOMAIN q : q[i].addr = a})
<1>1. PICK q \in Seq(SkipL1Request) : q = skipL1[c]
  BY DEF TypeOK, MSHRTypeOK
<1>2. Once(q, SkipId)
  BY <1>1 DEF OnceEach
<1>3. ASSUME NEW i \in DOMAIN q PROVE q[i].addr = a <=> SkipId[q[i]] \in Of("W", c, a)
  <2>1. PICK r \in SkipL1Request : r = q[i]
    BY <1>1
  <2>2. PICK h \in Ids : h = SkipId[r] /\ HomeOf(h) = c /\ h[1] = "W"
    <3>1. In(skipL1[c], SkipId, SkipId[r])
      BY <1>1, <2>1 DEF In
    <3> QED BY <3>1, Homes
  <2>3. h[3] = r.addr
    BY <2>2 DEF SkipId
  <2> QED BY <2>1, <2>2, <2>3 DEF Of
<1>4. \A id \in Of("W", c, a) : Held(id, "back") <=> In(q, SkipId, id)
  <2>1. TAKE id \in Of("W", c, a)
  <2>2. id[1] = "W" /\ HomeOf(id) = c
    BY DEF Of
  <2>3. ~In(ready[c], ReadyId(c), id)
    BY <2>2, Homes
  <2> QED BY <1>1, <2>2, <2>3, HeldAt
<1> DEFINE I == {i \in DOMAIN q : q[i].addr = a}
<1>5. I \in SUBSET DOMAIN q /\ \A i \in DOMAIN q : i \in I <=> SkipId[q[i]] \in Of("W", c, a)
  BY <1>3
<1> HIDE DEF I
<1>6. /\ IsFiniteSet(AtStage("W", c, a, "back"))
      /\ Cardinality(AtStage("W", c, a, "back")) = Cardinality(I)
  BY SMTT(30), <1>2, <1>4, <1>5, StageCount
<1> QED BY <1>1, <1>6 DEF I

-----------------------------------------------------------------------------
(* The stages divide the requests of a line.                                *)

\* The requests beyond the L1, and all of them.
BeyondOf(k, c, a) == {id \in Of(k, c, a) : Beyond(id)}
AllOf(k, c, a) == {id \in Of(k, c, a) : \E s \in Stages : Held(id, s)}

\* Two finite sets with nothing in common.
LEMMA AddUp ==
    ASSUME NEW S, NEW T, IsFiniteSet(S), IsFiniteSet(T), \A x \in S : x \notin T
    PROVE  /\ IsFiniteSet(S \cup T)
           /\ Cardinality(S \cup T) = Cardinality(S) + Cardinality(T)
<1>1. S \cap T = {}
  OBVIOUS
<1>2. Cardinality(S \cap T) = 0
  BY <1>1, FS_EmptySet
<1>3. Cardinality(S) \in Nat /\ Cardinality(T) \in Nat
  BY FS_CardinalityType
<1>4. /\ IsFiniteSet(S \cup T)
      /\ Cardinality(S \cup T) = Cardinality(S) + Cardinality(T) - Cardinality(S \cap T)
  BY FS_Union, Zenon
<1> QED BY <1>2, <1>3, <1>4

\* The requests at the stages beyond the L1, and at all stages, add up.
LEMMA StagesAddUp ==
    ASSUME Single, NEW k, NEW c, NEW a, \A s \in Stages : IsFiniteSet(AtStage(k, c, a, s))
    PROVE  LET n(s) == Cardinality(AtStage(k, c, a, s)) IN
           /\ IsFiniteSet(BeyondOf(k, c, a)) /\ IsFiniteSet(AllOf(k, c, a))
           /\ Cardinality(BeyondOf(k, c, a)) = n("req") + n("l2in") + n("resp") + n("tbe")
           /\ Cardinality(AllOf(k, c, a)) = n("mand") + Cardinality(BeyondOf(k, c, a)) + n("back")
<1> DEFINE A(s) == AtStage(k, c, a, s)
           n(s) == Cardinality(A(s))
<1>1. \A s, t \in Stages : s # t => \A id \in A(s) : id \notin A(t)
  BY DEF Single, AtStage, Of
<1>2. "mand" \in Stages /\ "back" \in Stages /\ "req" \in Stages /\ "l2in" \in Stages
      /\ "resp" \in Stages /\ "tbe" \in Stages
  BY DEF Stages, BeyondL1
<1>3. \A s \in Stages : IsFiniteSet(A(s)) /\ n(s) \in Nat
  BY FS_CardinalityType
<1>4. BeyondOf(k, c, a) = ((A("req") \cup A("l2in")) \cup A("resp")) \cup A("tbe")
  BY DEF BeyondOf, Beyond, BeyondL1, AtStage
<1>5. AllOf(k, c, a) = (A("mand") \cup BeyondOf(k, c, a)) \cup A("back")
  BY DEF AllOf, BeyondOf, Beyond, BeyondL1, Stages, AtStage
<1> HIDE DEF A
<1>6. /\ IsFiniteSet(A("req") \cup A("l2in"))
      /\ Cardinality(A("req") \cup A("l2in")) = n("req") + n("l2in")
  BY <1>1, <1>2, <1>3, AddUp
<1>7. /\ IsFiniteSet((A("req") \cup A("l2in")) \cup A("resp"))
      /\ Cardinality((A("req") \cup A("l2in")) \cup A("resp")) = n("req") + n("l2in") + n("resp")
  <2>1. \A x \in A("req") \cup A("l2in") : x \notin A("resp")
    BY <1>1, <1>2
  <2> QED BY <1>2, <1>3, <1>6, <2>1, AddUp
<1>8. /\ IsFiniteSet(BeyondOf(k, c, a))
      /\ Cardinality(BeyondOf(k, c, a)) = n("req") + n("l2in") + n("resp") + n("tbe")
  <2>1. \A x \in (A("req") \cup A("l2in")) \cup A("resp") : x \notin A("tbe")
    BY <1>1, <1>2
  <2> QED BY <1>2, <1>3, <1>4, <1>7, <2>1, AddUp
<1>9. /\ IsFiniteSet(A("mand") \cup BeyondOf(k, c, a))
      /\ Cardinality(A("mand") \cup BeyondOf(k, c, a)) = n("mand") + Cardinality(BeyondOf(k, c, a))
  <2>1. \A x \in A("mand") : x \notin BeyondOf(k, c, a)
    BY <1>1, <1>2, <1>4
  <2> QED BY <1>2, <1>3, <1>8, <2>1, AddUp
<1>10. /\ IsFiniteSet(AllOf(k, c, a))
       /\ Cardinality(AllOf(k, c, a)) = n("mand") + Cardinality(BeyondOf(k, c, a)) + n("back")
  <2>1. \A x \in A("mand") \cup BeyondOf(k, c, a) : x \notin A("back")
    BY <1>1, <1>2, <1>4
  <2> QED BY <1>2, <1>3, <1>5, <1>9, <2>1, AddUp
<1> QED BY <1>8, <1>10 DEF A

-----------------------------------------------------------------------------
(* The names of the requests, and what the counters and the MSHR count.     *)

\* The reads of a line by a core are one request.
LEMMA OneRead ==
    ASSUME NEW c \in Cores, NEW a \in Addrs
    PROVE  Of("R", c, a) = {<<"R", c, a>>}
<1>1. PICK h \in Ids : h = <<"R", c, a>> /\ HomeOf(h) = c /\ h[3] = a
  BY ReadName
<1>2. ASSUME NEW id \in Of("R", c, a) PROVE id = h
  BY <1>1, IdShape DEF Of, HomeOf
<1>3. h \in Of("R", c, a)
  BY <1>1 DEF Of
<1> QED BY <1>1, <1>2, <1>3

\* A write is a request of its own.
LEMMA WriteNames ==
    ASSUME NEW c \in Cores, NEW a \in Addrs, NEW id
    PROVE  id \in Of("W", c, a) <=> \E w \in Warps : CoreOf[w] = c /\ id = <<"W", w, a>>
<1>1. ASSUME NEW w \in Warps, CoreOf[w] = c, id = <<"W", w, a>> PROVE id \in Of("W", c, a)
  BY <1>1, WriteName DEF Of
<1>2. ASSUME id \in Of("W", c, a) PROVE \E w \in Warps : CoreOf[w] = c /\ id = <<"W", w, a>>
  <2>1. id \in Ids /\ id[1] = "W" /\ HomeOf(id) = c /\ id[3] = a
    BY <1>2 DEF Of
  <2>2. id[2] \in Warps /\ id = <<"W", id[2], a>> /\ CoreOf[id[2]] = c
    BY <2>1, IdShape DEF HomeOf
  <2> QED BY <2>2
<1> QED BY <1>1, <1>2

\* The reads beyond the L1, and all reads, of a line by a core.
LEMMA ReadsCounted ==
    ASSUME FlightInv, NEW c \in Cores, NEW a \in Addrs
    PROVE  /\ Cardinality(BeyondOf("R", c, a)) = tbe[c][a].reads
           /\ Cardinality(AllOf("R", c, a)) = IF mshr[c][a].list = <<>> THEN 0 ELSE 1
<1>1. PICK h \in Ids : h = <<"R", c, a>> /\ h[1] = "R" /\ h[2] = c /\ h[3] = a
  BY ReadName
<1>2. Of("R", c, a) = {h}
  BY <1>1, OneRead
<1>3. Cardinality({}) = 0 /\ Cardinality({h}) = 1
  BY FS_EmptySet, FS_Singleton
<1>4. BeyondOf("R", c, a) = IF Beyond(h) THEN {h} ELSE {}
  BY <1>2 DEF BeyondOf
<1>5. tbe[c][a].reads = IF Beyond(h) THEN 1 ELSE 0
  BY <1>1 DEF FlightInv, Counted, CountedAt
<1>6. AllOf("R", c, a) = IF Wanted(h) THEN {h} ELSE {}
  BY <1>2 DEF AllOf, FlightInv, Awaited
<1>7. Wanted(h) <=> mshr[c][a].list # <<>>
  BY <1>1 DEF Wanted
<1> QED BY <1>3, <1>4, <1>5, <1>6, <1>7

\* The writes beyond the L1, and all writes, of a line by a core.
LEMMA WritesCounted ==
    ASSUME TypeOK, WriteInv, ClockInv, FlightInv, NEW c \in Cores, NEW a \in Addrs,
           IsFiniteSet(AllOf("W", c, a))
    PROVE  /\ Cardinality(BeyondOf("W", c, a)) = tbe[c][a].writes
           /\ Cardinality(AllOf("W", c, a)) = Cardinality(mshr[c][a].writes)
<1> DEFINE S == WritesBeyond(c, a)
           X == BeyondOf("W", c, a)
           g == [w \in S |-> <<"W", w, a>>]
           M == mshr[c][a].writes
           Y == AllOf("W", c, a)
           f == [id \in Y |-> id[2]]
<1>1. IsFiniteSet(S) /\ Cardinality(S) = tbe[c][a].writes
  BY DEF FlightInv, Counted, CountedAt
<1>2. ASSUME NEW id PROVE id \in X <=> \E w \in S : id = <<"W", w, a>>
  <2>1. ASSUME id \in X PROVE \E w \in S : id = <<"W", w, a>>
    <3>1. id \in Of("W", c, a) /\ Beyond(id)
      BY <2>1 DEF BeyondOf
    <3>2. PICK w \in Warps : CoreOf[w] = c /\ id = <<"W", w, a>>
      BY <3>1, WriteNames
    <3> QED BY <3>1, <3>2 DEF WritesBeyond
  <2>2. ASSUME NEW w \in S, id = <<"W", w, a>> PROVE id \in X
    <3>1. w \in Warps /\ CoreOf[w] = c /\ Beyond(id)
      BY <2>2 DEF WritesBeyond
    <3>2. id \in Of("W", c, a)
      BY <2>2, <3>1, WriteNames
    <3> QED BY <3>1, <3>2 DEF BeyondOf
  <2> QED BY <2>1, <2>2
<1>3. g \in [S -> X] /\ (\A w, u \in S : g[w] = g[u] => w = u) /\ \A id \in X : \E w \in S : g[w] = id
  <2> HIDE DEF X, S
  <2> QED BY <1>2
<1>4. Cardinality(X) = Cardinality(S)
  <2> HIDE DEF g, S, X
  <2> QED BY <1>1, <1>3, SameCount
<1>5. M \subseteq Warps /\ \A w \in M : CoreOf[w] = c
  BY DEF TypeOK, MSHRTypeOK, MSHREntry, ClockInv, EntryOK
<1>6. ASSUME NEW w \in Warps, CoreOf[w] = c PROVE <<"W", w, a>> \in Y <=> w \in M
  <2>1. PICK h \in Ids : h = <<"W", w, a>> /\ h[1] = "W" /\ h[2] = w /\ h[3] = a
    BY WriteName
  <2>2. h \in Of("W", c, a)
    BY <1>6, <2>1, WriteNames
  <2>3. Wanted(h) <=> w \in M
    BY <1>6, <2>1 DEF Wanted, Writes
  <2>4. h \in Y <=> Wanted(h)
    BY <2>2 DEF AllOf, FlightInv, Awaited
  <2> HIDE DEF M, Y
  <2> QED BY <2>1, <2>3, <2>4
<1>7. ASSUME NEW id \in Y PROVE id[2] \in M /\ id = <<"W", id[2], a>>
  <2>1. id \in Of("W", c, a)
    BY DEF AllOf
  <2>2. PICK w \in Warps : CoreOf[w] = c /\ id = <<"W", w, a>>
    BY <2>1, WriteNames
  <2> HIDE DEF M, Y
  <2> QED BY <1>6, <1>7, <2>2
<1>8. f \in [Y -> M] /\ (\A x, y \in Y : f[x] = f[y] => x = y) /\ \A w \in M : \E x \in Y : f[x] = w
  <2>1. ASSUME NEW w \in M PROVE \E x \in Y : f[x] = w
    <3>1. PICK h \in Ids : h = <<"W", w, a>> /\ h[2] = w
      BY <1>5, <2>1, WriteName
    <3> HIDE DEF M, Y
    <3>2. h \in Y
      BY <1>5, <1>6, <2>1, <3>1
    <3> QED BY <3>1, <3>2
  <2> HIDE DEF M, Y
  <2>2. f \in [Y -> M]
    BY <1>7
  <2>3. \A x, y \in Y : f[x] = f[y] => x = y
    <3>1. TAKE x, y \in Y
    <3>2. x = <<"W", x[2], a>> /\ y = <<"W", y[2], a>>
      BY <1>7
    <3> QED BY <3>2
  <2> HIDE DEF f
  <2> QED BY <2>1, <2>2, <2>3
<1>9. Cardinality(M) = Cardinality(Y)
  <2> HIDE DEF f, M, Y
  <2>1. IsFiniteSet(Y)
    BY DEF Y
  <2> QED BY <1>8, <2>1, SameCount
<1> QED BY <1>1, <1>4, <1>9

-----------------------------------------------------------------------------
(* The counters.                                                            *)

\* The requests at a stage are finitely many.
LEMMA StagesFinite ==
    ASSUME TypeOK, WriteInv, ClockInv, FlightInv, NEW c \in Cores, NEW a \in Addrs
    PROVE  \A s \in Stages : IsFiniteSet(AtStage("R", c, a, s)) /\ IsFiniteSet(AtStage("W", c, a, s))
<1>1. OnceEach /\ TBEInv
  BY DEF FlightInv
<1>2. /\ IsFiniteSet(AtStage("R", c, a, "mand")) /\ IsFiniteSet(AtStage("W", c, a, "mand"))
      /\ IsFiniteSet(AtStage("R", c, a, "req")) /\ IsFiniteSet(AtStage("W", c, a, "req"))
      /\ IsFiniteSet(AtStage("R", c, a, "l2in")) /\ IsFiniteSet(AtStage("W", c, a, "l2in"))
  BY <1>1, MandCount, ReqCount, L2inCount
<1>3. /\ IsFiniteSet(AtStage("R", c, a, "resp")) /\ IsFiniteSet(AtStage("W", c, a, "resp"))
      /\ IsFiniteSet(AtStage("R", c, a, "tbe")) /\ IsFiniteSet(AtStage("W", c, a, "tbe"))
      /\ IsFiniteSet(AtStage("R", c, a, "back")) /\ IsFiniteSet(AtStage("W", c, a, "back"))
  BY <1>1, RespCount, FetchReads, FetchWrites, ReadyCount, SkipCount
<1> QED BY <1>2, <1>3 DEF Stages, BeyondL1

\* What InFlight counts are the requests beyond the L1.
LEMMA BeyondCounted ==
    ASSUME TypeOK, WriteInv, ClockInv, FlightInv, NEW c \in Cores, NEW a \in Addrs
    PROVE  /\ InFlight(c, a, TRUE) = Cardinality(BeyondOf("R", c, a))
           /\ InFlight(c, a, FALSE) = Cardinality(BeyondOf("W", c, a))
<1>1. OnceEach /\ TBEInv /\ Single
  BY DEF FlightInv
<1> DEFINE b == BankOf[a]
<1>2. InFlight(c, a, TRUE) = Cardinality(AtStage("R", c, a, "req"))
              + Cardinality(AtStage("R", c, a, "l2in")) + Cardinality(AtStage("R", c, a, "resp"))
              + Cardinality(AtStage("R", c, a, "tbe"))
  <2>1. PICK A : A = {i \in DOMAIN reqNet[c][b] : reqNet[c][b][i].addr = a /\ CoreOf[reqNet[c][b][i].warp] = c /\ reqNet[c][b][i].type = "GETS"}
    OBVIOUS
  <2>2. PICK B : B = {i \in DOMAIN l2in[b] : l2in[b][i].addr = a /\ CoreOf[l2in[b][i].warp] = c /\ l2in[b][i].type = "GETS"}
    OBVIOUS
  <2>3. PICK C : C = {i \in DOMAIN respNet[b][c] : respNet[b][c][i].addr = a /\ respNet[b][c][i].type = "DATA"}
    OBVIOUS
  <2>4. PICK D : D = {w \in l2tbe[a].gets : CoreOf[w] = c}
    OBVIOUS
  <2>5. InFlight(c, a, TRUE) = Cardinality(A) + Cardinality(B) + Cardinality(C) + Cardinality(D)
    BY <2>1, <2>2, <2>3, <2>4, InFlightReads
  <2>6. Cardinality(AtStage("R", c, a, "req")) = Cardinality(A)
    BY <1>1, <2>1, ReqCount
  <2>7. Cardinality(AtStage("R", c, a, "l2in")) = Cardinality(B)
    BY <1>1, <2>2, L2inCount
  <2>8. Cardinality(AtStage("R", c, a, "resp")) = Cardinality(C)
    BY <1>1, <2>3, RespCount
  <2>9. Cardinality(AtStage("R", c, a, "tbe")) = Cardinality(D)
    BY <1>1, <2>4, FetchReads
  <2> QED BY <2>5, <2>6, <2>7, <2>8, <2>9
<1>3. InFlight(c, a, FALSE) = Cardinality(AtStage("W", c, a, "req"))
              + Cardinality(AtStage("W", c, a, "l2in")) + Cardinality(AtStage("W", c, a, "resp"))
              + Cardinality(AtStage("W", c, a, "tbe"))
  <2>1. PICK A : A = {i \in DOMAIN reqNet[c][b] : reqNet[c][b][i].addr = a /\ CoreOf[reqNet[c][b][i].warp] = c /\ reqNet[c][b][i].type # "GETS"}
    OBVIOUS
  <2>2. PICK B : B = {i \in DOMAIN l2in[b] : l2in[b][i].addr = a /\ CoreOf[l2in[b][i].warp] = c /\ l2in[b][i].type # "GETS"}
    OBVIOUS
  <2>3. PICK C : C = {i \in DOMAIN respNet[b][c] : respNet[b][c][i].addr = a /\ respNet[b][c][i].type # "DATA"}
    OBVIOUS
  <2>4. PICK D : D = {w \in IF l2st[a] = "IAV" THEN l2tbe[a].wback ELSE {} : CoreOf[w] = c}
    OBVIOUS
  <2>5. InFlight(c, a, FALSE) = Cardinality(A) + Cardinality(B) + Cardinality(C) + Cardinality(D)
    BY <2>1, <2>2, <2>3, <2>4, InFlightWrites
  <2>6. Cardinality(AtStage("W", c, a, "req")) = Cardinality(A)
    BY <1>1, <2>1, ReqCount
  <2>7. Cardinality(AtStage("W", c, a, "l2in")) = Cardinality(B)
    BY <1>1, <2>2, L2inCount
  <2>8. Cardinality(AtStage("W", c, a, "resp")) = Cardinality(C)
    BY <1>1, <2>3, RespCount
  <2>9. Cardinality(AtStage("W", c, a, "tbe")) = Cardinality(D)
    BY <1>1, <2>4, FetchWrites
  <2> QED BY <2>5, <2>6, <2>7, <2>8, <2>9
<1> QED BY <1>1, <1>2, <1>3, StagesFinite, StagesAddUp

\* What the queues of an L1 hold are the requests at its two ends.
LEMMA EndsCounted ==
    ASSUME TypeOK, WriteInv, ClockInv, FlightInv, NEW c \in Cores, NEW a \in Addrs
    PROVE  LET ld(r) == r.addr = a /\ r.op = "LD"
               wr(r) == r.addr = a /\ r.op # "LD"
               rdy(x) == x = a
               ack(k) == k.addr = a
           IN /\ InQueue(mandQ[c], ld) = Cardinality(AtStage("R", c, a, "mand"))
              /\ InQueue(mandQ[c], wr) = Cardinality(AtStage("W", c, a, "mand"))
              /\ InQueue(ready[c], rdy) = Cardinality(AtStage("R", c, a, "back"))
              /\ InQueue(skipL1[c], ack) = Cardinality(AtStage("W", c, a, "back"))
<1>1. OnceEach
  BY DEF FlightInv
<1>2. /\ Cardinality(AtStage("R", c, a, "mand"))
           = Cardinality({i \in DOMAIN mandQ[c] : mandQ[c][i].addr = a /\ mandQ[c][i].op = "LD"})
      /\ Cardinality(AtStage("W", c, a, "mand"))
           = Cardinality({i \in DOMAIN mandQ[c] : mandQ[c][i].addr = a /\ mandQ[c][i].op # "LD"})
  BY <1>1, MandCount
<1>3. Cardinality(AtStage("R", c, a, "back")) = Cardinality({i \in DOMAIN ready[c] : ready[c][i] = a})
  BY <1>1, ReadyCount
<1>4. Cardinality(AtStage("W", c, a, "back")) = Cardinality({i \in DOMAIN skipL1[c] : skipL1[c][i].addr = a})
  BY <1>1, SkipCount
<1> QED BY <1>2, <1>3, <1>4 DEF InQueue

\* The invariants of the proofs imply the counts.
LEMMA FlightCounts == TypeOK /\ WriteInv /\ ClockInv /\ FlightInv => PendingCounted
<1> SUFFICES ASSUME TypeOK, WriteInv, ClockInv, FlightInv, NEW c \in Cores, NEW a \in Addrs
    PROVE LET ld(r) == r.addr = a /\ r.op = "LD"
              wr(r) == r.addr = a /\ r.op # "LD"
              rdy(x) == x = a
              ack(k) == k.addr = a
          IN /\ tbe[c][a].reads = InFlight(c, a, TRUE)
             /\ tbe[c][a].writes = InFlight(c, a, FALSE)
             /\ TBEPresent(c, a) <=> tbe[c][a].reads + tbe[c][a].writes > 0
             /\ InQueue(mandQ[c], ld) + tbe[c][a].reads + InQueue(ready[c], rdy)
                  = IF mshr[c][a].list = <<>> THEN 0 ELSE 1
             /\ InQueue(mandQ[c], wr) + tbe[c][a].writes + InQueue(skipL1[c], ack)
                  = Cardinality(mshr[c][a].writes)
  BY DEF PendingCounted
<1> DEFINE n(k, s) == Cardinality(AtStage(k, c, a, s))
<1>1. TBEPresent(c, a) <=> tbe[c][a].reads + tbe[c][a].writes > 0
  BY DEF FlightInv, Counted, CountedAt
<1>2. /\ IsFiniteSet(AllOf("W", c, a))
      /\ Cardinality(AllOf("R", c, a)) = n("R", "mand") + Cardinality(BeyondOf("R", c, a)) + n("R", "back")
      /\ Cardinality(AllOf("W", c, a)) = n("W", "mand") + Cardinality(BeyondOf("W", c, a)) + n("W", "back")
  BY StagesFinite, StagesAddUp DEF FlightInv
<1>3. /\ Cardinality(BeyondOf("R", c, a)) = tbe[c][a].reads
      /\ Cardinality(BeyondOf("W", c, a)) = tbe[c][a].writes
      /\ Cardinality(AllOf("R", c, a)) = IF mshr[c][a].list = <<>> THEN 0 ELSE 1
      /\ Cardinality(AllOf("W", c, a)) = Cardinality(mshr[c][a].writes)
  BY <1>2, ReadsCounted, WritesCounted
<1>4. /\ tbe[c][a].reads = InFlight(c, a, TRUE)
      /\ tbe[c][a].writes = InFlight(c, a, FALSE)
  BY <1>3, BeyondCounted
<1> DEFINE ld(r) == r.addr = a /\ r.op = "LD"
           wr(r) == r.addr = a /\ r.op # "LD"
           rdy(x) == x = a
           ack(k) == k.addr = a
<1>5. /\ InQueue(mandQ[c], ld) = n("R", "mand") /\ InQueue(ready[c], rdy) = n("R", "back")
      /\ InQueue(mandQ[c], wr) = n("W", "mand") /\ InQueue(skipL1[c], ack) = n("W", "back")
  BY EndsCounted
<1>6. /\ InQueue(mandQ[c], ld) + tbe[c][a].reads + InQueue(ready[c], rdy)
           = IF mshr[c][a].list = <<>> THEN 0 ELSE 1
      /\ InQueue(mandQ[c], wr) + tbe[c][a].writes + InQueue(skipL1[c], ack)
           = Cardinality(mshr[c][a].writes)
  <2> HIDE DEF n
  <2> QED BY <1>2, <1>3, <1>5
<1> QED BY <1>1, <1>4, <1>6

-----------------------------------------------------------------------------
(* Requests are neither lost nor repeated: tbe_incrementPendingReads and    *)
(* -Writes, the merges of the MSHR table and of the L2's TBE, and the       *)
(* replies that undo them, agree on every request in every reachable state. *)

\* Every read a core waits for is in exactly one place and every write in a
\* place of its own, and the counters of the L1's TBE count the requests
\* beyond the L1, whatever the numbers of cores, lines, MSHRs and ways.
THEOREM PendingCounts == Spec => []PendingCounted
BY FlightCounts, FlightInvariant, TypeCorrect, WritesInvariant, ClocksInvariant, PTL

-----------------------------------------------------------------------------
(* Logical time.  A request is given its time when the bank answers it, and  *)
(* from then on it counts as work: the loads and writes that are answered or *)
(* complete.  No timestamp anywhere is ahead of that work.                   *)

\* The timestamps a write, a lease or a clock can come from are at most t; no
\* fetch gives a lease longer than Lease.
ClockAtMost(t) == \A c \in Cores : pts[c] <= t

RequestsAtMost(t) ==
    /\ \A c \in Cores, b \in Banks : \A i \in DOMAIN reqNet[c][b] : reqNet[c][b][i].pts <= t
    /\ \A b \in Banks : \A i \in DOMAIN l2in[b] : l2in[b][i].pts <= t

ResponsesAtMost(t) ==
    \A b \in Banks, c \in Cores : \A i \in DOMAIN respNet[b][c] : respNet[b][c][i].wts <= t

LineAtMost(a, t) ==
    /\ l2[a].rts <= t /\ l2[a].wts <= t
    /\ l2tbe[a].max_read_pts <= t /\ l2tbe[a].max_write_pts <= t
    /\ l2tbe[a].delta <= Lease

BanksAtMost(t) ==
    /\ \A a \in Addrs : LineAtMost(a, t)
    /\ \A b \in Banks : mts[b] <= t

AtMost(t) == ClockAtMost(t) /\ RequestsAtMost(t) /\ ResponsesAtMost(t) /\ BanksAtMost(t)

\* A request has been given its time.
Answered(id) == Held(id, "resp") \/ Held(id, "back")

LoadEvents == {e \in Events : At(e).op = "LD"}
WriteEvents == {e \in Events : At(e).op # "LD"}

LoadsWaiting ==
    {p \in Cores \X Addrs \X (1..MaxMerged) : p[3] \in DOMAIN mshr[p[1]][p[2]].list}
WritesWaiting == {p \in Cores \X Addrs \X Warps : p[3] \in mshr[p[1]][p[2]].writes}

LoadsAnswered == {p \in LoadsWaiting : Answered(<<"R", p[1], p[2]>>)}
WritesAnswered == {p \in WritesWaiting : CoreOf[p[3]] = p[1] /\ Answered(<<"W", p[3], p[2]>>)}

LoadWork == Cardinality(LoadEvents) + Cardinality(LoadsAnswered)
WriteWork == Cardinality(WriteEvents) + Cardinality(WritesAnswered)

FiniteWork ==
    /\ IsFiniteSet(LoadEvents) /\ IsFiniteSet(LoadsWaiting)
    /\ IsFiniteSet(WriteEvents) /\ IsFiniteSet(WritesWaiting)

\* No timestamp is ahead of the work that has been given its time.
GrowthInv == FiniteWork /\ AtMost(Lease * LoadWork + WriteWork)

-----------------------------------------------------------------------------
(* How far timestamps go.                                                   *)

\* A later bound is a bound.
LEMMA LaterBound ==
    ASSUME TypeOK, NEW t \in Nat, NEW u \in Nat, t <= u, AtMost(t)
    PROVE  AtMost(u)
<1>1. ClockAtMost(u)
  BY DEF AtMost, ClockAtMost, TypeOK, L1TypeOK
<1>2. RequestsAtMost(u)
  <2>1. ASSUME NEW c \in Cores, NEW b \in Banks, NEW i \in DOMAIN reqNet[c][b]
        PROVE  reqNet[c][b][i].pts <= u
    <3>1. reqNet[c][b][i] \in RequestMsg
      BY DEF TypeOK, NetTypeOK
    <3> QED BY <3>1 DEF AtMost, RequestsAtMost, RequestMsg
  <2>2. ASSUME NEW b \in Banks, NEW i \in DOMAIN l2in[b] PROVE l2in[b][i].pts <= u
    <3>1. l2in[b][i] \in RequestMsg
      BY DEF TypeOK, NetTypeOK
    <3> QED BY <3>1 DEF AtMost, RequestsAtMost, RequestMsg
  <2> QED BY <2>1, <2>2 DEF RequestsAtMost
<1>3. ResponsesAtMost(u)
  <2>1. ASSUME NEW b \in Banks, NEW c \in Cores, NEW i \in DOMAIN respNet[b][c]
        PROVE  respNet[b][c][i].wts <= u
    <3>1. respNet[b][c][i] \in ResponseMsg
      BY DEF TypeOK, NetTypeOK
    <3> QED BY <3>1 DEF AtMost, ResponsesAtMost, ResponseMsg
  <2> QED BY <2>1 DEF ResponsesAtMost
<1>4. BanksAtMost(u)
  <2>1. ASSUME NEW a \in Addrs PROVE LineAtMost(a, u)
    <3>1. l2[a] \in L2Entry /\ l2tbe[a] \in L2TBE
      BY DEF TypeOK, L2TypeOK
    <3>2. LineAtMost(a, t)
      BY DEF AtMost, BanksAtMost
    <3> QED BY <3>1, <3>2 DEF LineAtMost, L2Entry, L2TBE
  <2>2. \A b \in Banks : mts[b] <= u
    BY DEF AtMost, BanksAtMost, TypeOK, L2TypeOK
  <2> QED BY <2>1, <2>2 DEF BanksAtMost
<1> QED BY <1>1, <1>2, <1>3, <1>4 DEF AtMost

\* A bank takes a request from its queue.
LEMMA PopAtMost ==
    ASSUME TypeOK, NEW t \in Nat, RequestsAtMost(t), NEW b \in Banks, l2in[b] # <<>>, PopRequest(b)
    PROVE  RequestsAtMost(t)'
<1>1. l2in' = [l2in EXCEPT ![b] = Tail(@)] /\ reqNet' = reqNet /\ l2in[b] \in Seq(RequestMsg)
  BY DEF PopRequest, TypeOK, NetTypeOK
<1>2. ASSUME NEW d \in Banks, NEW i \in DOMAIN l2in'[d] PROVE l2in'[d][i].pts <= t
  <2>1. CASE d # b
    BY <1>1, <2>1 DEF TypeOK, NetTypeOK, RequestsAtMost
  <2>2. CASE d = b
    <3>1. l2in'[d] = Tail(l2in[b])
      BY <1>1, <2>2 DEF TypeOK, NetTypeOK
    <3>2. i + 1 \in DOMAIN l2in[b] /\ Tail(l2in[b])[i] = l2in[b][i + 1]
      BY <1>1, <3>1, TailElements
    <3> QED BY <3>1, <3>2 DEF RequestsAtMost
  <2> QED BY <2>1, <2>2
<1> QED BY <1>1, <1>2 DEF RequestsAtMost

\* An L1 sends a request with its clock.
LEMMA SendAtMost ==
    ASSUME TypeOK, NEW t \in Nat, RequestsAtMost(t), NEW c \in Cores, NEW m \in RequestMsg,
           SendRequest(c, m), UNCHANGED l2in, m.pts <= t
    PROVE  RequestsAtMost(t)'
<1>1. m.addr \in Addrs /\ BankOf[m.addr] \in Banks
  BY BankOfAssumption DEF RequestMsg
<1>2. ASSUME NEW d \in Cores, NEW b \in Banks, NEW i \in DOMAIN reqNet'[d][b]
      PROVE  reqNet'[d][b][i].pts <= t
  <2>1. CASE d # c \/ b # BankOf[m.addr]
    <3>1. reqNet'[d][b] = reqNet[d][b]
      BY <1>1, <2>1 DEF SendRequest, TypeOK, NetTypeOK
    <3> QED BY <3>1 DEF RequestsAtMost
  <2>2. CASE d = c /\ b = BankOf[m.addr]
    <3>1. reqNet'[d][b] = Append(reqNet[d][b], m) /\ reqNet[d][b] \in Seq(RequestMsg)
      BY <1>1, <2>2 DEF SendRequest, TypeOK, NetTypeOK
    <3>2. \/ i \in DOMAIN reqNet[d][b] /\ Append(reqNet[d][b], m)[i] = reqNet[d][b][i]
          \/ Append(reqNet[d][b], m)[i] = m
      BY <3>1, AppendElements
    <3> QED BY <3>1, <3>2 DEF RequestsAtMost
  <2> QED BY <2>1, <2>2
<1> QED BY <1>2 DEF RequestsAtMost

\* The network delivers a request.
LEMMA DeliverAtMost ==
    ASSUME TypeOK, NEW t \in Nat, RequestsAtMost(t), NEW c \in Cores, NEW b \in Banks, Deliver(c, b)
    PROVE  RequestsAtMost(t)'
<1>1. /\ reqNet[c][b] \in Seq(RequestMsg) /\ reqNet[c][b] # <<>> /\ l2in[b] \in Seq(RequestMsg)
      /\ Head(reqNet[c][b]) \in RequestMsg
      /\ 1 \in DOMAIN reqNet[c][b] /\ Head(reqNet[c][b]) = reqNet[c][b][1]
  BY QueueFacts DEF Deliver, TypeOK, NetTypeOK
<1>2. ASSUME NEW d \in Banks, NEW i \in DOMAIN l2in'[d] PROVE l2in'[d][i].pts <= t
  <2>1. CASE d # b
    BY <2>1 DEF Deliver, TypeOK, NetTypeOK, RequestsAtMost
  <2>2. CASE d = b
    <3>1. l2in'[d] = Append(l2in[b], Head(reqNet[c][b]))
      BY <2>2 DEF Deliver, TypeOK, NetTypeOK
    <3>2. \/ i \in DOMAIN l2in[b] /\ Append(l2in[b], Head(reqNet[c][b]))[i] = l2in[b][i]
          \/ Append(l2in[b], Head(reqNet[c][b]))[i] = Head(reqNet[c][b])
      BY <1>1, <3>1, AppendElements
    <3> QED BY <1>1, <3>1, <3>2 DEF RequestsAtMost
  <2> QED BY <2>1, <2>2
<1>3. ASSUME NEW k \in Cores, NEW d \in Banks, NEW i \in DOMAIN reqNet'[k][d]
      PROVE  reqNet'[k][d][i].pts <= t
  <2>1. CASE k # c \/ d # b
    <3>1. reqNet'[k][d] = reqNet[k][d]
      BY <2>1 DEF Deliver, TypeOK, NetTypeOK
    <3> QED BY <3>1 DEF RequestsAtMost
  <2>2. CASE k = c /\ d = b
    <3>1. reqNet'[k][d] = Tail(reqNet[c][b])
      BY <2>2 DEF Deliver, TypeOK, NetTypeOK
    <3>2. i + 1 \in DOMAIN reqNet[c][b] /\ Tail(reqNet[c][b])[i] = reqNet[c][b][i + 1]
      BY <1>1, <3>1, TailElements
    <3> QED BY <3>1, <3>2 DEF RequestsAtMost
  <2> QED BY <2>1, <2>2
<1> QED BY <1>2, <1>3 DEF RequestsAtMost

\* A bank answers, or an L1 takes an answer.
LEMMA AnswerAtMost ==
    ASSUME TypeOK, NEW t \in Nat, ResponsesAtMost(t), NEW b \in Banks, NEW m \in ResponseMsg,
           SendResponse(b, m), m.wts <= t
    PROVE  ResponsesAtMost(t)'
<1> SUFFICES ASSUME NEW d \in Banks, NEW c \in Cores, NEW i \in DOMAIN respNet'[d][c]
             PROVE  respNet'[d][c][i].wts <= t
  BY DEF ResponsesAtMost
<1>1. \/ \E j \in DOMAIN respNet[d][c] : respNet'[d][c][i] = respNet[d][c][j]
      \/ respNet'[d][c][i] = m
  BY SentResponses
<1> QED BY <1>1 DEF ResponsesAtMost

\* An L1 takes a response from the network.
LEMMA TakeAtMost ==
    ASSUME TypeOK, NEW t \in Nat, ResponsesAtMost(t), NEW b \in Banks, NEW c \in Cores,
           respNet[b][c] # <<>>, respNet' = [respNet EXCEPT ![b][c] = Tail(@)]
    PROVE  ResponsesAtMost(t)' /\ Head(respNet[b][c]).wts <= t
<1>1. Head(respNet[b][c]).wts <= t
  BY QueueFacts DEF TypeOK, NetTypeOK, ResponsesAtMost
<1> SUFFICES ASSUME NEW d \in Banks, NEW k \in Cores, NEW i \in DOMAIN respNet'[d][k]
             PROVE  respNet'[d][k][i].wts <= t
  BY <1>1 DEF ResponsesAtMost
<1>2. \E j \in DOMAIN respNet[d][k] : respNet'[d][k][i] = respNet[d][k][j]
  BY PoppedResponses
<1> QED BY <1>2 DEF ResponsesAtMost

\* A bank changes one line.
LEMMA OneLineAtMost ==
    ASSUME NEW t \in Nat, BanksAtMost(t), NEW a \in Addrs, mts' = mts, LineAtMost(a, t)',
           \A x \in Addrs \ {a} : l2'[x] = l2[x] /\ l2tbe'[x] = l2tbe[x]
    PROVE  BanksAtMost(t)'
<1>1. ASSUME NEW x \in Addrs PROVE LineAtMost(x, t)'
  BY DEF BanksAtMost, LineAtMost
<1> QED BY <1>1 DEF BanksAtMost

\* What does not change keeps its bound.
LEMMA StillAtMost ==
    ASSUME NEW t, AtMost(t)
    PROVE  /\ UNCHANGED pts => ClockAtMost(t)'
           /\ UNCHANGED <<reqNet, l2in>> => RequestsAtMost(t)'
           /\ UNCHANGED respNet => ResponsesAtMost(t)'
           /\ UNCHANGED <<l2, l2tbe, mts>> => BanksAtMost(t)'
BY DEF AtMost, ClockAtMost, RequestsAtMost, ResponsesAtMost, BanksAtMost, LineAtMost

\* The cores, the L1s and the network move no timestamp on.
LEMMA L1AtMost ==
    ASSUME TypeOK, NEW t \in Nat, AtMost(t), NEW c \in Cores, L1Step(c)
    PROVE  AtMost(t)'
<1>1. UNCHANGED <<l2, l2tbe, mts>>
  BY DEF L1Step, l2Vars
<1>2. CASE LoadHit(c) \/ \E v \in Addrs : L1_Replacement(c, v)
  <2>1. UNCHANGED <<pts, reqNet, l2in, respNet>>
    BY <1>2 DEF LoadHit, L1_Replacement, l1Vars, netVars
  <2> QED BY <1>1, <2>1, StillAtMost DEF AtMost
<1>3. CASE LoadMiss(c) \/ WriteThrough(c)
  <2>1. UNCHANGED <<pts, l2in, respNet>>
    BY <1>3 DEF LoadMiss, WriteThrough
  <2>2. \E m \in RequestMsg : SendRequest(c, m) /\ m.pts = pts[c]
    <3>1. CASE LoadMiss(c)
      <4>1. mandQ[c] # <<>>
        BY <3>1 DEF LoadMiss
      <4>2. PICK r \in CacheMsg : r = Head(mandQ[c]) /\ r.addr \in Addrs
        BY <4>1, MandatoryHead
      <4>3. PICK e \in L1Entry : e = IF line[c][r.addr].tag THEN line[c][r.addr] ELSE NewLine
        BY <4>2 DEF TypeOK, L1TypeOK, L1Entry, NewLine
      <4>4. SendRequest(c, a_issueGETS(c, r, e))
        BY <3>1, <4>2, <4>3 DEF LoadMiss
      <4> QED BY <4>4, L1MessageTypes DEF a_issueGETS
    <3>2. CASE WriteThrough(c)
      <4>1. mandQ[c] # <<>>
        BY <3>2 DEF WriteThrough
      <4>2. PICK r \in CacheMsg : r = Head(mandQ[c])
        BY <4>1, MandatoryHead
      <4>3. SendRequest(c, d2t_sendToL2(c, r))
        BY <3>2, <4>2 DEF WriteThrough
      <4>4. NewLine \in L1Entry
        BY DEF NewLine, L1Entry
      <4> QED BY <4>3, <4>4, L1MessageTypes DEF d2t_sendToL2
    <3> QED BY <1>3, <3>1, <3>2
  <2>3. RequestsAtMost(t)'
    BY <2>1, <2>2, SendAtMost DEF AtMost, ClockAtMost
  <2> QED BY <1>1, <2>1, <2>3, StillAtMost DEF AtMost
<1>4. ASSUME NEW b \in Banks, Data(c, b) \/ WriteDone(c, b) PROVE AtMost(t)'
  <2>1. /\ respNet[b][c] # <<>> /\ respNet' = [respNet EXCEPT ![b][c] = Tail(@)]
        /\ pts' = [pts EXCEPT ![c] = tp_updateProcessorTimestamp(c, Head(respNet[b][c]))]
        /\ UNCHANGED <<reqNet, l2in>>
    BY <1>4 DEF Data, WriteDone
  <2>2. ResponsesAtMost(t)' /\ Head(respNet[b][c]).wts <= t
    BY <2>1, TakeAtMost DEF AtMost
  <2>3. Head(respNet[b][c]).wts \in Nat
    BY <2>1, ResponseHead
  <2>4. ClockAtMost(t)'
    BY <2>1, <2>2, <2>3 DEF AtMost, ClockAtMost, tp_updateProcessorTimestamp, getTimeMax, TypeOK, L1TypeOK
  <2> QED BY <1>1, <2>1, <2>2, <2>4, StillAtMost DEF AtMost
<1> QED BY <1>2, <1>3, <1>4 DEF L1Step, L1Next

\* A request that is not a hit moves no timestamp on, nor does an eviction.
LEMMA MissAtMost ==
    ASSUME TypeOK, NEW t \in Nat, AtMost(t), NEW b \in Banks,
           GetsMiss(b) \/ AtomicMiss(b) \/ WriteMiss(b), UNCHANGED <<coreVars, l1Vars>>
    PROVE  AtMost(t)'
<1>1. l2in[b] # <<>> /\ PopRequest(b) /\ UNCHANGED <<pts, l2, mts>>
  BY DEF GetsMiss, AtomicMiss, WriteMiss, Request, l1Vars
<1>2. PICK r \in RequestMsg : r = Head(l2in[b]) /\ r.addr \in Addrs /\ r.warp \in Warps
                              /\ r.pts \in Nat /\ r.pts <= t
  <2>1. Head(l2in[b]).pts <= t
    BY <1>1, QueueFacts DEF AtMost, RequestsAtMost, TypeOK, NetTypeOK
  <2> QED BY <1>1, <2>1, RequestHead
<1>3. PICK a \in Addrs : a = r.addr
  BY <1>2
<1>4. /\ l2tbe[a].max_read_pts \in Nat /\ l2tbe[a].max_write_pts \in Nat
      /\ LineAtMost(a, t) /\ mts[b] \in Nat /\ mts[b] <= t /\ l2tbe[a] \in L2TBE
  BY DEF AtMost, BanksAtMost, TypeOK, L2TypeOK, L2TBE
<1>5. PICK s \in L2TBE : s = TBEForGETS(r) /\ s.max_read_pts <= t /\ s.max_write_pts <= t /\ s.delta <= Lease
  <2>1. TBEForGETS(r) \in L2TBE
    BY TBETypes
  <2>2. TBEForGETS(r).max_read_pts <= t /\ TBEForGETS(r).max_write_pts <= t /\ TBEForGETS(r).delta <= Lease
    BY <1>2, <1>3, <1>4, LeaseAssumption DEF TBEForGETS, NoL2TBE, getTimeMax, LineAtMost, L2TBE
  <2> QED BY <2>1, <2>2
<1>6. PICK u \in L2TBE : u = TBEForWriteMiss(r) /\ u.max_read_pts <= t /\ u.max_write_pts <= t
                         /\ u.max_write_pts \in Nat /\ u.delta <= Lease
  <2>1. TBEForWriteMiss(r) \in L2TBE
    BY TBETypes
  <2>2. TBEForWriteMiss(r).max_read_pts <= t /\ TBEForWriteMiss(r).max_write_pts <= t /\ TBEForWriteMiss(r).delta <= Lease
    BY <1>2, <1>3, <1>4, LeaseAssumption DEF TBEForWriteMiss, NoL2TBE, getTimeMax, LineAtMost, L2TBE
  <2> QED BY <2>1, <2>2 DEF L2TBE
<1>7. \A x \in Addrs \ {a} : l2'[x] = l2[x] /\ l2tbe'[x] = l2tbe[x]
  BY <1>1, <1>2, <1>3 DEF GetsMiss, AtomicMiss, WriteMiss, TypeOK, L2TypeOK
<1>8. LineAtMost(a, t)'
  <2>1. \/ l2tbe'[a] = s \/ l2tbe'[a] = u \/ l2tbe'[a] = [u EXCEPT !.ver = Newest(a) + 1]
    BY <1>2, <1>3, <1>5, <1>6 DEF GetsMiss, AtomicMiss, WriteMiss, TypeOK, L2TypeOK
  <2>2. /\ l2tbe'[a].max_read_pts <= t /\ l2tbe'[a].max_write_pts <= t /\ l2tbe'[a].delta <= Lease
    BY <1>5, <1>6, <2>1 DEF L2TBE
  <2> QED BY <1>1, <1>4, <2>2 DEF LineAtMost
<1>9. BanksAtMost(t)'
  BY <1>1, <1>7, <1>8, OneLineAtMost DEF AtMost
<1>10. RequestsAtMost(t)'
  BY <1>1, PopAtMost DEF AtMost
<1>11. ResponsesAtMost(t)'
  <2>1. CASE UNCHANGED respNet
    BY <2>1, StillAtMost
  <2>2. CASE WriteMiss(b)
    <3>1. MissWts(u, mts[b]) \in Nat /\ MissWts(u, mts[b]) <= t
      BY <1>4, <1>6 DEF MissWts, getTimeMax
    <3>2. Newest(a) + 1 \in Nat
      BY DEF TypeOK, L2TypeOK, Newest
    <3>3. PICK m \in ResponseMsg : m = WriteResponse("ACK", a, r.warp, MissWts(u, mts[b]), Newest(a) + 1)
      <4>1. NoEntry \in L2Entry
        BY DEF NoEntry, L2Entry
      <4> QED BY <1>2, <3>1, <3>2, <4>1, L2MessageTypes
    <3>4. SendResponse(b, m) /\ m.wts <= t
      BY <1>2, <1>3, <1>6, <2>2, <3>1, <3>3 DEF WriteMiss, WriteResponse
    <3> QED BY <3>4, AnswerAtMost DEF AtMost
  <2> QED BY <2>1, <2>2 DEF GetsMiss, AtomicMiss
<1> QED BY <1>1, <1>9, <1>10, <1>11, StillAtMost DEF AtMost

\* An eviction leaves the line's times behind in the bank's.
LEMMA L2_ReplacementAtMost ==
    ASSUME TypeOK, NEW t \in Nat, AtMost(t), NEW b \in Banks, NEW v \in Addrs,
           L2_Replacement(b, v), UNCHANGED <<coreVars, l1Vars>>
    PROVE  AtMost(t)'
<1>1. UNCHANGED <<pts, reqNet, l2in, respNet, l2tbe>>
  BY DEF L2_Replacement, netVars, l1Vars
<1>2. LineAtMost(v, t) /\ l2[v] \in L2Entry /\ mts[b] \in Nat /\ mts[b] <= t
  BY DEF AtMost, BanksAtMost, TypeOK, L2TypeOK
<1>3. ASSUME NEW x \in Addrs PROVE LineAtMost(x, t)'
  <2>1. LineAtMost(x, t)
    BY DEF AtMost, BanksAtMost
  <2>2. l2'[x] = l2[x] \/ l2'[x] = NoEntry
    BY DEF L2_Replacement, TypeOK, L2TypeOK
  <2> QED BY <1>1, <2>1, <2>2 DEF LineAtMost, NoEntry
<1>4. setmts_setMts(mts[b], l2[v]) <= t
  BY <1>2 DEF setmts_setMts, getTimeMax, L2Entry, LineAtMost
<1>5. \A d \in Banks : mts'[d] <= t
  BY <1>4 DEF L2_Replacement, TypeOK, L2TypeOK, AtMost, BanksAtMost
<1> QED BY <1>1, <1>3, <1>5, StillAtMost DEF AtMost, BanksAtMost

\* A load that hits moves them on by a lease.
LEMMA GetsHitAtMost ==
    ASSUME TypeOK, NEW t \in Nat, AtMost(t), NEW b \in Banks, GetsHit(b),
           UNCHANGED <<coreVars, l1Vars>>, NEW u \in Nat, t + Lease <= u
    PROVE  AtMost(u)'
<1>1. l2in[b] # <<>> /\ PopRequest(b) /\ UNCHANGED <<pts, l2tbe, mts>>
  BY DEF GetsHit, Request, l1Vars
<1>2. t + Lease <= u /\ t <= u /\ AtMost(u)
  <2>1. t <= u
    BY LeaseAssumption
  <2> QED BY <2>1, LaterBound
<1>3. PICK r \in RequestMsg : r = Head(l2in[b]) /\ r.addr \in Addrs /\ r.warp \in Warps
                              /\ r.pts \in Nat /\ r.pts <= t
  <2>1. Head(l2in[b]).pts <= t
    BY <1>1, QueueFacts DEF AtMost, RequestsAtMost, TypeOK, NetTypeOK
  <2> QED BY <1>1, <2>1, RequestHead
<1>4. PICK a \in Addrs : a = r.addr
  BY <1>3
<1>5. PICK n \in Nat : n = tr_updateL2BlockRts(l2[a], r) /\ n <= u
  <2>1. l2[a] \in L2Entry
    BY DEF TypeOK, L2TypeOK
  <2>2. l2[a].rts \in Nat /\ l2[a].wts \in Nat /\ l2[a].rts <= t /\ l2[a].wts <= t
    BY <2>1 DEF AtMost, BanksAtMost, LineAtMost, L2Entry
  <2>3. PICK x \in Nat, y \in Nat, z \in Nat : x = r.pts + Lease /\ y = l2[a].wts + Lease /\ z = l2[a].rts
                                                /\ x <= u /\ y <= u /\ z <= u
    BY <1>2, <1>3, <2>2, LeaseAssumption
  <2>4. tr_updateL2BlockRts(l2[a], r) = getTimeMax(x, getTimeMax(y, z))
    BY <2>3 DEF tr_updateL2BlockRts
  <2> QED BY <2>3, <2>4 DEF getTimeMax
<1>6. PICK e \in L2Entry : e = [l2[a] EXCEPT !.rts = n] /\ e.wts = l2[a].wts /\ e.rts = n
  <2>1. PICK f \in L2Entry : f = l2[a]
    BY DEF TypeOK, L2TypeOK
  <2>2. [f EXCEPT !.rts = n] \in L2Entry
    BY DEF L2Entry
  <2>3. [f EXCEPT !.rts = n].wts = f.wts /\ [f EXCEPT !.rts = n].rts = n
    BY DEF L2Entry
  <2> QED BY <2>1, <2>2, <2>3
<1>7. l2' = [l2 EXCEPT ![a] = e] /\ SendResponse(b, DataResponse(a, e, r.warp))
  BY <1>3, <1>4, <1>5, <1>6 DEF GetsHit
<1>8. l2'[a] = e /\ \A x \in Addrs \ {a} : l2'[x] = l2[x] /\ l2tbe'[x] = l2tbe[x]
  BY <1>1, <1>7 DEF TypeOK, L2TypeOK
<1>9. e.wts <= u /\ e.rts <= u
  BY <1>2, <1>5, <1>6 DEF AtMost, BanksAtMost, LineAtMost
<1>10. BanksAtMost(u)'
  <2>1. LineAtMost(a, u)'
    BY <1>1, <1>2, <1>8, <1>9 DEF AtMost, BanksAtMost, LineAtMost
  <2> QED BY <1>1, <1>2, <1>8, <2>1, OneLineAtMost DEF AtMost
<1>11. ResponsesAtMost(u)'
  <2>1. PICK m \in ResponseMsg : m = DataResponse(a, e, r.warp)
    BY <1>3, L2MessageTypes
  <2>2. SendResponse(b, m) /\ m.wts <= u
    BY <1>7, <1>9, <2>1 DEF DataResponse
  <2> QED BY <1>2, <2>2, AnswerAtMost DEF AtMost
<1>12. RequestsAtMost(u)'
  BY <1>1, <1>2, PopAtMost DEF AtMost
<1>13. ClockAtMost(u)'
  BY <1>1, <1>2, StillAtMost
<1> QED BY <1>10, <1>11, <1>12, <1>13 DEF AtMost

\* A write that hits moves them on by one tick.
LEMMA WriteHitAtMost ==
    ASSUME TypeOK, NEW t \in Nat, AtMost(t), NEW b \in Banks, NEW k \in {"DATA", "DATA_ATOMIC"},
           WriteHit(b, k), UNCHANGED <<coreVars, l1Vars>>, NEW u \in Nat, t + 1 <= u
    PROVE  AtMost(u)'
<1>1. l2in[b] # <<>> /\ PopRequest(b) /\ UNCHANGED <<pts, l2tbe, mts>>
  BY DEF WriteHit, Request, l1Vars
<1>2. t + 1 <= u /\ t <= u /\ AtMost(u)
  <2>1. t <= u
    OBVIOUS
  <2> QED BY <2>1, LaterBound
<1>3. PICK r \in RequestMsg : r = Head(l2in[b]) /\ r.addr \in Addrs /\ r.warp \in Warps
                              /\ r.pts \in Nat /\ r.pts <= t
  <2>1. Head(l2in[b]).pts <= t
    BY <1>1, QueueFacts DEF AtMost, RequestsAtMost, TypeOK, NetTypeOK
  <2> QED BY <1>1, <2>1, RequestHead
<1>4. PICK a \in Addrs : a = r.addr
  BY <1>3
<1>5. l2[a] \in L2Entry /\ l2[a].rts \in Nat /\ l2[a].wts \in Nat /\ l2[a].rts <= t /\ l2[a].wts <= t
  <2>1. l2[a] \in L2Entry
    BY DEF TypeOK, L2TypeOK
  <2> QED BY <2>1 DEF AtMost, BanksAtMost, LineAtMost, L2Entry
<1>6. PICK n \in Nat : n = tw_updateL2BlockWts(l2[a], r) /\ n <= u
  BY <1>2, <1>3, <1>5 DEF tw_updateL2BlockWts, getTimeMax
<1>7. PICK y \in {"ACK", "DATA_ATOMIC"} : y = IF k = "DATA" THEN "ACK" ELSE k
  OBVIOUS
<1>8. PICK v \in Nat : v = Newest(a) + 1
  BY DEF TypeOK, L2TypeOK, Newest
<1>9. /\ l2' = [l2 EXCEPT ![a] = [rts |-> @.rts, wts |-> n, dirty |-> TRUE, ver |-> v]]
      /\ SendResponse(b, WriteResponse(y, a, r.warp, n, v))
  BY <1>3, <1>4, <1>6, <1>7, <1>8 DEF WriteHit
<1>10. /\ l2'[a].rts = l2[a].rts /\ l2'[a].wts = n
       /\ \A x \in Addrs \ {a} : l2'[x] = l2[x] /\ l2tbe'[x] = l2tbe[x]
  BY <1>1, <1>9 DEF TypeOK, L2TypeOK
<1>11. BanksAtMost(u)'
  <2>1. LineAtMost(a, u)'
    BY <1>1, <1>2, <1>5, <1>6, <1>10 DEF AtMost, BanksAtMost, LineAtMost
  <2> QED BY <1>1, <1>2, <1>10, <2>1, OneLineAtMost DEF AtMost
<1>12. ResponsesAtMost(u)'
  <2>1. PICK m \in ResponseMsg : m = WriteResponse(y, a, r.warp, n, v)
    BY <1>3, <1>5, L2MessageTypes
  <2>2. SendResponse(b, m) /\ m.wts <= u
    BY <1>6, <1>9, <2>1 DEF WriteResponse
  <2> QED BY <1>2, <2>2, AnswerAtMost DEF AtMost
<1>13. RequestsAtMost(u)'
  BY <1>1, <1>2, PopAtMost DEF AtMost
<1>14. ClockAtMost(u)'
  BY <1>1, <1>2, StillAtMost
<1> QED BY <1>11, <1>12, <1>13, <1>14 DEF AtMost

\* What the banks send when a fetch is over has the line's new time.
LEMMA FillTimes ==
    ASSUME TypeOK, NEW a \in Addrs, MemData(a) \/ MemDataAtomic(a), NEW b \in Banks,
           NEW c \in Cores, NEW i \in DOMAIN respNet'[b][c]
    PROVE  \/ \E j \in DOMAIN respNet[b][c] : respNet'[b][c][i] = respNet[b][c][j]
           \/ respNet'[b][c][i].wts = l2'[a].wts
<1>1. BankOf[a] \in Banks /\ respNet[b][c] \in Seq(ResponseMsg)
  BY BankOfAssumption DEF TypeOK, NetTypeOK
<1>2. \/ respNet'[b][c] = respNet[b][c]
      \/ \E m : respNet'[b][c] = Append(respNet[b][c], m) /\ m.wts = l2'[a].wts
  <2>1. CASE MemData(a)
    <3> DEFINE m == DataResponse(a, l2'[a], CHOOSE w \in l2tbe[a].gets : CoreOf[w] = c)
    <3>1. m.wts = l2'[a].wts
      BY DEF DataResponse
    <3>2. \/ respNet'[b][c] = respNet[b][c]
          \/ respNet'[b][c] = Append(respNet[b][c], m)
      BY <1>1, <2>1 DEF MemData, SendResponses, TypeOK, NetTypeOK, L2TypeOK
    <3> QED BY <3>1, <3>2
  <2>2. CASE MemDataAtomic(a)
    <3> DEFINE m == WriteResponse("DATA_ATOMIC", a, CHOOSE w \in l2tbe[a].wback : CoreOf[w] = c,
                                  l2'[a].wts, l2'[a].ver)
    <3>1. m.wts = l2'[a].wts
      BY DEF WriteResponse
    <3>2. \/ respNet'[b][c] = respNet[b][c]
          \/ respNet'[b][c] = Append(respNet[b][c], m)
      BY <1>1, <2>2 DEF MemDataAtomic, SendResponses, TypeOK, NetTypeOK, L2TypeOK
    <3> QED BY <3>1, <3>2
  <2> QED BY <2>1, <2>2
<1>3. CASE respNet'[b][c] = respNet[b][c]
  BY <1>3
<1>4. ASSUME NEW m, respNet'[b][c] = Append(respNet[b][c], m), m.wts = l2'[a].wts
      PROVE  \/ \E j \in DOMAIN respNet[b][c] : respNet'[b][c][i] = respNet[b][c][j]
             \/ respNet'[b][c][i].wts = l2'[a].wts
  BY <1>1, <1>4
<1> QED BY <1>2, <1>3, <1>4

\* A fetch moves the timestamps on by a lease if loads wait for it, else not.
LEMMA FillAtMost ==
    ASSUME TypeOK, NEW t \in Nat, AtMost(t), NEW a \in Addrs, Dram(a),
           NEW u \in Nat, t <= u, MemData(a) /\ l2tbe[a].gets # {} => t + Lease <= u
    PROVE  AtMost(u)'
<1>1. BankOf[a] \in Banks /\ AtMost(u)
  BY BankOfAssumption, LaterBound
<1>2. /\ (MemData(a) \/ MemDataAtomic(a)) /\ UNCHANGED <<pts, reqNet, l2in, mts>>
      /\ \A x \in Addrs \ {a} : l2'[x] = l2[x] /\ l2tbe'[x] = l2tbe[x]
      /\ l2tbe'[a] = NoL2TBE
  BY DEF Dram, MemData, MemDataAtomic, l1Vars, TypeOK, L2TypeOK
<1>3. PICK s \in L2TBE, m \in Nat :
         /\ s = l2tbe[a] /\ m = mts[BankOf[a]] /\ m <= t
         /\ s.max_read_pts \in Nat /\ s.max_write_pts \in Nat /\ s.delta \in Nat
         /\ s.max_read_pts <= t /\ s.max_write_pts <= t /\ s.delta <= Lease
  <2>1. l2tbe[a] \in L2TBE /\ mts[BankOf[a]] \in Nat
    BY <1>1 DEF TypeOK, L2TypeOK
  <2>2. LineAtMost(a, t) /\ mts[BankOf[a]] <= t
    BY <1>1 DEF AtMost, BanksAtMost
  <2> QED BY <2>1, <2>2 DEF LineAtMost, L2TBE
<1>4. PICK f \in L2Entry : f = FilledEntry(a) /\ f.rts \in Nat /\ f.wts \in Nat /\ f.rts <= t /\ f.wts <= t
  <2>1. FilledEntry(a) \in L2Entry
    BY FillFacts
  <2>2. FilledEntry(a).rts <= t /\ FilledEntry(a).wts <= t
    BY <1>3 DEF FilledEntry, MissWts, getTimeMax
  <2> QED BY <2>1, <2>2 DEF L2Entry
<1>5. l2'[a].rts <= u /\ l2'[a].wts <= u
  <2>1. CASE MemData(a) /\ s.gets = {}
    BY <1>3, <1>4, <2>1 DEF MemData, TypeOK, L2TypeOK
  <2>2. CASE MemData(a) /\ s.gets # {}
    <3>1. PICK n \in Nat : n = trt_updateL2BlockRts(f, s) /\ n <= u
      <4>1. trt_updateL2BlockRts(f, s) \in Nat
        BY TrtFacts
      <4>2. PICK x \in Nat, y \in Nat, z \in Nat : x = s.max_read_pts + s.delta /\ y = f.wts + s.delta
                                                    /\ z = f.rts /\ x <= u /\ y <= u /\ z <= u
        BY <1>3, <1>4, <2>2, LeaseAssumption
      <4>3. trt_updateL2BlockRts(f, s) = getTimeMax(x, getTimeMax(y, z))
        BY <4>2 DEF trt_updateL2BlockRts
      <4>4. trt_updateL2BlockRts(f, s) <= u
        BY <4>2, <4>3 DEF getTimeMax
      <4> QED BY <4>1, <4>4
    <3>2. l2'[a] = [f EXCEPT !.rts = n]
      BY <1>3, <1>4, <2>2, <3>1 DEF MemData, TypeOK, L2TypeOK
    <3> QED BY <1>4, <3>1, <3>2 DEF L2Entry
  <2>3. CASE MemDataAtomic(a)
    <3>1. l2'[a] = [f EXCEPT !.ver = Newest(a) + 1]
      BY <1>4, <2>3 DEF MemDataAtomic, TypeOK, L2TypeOK
    <3> QED BY <1>4, <3>1 DEF L2Entry
  <2> QED BY <1>2, <2>1, <2>2, <2>3
<1>6. BanksAtMost(u)'
  <2>1. LineAtMost(a, u)'
    BY <1>2, <1>5, LeaseAssumption DEF LineAtMost, NoL2TBE
  <2> QED BY <1>1, <1>2, <2>1, OneLineAtMost DEF AtMost
<1>7. ResponsesAtMost(u)'
  <2> SUFFICES ASSUME NEW b \in Banks, NEW c \in Cores, NEW i \in DOMAIN respNet'[b][c]
               PROVE  respNet'[b][c][i].wts <= u
    BY DEF ResponsesAtMost
  <2>1. \/ \E j \in DOMAIN respNet[b][c] : respNet'[b][c][i] = respNet[b][c][j]
        \/ respNet'[b][c][i].wts = l2'[a].wts
    BY <1>2, FillTimes
  <2> QED BY <1>1, <1>5, <2>1 DEF AtMost, ResponsesAtMost
<1> QED BY <1>1, <1>2, <1>6, <1>7, StillAtMost DEF AtMost

-----------------------------------------------------------------------------
(* How much work has been given its time.                                   *)

\* A larger set counts more.
LEMMA CountGrows ==
    ASSUME NEW S, NEW T, IsFiniteSet(T), S \subseteq T
    PROVE  /\ IsFiniteSet(S) /\ Cardinality(S) \in Nat /\ Cardinality(T) \in Nat
           /\ Cardinality(S) <= Cardinality(T)
           /\ \A x \in T : x \notin S => Cardinality(S) + 1 <= Cardinality(T)
<1>1. S \in SUBSET T
  OBVIOUS
<1>2. IsFiniteSet(S) /\ Cardinality(S) <= Cardinality(T) /\ (Cardinality(T) = Cardinality(S) => T = S)
  BY <1>1, FS_Subset
<1>3. Cardinality(S) \in Nat /\ Cardinality(T) \in Nat
  BY <1>2, FS_CardinalityType
<1>4. ASSUME NEW x \in T, x \notin S PROVE Cardinality(S) + 1 <= Cardinality(T)
  <2>1. Cardinality(T) # Cardinality(S)
    BY <1>2, <1>4
  <2> QED BY <1>2, <1>3, <2>1
<1> QED BY <1>2, <1>3, <1>4

\* One element more, one element less.
LEMMA CountSwaps ==
    ASSUME NEW S, NEW T, NEW x, IsFiniteSet(T), S \subseteq T \cup {x}
    PROVE  /\ IsFiniteSet(S) /\ Cardinality(S) \in Nat /\ Cardinality(T) \in Nat
           /\ Cardinality(S) <= Cardinality(T) + 1
<1>1. IsFiniteSet(T \cup {x}) /\ Cardinality(T \cup {x}) <= Cardinality(T) + 1 /\ Cardinality(T) \in Nat
  BY FS_AddElement, FS_CardinalityType
<1>2. IsFiniteSet(S) /\ Cardinality(S) \in Nat /\ Cardinality(T \cup {x}) \in Nat
      /\ Cardinality(S) <= Cardinality(T \cup {x})
  BY <1>1, CountGrows
<1> QED BY <1>1, <1>2

\* The answered ones are among those that wait.
LEMMA WorkTypes ==
    ASSUME FiniteWork
    PROVE  /\ IsFiniteSet(LoadsAnswered) /\ IsFiniteSet(WritesAnswered)
           /\ Cardinality(LoadEvents) \in Nat /\ Cardinality(WriteEvents) \in Nat
           /\ Cardinality(LoadsAnswered) \in Nat /\ Cardinality(WritesAnswered) \in Nat
           /\ Cardinality(LoadsAnswered) <= Cardinality(LoadsWaiting)
           /\ Cardinality(WritesAnswered) <= Cardinality(WritesWaiting)
           /\ Cardinality(LoadsWaiting) \in Nat /\ Cardinality(WritesWaiting) \in Nat
           /\ LoadWork \in Nat /\ WriteWork \in Nat
<1>1. LoadsAnswered \subseteq LoadsWaiting /\ WritesAnswered \subseteq WritesWaiting
  BY DEF LoadsAnswered, WritesAnswered
<1>2. /\ IsFiniteSet(LoadsAnswered) /\ IsFiniteSet(WritesAnswered)
      /\ Cardinality(LoadsAnswered) \in Nat /\ Cardinality(WritesAnswered) \in Nat
      /\ Cardinality(LoadsAnswered) <= Cardinality(LoadsWaiting)
      /\ Cardinality(WritesAnswered) <= Cardinality(WritesWaiting)
      /\ Cardinality(LoadsWaiting) \in Nat /\ Cardinality(WritesWaiting) \in Nat
  BY <1>1, CountGrows DEF FiniteWork
<1>3. Cardinality(LoadEvents) \in Nat /\ Cardinality(WriteEvents) \in Nat
  BY FS_CardinalityType DEF FiniteWork
<1> QED BY <1>2, <1>3 DEF LoadWork, WriteWork

\* The same after a step.
LEMMA WorkTypesNext ==
    ASSUME IsFiniteSet(LoadEvents'), IsFiniteSet(LoadsWaiting'),
           IsFiniteSet(WriteEvents'), IsFiniteSet(WritesWaiting')
    PROVE  /\ FiniteWork'
           /\ IsFiniteSet(LoadsAnswered') /\ IsFiniteSet(WritesAnswered')
           /\ Cardinality(LoadEvents') \in Nat /\ Cardinality(WriteEvents') \in Nat
           /\ Cardinality(LoadsAnswered') \in Nat /\ Cardinality(WritesAnswered') \in Nat
           /\ LoadWork' = Cardinality(LoadEvents') + Cardinality(LoadsAnswered')
           /\ WriteWork' = Cardinality(WriteEvents') + Cardinality(WritesAnswered')
<1>1. LoadsAnswered' \subseteq LoadsWaiting' /\ WritesAnswered' \subseteq WritesWaiting'
  BY DEF LoadsAnswered, WritesAnswered
<1>2. /\ IsFiniteSet(LoadsAnswered') /\ IsFiniteSet(WritesAnswered')
      /\ Cardinality(LoadsAnswered') \in Nat /\ Cardinality(WritesAnswered') \in Nat
  BY <1>1, CountGrows
<1>3. Cardinality(LoadEvents') \in Nat /\ Cardinality(WriteEvents') \in Nat
  BY FS_CardinalityType
<1> QED BY <1>2, <1>3 DEF LoadWork, WriteWork, FiniteWork

\* A step that leaves the logs and the entries alone loses no work; an answer
\* adds some.
LEMMA WorkKept ==
    ASSUME FiniteWork, Awaited, UNCHANGED log,
           \A c \in Cores, a \in Addrs : /\ mshr'[c][a].list = mshr[c][a].list
                                         /\ mshr'[c][a].writes = mshr[c][a].writes,
           \A id \in Ids : Answered(id) => Answered(id)'
    PROVE  /\ FiniteWork' /\ LoadWork <= LoadWork' /\ WriteWork <= WriteWork'
           /\ \A c \in Cores, a \in Addrs :
                 /\ mshr[c][a].list # <<>> /\ mshr[c][a].list \in Seq(Warps)
                 /\ ~Answered(<<"R", c, a>>) /\ Answered(<<"R", c, a>>)'
                 => LoadWork + 1 <= LoadWork'
           /\ \A w \in Warps, a \in Addrs :
                 Writes(w, a) /\ ~Answered(<<"W", w, a>>) /\ Answered(<<"W", w, a>>)'
                 => WriteWork + 1 <= WriteWork'
<1>1. LoadEvents' = LoadEvents /\ WriteEvents' = WriteEvents
  BY DEF LoadEvents, WriteEvents, Events, At
<1>2. LoadsWaiting' = LoadsWaiting
  BY DEF LoadsWaiting
<1>3. WritesWaiting' = WritesWaiting
  BY DEF WritesWaiting
<1>4. /\ FiniteWork' /\ IsFiniteSet(LoadsAnswered') /\ IsFiniteSet(WritesAnswered')
      /\ LoadWork' = Cardinality(LoadEvents) + Cardinality(LoadsAnswered')
      /\ WriteWork' = Cardinality(WriteEvents) + Cardinality(WritesAnswered')
  BY <1>1, <1>2, <1>3, WorkTypesNext DEF FiniteWork
<1>5. LoadsAnswered \subseteq LoadsAnswered'
  <2>1. ASSUME NEW p \in LoadsAnswered PROVE p \in LoadsAnswered'
    <3>1. p \in LoadsWaiting /\ p[1] \in Cores /\ p[2] \in Addrs /\ Answered(<<"R", p[1], p[2]>>)
      BY DEF LoadsAnswered, LoadsWaiting
    <3>2. PICK h \in Ids : h = <<"R", p[1], p[2]>>
      BY <3>1, ReadName
    <3>3. Answered(h)'
      BY <3>1, <3>2
    <3> QED BY <1>2, <3>1, <3>2, <3>3 DEF LoadsAnswered
  <2> QED BY <2>1
<1>6. WritesAnswered \subseteq WritesAnswered'
  <2>1. ASSUME NEW p \in WritesAnswered PROVE p \in WritesAnswered'
    <3>1. /\ p \in WritesWaiting /\ p[3] \in Warps /\ p[2] \in Addrs
          /\ CoreOf[p[3]] = p[1] /\ Answered(<<"W", p[3], p[2]>>)
      BY DEF WritesAnswered, WritesWaiting
    <3>2. PICK h \in Ids : h = <<"W", p[3], p[2]>>
      BY <3>1, WriteName
    <3>3. Answered(h)'
      BY <3>1, <3>2
    <3> QED BY <1>3, <3>1, <3>2, <3>3 DEF WritesAnswered
  <2> QED BY <2>1
<1>7. /\ Cardinality(LoadsAnswered) \in Nat /\ Cardinality(LoadsAnswered') \in Nat
      /\ Cardinality(LoadsAnswered) <= Cardinality(LoadsAnswered')
      /\ \A x \in LoadsAnswered' : x \notin LoadsAnswered =>
            Cardinality(LoadsAnswered) + 1 <= Cardinality(LoadsAnswered')
  BY <1>4, <1>5, CountGrows
<1>8. /\ Cardinality(WritesAnswered) \in Nat /\ Cardinality(WritesAnswered') \in Nat
      /\ Cardinality(WritesAnswered) <= Cardinality(WritesAnswered')
      /\ \A x \in WritesAnswered' : x \notin WritesAnswered =>
            Cardinality(WritesAnswered) + 1 <= Cardinality(WritesAnswered')
  BY <1>4, <1>6, CountGrows
<1>9. Cardinality(LoadEvents) \in Nat /\ Cardinality(WriteEvents) \in Nat
  BY WorkTypes
<1>10. ASSUME NEW c \in Cores, NEW a \in Addrs, mshr[c][a].list # <<>>, mshr[c][a].list \in Seq(Warps),
              ~Answered(<<"R", c, a>>), Answered(<<"R", c, a>>)'
       PROVE  LoadWork + 1 <= LoadWork'
  <2>1. 1 \in DOMAIN mshr[c][a].list /\ 1 \in 1..MaxMerged
    BY <1>10, QueueFacts, MSHRAssumption
  <2>2. PICK p \in Cores \X Addrs \X (1..MaxMerged) : p = <<c, a, 1>>
    BY <2>1
  <2>3. p[1] = c /\ p[2] = a /\ p[3] = 1
    BY <2>2
  <2>4. p \in LoadsWaiting
    BY <2>1, <2>3 DEF LoadsWaiting
  <2>5. p \notin LoadsAnswered
    BY <1>10, <2>3 DEF LoadsAnswered
  <2>6. p \in LoadsAnswered'
    BY <1>2, <1>10, <2>3, <2>4 DEF LoadsAnswered
  <2>7. Cardinality(LoadsAnswered) + 1 <= Cardinality(LoadsAnswered')
    BY <1>7, <2>5, <2>6
  <2> QED BY <1>4, <1>7, <1>9, <2>7 DEF LoadWork
<1>11. ASSUME NEW w \in Warps, NEW a \in Addrs, Writes(w, a),
              ~Answered(<<"W", w, a>>), Answered(<<"W", w, a>>)'
       PROVE  WriteWork + 1 <= WriteWork'
  <2>1. CoreOf[w] \in Cores
    BY CoreOfAssumption
  <2>2. PICK p \in Cores \X Addrs \X Warps : p = <<CoreOf[w], a, w>>
    BY <2>1
  <2>3. p[1] = CoreOf[w] /\ p[2] = a /\ p[3] = w
    BY <2>2
  <2>4. p \in WritesWaiting
    BY <1>11, <2>3 DEF WritesWaiting, Writes
  <2>5. p \notin WritesAnswered
    BY <1>11, <2>3 DEF WritesAnswered
  <2>6. p \in WritesAnswered'
    BY <1>3, <1>11, <2>3, <2>4 DEF WritesAnswered
  <2>7. Cardinality(WritesAnswered) + 1 <= Cardinality(WritesAnswered')
    BY <1>8, <2>5, <2>6
  <2> QED BY <1>4, <1>8, <1>9, <2>7 DEF WriteWork
<1>12. LoadWork <= LoadWork' /\ WriteWork <= WriteWork'
  BY <1>4, <1>7, <1>8, <1>9 DEF LoadWork, WriteWork
<1> QED BY <1>4, <1>10, <1>11, <1>12

\* The completed accesses, by warp and position.
LEMMA EventShape ==
    /\ \A e : e \in Events <=> \E w \in Warps : \E i \in DOMAIN log[w] : e = <<w, i>>
    /\ \A e : e \in Events' <=> \E w \in Warps : \E i \in DOMAIN log'[w] : e = <<w, i>>
<1>1. ASSUME NEW e PROVE e \in Events <=> \E w \in Warps : \E i \in DOMAIN log[w] : e = <<w, i>>
  BY DEF Events
<1>2. ASSUME NEW e PROVE e \in Events' <=> \E w \in Warps : \E i \in DOMAIN log'[w] : e = <<w, i>>
  BY DEF Events
<1> QED BY <1>1, <1>2

\* An access is completed.
LEMMA EventAdded ==
    ASSUME TypeOK, NEW w \in Warps, NEW x \in LogEntry, log' = [log EXCEPT ![w] = Append(@, x)],
           FiniteWork
    PROVE  /\ IsFiniteSet(LoadEvents') /\ IsFiniteSet(WriteEvents')
           /\ Cardinality(LoadEvents) \in Nat /\ Cardinality(WriteEvents) \in Nat
           /\ Cardinality(LoadEvents') = Cardinality(LoadEvents) + IF x.op = "LD" THEN 1 ELSE 0
           /\ Cardinality(WriteEvents') = Cardinality(WriteEvents) + IF x.op = "LD" THEN 0 ELSE 1
<1>1. PICK q \in Seq(LogEntry), n \in Nat : q = log[w] /\ n = Len(q)
  BY DEF TypeOK, MSHRTypeOK
<1>2. /\ log'[w] = Append(q, x) /\ \A u \in Warps \ {w} : log'[u] = log[u]
  BY <1>1 DEF TypeOK, MSHRTypeOK
<1>3. /\ DOMAIN q = 1..n /\ DOMAIN Append(q, x) = 1..(n + 1) /\ Append(q, x)[n + 1] = x
      /\ \A i \in 1..n : Append(q, x)[i] = q[i]
  BY <1>1
<1>4. PICK y : y = <<w, n + 1>>
  OBVIOUS
<1>5. y \notin Events
  BY <1>1, <1>3, <1>4, EventShape
<1>6. \A e : e \in Events' <=> e \in Events \/ e = y
  <2> SUFFICES ASSUME NEW e PROVE e \in Events' <=> e \in Events \/ e = y
    OBVIOUS
  <2>1. ASSUME e \in Events' PROVE e \in Events \/ e = y
    <3>0. PICK u \in Warps : \E i \in DOMAIN log'[u] : e = <<u, i>>
      BY <2>1, EventShape
    <3>1. PICK i \in DOMAIN log'[u] : e = <<u, i>>
      BY <3>0
    <3>2. CASE u # w
      BY <1>2, <3>1, <3>2, EventShape
    <3>3. CASE u = w
      <4>1. i \in 1..(n + 1)
        BY <1>2, <1>3, <3>3
      <4>2. i = n + 1 \/ i \in 1..n
        BY <4>1
      <4> QED BY <1>1, <1>3, <1>4, <3>1, <3>3, <4>2, EventShape
    <3> QED BY <3>2, <3>3
  <2>2. ASSUME e \in Events PROVE e \in Events'
    <3>0. PICK u \in Warps : \E i \in DOMAIN log[u] : e = <<u, i>>
      BY <2>2, EventShape
    <3>1. PICK i \in DOMAIN log[u] : e = <<u, i>>
      BY <3>0
    <3>2. i \in DOMAIN log'[u]
      BY <1>1, <1>2, <1>3
    <3> QED BY <3>1, <3>2, EventShape
  <2>3. y \in Events'
    <3>1. n + 1 \in DOMAIN log'[w]
      BY <1>2, <1>3
    <3> QED BY <1>4, <3>1, EventShape
  <2> QED BY <2>1, <2>2, <2>3
<1>7. log'[y[1]][y[2]] = x
  <2>1. y[1] = w /\ y[2] = n + 1
    BY <1>4
  <2> QED BY <1>2, <1>3, <2>1
<1>8. \A e \in Events : log'[e[1]][e[2]] = log[e[1]][e[2]]
  <2> SUFFICES ASSUME NEW e \in Events PROVE log'[e[1]][e[2]] = log[e[1]][e[2]]
    OBVIOUS
  <2>0. PICK u \in Warps : \E i \in DOMAIN log[u] : e = <<u, i>>
    BY EventShape
  <2>1. PICK i \in DOMAIN log[u] : e = <<u, i>>
    BY <2>0
  <2>2. e[1] = u /\ e[2] = i
    BY <2>1
  <2>3. log'[u][i] = log[u][i]
    BY <1>1, <1>2, <1>3
  <2> QED BY <2>2, <2>3
<1>9. /\ LoadEvents' = {e \in Events' : log'[e[1]][e[2]].op = "LD"}
      /\ WriteEvents' = {e \in Events' : log'[e[1]][e[2]].op # "LD"}
      /\ LoadEvents = {e \in Events : log[e[1]][e[2]].op = "LD"}
      /\ WriteEvents = {e \in Events : log[e[1]][e[2]].op # "LD"}
  BY DEF LoadEvents, WriteEvents, At
<1>10. /\ Cardinality(LoadEvents) \in Nat /\ Cardinality(WriteEvents) \in Nat
       /\ y \notin LoadEvents /\ y \notin WriteEvents
  BY <1>5, <1>9, WorkTypes
<1>11. CASE x.op = "LD"
  <2>1. LoadEvents' = LoadEvents \cup {y} /\ WriteEvents' = WriteEvents
    BY <1>6, <1>7, <1>8, <1>9, <1>11
  <2>2. /\ IsFiniteSet(LoadEvents \cup {y})
        /\ Cardinality(LoadEvents \cup {y}) = Cardinality(LoadEvents) + 1
    BY <1>10, FS_AddElement DEF FiniteWork
  <2> QED BY <1>10, <1>11, <2>1, <2>2 DEF FiniteWork
<1>12. CASE x.op # "LD"
  <2>1. WriteEvents' = WriteEvents \cup {y} /\ LoadEvents' = LoadEvents
    BY <1>6, <1>7, <1>8, <1>9, <1>12
  <2>2. /\ IsFiniteSet(WriteEvents \cup {y})
        /\ Cardinality(WriteEvents \cup {y}) = Cardinality(WriteEvents) + 1
    BY <1>10, FS_AddElement DEF FiniteWork
  <2> QED BY <1>10, <1>12, <2>1, <2>2 DEF FiniteWork
<1> QED BY <1>11, <1>12

\* An access that begins is not answered yet; nothing answered is lost.
LEMMA IssueWork ==
    ASSUME TypeOK, FiniteWork, NEW w \in Warps, Issue(w)
    PROVE  FiniteWork' /\ LoadWork <= LoadWork' /\ WriteWork <= WriteWork'
<1> DEFINE c == CoreOf[w]
<1>1. c \in Cores
  BY CoreOfAssumption
<1>2. PICK op \in {"LD", "ST", "ATOMIC"}, a \in Addrs : send_request(w, op, a)
  <2>1. PICK p \in Prog[w][Len(log[w]) + 1] : send_request(w, p[1], p[2])
    BY DEF Issue
  <2>2. Len(log[w]) \in Nat /\ Len(log[w]) < Len(Prog[w])
    BY DEF Issue, TypeOK, MSHRTypeOK
  <2>3. Len(log[w]) + 1 \in 1..Len(Prog[w])
    BY <2>2, ProgAssumption
  <2>4. Prog[w][Len(log[w]) + 1] \in SUBSET ({"LD", "ST", "ATOMIC"} \X Addrs)
    BY <2>3, ProgAssumption
  <2> QED BY <2>1, <2>4
<1>3. mshr' = [mshr EXCEPT ![c][a] = add(@, op, w)] /\ UNCHANGED <<respNet, ready, skipL1, log>>
  BY <1>2 DEF send_request
<1>4. PICK q \in Seq(Warps), n \in Nat : q = mshr[c][a].list /\ n = Len(q)
  BY <1>1 DEF TypeOK, MSHRTypeOK, MSHREntry
<1>5. /\ mshr'[c][a].list = (IF op = "LD" THEN Append(q, w) ELSE q)
      /\ mshr'[c][a].writes = (IF op = "LD" THEN mshr[c][a].writes ELSE mshr[c][a].writes \cup {w})
      /\ \A d \in Cores, x \in Addrs : d # c \/ x # a => mshr'[d][x] = mshr[d][x]
  <2>1. /\ mshr[c][a] \in MSHREntry /\ mshr'[c][a] = add(mshr[c][a], op, w)
        /\ \A d \in Cores, x \in Addrs : d # c \/ x # a => mshr'[d][x] = mshr[d][x]
    BY <1>1, <1>3 DEF TypeOK, MSHRTypeOK
  <2>2. PICK m \in MSHREntry : m = mshr[c][a]
    BY <2>1
  <2>3. /\ add(m, op, w).list = (IF op = "LD" THEN Append(m.list, w) ELSE m.list)
        /\ add(m, op, w).writes = (IF op = "LD" THEN m.writes ELSE m.writes \cup {w})
    BY DEF MSHREntry, add
  <2> QED BY <1>4, <2>1, <2>2, <2>3
<1>6. DOMAIN q = 1..n /\ DOMAIN Append(q, w) = 1..(n + 1)
  BY <1>4
<1>7. LoadsWaiting' \subseteq LoadsWaiting \cup {<<c, a, n + 1>>} /\ LoadsWaiting \subseteq LoadsWaiting'
  <2>1. ASSUME NEW p \in LoadsWaiting' PROVE p \in LoadsWaiting \cup {<<c, a, n + 1>>}
    <3>1. p \in Cores \X Addrs \X (1..MaxMerged) /\ p[3] \in DOMAIN mshr'[p[1]][p[2]].list
      BY DEF LoadsWaiting
    <3>2. p[1] \in Cores /\ p[2] \in Addrs /\ p = <<p[1], p[2], p[3]>>
      BY <3>1
    <3>3. CASE p[1] = c /\ p[2] = a
      <4>0. p[3] \in 1..n \/ p[3] \in 1..(n + 1)
        BY <1>5, <1>6, <3>1, <3>3
      <4>1. p[3] \in 1..n \/ p[3] = n + 1
        BY <4>0
      <4> QED BY <1>4, <1>6, <3>1, <3>2, <3>3, <4>1 DEF LoadsWaiting
    <3>4. CASE ~(p[1] = c /\ p[2] = a)
      BY <1>5, <3>1, <3>2, <3>4 DEF LoadsWaiting
    <3> QED BY <3>3, <3>4
  <2>2. ASSUME NEW p \in LoadsWaiting PROVE p \in LoadsWaiting'
    <3>1. p \in Cores \X Addrs \X (1..MaxMerged) /\ p[3] \in DOMAIN mshr[p[1]][p[2]].list
      BY DEF LoadsWaiting
    <3>2. p[3] \in DOMAIN mshr'[p[1]][p[2]].list
      <4>1. p[1] \in Cores /\ p[2] \in Addrs
        BY <3>1
      <4>2. CASE p[1] = c /\ p[2] = a
        <5>1. p[3] \in 1..n
          BY <1>4, <1>6, <3>1, <4>2
        <5>2. p[3] \in 1..(n + 1)
          BY <5>1
        <5> QED BY <1>5, <1>6, <4>2, <5>1, <5>2
      <4>3. CASE ~(p[1] = c /\ p[2] = a)
        BY <1>5, <3>1, <4>1, <4>3
      <4> QED BY <4>2, <4>3
    <3> QED BY <3>1, <3>2 DEF LoadsWaiting
  <2> QED BY <2>1, <2>2
<1>8. WritesWaiting' \subseteq WritesWaiting \cup {<<c, a, w>>} /\ WritesWaiting \subseteq WritesWaiting'
  <2>1. ASSUME NEW p \in WritesWaiting' PROVE p \in WritesWaiting \cup {<<c, a, w>>}
    <3>1. p \in Cores \X Addrs \X Warps /\ p[3] \in mshr'[p[1]][p[2]].writes
      BY DEF WritesWaiting
    <3>2. p[1] \in Cores /\ p[2] \in Addrs /\ p = <<p[1], p[2], p[3]>>
      BY <3>1
    <3>3. p[3] \in mshr[p[1]][p[2]].writes \/ (p[1] = c /\ p[2] = a /\ p[3] = w)
      BY <1>5, <3>1, <3>2
    <3> QED BY <3>1, <3>2, <3>3 DEF WritesWaiting
  <2>2. ASSUME NEW p \in WritesWaiting PROVE p \in WritesWaiting'
    <3>1. p \in Cores \X Addrs \X Warps /\ p[3] \in mshr[p[1]][p[2]].writes
      BY DEF WritesWaiting
    <3>2. p[3] \in mshr'[p[1]][p[2]].writes
      BY <1>5, <3>1
    <3> QED BY <3>1, <3>2 DEF WritesWaiting
  <2> QED BY <2>1, <2>2
<1>9. \A id \in Ids : Answered(id)' <=> Answered(id)
  BY <1>3, SameStages DEF Answered, Same
<1>10. LoadsAnswered \subseteq LoadsAnswered'
  <2>1. ASSUME NEW p \in LoadsAnswered PROVE p \in LoadsAnswered'
    <3>1. p \in LoadsWaiting /\ p[1] \in Cores /\ p[2] \in Addrs /\ Answered(<<"R", p[1], p[2]>>)
      BY DEF LoadsAnswered, LoadsWaiting
    <3>2. PICK h \in Ids : h = <<"R", p[1], p[2]>>
      BY <3>1, ReadName
    <3> QED BY <1>7, <1>9, <3>1, <3>2 DEF LoadsAnswered
  <2> QED BY <2>1
<1>11. WritesAnswered \subseteq WritesAnswered'
  <2>1. ASSUME NEW p \in WritesAnswered PROVE p \in WritesAnswered'
    <3>1. /\ p \in WritesWaiting /\ p[3] \in Warps /\ p[2] \in Addrs
          /\ CoreOf[p[3]] = p[1] /\ Answered(<<"W", p[3], p[2]>>)
      BY DEF WritesAnswered, WritesWaiting
    <3>2. PICK h \in Ids : h = <<"W", p[3], p[2]>>
      BY <3>1, WriteName
    <3> QED BY <1>8, <1>9, <3>1, <3>2 DEF WritesAnswered
  <2> QED BY <2>1
<1>12. LoadEvents' = LoadEvents /\ WriteEvents' = WriteEvents
  BY <1>3 DEF LoadEvents, WriteEvents, Events, At
<1>13. IsFiniteSet(LoadsWaiting') /\ IsFiniteSet(WritesWaiting')
  BY <1>7, <1>8, CountSwaps DEF FiniteWork
<1>14. /\ FiniteWork' /\ IsFiniteSet(LoadsAnswered') /\ IsFiniteSet(WritesAnswered')
       /\ LoadWork' = Cardinality(LoadEvents) + Cardinality(LoadsAnswered')
       /\ WriteWork' = Cardinality(WriteEvents) + Cardinality(WritesAnswered')
  BY <1>12, <1>13, WorkTypesNext DEF FiniteWork
<1>15. /\ Cardinality(LoadsAnswered) <= Cardinality(LoadsAnswered') /\ Cardinality(LoadsAnswered') \in Nat
       /\ Cardinality(WritesAnswered) <= Cardinality(WritesAnswered') /\ Cardinality(WritesAnswered') \in Nat
  BY <1>10, <1>11, <1>14, CountGrows
<1> QED BY <1>14, <1>15, WorkTypes DEF LoadWork, WriteWork

\* A load that is done moves from its entry to the log.
LEMMA WritebackWork ==
    ASSUME TypeOK, WriteInv, ClockInv, FlightInv, FiniteWork, NEW c \in Cores, Writeback(c)
    PROVE  FiniteWork' /\ LoadWork <= LoadWork' /\ WriteWork <= WriteWork'
<1>1. ready[c] # <<>> /\ ready[c] \in Seq(Addrs)
  BY DEF Writeback, next_access, TypeOK, MSHRTypeOK
<1>2. PICK a \in Addrs : a = Head(ready[c])
  BY <1>1, QueueFacts
<1>3. PICK m \in MSHREntry : m = mshr[c][a]
  BY DEF TypeOK, MSHRTypeOK
<1>4. PICK q \in Seq(Warps), n \in Nat, v \in Nat : q = m.list /\ n = Len(q) /\ q # <<>> /\ v = m.ver
  <2>1. m.list # <<>>
    BY <1>2, <1>3 DEF Writeback, next_access
  <2> QED BY <2>1 DEF MSHREntry
<1>5. PICK w \in Warps : w = Head(q)
  BY <1>4, QueueFacts
<1>6. PICK x \in LogEntry : x = [op |-> "LD", addr |-> a, ver |-> v] /\ x.op = "LD"
  <2>1. [op |-> "LD", addr |-> a, ver |-> v] \in LogEntry
    BY DEF LogEntry
  <2> QED BY <2>1
<1>7. /\ log' = [log EXCEPT ![w] = Append(@, x)]
      /\ mshr' = [mshr EXCEPT ![c][a] = PopRead(@)]
      /\ ready' = [ready EXCEPT ![c] = IF n = 1 THEN Tail(@) ELSE @]
      /\ UNCHANGED <<respNet, skipL1>>
  <2>1. /\ Complete(Head(m.list), "LD", a, m.ver)
        /\ mshr' = [mshr EXCEPT ![c][a] = PopRead(@)]
        /\ ready' = [ready EXCEPT ![c] = PopResponse(c, m)]
        /\ UNCHANGED <<netVars, skipL1>>
    BY <1>2, <1>3 DEF Writeback, next_access
  <2>2. log' = [log EXCEPT ![w] = Append(@, x)]
    BY <1>4, <1>5, <1>6, <2>1 DEF Complete
  <2>3. PopResponse(c, m) = IF n = 1 THEN Tail(ready[c]) ELSE ready[c]
    BY <1>4 DEF PopResponse
  <2> QED BY <2>1, <2>2, <2>3 DEF netVars
<1>8. /\ mshr'[c][a].list = Tail(q) /\ mshr'[c][a].writes = m.writes
      /\ \A d \in Cores, y \in Addrs : d # c \/ y # a => mshr'[d][y] = mshr[d][y]
  <2>1. /\ mshr'[c][a] = PopRead(m)
        /\ \A d \in Cores, y \in Addrs : d # c \/ y # a => mshr'[d][y] = mshr[d][y]
    BY <1>3, <1>7 DEF TypeOK, MSHRTypeOK
  <2>2. PopRead(m).list = Tail(q) /\ PopRead(m).writes = m.writes
    BY <1>4 DEF MSHREntry, PopRead
  <2> QED BY <2>1, <2>2
<1>9. DOMAIN q = 1..n /\ DOMAIN Tail(q) = 1..(n - 1) /\ n >= 1
  BY <1>4, EmptySeq, HeadTailProperties
<1>10. PICK z : z = <<c, a, n>>
  OBVIOUS
<1>11. LoadsWaiting' \subseteq LoadsWaiting /\ \A p \in LoadsWaiting : p \in LoadsWaiting' \/ p = z
  <2>1. ASSUME NEW p \in LoadsWaiting' PROVE p \in LoadsWaiting
    <3>1. p \in Cores \X Addrs \X (1..MaxMerged) /\ p[3] \in DOMAIN mshr'[p[1]][p[2]].list
          /\ p[1] \in Cores /\ p[2] \in Addrs
      BY DEF LoadsWaiting
    <3>2. CASE p[1] = c /\ p[2] = a
      <4>1. p[3] \in 1..n
        BY <1>8, <1>9, <3>1, <3>2
      <4> QED BY <1>3, <1>4, <1>9, <3>1, <3>2, <4>1 DEF LoadsWaiting
    <3>3. CASE ~(p[1] = c /\ p[2] = a)
      BY <1>8, <3>1, <3>3 DEF LoadsWaiting
    <3> QED BY <3>2, <3>3
  <2>2. ASSUME NEW p \in LoadsWaiting PROVE p \in LoadsWaiting' \/ p = z
    <3>1. p \in Cores \X Addrs \X (1..MaxMerged) /\ p[3] \in DOMAIN mshr[p[1]][p[2]].list
          /\ p[1] \in Cores /\ p[2] \in Addrs /\ p = <<p[1], p[2], p[3]>>
      BY DEF LoadsWaiting
    <3>2. CASE p[1] = c /\ p[2] = a
      <4>1. p[3] \in 1..n
        BY <1>3, <1>4, <1>9, <3>1, <3>2
      <4>2. p[3] = n \/ p[3] \in 1..(n - 1)
        BY <4>1
      <4>3. CASE p[3] = n
        BY <1>10, <3>1, <3>2, <4>3
      <4>4. CASE p[3] \in 1..(n - 1)
        <5>1. p[3] \in DOMAIN mshr'[p[1]][p[2]].list
          BY <1>8, <1>9, <3>2, <4>4
        <5> QED BY <3>1, <5>1 DEF LoadsWaiting
      <4> QED BY <4>2, <4>3, <4>4
    <3>3. CASE ~(p[1] = c /\ p[2] = a)
      BY <1>8, <3>1, <3>3 DEF LoadsWaiting
    <3> QED BY <3>2, <3>3
  <2> QED BY <2>1, <2>2
<1>12. WritesWaiting' = WritesWaiting
  <2>1. \A d \in Cores, y \in Addrs : mshr'[d][y].writes = mshr[d][y].writes
    BY <1>3, <1>8
  <2> QED BY <2>1 DEF WritesWaiting
<1>13. PICK h \in Ids : h = <<"R", c, a>>
  BY ReadName
<1>14. \A id \in Ids : Answered(id) => Answered(id)' \/ (id = h /\ n = 1)
  <2>1. Same("resp")
    BY <1>7, SameStages
  <2>2. CASE n # 1
    <3>1. ready' = ready /\ skipL1' = skipL1
      BY <1>7, <2>2 DEF TypeOK, MSHRTypeOK
    <3> QED BY <2>1, <3>1, SameStages DEF Answered, Same
  <2>3. CASE n = 1
    <3>1. ready' = [ready EXCEPT ![c] = Tail(@)] /\ skipL1' = skipL1
      BY <1>7, <2>3
    <3>2. Leaves("back", {h})
      BY <1>1, <1>2, <1>13, <3>1, ReadyPopped DEF FlightInv
    <3> QED BY <2>1, <2>3, <3>2 DEF Answered, Same, Leaves
  <2> QED BY <2>2, <2>3
<1>15. LoadsAnswered \subseteq LoadsAnswered' \cup {z}
  <2>1. ASSUME NEW p \in LoadsAnswered, p # z PROVE p \in LoadsAnswered'
    <3>1. /\ p \in LoadsWaiting /\ p[1] \in Cores /\ p[2] \in Addrs /\ Answered(<<"R", p[1], p[2]>>)
          /\ p[3] \in DOMAIN mshr[p[1]][p[2]].list /\ p = <<p[1], p[2], p[3]>>
      BY DEF LoadsAnswered, LoadsWaiting
    <3>2. PICK k \in Ids : k = <<"R", p[1], p[2]>>
      BY <3>1, ReadName
    <3>3. ~(k = h /\ n = 1)
      <4>1. ASSUME k = h, n = 1 PROVE FALSE
        <5>1. p[1] = c /\ p[2] = a
          BY <1>13, <3>2, <4>1
        <5>2. p[3] \in 1..n
          BY <1>3, <1>4, <1>9, <3>1, <5>1
        <5>3. p[3] = n
          BY <4>1, <5>2
        <5> QED BY <1>10, <2>1, <3>1, <5>1, <5>3
      <4> QED BY <4>1
    <3>4. Answered(k)'
      BY <1>14, <3>1, <3>2, <3>3
    <3> QED BY <1>11, <2>1, <3>1, <3>2, <3>4 DEF LoadsAnswered
  <2> QED BY <2>1
<1>16. WritesAnswered \subseteq WritesAnswered'
  <2>1. ASSUME NEW p \in WritesAnswered PROVE p \in WritesAnswered'
    <3>1. /\ p \in WritesWaiting /\ p[3] \in Warps /\ p[2] \in Addrs
          /\ CoreOf[p[3]] = p[1] /\ Answered(<<"W", p[3], p[2]>>)
      BY DEF WritesAnswered, WritesWaiting
    <3>2. PICK k \in Ids : k = <<"W", p[3], p[2]>>
      BY <3>1, WriteName
    <3>3. k # h
      BY <1>13, <3>2
    <3>4. Answered(k)'
      BY <1>14, <3>1, <3>2, <3>3
    <3> QED BY <1>12, <3>1, <3>2, <3>4 DEF WritesAnswered
  <2> QED BY <2>1
<1>17. /\ IsFiniteSet(LoadEvents') /\ IsFiniteSet(WriteEvents')
       /\ Cardinality(LoadEvents') = Cardinality(LoadEvents) + 1
       /\ Cardinality(WriteEvents') = Cardinality(WriteEvents)
  <2>1. Cardinality(LoadEvents) \in Nat /\ Cardinality(WriteEvents) \in Nat
    BY WorkTypes
  <2>2. /\ IsFiniteSet(LoadEvents') /\ IsFiniteSet(WriteEvents')
        /\ Cardinality(LoadEvents') = Cardinality(LoadEvents) + IF x.op = "LD" THEN 1 ELSE 0
        /\ Cardinality(WriteEvents') = Cardinality(WriteEvents) + IF x.op = "LD" THEN 0 ELSE 1
    BY <1>7, EventAdded
  <2> QED BY <1>6, <2>1, <2>2
<1>18. IsFiniteSet(LoadsWaiting') /\ IsFiniteSet(WritesWaiting')
  BY <1>11, <1>12, CountGrows DEF FiniteWork
<1>19. /\ FiniteWork' /\ IsFiniteSet(LoadsAnswered') /\ IsFiniteSet(WritesAnswered')
       /\ LoadWork' = Cardinality(LoadEvents') + Cardinality(LoadsAnswered')
       /\ WriteWork' = Cardinality(WriteEvents') + Cardinality(WritesAnswered')
  BY <1>17, <1>18, WorkTypesNext
<1>20. /\ Cardinality(LoadsAnswered) <= Cardinality(LoadsAnswered') + 1 /\ Cardinality(LoadsAnswered') \in Nat
       /\ Cardinality(WritesAnswered) <= Cardinality(WritesAnswered') /\ Cardinality(WritesAnswered') \in Nat
  BY <1>15, <1>16, <1>19, CountGrows, CountSwaps
<1> QED BY <1>17, <1>19, <1>20, WorkTypes DEF LoadWork, WriteWork

\* A write that is done moves from its entry to the log.
LEMMA WriteAckWork ==
    ASSUME TypeOK, WriteInv, ClockInv, FlightInv, FiniteWork, NEW c \in Cores, WriteAck(c)
    PROVE  FiniteWork' /\ LoadWork <= LoadWork' /\ WriteWork <= WriteWork'
<1>1. skipL1[c] # <<>> /\ skipL1[c] \in Seq(SkipL1Request)
  BY DEF WriteAck, mark_skipped_write_done, TypeOK, MSHRTypeOK
<1>2. PICK k \in SkipL1Request : k = Head(skipL1[c]) /\ CoreOf[k.warp] = c
  BY <1>1, QueueFacts DEF ClockInv, SkipOK
<1>3. PICK a \in Addrs, w \in Warps, op \in {"ST", "ATOMIC"}, v \in Nat :
         a = k.addr /\ w = k.warp /\ CoreOf[w] = c /\ op = k.op /\ v = k.ver
  BY <1>2 DEF SkipL1Request
<1>4. PICK h \in Ids : h = <<"W", w, a>>
  BY WriteName
<1>5. SkipId[k] = h
  BY <1>2, <1>3, <1>4 DEF SkipId
<1>6. PICK x \in LogEntry : x = [op |-> op, addr |-> a, ver |-> v] /\ x.op # "LD"
  <2>1. [op |-> op, addr |-> a, ver |-> v] \in LogEntry
    BY DEF LogEntry
  <2> QED BY <2>1
<1>7. /\ log' = [log EXCEPT ![w] = Append(@, x)]
      /\ mshr' = [mshr EXCEPT ![c][a] = PopWrite(@, w)]
      /\ skipL1' = [skipL1 EXCEPT ![c] = Tail(@)]
      /\ UNCHANGED <<respNet, ready>>
  BY <1>2, <1>3, <1>6 DEF WriteAck, mark_skipped_write_done, Complete, netVars
<1>8. /\ mshr'[c][a].list = mshr[c][a].list /\ mshr'[c][a].writes = mshr[c][a].writes \ {w}
      /\ \A d \in Cores, y \in Addrs : d # c \/ y # a => mshr'[d][y] = mshr[d][y]
  <2>1. PICK m \in MSHREntry : m = mshr[c][a]
    BY DEF TypeOK, MSHRTypeOK
  <2>2. /\ mshr'[c][a] = PopWrite(m, w)
        /\ \A d \in Cores, y \in Addrs : d # c \/ y # a => mshr'[d][y] = mshr[d][y]
    BY <1>7, <2>1 DEF TypeOK, MSHRTypeOK
  <2>3. PopWrite(m, w).list = m.list /\ PopWrite(m, w).writes = m.writes \ {w}
    BY DEF MSHREntry, PopWrite
  <2> QED BY <2>1, <2>2, <2>3
<1>9. LoadsWaiting' = LoadsWaiting
  <2>1. \A d \in Cores, y \in Addrs : mshr'[d][y].list = mshr[d][y].list
    BY <1>8
  <2> QED BY <2>1 DEF LoadsWaiting
<1>10. PICK z : z = <<c, a, w>>
  OBVIOUS
<1>11. WritesWaiting' \subseteq WritesWaiting /\ \A p \in WritesWaiting : p \in WritesWaiting' \/ p = z
  <2>1. ASSUME NEW p \in WritesWaiting' PROVE p \in WritesWaiting
    <3>1. p \in Cores \X Addrs \X Warps /\ p[3] \in mshr'[p[1]][p[2]].writes
      BY DEF WritesWaiting
    <3>2. p[3] \in mshr[p[1]][p[2]].writes
      BY <1>8, <3>1
    <3> QED BY <3>1, <3>2 DEF WritesWaiting
  <2>2. ASSUME NEW p \in WritesWaiting PROVE p \in WritesWaiting' \/ p = z
    <3>1. p \in Cores \X Addrs \X Warps /\ p[3] \in mshr[p[1]][p[2]].writes /\ p = <<p[1], p[2], p[3]>>
      BY DEF WritesWaiting
    <3>2. p[3] \in mshr'[p[1]][p[2]].writes \/ (p[1] = c /\ p[2] = a /\ p[3] = w)
      BY <1>8, <3>1
    <3> QED BY <1>10, <3>1, <3>2 DEF WritesWaiting
  <2> QED BY <2>1, <2>2
<1>12. \A id \in Ids : Answered(id) => Answered(id)' \/ id = h
  <2>1. Same("resp")
    BY <1>7, SameStages
  <2>2. Leaves("back", {h})
    BY <1>1, <1>2, <1>5, <1>7, SkipPopped DEF FlightInv
  <2> QED BY <2>1, <2>2 DEF Answered, Same, Leaves
<1>13. LoadsAnswered \subseteq LoadsAnswered'
  <2>1. ASSUME NEW p \in LoadsAnswered PROVE p \in LoadsAnswered'
    <3>1. p \in LoadsWaiting /\ p[1] \in Cores /\ p[2] \in Addrs /\ Answered(<<"R", p[1], p[2]>>)
      BY DEF LoadsAnswered, LoadsWaiting
    <3>2. PICK j \in Ids : j = <<"R", p[1], p[2]>>
      BY <3>1, ReadName
    <3>3. j # h
      BY <1>4, <3>2
    <3>4. Answered(j)'
      BY <1>12, <3>1, <3>2, <3>3
    <3> QED BY <1>9, <3>1, <3>2, <3>4 DEF LoadsAnswered
  <2> QED BY <2>1
<1>14. WritesAnswered \subseteq WritesAnswered' \cup {z}
  <2>1. ASSUME NEW p \in WritesAnswered, p # z PROVE p \in WritesAnswered'
    <3>1. /\ p \in WritesWaiting /\ p[3] \in Warps /\ p[2] \in Addrs /\ p = <<p[1], p[2], p[3]>>
          /\ CoreOf[p[3]] = p[1] /\ Answered(<<"W", p[3], p[2]>>)
      BY DEF WritesAnswered, WritesWaiting
    <3>2. PICK j \in Ids : j = <<"W", p[3], p[2]>>
      BY <3>1, WriteName
    <3>3. j # h
      <4>1. ASSUME j = h PROVE FALSE
        <5>1. p[3] = w /\ p[2] = a /\ p[1] = c
          BY <1>3, <1>4, <3>1, <3>2, <4>1
        <5> QED BY <1>10, <2>1, <3>1, <5>1
      <4> QED BY <4>1
    <3>4. Answered(j)'
      BY <1>12, <3>1, <3>2, <3>3
    <3> QED BY <1>11, <2>1, <3>1, <3>2, <3>4 DEF WritesAnswered
  <2> QED BY <2>1
<1>15. /\ IsFiniteSet(LoadEvents') /\ IsFiniteSet(WriteEvents')
       /\ Cardinality(LoadEvents') = Cardinality(LoadEvents)
       /\ Cardinality(WriteEvents') = Cardinality(WriteEvents) + 1
  <2>1. Cardinality(LoadEvents) \in Nat /\ Cardinality(WriteEvents) \in Nat
    BY WorkTypes
  <2>2. /\ IsFiniteSet(LoadEvents') /\ IsFiniteSet(WriteEvents')
        /\ Cardinality(LoadEvents') = Cardinality(LoadEvents) + IF x.op = "LD" THEN 1 ELSE 0
        /\ Cardinality(WriteEvents') = Cardinality(WriteEvents) + IF x.op = "LD" THEN 0 ELSE 1
    BY <1>7, EventAdded
  <2> QED BY <1>6, <2>1, <2>2
<1>16. IsFiniteSet(LoadsWaiting') /\ IsFiniteSet(WritesWaiting')
  BY <1>9, <1>11, CountGrows DEF FiniteWork
<1>17. /\ FiniteWork' /\ IsFiniteSet(LoadsAnswered') /\ IsFiniteSet(WritesAnswered')
       /\ LoadWork' = Cardinality(LoadEvents') + Cardinality(LoadsAnswered')
       /\ WriteWork' = Cardinality(WriteEvents') + Cardinality(WritesAnswered')
  BY <1>15, <1>16, WorkTypesNext
<1>18. /\ Cardinality(LoadsAnswered) <= Cardinality(LoadsAnswered') /\ Cardinality(LoadsAnswered') \in Nat
       /\ Cardinality(WritesAnswered) <= Cardinality(WritesAnswered') + 1 /\ Cardinality(WritesAnswered') \in Nat
  BY <1>13, <1>14, <1>17, CountGrows, CountSwaps
<1> QED BY <1>15, <1>17, <1>18, WorkTypes DEF LoadWork, WriteWork

\* A request that has its time keeps it on its way back.
LEMMA AnswersKept ==
    ASSUME Single, NEW X, NEW p \in Stages, NEW q \in Stages, Moved(X, p, q),
           q \in {"resp", "back"} \/ p \notin {"resp", "back"}
    PROVE  /\ \A id \in Ids : Answered(id) => Answered(id)'
           /\ p \notin {"resp", "back"} /\ q \in {"resp", "back"} =>
                 \A id \in X : id \in Ids /\ ~Answered(id) /\ Answered(id)'
<1>1. ASSUME NEW id \in Ids, id \in X, q \in {"resp", "back"} PROVE Answered(id)'
  <2>1. Held(id, q)'
    BY <1>1 DEF Moved
  <2> QED BY <1>1, <2>1 DEF Answered
<1>2. ASSUME NEW id \in Ids, id \in X, p \notin {"resp", "back"} PROVE ~Answered(id)
  <2>1. Held(id, p)
    BY <1>2 DEF Moved
  <2>2. ~Held(id, "resp") /\ ~Held(id, "back")
    BY <1>2, <2>1, StageNames DEF Single
  <2> QED BY <2>2 DEF Answered
<1>3. ASSUME NEW id \in Ids, id \notin X, Answered(id) PROVE Answered(id)'
  <2>1. /\ Held(id, "resp") => Held(id, "resp")'
        /\ Held(id, "back") => Held(id, "back")'
    BY <1>3, StageNames DEF Moved
  <2> QED BY <1>3, <2>1 DEF Answered
<1>4. X \subseteq Ids
  BY DEF Moved
<1>5. \A id \in Ids : Answered(id) => Answered(id)'
  BY <1>1, <1>2, <1>3
<1> QED BY <1>1, <1>2, <1>4, <1>5

\* A step that only moves requests on takes no work back.
LEMMA MovesWork ==
    ASSUME FiniteWork, FlightInv, UNCHANGED log,
           \A c \in Cores, a \in Addrs : /\ mshr'[c][a].list = mshr[c][a].list
                                         /\ mshr'[c][a].writes = mshr[c][a].writes,
           NEW X, NEW p \in Stages, NEW q \in Stages, Moved(X, p, q),
           q \in {"resp", "back"} \/ p \notin {"resp", "back"}
    PROVE  FiniteWork' /\ LoadWork <= LoadWork' /\ WriteWork <= WriteWork'
<1>1. \A id \in Ids : Answered(id) => Answered(id)'
  BY AnswersKept DEF FlightInv
<1> QED BY <1>1, WorkKept DEF FlightInv

\* An answer to a read is a load more, an answer to a write a write more.
LEMMA AnswersWork ==
    ASSUME TypeOK, FiniteWork, FlightInv, UNCHANGED <<log, mshr>>,
           NEW X, NEW p \in Stages, NEW q \in Stages, Moved(X, p, q),
           p \notin {"resp", "back"}, q \in {"resp", "back"}, NEW id \in X
    PROVE  /\ FiniteWork' /\ LoadWork <= LoadWork' /\ WriteWork <= WriteWork'
           /\ id[1] = "R" => LoadWork + 1 <= LoadWork'
           /\ id[1] = "W" => WriteWork + 1 <= WriteWork'
<1>1. /\ id \in Ids /\ ~Answered(id) /\ Answered(id)'
      /\ \A i \in Ids : Answered(i) => Answered(i)'
  BY AnswersKept DEF FlightInv
<1>2. Wanted(id)
  <2>1. Held(id, p)
    BY DEF Moved
  <2> QED BY <1>1, <2>1 DEF FlightInv, Awaited
<1>3. /\ FiniteWork' /\ LoadWork <= LoadWork' /\ WriteWork <= WriteWork'
      /\ \A c \in Cores, a \in Addrs :
            /\ mshr[c][a].list # <<>> /\ mshr[c][a].list \in Seq(Warps)
            /\ ~Answered(<<"R", c, a>>) /\ Answered(<<"R", c, a>>)'
            => LoadWork + 1 <= LoadWork'
      /\ \A w \in Warps, a \in Addrs :
            Writes(w, a) /\ ~Answered(<<"W", w, a>>) /\ Answered(<<"W", w, a>>)'
            => WriteWork + 1 <= WriteWork'
  BY <1>1, WorkKept DEF FlightInv
<1>4. ASSUME id[1] = "R" PROVE LoadWork + 1 <= LoadWork'
  <2>1. PICK c \in Cores, a \in Addrs : id = <<"R", c, a>>
    BY <1>1, <1>4, IdShape
  <2>2. mshr[c][a].list # <<>>
    BY <1>2, <2>1 DEF Wanted
  <2>3. mshr[c][a].list \in Seq(Warps)
    <3>1. mshr[c][a] \in MSHREntry
      BY DEF TypeOK, MSHRTypeOK
    <3> QED BY <3>1 DEF MSHREntry
  <2>4. ~Answered(<<"R", c, a>>) /\ Answered(<<"R", c, a>>)'
    BY <1>1, <2>1
  <2> QED BY <1>3, <2>2, <2>3, <2>4
<1>5. ASSUME id[1] = "W" PROVE WriteWork + 1 <= WriteWork'
  <2>1. PICK w \in Warps, a \in Addrs : id = <<"W", w, a>>
    BY <1>1, <1>5, IdShape
  <2>2. Writes(w, a)
    BY <1>2, <2>1 DEF Wanted
  <2>3. ~Answered(<<"W", w, a>>) /\ Answered(<<"W", w, a>>)'
    BY <1>1, <2>1
  <2> QED BY <1>3, <2>2, <2>3
<1> QED BY <1>3, <1>4, <1>5

\* A step that moves no request on.
LEMMA StillWork ==
    ASSUME FiniteWork, FlightInv, UNCHANGED <<log, mshr>>, \A s \in Stages : Same(s)
    PROVE  FiniteWork' /\ LoadWork <= LoadWork' /\ WriteWork <= WriteWork'
<1>1. \A id \in Ids : Answered(id) => Answered(id)'
  <2>1. Same("resp") /\ Same("back")
    BY StageNames
  <2> QED BY <2>1 DEF Same, Answered
<1> QED BY <1>1, WorkKept DEF FlightInv

\* Work in logical time.
LEMMA Times ==
    ASSUME NEW k \in Nat, NEW m \in Nat, NEW n \in Nat, m <= n
    PROVE  /\ k * m \in Nat /\ k * n \in Nat /\ k * m <= k * n
           /\ m + 1 <= n => k * m + k <= k * n
<1>1. PICK d \in Nat : n = m + d
  <2>1. n - m \in Nat /\ n = m + (n - m)
    OBVIOUS
  <2> QED BY <2>1
<1>2. k * n = k * m + k * d
  BY <1>1
<1>3. k * m \in Nat /\ k * d \in Nat
  OBVIOUS
<1>4. k * m <= k * n /\ k * n \in Nat
  BY <1>2, <1>3
<1>5. ASSUME m + 1 <= n PROVE k * m + k <= k * n
  <2>1. PICK e \in Nat : d = e + 1
    <3>1. d - 1 \in Nat /\ d = (d - 1) + 1
      BY <1>1, <1>5
    <3> QED BY <3>1
  <2>2. k * d = k * e + k
    BY <2>1
  <2>3. k * e \in Nat
    OBVIOUS
  <2> QED BY <1>2, <1>3, <2>2, <2>3
<1> QED BY <1>3, <1>4, <1>5

\* The bound grows with the work.
LEMMA WorkTime ==
    ASSUME FiniteWork, FiniteWork', LoadWork <= LoadWork', WriteWork <= WriteWork'
    PROVE  \E t, u \in Nat :
              /\ t = Lease * LoadWork + WriteWork
              /\ u = Lease * LoadWork' + WriteWork'
              /\ t <= u
              /\ LoadWork + 1 <= LoadWork' => t + Lease <= u
              /\ WriteWork + 1 <= WriteWork' => t + 1 <= u
<1>1. PICK i \in Nat, j \in Nat : i = LoadWork /\ j = WriteWork
  BY WorkTypes
<1>2. PICK m \in Nat, n \in Nat : m = LoadWork' /\ n = WriteWork'
  <2>1. LoadWork' \in Nat /\ WriteWork' \in Nat
    <3>1. /\ IsFiniteSet(LoadEvents') /\ IsFiniteSet(LoadsWaiting')
          /\ IsFiniteSet(WriteEvents') /\ IsFiniteSet(WritesWaiting')
      BY DEF FiniteWork
    <3> QED BY <3>1, WorkTypesNext
  <2> QED BY <2>1
<1>3. i <= m /\ j <= n
  BY <1>1, <1>2
<1>4. PICK x \in Nat, y \in Nat : /\ x = Lease * i /\ y = Lease * m /\ x <= y
                                  /\ i + 1 <= m => x + Lease <= y
  BY <1>3, LeaseAssumption, Times
<1>5. /\ x + j \in Nat /\ y + n \in Nat /\ x + j <= y + n
      /\ i + 1 <= m => (x + j) + Lease <= y + n
      /\ j + 1 <= n => (x + j) + 1 <= y + n
  BY <1>3, <1>4, LeaseAssumption
<1>6. x + j = Lease * LoadWork + WriteWork /\ y + n = Lease * LoadWork' + WriteWork'
  BY <1>1, <1>2, <1>4
<1> QED BY <1>1, <1>2, <1>5, <1>6

\* The next state is bounded by the work there.
LEMMA GrowthNext ==
    ASSUME FiniteWork', NEW u \in Nat, u = Lease * LoadWork' + WriteWork', AtMost(u)'
    PROVE  GrowthInv'
<1>1. FiniteWork'
  OBVIOUS
<1>2. AtMost(Lease * LoadWork + WriteWork)'
  BY DEF AtMost, ClockAtMost, RequestsAtMost, ResponsesAtMost, BanksAtMost, LineAtMost
<1> QED BY <1>1, <1>2 DEF GrowthInv

\* A step's bound before it, and the one that is enough after it.
LEMMA GrowthBounds ==
    ASSUME TypeOK, GrowthInv, FiniteWork', LoadWork <= LoadWork', WriteWork <= WriteWork'
    PROVE  \E t, u \in Nat :
              /\ t <= u /\ AtMost(t) /\ AtMost(u)
              /\ u = Lease * LoadWork' + WriteWork'
              /\ LoadWork + 1 <= LoadWork' => t + Lease <= u
              /\ WriteWork + 1 <= WriteWork' => t + 1 <= u
<1>1. FiniteWork /\ AtMost(Lease * LoadWork + WriteWork)
  BY DEF GrowthInv
<1>2. PICK t \in Nat, u \in Nat :
         /\ t = Lease * LoadWork + WriteWork
         /\ u = Lease * LoadWork' + WriteWork'
         /\ t <= u
         /\ LoadWork + 1 <= LoadWork' => t + Lease <= u
         /\ WriteWork + 1 <= WriteWork' => t + 1 <= u
  BY <1>1, WorkTime
<1>3. AtMost(t)
  BY <1>1, <1>2
<1>4. AtMost(u)
  BY <1>2, <1>3, LaterBound
<1> QED BY <1>2, <1>3, <1>4

\* An L1 moves requests to the network or answers back to its core.
LEMMA L1Work ==
    ASSUME TypeOK, WriteInv, ClockInv, FlightInv, FiniteWork, NEW c \in Cores, L1Step(c)
    PROVE  FiniteWork' /\ LoadWork <= LoadWork' /\ WriteWork <= WriteWork'
<1>1. UNCHANGED l2Vars
  BY DEF L1Step
<1>2. ASSUME NEW a \in Addrs, NEW v, readCallback(c, a, v)
      PROVE  log' = log /\ \A d \in Cores, x \in Addrs :
                /\ mshr'[d][x].list = mshr[d][x].list
                /\ mshr'[d][x].writes = mshr[d][x].writes
  BY <1>2 DEF readCallback, TypeOK, MSHRTypeOK, MSHREntry
<1>3. CASE LoadHit(c)
  <2>1. PICK r \in CacheMsg : r = Head(mandQ[c]) /\ r.addr \in Addrs
    BY <1>3, MandatoryHead DEF LoadHit
  <2>2. readCallback(c, r.addr, line[c][r.addr].ver)
    BY <1>3, <2>1 DEF LoadHit
  <2>3. Moved({CacheId[Head(mandQ[c])]}, "mand", "back")
    BY <1>1, <1>3, LoadHitMoves DEF FlightInv
  <2> QED BY <1>2, <2>1, <2>2, <2>3, StageNames, MovesWork
<1>4. CASE LoadMiss(c) \/ WriteThrough(c)
  <2>1. UNCHANGED <<log, mshr>>
    <3>1. UNCHANGED coreVars
      BY <1>4, Zenon DEF LoadMiss, WriteThrough
    <3> QED BY <3>1 DEF coreVars
  <2>2. Moved({CacheId[Head(mandQ[c])]}, "mand", "req")
    BY <1>1, <1>4, L1RequestMoves DEF FlightInv
  <2> QED BY <2>1, <2>2, StageNames, MovesWork
<1>5. ASSUME NEW b \in Banks, Data(c, b)
      PROVE  FiniteWork' /\ LoadWork <= LoadWork' /\ WriteWork <= WriteWork'
  <2>1. respNet[b][c] # <<>> /\ readCallback(c, Head(respNet[b][c]).addr, Head(respNet[b][c]).ver)
    BY ZenonT(40), <1>5 DEF Data
  <2>2. Head(respNet[b][c]).addr \in Addrs
    BY <2>1, ResponseHead
  <2>3. Moved({<<"R", c, Head(respNet[b][c]).addr>>}, "resp", "back")
    BY <1>1, <1>5, DataMoves DEF FlightInv
  <2> QED BY <1>2, <2>1, <2>2, <2>3, StageNames, MovesWork
<1>6. ASSUME NEW b \in Banks, WriteDone(c, b)
      PROVE  FiniteWork' /\ LoadWork <= LoadWork' /\ WriteWork <= WriteWork'
  <2>1. UNCHANGED <<log, mshr>>
    <3>1. \E w, op, a, v : writeCallback(c, w, op, a, v)
      BY ZenonT(40), <1>6 DEF WriteDone
    <3> QED BY <3>1 DEF writeCallback
  <2>2. Moved({<<"W", Head(respNet[b][c]).warp, Head(respNet[b][c]).addr>>}, "resp", "back")
    BY <1>1, <1>6, WriteDoneMoves DEF FlightInv
  <2> QED BY <2>1, <2>2, StageNames, MovesWork
<1>7. ASSUME NEW v \in Addrs, L1_Replacement(c, v)
      PROVE  FiniteWork' /\ LoadWork <= LoadWork' /\ WriteWork <= WriteWork'
  <2>1. UNCHANGED <<netVars, coreVars, l2st, l2tbe>>
    BY <1>1, <1>7 DEF L1_Replacement, l2Vars
  <2>2. \A s \in Stages : Same(s)
    BY <2>1, SameStages DEF netVars, coreVars, Stages, BeyondL1
  <2>3. UNCHANGED <<log, mshr>>
    BY <2>1 DEF coreVars
  <2> QED BY <2>2, <2>3, StillWork
<1> QED BY <1>3, <1>4, <1>5, <1>6, <1>7 DEF L1Step, L1Next

\* A bank that answers at once.
LEMMA HitWork ==
    ASSUME TypeOK, WriteInv, ClockInv, FlightInv, FiniteWork, NEW b \in Banks,
           GetsHit(b) \/ WriteHit(b, "DATA") \/ WriteHit(b, "DATA_ATOMIC"),
           UNCHANGED <<coreVars, l1Vars>>
    PROVE  /\ FiniteWork' /\ LoadWork <= LoadWork' /\ WriteWork <= WriteWork'
           /\ GetsHit(b) => LoadWork + 1 <= LoadWork'
           /\ ~GetsHit(b) => WriteWork + 1 <= WriteWork'
<1>1. PICK r \in RequestMsg : r = Head(l2in[b]) /\ r.addr \in Addrs /\ r.warp \in Warps
  BY RequestHead DEF GetsHit, WriteHit, Request
<1>2. l2in[b] # <<>> /\ PopRequest(b)
  BY DEF GetsHit, WriteHit, Request
<1>3. PICK X : Moved(X, "l2in", "resp")
  BY HitMoves DEF FlightInv
<1>4. PICK h \in Ids : h = RequestId[r] /\ h = Id(r.type = "GETS", r.warp, r.addr)
  BY MessageIds
<1>5. h \in X
  <2>1. Leaves("l2in", {h})
    BY <1>1, <1>2, <1>4, L2inPopped DEF FlightInv
  <2>2. Held(h, "l2in") /\ ~Held(h, "l2in")'
    BY <2>1 DEF Leaves
  <2> QED BY <1>3, <2>2, StageNames DEF Moved
<1>6. UNCHANGED <<log, mshr>>
  BY DEF coreVars
<1>7. /\ FiniteWork' /\ LoadWork <= LoadWork' /\ WriteWork <= WriteWork'
      /\ h[1] = "R" => LoadWork + 1 <= LoadWork'
      /\ h[1] = "W" => WriteWork + 1 <= WriteWork'
  BY <1>3, <1>5, <1>6, StageNames, AnswersWork
<1>8. GetsHit(b) => h[1] = "R"
  BY <1>1, <1>4 DEF GetsHit, Request, Id
<1>9. ~GetsHit(b) => h[1] = "W"
  <2>1. ~GetsHit(b) => r.type # "GETS"
    BY <1>1 DEF WriteHit, Request
  <2> QED BY <1>4, <2>1 DEF Id
<1> QED BY <1>7, <1>8, <1>9

\* A bank that waits for memory, answers an overwrite or evicts a line.
LEMMA L2Work ==
    ASSUME TypeOK, WriteInv, ClockInv, FlightInv, FiniteWork, NEW b \in Banks,
           \/ GetsMiss(b) \/ AtomicMiss(b) \/ WriteMiss(b)
           \/ \E v \in Addrs : L2_Replacement(b, v),
           UNCHANGED <<coreVars, l1Vars>>
    PROVE  FiniteWork' /\ LoadWork <= LoadWork' /\ WriteWork <= WriteWork'
<1>1. UNCHANGED <<log, mshr>>
  BY DEF coreVars
<1>2. CASE GetsMiss(b) \/ AtomicMiss(b)
  <2>1. PICK X : Moved(X, "l2in", "tbe")
    BY <1>2, MissMoves DEF FlightInv
  <2> QED BY <1>1, <2>1, StageNames, MovesWork
<1>3. CASE WriteMiss(b)
  <2>1. PICK X : Moved(X, "l2in", "resp")
    BY <1>3, WriteMissMoves DEF FlightInv
  <2> QED BY <1>1, <2>1, StageNames, MovesWork
<1>4. ASSUME NEW v \in Addrs, L2_Replacement(b, v)
      PROVE  FiniteWork' /\ LoadWork <= LoadWork' /\ WriteWork <= WriteWork'
  <2>1. /\ UNCHANGED <<netVars, l2tbe>> /\ l2st[v] = "V" /\ l2st' = [l2st EXCEPT ![v] = "NP"]
    BY <1>4 DEF L2_Replacement
  <2>2. UNCHANGED <<respNet, ready, skipL1>>
    BY <2>1 DEF netVars, coreVars
  <2>3. \A id \in Ids : Answered(id) => Answered(id)'
    BY <2>2, SameStages DEF Same, Answered
  <2> QED BY <1>1, <2>3, WorkKept DEF FlightInv
<1> QED BY <1>2, <1>3, <1>4

\* A fetch that is back answers the reads that waited for it.
LEMMA FillWork ==
    ASSUME TypeOK, TypeOK', WriteInv, ClockInv, FlightInv, FiniteWork, NEW a \in Addrs, Dram(a)
    PROVE  /\ FiniteWork' /\ LoadWork <= LoadWork' /\ WriteWork <= WriteWork'
           /\ l2tbe[a].gets # {} => LoadWork + 1 <= LoadWork'
<1>1. UNCHANGED <<coreVars, l1Vars>> /\ (MemData(a) \/ MemDataAtomic(a))
  BY DEF Dram
<1>2. Moved(InTBE(a), "tbe", "resp")
  BY <1>1, FetchMoves DEF FlightInv
<1>3. UNCHANGED <<log, mshr>>
  BY <1>1 DEF coreVars
<1>4. FiniteWork' /\ LoadWork <= LoadWork' /\ WriteWork <= WriteWork'
  BY <1>2, <1>3, StageNames, MovesWork
<1>5. ASSUME l2tbe[a].gets # {} PROVE LoadWork + 1 <= LoadWork'
  <2>1. PICK w \in l2tbe[a].gets : TRUE
    BY <1>5
  <2>2. PICK id \in InTBE(a) : id = <<"R", CoreOf[w], a>>
    BY <2>1 DEF InTBE, Id
  <2>3. id[1] = "R"
    BY <2>2
  <2> QED BY <1>2, <1>3, <2>3, StageNames, AnswersWork
<1> QED BY <1>4, <1>5

\* No time has passed at the start, and no work has been done.
LEMMA InitGrowth == Init => GrowthInv
<1> SUFFICES ASSUME Init PROVE GrowthInv
  OBVIOUS
<1>1. TypeOK
  BY InitTypes
<1>2. LoadEvents = {} /\ WriteEvents = {}
  <2>1. \A w \in Warps : DOMAIN log[w] = {}
    BY DEF Init, MSHRInit
  <2>2. Events = {}
    BY <2>1 DEF Events
  <2> QED BY <2>2 DEF LoadEvents, WriteEvents
<1>3. \A c \in Cores, a \in Addrs : mshr[c][a].list = <<>> /\ mshr[c][a].writes = {}
  BY DEF Init, MSHRInit, NoMSHR
<1>4. LoadsWaiting = {}
  <2>1. \A p \in Cores \X Addrs \X (1..MaxMerged) : mshr[p[1]][p[2]].list = <<>>
    BY <1>3
  <2>2. \A p \in Cores \X Addrs \X (1..MaxMerged) : p[3] \notin DOMAIN mshr[p[1]][p[2]].list
    BY <2>1
  <2> QED BY <2>2 DEF LoadsWaiting
<1>5. WritesWaiting = {}
  BY <1>3 DEF WritesWaiting
<1>6. FiniteWork
  BY <1>2, <1>4, <1>5, FS_EmptySet DEF FiniteWork
<1>7. AtMost(0)
  <2>1. ClockAtMost(0)
    BY DEF Init, L1Init, ClockAtMost
  <2>2. RequestsAtMost(0) /\ ResponsesAtMost(0)
    BY DEF Init, NetInit, RequestsAtMost, ResponsesAtMost
  <2>3. BanksAtMost(0)
    BY LeaseAssumption DEF Init, L2Init, BanksAtMost, LineAtMost, NoEntry, NoL2TBE
  <2> QED BY <2>1, <2>2, <2>3 DEF AtMost
<1>8. PICK n \in Nat : n = Lease * LoadWork + WriteWork
  <2>1. LoadWork \in Nat /\ WriteWork \in Nat
    BY <1>6, WorkTypes
  <2>2. Lease * LoadWork \in Nat
    BY <2>1, LeaseAssumption, Times
  <2> QED BY <2>1, <2>2
<1>9. AtMost(n)
  BY <1>1, <1>7, <1>8, LaterBound
<1> QED BY <1>6, <1>8, <1>9 DEF GrowthInv

\* Every step is paid for by the work it does.
LEMMA NextGrowth ==
    TypeOK /\ WriteInv /\ ClockInv /\ FlightInv /\ GrowthInv /\ [Next]_vars => GrowthInv'
<1> SUFFICES ASSUME TypeOK, WriteInv, ClockInv, FlightInv, GrowthInv, [Next]_vars PROVE GrowthInv'
  OBVIOUS
<1>1. TypeOK'
  BY NextTypes
<1>2. FiniteWork
  BY DEF GrowthInv
<1>3. ASSUME FiniteWork', LoadWork <= LoadWork', WriteWork <= WriteWork',
             \A u \in Nat : AtMost(u) => AtMost(u)'
      PROVE  GrowthInv'
  <2>1. PICK u \in Nat : AtMost(u) /\ u = Lease * LoadWork' + WriteWork'
    BY <1>3, GrowthBounds
  <2>2. AtMost(u)'
    BY <1>3, <2>1
  <2> QED BY <1>3, <2>1, <2>2, GrowthNext
<1>4. ASSUME UNCHANGED <<pts, reqNet, l2in, respNet, l2, l2tbe, mts>>
      PROVE  \A u \in Nat : AtMost(u) => AtMost(u)'
  BY <1>4, StillAtMost DEF AtMost
<1>5. ASSUME NEW w \in Warps, Issue(w) PROVE GrowthInv'
  <2>1. UNCHANGED <<pts, reqNet, l2in, respNet, l2, l2tbe, mts>>
    BY <1>5 DEF Issue, send_request, l1Vars, l2Vars
  <2>2. \A u \in Nat : AtMost(u) => AtMost(u)'
    BY <1>4, <2>1
  <2>3. FiniteWork' /\ LoadWork <= LoadWork' /\ WriteWork <= WriteWork'
    BY <1>2, <1>5, IssueWork
  <2> QED BY <1>3, <2>2, <2>3
<1>6. ASSUME NEW c \in Cores, Writeback(c) \/ WriteAck(c) PROVE GrowthInv'
  <2>1. UNCHANGED <<pts, reqNet, l2in, respNet, l2, l2tbe, mts>>
    BY <1>6 DEF Writeback, WriteAck, next_access, mark_skipped_write_done, netVars, l1Vars, l2Vars
  <2>2. \A u \in Nat : AtMost(u) => AtMost(u)'
    BY <1>4, <2>1
  <2>3. FiniteWork' /\ LoadWork <= LoadWork' /\ WriteWork <= WriteWork'
    BY <1>2, <1>6, WritebackWork, WriteAckWork
  <2> QED BY <1>3, <2>2, <2>3
<1>7. ASSUME NEW c \in Cores, L1Step(c) PROVE GrowthInv'
  <2>1. \A u \in Nat : AtMost(u) => AtMost(u)'
    BY <1>7, L1AtMost
  <2>2. FiniteWork' /\ LoadWork <= LoadWork' /\ WriteWork <= WriteWork'
    BY <1>2, <1>7, L1Work
  <2> QED BY <1>3, <2>1, <2>2
<1>8. ASSUME NEW c \in Cores, NEW b \in Banks, Network(c, b) PROVE GrowthInv'
  <2>1. Deliver(c, b) /\ UNCHANGED <<pts, respNet, l2, l2tbe, mts>> /\ UNCHANGED <<log, mshr>>
    BY <1>8 DEF Network, coreVars, l1Vars, l2Vars
  <2>2. ASSUME NEW u \in Nat, AtMost(u) PROVE AtMost(u)'
    <3>1. RequestsAtMost(u)'
      BY <2>1, <2>2, DeliverAtMost DEF AtMost
    <3>2. ClockAtMost(u)' /\ ResponsesAtMost(u)' /\ BanksAtMost(u)'
      BY <2>1, <2>2, StillAtMost
    <3> QED BY <3>1, <3>2 DEF AtMost
  <2>3. PICK X : Moved(X, "req", "l2in")
    BY <1>8, NetworkMoves DEF FlightInv
  <2>4. FiniteWork' /\ LoadWork <= LoadWork' /\ WriteWork <= WriteWork'
    BY <1>2, <2>1, <2>3, StageNames, MovesWork
  <2> QED BY <1>3, <2>2, <2>4
<1>9. ASSUME NEW b \in Banks, L2Step(b) PROVE GrowthInv'
  <2>1. UNCHANGED <<coreVars, l1Vars>>
    BY <1>9 DEF L2Step
  <2>2. CASE GetsMiss(b) \/ AtomicMiss(b) \/ WriteMiss(b)
    <3>1. \A u \in Nat : AtMost(u) => AtMost(u)'
      BY <2>1, <2>2, MissAtMost
    <3>2. FiniteWork' /\ LoadWork <= LoadWork' /\ WriteWork <= WriteWork'
      BY <1>2, <2>1, <2>2, L2Work
    <3> QED BY <1>3, <3>1, <3>2
  <2>3. ASSUME NEW v \in Addrs, L2_Replacement(b, v) PROVE GrowthInv'
    <3>1. \A u \in Nat : AtMost(u) => AtMost(u)'
      BY <2>1, <2>3, L2_ReplacementAtMost
    <3>2. FiniteWork' /\ LoadWork <= LoadWork' /\ WriteWork <= WriteWork'
      BY <1>2, <2>1, <2>3, L2Work
    <3> QED BY <1>3, <3>1, <3>2
  <2>4. CASE GetsHit(b)
    <3>1. FiniteWork' /\ LoadWork <= LoadWork' /\ WriteWork <= WriteWork' /\ LoadWork + 1 <= LoadWork'
      BY <1>2, <2>1, <2>4, HitWork
    <3>2. PICK t \in Nat, u \in Nat : /\ AtMost(t) /\ u = Lease * LoadWork' + WriteWork'
                                      /\ t + Lease <= u
      BY <3>1, GrowthBounds
    <3>3. AtMost(u)'
      BY <2>1, <2>4, <3>2, GetsHitAtMost
    <3> QED BY <3>1, <3>2, <3>3, GrowthNext
  <2>5. ASSUME NEW k \in {"DATA", "DATA_ATOMIC"}, WriteHit(b, k), ~GetsHit(b) PROVE GrowthInv'
    <3>1. FiniteWork' /\ LoadWork <= LoadWork' /\ WriteWork <= WriteWork' /\ WriteWork + 1 <= WriteWork'
      BY <1>2, <2>1, <2>5, HitWork
    <3>2. PICK t \in Nat, u \in Nat : /\ AtMost(t) /\ u = Lease * LoadWork' + WriteWork'
                                      /\ t + 1 <= u
      BY <3>1, GrowthBounds
    <3>3. AtMost(u)'
      BY <2>1, <2>5, <3>2, WriteHitAtMost
    <3> QED BY <3>1, <3>2, <3>3, GrowthNext
  <2> QED BY <1>9, <2>2, <2>3, <2>4, <2>5 DEF L2Step, L2Next
<1>10. ASSUME NEW a \in Addrs, Dram(a) PROVE GrowthInv'
  <2>1. /\ FiniteWork' /\ LoadWork <= LoadWork' /\ WriteWork <= WriteWork'
        /\ l2tbe[a].gets # {} => LoadWork + 1 <= LoadWork'
    BY <1>1, <1>2, <1>10, FillWork
  <2>2. PICK t \in Nat, u \in Nat : /\ AtMost(t) /\ u = Lease * LoadWork' + WriteWork' /\ t <= u
                                    /\ LoadWork + 1 <= LoadWork' => t + Lease <= u
    BY <2>1, GrowthBounds
  <2>3. MemData(a) /\ l2tbe[a].gets # {} => t + Lease <= u
    BY <2>1, <2>2
  <2>4. AtMost(u)'
    BY <1>10, <2>2, <2>3, FillAtMost
  <2> QED BY <2>1, <2>2, <2>4, GrowthNext
<1>11. CASE UNCHANGED vars
  <2>1. UNCHANGED <<pts, reqNet, l2in, respNet, l2, l2tbe, mts>>
    BY <1>11 DEF vars, netVars, l1Vars, l2Vars
  <2>2. \A u \in Nat : AtMost(u) => AtMost(u)'
    BY <1>4, <2>1
  <2>3. UNCHANGED <<netVars, coreVars>> /\ UNCHANGED <<l2st, l2tbe, log, mshr>>
    BY <1>11 DEF vars, coreVars, l2Vars
  <2>4. \A s \in Stages : Same(s)
    BY <2>3, SameStages DEF netVars, coreVars, Stages, BeyondL1
  <2>5. FiniteWork' /\ LoadWork <= LoadWork' /\ WriteWork <= WriteWork'
    BY <1>2, <2>3, <2>4, StillWork
  <2> QED BY <1>3, <2>2, <2>5
<1> QED BY <1>5, <1>6, <1>7, <1>8, <1>9, <1>10, <1>11 DEF Next, Terminated

\* The inductive invariant of logical time: no timestamp of a clock, a message,
\* a line, a fetch or a bank is ahead of a lease for every load and a tick for
\* every write that the banks have answered.
THEOREM GrowthInvariant == Spec => []GrowthInv
<1>1. TypeOK /\ WriteInv /\ ClockInv /\ FlightInv /\ GrowthInv /\ [Next]_vars => GrowthInv'
  BY NextGrowth
<1> QED BY <1>1, InitGrowth, TypeCorrect, WritesInvariant, ClocksInvariant, FlightInvariant, PTL DEF Spec

\* What has been answered is among what has been made.
LEMMA GrowthBound == TypeOK /\ GrowthInv => ClockGrowth
<1> SUFFICES ASSUME TypeOK, GrowthInv, NEW c \in Cores
             PROVE  pts[c] <= Lease * LoadsMade + WritesMade
  BY DEF ClockGrowth
<1>1. FiniteWork /\ AtMost(Lease * LoadWork + WriteWork)
  BY DEF GrowthInv
<1>2. PICK i \in Nat, j \in Nat, m \in Nat, n \in Nat :
         i = LoadWork /\ j = WriteWork /\ m = LoadsMade /\ n = WritesMade /\ i <= m /\ j <= n
  <2>1. /\ LoadsMade = Cardinality(LoadEvents) + Cardinality(LoadsWaiting)
        /\ WritesMade = Cardinality(WriteEvents) + Cardinality(WritesWaiting)
    BY DEF LoadsMade, WritesMade, LoadEvents, WriteEvents, LoadsWaiting, WritesWaiting
  <2> QED BY <1>1, <2>1, WorkTypes DEF LoadWork, WriteWork
<1>3. PICK p \in Nat : p = pts[c] /\ p <= Lease * i + j
  BY <1>1, <1>2 DEF AtMost, ClockAtMost, TypeOK, L1TypeOK
<1>4. Lease * i \in Nat /\ Lease * m \in Nat /\ Lease * i <= Lease * m
  BY <1>2, LeaseAssumption, Times
<1>5. p <= Lease * m + n
  BY <1>2, <1>3, <1>4
<1> QED BY <1>2, <1>3, <1>5

\* Logical time passes no faster than the program's own accesses: the clocks
\* never run ahead of a lease per load and a tick per write, so that the
\* assertion of tp_updateProcessorTimestamp on pts can fail only after that
\* much work, on any number of cores and banks and across every eviction.
THEOREM ClocksGrowSlowly == Spec => []ClockGrowth
BY GrowthBound, GrowthInvariant, TypeCorrect, PTL

=============================================================================
