--------------------------- MODULE RCCConsistent ---------------------------
(***************************************************************************)
(* What the warps observe is sequentially consistent, for every GPU, every  *)
(* lease and every program whose lines fit in the L2 and whose loads are    *)
(* not merged.  The accesses of the memory are (LogicalMemoryProofs), and   *)
(* what a warp is told are its accesses to the memory, in that order.       *)
(***************************************************************************)
EXTENDS RCCRefines

Consistency == INSTANCE LogicalMemoryProofs

-----------------------------------------------------------------------------
(* The accesses as the memory performs them.                                *)

\* The accesses can be put into one order that respects every warp's program
\* and in which each load returns the latest write (tw_updateL2BlockWts puts a
\* write after every lease, isLive ends a lease when the clock has passed it).
THEOREM AccessesConsistent ==
    ASSUME NoMerge, LinesFit, Gap = 1
    PROVE  SerialSpec => []Memory!SequentialConsistency
<1>1. GapOK
  BY DEF GapOK
<1>2. Consistency!Spec => []Consistency!SequentialConsistency
  BY Consistency!SequentiallyConsistent
<1>3. Memory!Init => Consistency!Init
  BY DEF Memory!Init, Consistency!Init
<1>4. [Memory!Next]_acc => [Consistency!Next]_acc
  BY DEF Memory!Next, Consistency!Next, Memory!Access, Consistency!Access,
         Memory!InProgramOrder, Consistency!InProgramOrder, Memory!Read, Consistency!Read,
         Memory!Write, Consistency!Write, Memory!IsWrite, Consistency!IsWrite
<1>5. Consistency!SequentialConsistency => Memory!SequentialConsistency
  BY DEF Memory!SequentialConsistency, Consistency!SequentialConsistency, Memory!Before,
         Consistency!Before, Memory!Turn, Consistency!Turn, Memory!IsWrite, Consistency!IsWrite
<1>6. SerialSpec => ImplementsMemory
  BY <1>1, MemoryImplemented
<1> QED BY <1>2, <1>3, <1>4, <1>5, <1>6, PTL DEF ImplementsMemory, Memory!Spec, Consistency!Spec


-----------------------------------------------------------------------------
(* What the warps are told.                                                 *)

\* The entry that response m will make in the log.
Told(m) == [op |-> IF m.type = "ACK" THEN "ST" ELSE "ATOMIC", addr |-> m.addr, ver |-> m.ver]

\* Warp w is about to be told that its write e is done.
Owed(w, e) ==
    LET c == CoreOf[w] IN
    \/ \E b \in Banks : \E i \in DOMAIN respNet[b][c] :
          LET m == respNet[b][c][i] IN m.type # "DATA" /\ m.warp = w /\ Told(m) = e
    \/ \E i \in DOMAIN skipL1[c] : skipL1[c][i].warp = w /\ Strip(skipL1[c][i]) = e

\* The i-th access in the log of w is access f[i] of the memory, and what w is
\* about to be told comes after them.
Follows(w, f) ==
    /\ f \in [DOMAIN log[w] -> DOMAIN acc]
    /\ \A i \in DOMAIN log[w] : acc[f[i]].warp = w /\ Strip(acc[f[i]]) = log[w][i]
    /\ \A i, j \in DOMAIN log[w] : i < j => f[i] < f[j]
    /\ \A e : Owed(w, e) =>
          \E p \in DOMAIN acc : /\ acc[p].warp = w /\ Strip(acc[p]) = e
                                /\ \A i \in DOMAIN log[w] : f[i] < p

LogInv == acc \in Seq(Memory!Access) /\ \A w \in Warps : \E f : Follows(w, f)

\* A step that tells warp w nothing: what it is owed is not new, or was just
\* performed.
LEMMA NotTold ==
    ASSUME LogInv, NEW w \in Warps, log'[w] = log[w],
           \A p \in DOMAIN acc : p \in DOMAIN acc' /\ acc'[p] = acc[p],
           \A e : Owed(w, e)' =>
              \/ Owed(w, e)
              \/ \E p \in DOMAIN acc' : acc'[p].warp = w /\ Strip(acc'[p]) = e
                                        /\ \A i \in DOMAIN acc : i < p
    PROVE  \E f : Follows(w, f)'
<1>1. PICK f : Follows(w, f)
  BY DEF LogInv
<1>2. /\ f \in [DOMAIN log[w] -> DOMAIN acc]
      /\ \A i \in DOMAIN log[w] : acc[f[i]].warp = w /\ Strip(acc[f[i]]) = log[w][i]
      /\ \A i, j \in DOMAIN log[w] : i < j => f[i] < f[j]
      /\ \A e : Owed(w, e) =>
            \E p \in DOMAIN acc : /\ acc[p].warp = w /\ Strip(acc[p]) = e
                                  /\ \A i \in DOMAIN log[w] : f[i] < p
  BY <1>1 DEF Follows
<1>3. f \in [DOMAIN log'[w] -> DOMAIN acc']
  BY <1>2
<1>4. \A i \in DOMAIN log'[w] : acc'[f[i]].warp = w /\ Strip(acc'[f[i]]) = log'[w][i]
  <2> SUFFICES ASSUME NEW i \in DOMAIN log[w]
               PROVE  acc'[f[i]].warp = w /\ Strip(acc'[f[i]]) = log[w][i]
    OBVIOUS
  <2>1. f[i] \in DOMAIN acc
    BY <1>2
  <2>2. acc'[f[i]] = acc[f[i]]
    BY <2>1
  <2> QED BY <1>2, <2>2
<1>5. ASSUME NEW e, Owed(w, e)'
      PROVE  \E p \in DOMAIN acc' : /\ acc'[p].warp = w /\ Strip(acc'[p]) = e
                                    /\ \A i \in DOMAIN log'[w] : f[i] < p
  <2>1. CASE Owed(w, e)
    <3>1. PICK p \in DOMAIN acc : /\ acc[p].warp = w /\ Strip(acc[p]) = e
                                  /\ \A i \in DOMAIN log[w] : f[i] < p
      BY <1>2, <2>1
    <3>2. p \in DOMAIN acc' /\ acc'[p] = acc[p]
      BY <3>1
    <3> QED BY <3>1, <3>2
  <2>2. ASSUME NEW p \in DOMAIN acc', acc'[p].warp = w, Strip(acc'[p]) = e, \A i \in DOMAIN acc : i < p
        PROVE  \E q \in DOMAIN acc' : /\ acc'[q].warp = w /\ Strip(acc'[q]) = e
                                      /\ \A i \in DOMAIN log'[w] : f[i] < q
    BY <1>2, <2>2
  <2> QED BY <1>5, <2>1, <2>2
<1>6. Follows(w, f)'
  BY <1>2, <1>3, <1>4, <1>5 DEF Follows
<1> QED BY <1>6

\* A step that tells warp w of its access p to the memory, which follows the
\* ones in its log, and leaves nothing to tell.
LEMMA ToldOne ==
    ASSUME NEW w \in Warps, NEW f, Follows(w, f), log[w] \in Seq(LogEntry),
           NEW e \in LogEntry, log'[w] = Append(log[w], e),
           \A q \in DOMAIN acc : q \in DOMAIN acc' /\ acc'[q] = acc[q],
           NEW p \in DOMAIN acc', acc'[p].warp = w, Strip(acc'[p]) = e,
           \A i \in DOMAIN log[w] : f[i] < p,
           \A x : ~Owed(w, x)'
    PROVE  \E g : Follows(w, g)'
<1>1. PICK q \in Seq(LogEntry), n \in Nat : q = log[w] /\ n = Len(q)
  OBVIOUS
<1>2. PICK r : r = Append(q, e)
  OBVIOUS
<1>3. /\ DOMAIN q = 1..n /\ DOMAIN r = 1..(n + 1) /\ r[n + 1] = e
      /\ \A i \in 1..n : r[i] = q[i]
  BY <1>1, <1>2, AppendProperties
<1>4. /\ f \in [1..n -> DOMAIN acc]
      /\ \A i \in 1..n : acc[f[i]].warp = w /\ Strip(acc[f[i]]) = q[i]
      /\ \A i, j \in 1..n : i < j => f[i] < f[j]
      /\ \A i \in 1..n : f[i] < p
  BY ZenonT(60), <1>1, <1>3 DEF Follows
<1>5. PICK g : g = [i \in 1..(n + 1) |-> IF i = n + 1 THEN p ELSE f[i]]
  OBVIOUS
<1>6. \A i \in 1..(n + 1) : i = n + 1 \/ (i \in 1..n /\ i # n + 1)
  OBVIOUS
<1>7. n + 1 \in 1..(n + 1) /\ g[n + 1] = p
  BY <1>5
<1>8. \A i \in 1..n : i \in 1..(n + 1) /\ g[i] = f[i]
  BY <1>5
<1>9. g \in [1..(n + 1) -> DOMAIN acc']
  BY <1>4, <1>5, <1>6
<1>10. \A i \in 1..(n + 1) : acc'[g[i]].warp = w /\ Strip(acc'[g[i]]) = r[i]
  <2> SUFFICES ASSUME NEW i \in 1..(n + 1) PROVE acc'[g[i]].warp = w /\ Strip(acc'[g[i]]) = r[i]
    OBVIOUS
  <2>1. CASE i = n + 1
    BY <1>3, <1>7, <2>1
  <2>2. CASE i \in 1..n
    <3>1. f[i] \in DOMAIN acc
      BY <1>4, <2>2
    <3>2. acc'[f[i]] = acc[f[i]]
      BY <3>1
    <3> QED BY <1>3, <1>4, <1>8, <2>2, <3>2
  <2> QED BY <1>6, <2>1, <2>2
<1>11. \A i, j \in 1..(n + 1) : i < j => g[i] < g[j]
  <2> SUFFICES ASSUME NEW i \in 1..(n + 1), NEW j \in 1..(n + 1), i < j PROVE g[i] < g[j]
    OBVIOUS
  <2>1. i \in 1..n
    OBVIOUS
  <2>2. g[i] = f[i] /\ f[i] < p
    BY <1>4, <1>8, <2>1
  <2>3. CASE j = n + 1
    BY <1>7, <2>2, <2>3
  <2>4. CASE j \in 1..n
    BY <1>4, <1>8, <2>1, <2>2, <2>4
  <2> QED BY <1>6, <2>3, <2>4
<1>12. Follows(w, g)'
  BY <1>1, <1>2, <1>3, <1>9, <1>10, <1>11 DEF Follows
<1> QED BY <1>12

-----------------------------------------------------------------------------
(* Steps that perform no access and tell no warp anything.                  *)

\* The histories and what is owed stay as they are, or responses are read.
LEMMA NothingNew ==
    ASSUME LogInv, acc' = acc, log' = log, skipL1' = skipL1,
           \A b \in Banks, c \in Cores : \A i \in DOMAIN respNet'[b][c] :
              \/ respNet'[b][c][i].type = "DATA"
              \/ \E j \in DOMAIN respNet[b][c] : respNet'[b][c][i] = respNet[b][c][j]
    PROVE  LogInv'
<1>1. ASSUME NEW w \in Warps, NEW e, Owed(w, e)' PROVE Owed(w, e)
  <2>1. PICK c \in Cores : c = CoreOf[w]
    BY CoreOfAssumption
  <2>2. ASSUME NEW b \in Banks, NEW i \in DOMAIN respNet'[b][c], respNet'[b][c][i].type # "DATA",
               respNet'[b][c][i].warp = w, Told(respNet'[b][c][i]) = e
        PROVE  Owed(w, e)
    <3>1. PICK j \in DOMAIN respNet[b][c] : respNet'[b][c][i] = respNet[b][c][j]
      BY <2>2
    <3> QED BY <2>1, <2>2, <3>1 DEF Owed
  <2>3. ASSUME NEW i \in DOMAIN skipL1[c], skipL1[c][i].warp = w, Strip(skipL1[c][i]) = e
        PROVE  Owed(w, e)
    BY <2>1, <2>3 DEF Owed
  <2> QED BY <1>1, <2>1, <2>2, <2>3 DEF Owed
<1>2. \A w \in Warps : \E f : Follows(w, f)'
  BY <1>1, NotTold
<1> QED BY <1>2 DEF LogInv

\* A read's answer reaches its L1.
LEMMA ArriveLog ==
    ASSUME TypeOK, LogInv, NEW c \in Cores, NEW b \in Banks, Arrive(c, b)
    PROVE  LogInv'
<1>1. Data(c, b) /\ acc' = acc
  BY DEF Arrive
<1>2. respNet[b][c] # <<>>
  BY <1>1, ZenonT(40) DEF Data
<1>3. respNet' = [respNet EXCEPT ![b][c] = Tail(@)]
  BY <1>1, ZenonT(40) DEF Data
<1>4. PICK a, v : readCallback(c, a, v)
  BY <1>1, ZenonT(40) DEF Data
<1>5. log' = log /\ skipL1' = skipL1
  BY <1>4 DEF readCallback
<1>6. \A d \in Banks, x \in Cores : \A i \in DOMAIN respNet'[d][x] :
         \E j \in DOMAIN respNet[d][x] : respNet'[d][x][i] = respNet[d][x][j]
  BY <1>2, <1>3, PoppedResponses
<1> QED BY <1>1, <1>5, <1>6, NothingNew

\* A write's answer reaches its L1 and is queued for the core.
LEMMA WriteDoneLog ==
    ASSUME TypeOK, ClockInv, LogInv, acc' = acc, NEW c \in Cores, NEW b \in Banks, WriteDone(c, b)
    PROVE  LogInv'
<1>1. respNet[b][c] # <<>>
  BY ZenonT(40) DEF WriteDone
<1>2. PICK m \in ResponseMsg : m = Head(respNet[b][c]) /\ m.addr \in Addrs /\ m.warp \in Warps /\ m.ver \in Nat
  BY <1>1, ResponseHead
<1>3. 1 \in DOMAIN respNet[b][c] /\ m = respNet[b][c][1]
  BY <1>1, <1>2, QueueFacts DEF TypeOK, NetTypeOK
<1>4. CoreOf[m.warp] = c
  BY <1>3 DEF ClockInv, ResponseOK
<1>5. m.type # "DATA" /\ respNet' = [respNet EXCEPT ![b][c] = Tail(@)]
  BY ZenonT(40), <1>2 DEF WriteDone
<1>6. PICK op \in {"ST", "ATOMIC"} : op = IF m.type = "ACK" THEN "ST" ELSE "ATOMIC"
  OBVIOUS
<1>7. writeCallback(c, m.warp, op, m.addr, m.ver)
  BY ZenonT(40), <1>2, <1>6 DEF WriteDone
<1>8. PICK k \in SkipL1Request : /\ k = [op |-> op, addr |-> m.addr, warp |-> m.warp, ver |-> m.ver]
                                 /\ k.warp = m.warp /\ Strip(k) = Told(m)
  <2>1. PICK k : k = [op |-> op, addr |-> m.addr, warp |-> m.warp, ver |-> m.ver]
    OBVIOUS
  <2>2. k \in SkipL1Request
    BY <1>2, <2>1 DEF SkipL1Request
  <2>3. k.op = op /\ k.warp = m.warp /\ k.addr = m.addr /\ k.ver = m.ver
    BY <2>1
  <2>4. Strip(k) = Told(m)
    BY <1>6, <2>3 DEF Strip, Told
  <2> QED BY <2>1, <2>2, <2>3, <2>4
<1>9. skipL1' = [skipL1 EXCEPT ![c] = Append(@, k)] /\ log' = log
  BY <1>7, <1>8 DEF writeCallback
<1>10. \A d \in Banks, x \in Cores : \A i \in DOMAIN respNet'[d][x] :
          \E j \in DOMAIN respNet[d][x] : respNet'[d][x][i] = respNet[d][x][j]
  BY <1>1, <1>5, PoppedResponses
<1>11. ASSUME NEW w \in Warps, NEW e, Owed(w, e)' PROVE Owed(w, e)
  <2>1. PICK d \in Cores : d = CoreOf[w]
    BY CoreOfAssumption
  <2>2. ASSUME NEW x \in Banks, NEW i \in DOMAIN respNet'[x][d], respNet'[x][d][i].type # "DATA",
               respNet'[x][d][i].warp = w, Told(respNet'[x][d][i]) = e
        PROVE  Owed(w, e)
    <3>1. PICK j \in DOMAIN respNet[x][d] : respNet'[x][d][i] = respNet[x][d][j]
      BY <1>10, <2>2
    <3> QED BY <2>1, <2>2, <3>1 DEF Owed
  <2>3. ASSUME NEW i \in DOMAIN skipL1'[d], skipL1'[d][i].warp = w, Strip(skipL1'[d][i]) = e
        PROVE  Owed(w, e)
    <3>1. PICK q \in Seq(SkipL1Request) : q = skipL1[d]
      BY DEF TypeOK, MSHRTypeOK
    <3>2. skipL1'[d] = IF d = c THEN Append(q, k) ELSE q
      BY <1>9, <3>1 DEF TypeOK, MSHRTypeOK
    <3>3. (\E j \in DOMAIN q : skipL1'[d][i] = q[j]) \/ (d = c /\ skipL1'[d][i] = k)
      <4>1. CASE d = c
        BY <2>3, <3>2, <4>1, AppendElements
      <4>2. CASE d # c
        BY <2>3, <3>2, <4>2
      <4> QED BY <4>1, <4>2
    <3>4. CASE \E j \in DOMAIN q : skipL1'[d][i] = q[j]
      BY <2>1, <2>3, <3>1, <3>4 DEF Owed
    <3>5. CASE d = c /\ skipL1'[d][i] = k
      <4>1. m.warp = w /\ Told(m) = e
        BY <1>8, <2>3, <3>5
      <4> QED BY <1>3, <1>5, <2>1, <3>5, <4>1 DEF Owed
    <3> QED BY <3>3, <3>4, <3>5
  <2> QED BY <1>11, <2>1, <2>2, <2>3 DEF Owed
<1>12. \A w \in Warps : \E f : Follows(w, f)'
  BY <1>9, <1>11, NotTold
<1> QED BY <1>12 DEF LogInv

\* A bank hands out a lease.
LEMMA GetsHitLog ==
    ASSUME TypeOK, LogInv, acc' = acc, UNCHANGED coreVars, NEW b \in Banks, GetsHit(b)
    PROVE  LogInv'
<1>1. PICK r \in RequestMsg : /\ l2in[b] # <<>> /\ r = Head(l2in[b]) /\ r.type = "GETS"
                              /\ 1 \in DOMAIN l2in[b] /\ r = l2in[b][1]
                              /\ r.addr \in Addrs /\ r.warp \in Warps /\ r.pts \in Nat
  BY TakenRequest DEF GetsHit
<1>2. PICK e : e = [l2[r.addr] EXCEPT !.rts = tr_updateL2BlockRts(l2[r.addr], r)]
  OBVIOUS
<1>3. PICK m : m = DataResponse(r.addr, e, r.warp)
  OBVIOUS
<1>4. SendResponse(b, m) /\ m.type = "DATA" /\ m.warp = r.warp
  BY <1>1, <1>2, <1>3 DEF GetsHit, DataResponse
<1>5. ASSUME NEW d \in Banks, NEW c \in Cores, NEW i \in DOMAIN respNet'[d][c]
      PROVE  \/ respNet'[d][c][i].type = "DATA"
             \/ \E j \in DOMAIN respNet[d][c] : respNet'[d][c][i] = respNet[d][c][j]
  <2>1. PICK k \in Cores, q \in Seq(ResponseMsg) : k = CoreOf[m.warp] /\ q = respNet[d][c]
    <3>1. PICK k \in Cores : k = CoreOf[m.warp]
      BY <1>1, <1>4, CoreOfAssumption
    <3>2. PICK q \in Seq(ResponseMsg) : q = respNet[d][c]
      BY DEF TypeOK, NetTypeOK
    <3> QED BY <3>1, <3>2
  <2>2. respNet' = [respNet EXCEPT ![b][k] = Append(@, m)]
    BY <1>4, <2>1 DEF SendResponse
  <2>3. respNet'[d][c] = q \/ respNet'[d][c] = Append(q, m)
    BY <2>1, <2>2 DEF TypeOK, NetTypeOK
  <2>4. (\E j \in DOMAIN q : respNet'[d][c][i] = q[j]) \/ respNet'[d][c][i] = m
    BY <1>5, <2>3, AppendProperties
  <2> QED BY <1>4, <2>1, <2>4
<1>6. log' = log /\ skipL1' = skipL1
  BY DEF coreVars
<1> QED BY <1>5, <1>6, NothingNew

\* The steps that send no response about a write.
LEMMA QuietLog ==
    ASSUME TypeOK, LogInv, acc' = acc,
           \/ \E c \in Cores : Load(c) \/ WriteThrough(c) \/ \E v \in Addrs : L1_Replacement(c, v)
           \/ UNCHANGED coreVars /\ \E b \in Banks : \/ GetsMiss(b) \/ AtomicMiss(b) \/ GetsHit(b)
                                                     \/ \E v \in Addrs : L2_Replacement(b, v)
           \/ UNCHANGED coreVars /\ \E a \in Addrs : MemData(a)
           \/ \E w \in Warps : Issue(w)
           \/ \E c \in Cores, b \in Banks : Network(c, b)
           \/ UNCHANGED vars
    PROVE  LogInv'
<1>1. ASSUME respNet' = respNet, log' = log, skipL1' = skipL1 PROVE LogInv'
  BY <1>1, NothingNew
<1>2. ASSUME NEW c \in Cores, LoadHit(c) PROVE LogInv'
  <2>1. PICK x, v : respNet' = respNet /\ readCallback(c, x, v)
    BY <1>2 DEF LoadHit
  <2> QED BY <1>1, <2>1 DEF readCallback
<1>3. ASSUME NEW c \in Cores, LoadMiss(c) PROVE LogInv'
  BY <1>1, <1>3 DEF LoadMiss, coreVars
<1>4. ASSUME NEW c \in Cores, WriteThrough(c) PROVE LogInv'
  BY <1>1, <1>4 DEF WriteThrough, coreVars
<1>5. ASSUME NEW c \in Cores, NEW v \in Addrs, L1_Replacement(c, v) PROVE LogInv'
  BY <1>1, <1>5 DEF L1_Replacement, netVars, coreVars
<1>6. ASSUME UNCHANGED coreVars, NEW b \in Banks, GetsMiss(b) \/ AtomicMiss(b) PROVE LogInv'
  BY <1>1, <1>6 DEF GetsMiss, AtomicMiss, coreVars
<1>7. ASSUME UNCHANGED coreVars, NEW b \in Banks, NEW v \in Addrs, L2_Replacement(b, v) PROVE LogInv'
  BY <1>1, <1>7 DEF L2_Replacement, netVars, coreVars
<1>8. ASSUME UNCHANGED coreVars, NEW a \in Addrs, MemData(a) PROVE LogInv'
  <2>1. \A b \in Banks, c \in Cores : \A i \in DOMAIN respNet'[b][c] :
           \/ respNet'[b][c][i].type = "DATA"
           \/ \E j \in DOMAIN respNet[b][c] : respNet'[b][c][i] = respNet[b][c][j]
    BY <1>8, FillResponses
  <2>2. log' = log /\ skipL1' = skipL1
    BY <1>8 DEF coreVars
  <2> QED BY <2>1, <2>2, NothingNew
<1>9. ASSUME NEW w \in Warps, Issue(w) PROVE LogInv'
  BY <1>1, <1>9 DEF Issue, send_request
<1>10. ASSUME NEW c \in Cores, NEW b \in Banks, Network(c, b) PROVE LogInv'
  BY <1>1, <1>10 DEF Network, coreVars
<1>11. CASE UNCHANGED vars
  BY <1>1, <1>11 DEF vars, netVars, coreVars
<1> QED BY <1>2, <1>3, <1>4, <1>5, <1>6, <1>7, <1>8, <1>9, <1>10, <1>11, GetsHitLog DEF Load

-----------------------------------------------------------------------------
(* Steps that perform an access.                                            *)

\* A write is performed and its answer m sent.
LEMMA AnsweredLog ==
    ASSUME LogInv, UNCHANGED coreVars, NEW m, NEW x \in Memory!Access, acc' = Append(acc, x),
           x.warp = m.warp, Strip(x) = Told(m),
           \A b \in Banks, c \in Cores : \A i \in DOMAIN respNet'[b][c] :
              \/ \E j \in DOMAIN respNet[b][c] : respNet'[b][c][i] = respNet[b][c][j]
              \/ respNet'[b][c][i] = m
    PROVE  LogInv'
<1>1. PICK n \in Nat : n = Len(acc) /\ DOMAIN acc = 1..n
  BY DEF LogInv
<1>2. /\ acc' \in Seq(Memory!Access) /\ Len(acc') = Len(acc) + 1 /\ acc'[Len(acc) + 1] = x
      /\ \A i \in DOMAIN acc' : (i \in DOMAIN acc /\ acc'[i] = acc[i]) \/ acc'[i] = x
      /\ \A i \in DOMAIN acc : i \in DOMAIN acc' /\ acc'[i] = acc[i]
      /\ \E i \in DOMAIN acc' : acc'[i] = x
  BY OneMore DEF LogInv
<1>3. n + 1 \in DOMAIN acc' /\ acc'[n + 1] = x /\ \A i \in DOMAIN acc : i < n + 1
  BY <1>1, <1>2
<1>4. log' = log /\ skipL1' = skipL1
  BY DEF coreVars
<1>5. ASSUME NEW w \in Warps, NEW e, Owed(w, e)'
      PROVE  \/ Owed(w, e)
             \/ \E p \in DOMAIN acc' : acc'[p].warp = w /\ Strip(acc'[p]) = e /\ \A i \in DOMAIN acc : i < p
  <2>1. PICK c \in Cores : c = CoreOf[w]
    BY CoreOfAssumption
  <2>2. ASSUME NEW b \in Banks, NEW i \in DOMAIN respNet'[b][c], respNet'[b][c][i].type # "DATA",
               respNet'[b][c][i].warp = w, Told(respNet'[b][c][i]) = e, ~Owed(w, e)
        PROVE  m.warp = w /\ Told(m) = e
    <3>1. ~\E j \in DOMAIN respNet[b][c] : respNet'[b][c][i] = respNet[b][c][j]
      BY <2>1, <2>2 DEF Owed
    <3>2. respNet'[b][c][i] = m
      BY <3>1
    <3> QED BY <2>2, <3>2
  <2>3. ASSUME NEW i \in DOMAIN skipL1[c], skipL1[c][i].warp = w, Strip(skipL1[c][i]) = e
        PROVE  Owed(w, e)
    BY <2>1, <2>3 DEF Owed
  <2>4. Owed(w, e) \/ (m.warp = w /\ Told(m) = e)
    BY <1>4, <1>5, <2>1, <2>2, <2>3 DEF Owed
  <2> QED BY <1>3, <2>4
<1>6. \A w \in Warps : \E f : Follows(w, f)'
  BY <1>2, <1>4, <1>5, NotTold
<1> QED BY <1>2, <1>6 DEF LogInv

\* The answer to a write tells the warp which version it made.
LEMMA WriteTold ==
    ASSUME TypeOK, NEW b \in Banks, NEW k \in {"DATA", "DATA_ATOMIC"},
           WriteHit(b, k) \/ (k = "DATA" /\ WriteMiss(b))
    PROVE  \E r \in RequestMsg, m \in ResponseMsg :
              /\ r = Head(l2in[b]) /\ r.type = k /\ r.addr \in Addrs /\ r.warp \in Warps
              /\ wtimes' # wtimes /\ wtimes'[r.addr][Newest(r.addr) + 1] \in Nat
              /\ SendResponse(b, m) /\ m.warp = r.warp
              /\ Told(m) = [op |-> IF k = "DATA" THEN "ST" ELSE "ATOMIC", addr |-> r.addr,
                            ver |-> Newest(r.addr) + 1]
<1>1. PICK r \in RequestMsg, t \in Nat, m \in ResponseMsg :
              /\ l2in[b] # <<>> /\ r = Head(l2in[b]) /\ 1 \in DOMAIN l2in[b] /\ r = l2in[b][1]
              /\ r.type # "GETS" /\ r.addr \in Addrs /\ r.warp \in Warps /\ r.pts \in Nat /\ t >= r.pts
              /\ wtimes' = [wtimes EXCEPT ![r.addr] = Append(@, t)]
              /\ SendResponse(b, m) /\ m.type # "DATA" /\ m.warp = r.warp /\ m.wts = t
              /\ l2in' = [l2in EXCEPT ![b] = Tail(@)] /\ UNCHANGED <<mandQ, reqNet>>
              /\ \A x \in Addrs : l2st'[x] = "IAV" => l2st[x] = "IAV" /\ l2tbe'[x] = l2tbe[x]
  BY MissApplied, HitApplied
<1>2. PICK a \in Addrs : a = r.addr
  BY <1>1
<1>3. PICK q \in Seq(Nat), v \in Nat : q = wtimes[a] /\ v = Len(q) + 1 /\ v = Newest(a) + 1
  BY DEF TypeOK, L2TypeOK, Newest
<1>4. wtimes'[a] = Append(q, t)
  BY <1>1, <1>2, <1>3 DEF TypeOK, L2TypeOK
<1>5. PICK p : p = Append(q, t) /\ Len(p) = v /\ p[v] = t
  <2>1. Len(Append(q, t)) = Len(q) + 1 /\ Append(q, t)[Len(q) + 1] = t
    BY AppendProperties
  <2> QED BY <1>3, <2>1
<1>6. wtimes' # wtimes /\ wtimes'[a][Newest(a) + 1] \in Nat
  BY <1>3, <1>4, <1>5
<1>7. r.type = k
  BY <1>1 DEF WriteHit, WriteMiss, Request
<1>8. PICK y \in {"ACK", "DATA_ATOMIC"} : y = IF k = "DATA" THEN "ACK" ELSE k
  OBVIOUS
<1>9. \E n \in ResponseMsg : SendResponse(b, n) /\ n.warp = r.warp /\ n.type = y /\ n.addr = a /\ n.ver = v
  <2>1. CASE WriteHit(b, k)
    <3>1. PICK s \in Nat : s = tw_updateL2BlockWts(l2[a], r)
      <4>1. PICK e \in L2Entry : e = l2[a] /\ e.wts \in Nat /\ e.rts \in Nat
        BY DEF TypeOK, L2TypeOK, L2Entry
      <4>2. PICK u \in Nat : u = getTimeMax(r.pts, e.wts)
        BY <1>1, <4>1, MaxFacts
      <4>3. PICK z \in Nat : z = e.rts + 1
        BY <4>1
      <4> QED BY <4>1, <4>2, <4>3, MaxFacts DEF tw_updateL2BlockWts
    <3>2. PICK n \in ResponseMsg : n = WriteResponse(y, a, r.warp, s, v)
      BY <1>1 DEF WriteResponse, ResponseMsg
    <3>3. n.warp = r.warp /\ n.type = y /\ n.addr = a /\ n.ver = v
      BY <3>2 DEF WriteResponse
    <3>4. SendResponse(b, n)
      BY <1>1, <1>2, <1>3, <1>8, <2>1, <3>1, <3>2 DEF WriteHit
    <3> QED BY <3>3, <3>4
  <2>2. CASE k = "DATA" /\ WriteMiss(b)
    <3>1. PICK s : s = MissWts(TBEForWriteMiss(r), mts[b])
      OBVIOUS
    <3>2. PICK n : n = WriteResponse(y, a, r.warp, s, v)
      OBVIOUS
    <3>3. n.warp = r.warp /\ n.type = y /\ n.addr = a /\ n.ver = v
      BY <3>2 DEF WriteResponse
    <3>4. SendResponse(b, n)
      BY <1>1, <1>2, <1>3, <1>8, <2>2, <3>1, <3>2 DEF WriteMiss
    <3>5. s \in Nat
      <4>1. PICK e \in L2TBE, u \in Nat, z \in Nat : e = TBEForWriteMiss(r) /\ u = e.max_write_pts /\ z = mts[b]
        <5>1. PICK e \in L2TBE : e = TBEForWriteMiss(r)
          BY TBETypes
        <5>2. e.max_write_pts \in Nat
          BY DEF L2TBE
        <5>3. mts[b] \in Nat
          BY DEF TypeOK, L2TypeOK
        <5> QED BY <5>1, <5>2, <5>3
      <4> QED BY <3>1, <4>1, MaxFacts DEF MissWts
    <3>6. n \in ResponseMsg
      BY <1>1, <3>2, <3>5 DEF WriteResponse, ResponseMsg
    <3> QED BY <3>3, <3>4, <3>6
  <2> QED BY <2>1, <2>2
<1>10. PICK n \in ResponseMsg : SendResponse(b, n) /\ n.warp = r.warp /\ n.type = y /\ n.addr = a /\ n.ver = v
  BY <1>9
<1>11. Told(n) = [op |-> IF k = "DATA" THEN "ST" ELSE "ATOMIC", addr |-> a, ver |-> Newest(a) + 1]
  BY <1>3, <1>8, <1>10 DEF Told
<1> QED BY <1>1, <1>2, <1>6, <1>7, <1>10, <1>11

\* A bank takes a request.
LEMMA BankLog ==
    ASSUME TypeOK, LogInv, NEW b \in Banks, Bank(b)
    PROVE  LogInv'
<1>1. L2Next(b) /\ UNCHANGED coreVars
  BY DEF Bank, L2Step
<1>2. CASE GetsMiss(b) \/ AtomicMiss(b) \/ GetsHit(b) \/ \E v \in Addrs : L2_Replacement(b, v)
  <2>1. wtimes' = wtimes
    BY <1>2 DEF GetsMiss, AtomicMiss, GetsHit, L2_Replacement
  <2>2. acc' = acc
    BY <2>1 DEF Bank
  <2> QED BY <1>1, <1>2, <2>2, QuietLog
<1>3. ASSUME NEW k \in {"DATA", "DATA_ATOMIC"}, WriteHit(b, k) \/ (k = "DATA" /\ WriteMiss(b))
      PROVE  LogInv'
  <2>1. PICK r \in RequestMsg, m \in ResponseMsg :
              /\ r = Head(l2in[b]) /\ r.type = k /\ r.addr \in Addrs /\ r.warp \in Warps
              /\ wtimes' # wtimes /\ wtimes'[r.addr][Newest(r.addr) + 1] \in Nat
              /\ SendResponse(b, m) /\ m.warp = r.warp
              /\ Told(m) = [op |-> IF k = "DATA" THEN "ST" ELSE "ATOMIC", addr |-> r.addr,
                            ver |-> Newest(r.addr) + 1]
    BY <1>3, WriteTold
  <2>2. PICK w \in Warps, a \in Addrs, t \in Nat :
           w = r.warp /\ a = r.addr /\ t = wtimes'[r.addr][Newest(r.addr) + 1]
    BY <2>1
  <2>3. PICK op \in {"ST", "ATOMIC"}, v \in Nat : op = (IF k = "DATA" THEN "ST" ELSE "ATOMIC") /\ v = Newest(a) + 1
    BY DEF TypeOK, L2TypeOK, Newest
  <2>4. Performed(w, op, a, v, t)
    BY <2>1, <2>2, <2>3 DEF Bank
  <2>5. PICK x : x = [warp |-> w, op |-> op, addr |-> a, ver |-> v, time |-> t]
    OBVIOUS
  <2>6. x \in Memory!Access /\ acc' = Append(acc, x) /\ x.warp = m.warp
    BY <2>1, <2>2, <2>4, <2>5 DEF Performed, Memory!Access
  <2>7. Strip(x) = Told(m)
    <3>1. x.op = op /\ x.addr = a /\ x.ver = v
      BY <2>5
    <3>2. Told(m) = [op |-> op, addr |-> a, ver |-> v]
      BY <2>1, <2>2, <2>3
    <3> QED BY <3>1, <3>2 DEF Strip
  <2>8. \A d \in Banks, c \in Cores : \A i \in DOMAIN respNet'[d][c] :
           \/ \E j \in DOMAIN respNet[d][c] : respNet'[d][c][i] = respNet[d][c][j]
           \/ respNet'[d][c][i] = m
    BY <2>1, SentResponses
  <2> QED BY <1>1, <2>6, <2>7, <2>8, AnsweredLog
<1> QED BY <1>1, <1>2, <1>3 DEF L2Next

\* The fetch of an atomic ends.
LEMMA AtomicLog ==
    ASSUME TypeOK, TypeOK', FlightInv, LogInv, NEW a \in Addrs, FetchedAtomic(a)
    PROVE  LogInv'
<1>1. MemDataAtomic(a) /\ UNCHANGED coreVars
  BY DEF FetchedAtomic
<1>2. PICK w \in Warps : l2tbe[a].wback = {w}
  BY <1>1 DEF MemDataAtomic, FlightInv, TBEInv
<1>3. PICK v \in Nat, q \in Seq(Nat) : v = Newest(a) + 1 /\ q = wtimes[a] /\ v = Len(q) + 1
  BY DEF TypeOK, L2TypeOK, Newest
<1>4. PICK t : wtimes' = [wtimes EXCEPT ![a] = Append(@, t)]
  BY <1>1 DEF MemDataAtomic
<1>5. wtimes'[a][v] \in Nat
  <2>1. wtimes'[a] = Append(q, t)
    BY <1>3, <1>4 DEF TypeOK, L2TypeOK
  <2>2. wtimes'[a] \in Seq(Nat)
    BY DEF TypeOK, L2TypeOK
  <2>3. Len(wtimes'[a]) = v /\ v >= 1
    BY <1>3, <2>1
  <2>4. PICK p \in Seq(Nat) : p = wtimes'[a] /\ v \in 1..Len(p)
    BY <2>2, <2>3
  <2> QED BY <2>4
<1>6. PICK s \in Nat : s = wtimes'[a][v]
  BY <1>5
<1>7. Performed(w, "ATOMIC", a, v, s)
  <2>1. PICK u \in l2tbe[a].wback : Performed(u, "ATOMIC", a, Newest(a) + 1, wtimes'[a][Newest(a) + 1])
    BY DEF FetchedAtomic
  <2>2. u = w
    BY <1>2, <2>1
  <2> QED BY <1>3, <1>6, <2>1, <2>2
<1>8. PICK x : x = [warp |-> w, op |-> "ATOMIC", addr |-> a, ver |-> v, time |-> s]
  OBVIOUS
<1>9. PICK m : m = WriteResponse("DATA_ATOMIC", a, w, l2'[a].wts, l2'[a].ver)
  OBVIOUS
<1>10. l2'[a].ver = v
  <2>1. PICK f : f = FilledEntry(a)
    OBVIOUS
  <2>2. f = [rts |-> f.rts, wts |-> f.wts, dirty |-> f.dirty, ver |-> f.ver]
    BY <2>1 DEF FilledEntry
  <2>3. PICK g : g = [f EXCEPT !.ver = v]
    OBVIOUS
  <2>4. g.ver = v
    BY <2>2, <2>3
  <2>5. l2'[a] = g
    BY <1>1, <1>3, <2>1, <2>3 DEF MemDataAtomic, TypeOK, L2TypeOK
  <2> QED BY <2>4, <2>5
<1>11. m.type = "DATA_ATOMIC" /\ m.addr = a /\ m.warp = w /\ m.ver = v
  BY <1>9, <1>10 DEF WriteResponse
<1>12. x \in Memory!Access /\ acc' = Append(acc, x) /\ x.warp = m.warp
  BY <1>7, <1>8, <1>11 DEF Performed, Memory!Access
<1>13. Strip(x) = Told(m)
  <2>1. x.op = "ATOMIC" /\ x.addr = a /\ x.ver = v
    BY <1>8
  <2> QED BY <1>11, <2>1 DEF Strip, Told
<1>14. ASSUME NEW b \in Banks, NEW c \in Cores, NEW i \in DOMAIN respNet'[b][c]
       PROVE  \/ \E j \in DOMAIN respNet[b][c] : respNet'[b][c][i] = respNet[b][c][j]
              \/ respNet'[b][c][i] = m
  <2>1. PICK r \in Seq(ResponseMsg) : r = respNet[b][c]
    BY DEF TypeOK, NetTypeOK
  <2>2. respNet'[b][c] = IF b = BankOf[a] /\ c = CoreOf[w]
                           THEN Append(respNet[b][c], WriteResponse("DATA_ATOMIC", a, w, l2'[a].wts, l2'[a].ver))
                           ELSE respNet[b][c]
    BY <1>1, <1>2, AtomicAnswer
  <2>3. respNet'[b][c] = Append(r, m) \/ respNet'[b][c] = r
    BY <1>9, <2>1, <2>2
  <2>4. (\E j \in DOMAIN r : respNet'[b][c][i] = r[j]) \/ respNet'[b][c][i] = m
    <3>1. PICK z : z = respNet'[b][c] /\ i \in DOMAIN z
      BY <1>14
    <3>2. CASE z = Append(r, m)
      <4>1. PICK n \in Nat : n = Len(r) /\ DOMAIN r = 1..n
        BY <2>1
      <4>2. DOMAIN z = 1..(n + 1) /\ z[n + 1] = m /\ \A j \in 1..n : z[j] = r[j]
        BY <2>1, <3>2, <4>1, AppendProperties
      <4>3. i = n + 1 \/ i \in 1..n
        BY <3>1, <4>1, <4>2
      <4> QED BY <3>1, <4>1, <4>2, <4>3
    <3>3. CASE z = r
      BY <3>1, <3>3
    <3> QED BY <2>3, <3>1, <3>2, <3>3
  <2> QED BY <2>1, <2>4
<1> QED BY <1>1, <1>12, <1>13, <1>14, AnsweredLog

\* An acknowledgement that waits at its core, by its name.
LEMMA SkipFound ==
    ASSUME TypeOK, ClockInv, NEW c \in Cores, NEW i \in DOMAIN skipL1[c], NEW k, k = skipL1[c][i]
    PROVE  /\ k \in SkipL1Request /\ k.warp \in Warps /\ k.addr \in Addrs /\ CoreOf[k.warp] = c
           /\ SkipId[k] = <<"W", k.warp, k.addr>> /\ Held(<<"W", k.warp, k.addr>>, "back")
<1>1. k \in SkipL1Request /\ CoreOf[k.warp] = c
  BY DEF TypeOK, MSHRTypeOK, ClockInv, SkipOK
<1>2. PICK w \in Warps, a \in Addrs : w = k.warp /\ a = k.addr
  BY <1>1 DEF SkipL1Request
<1>3. PICK h : h = <<"W", w, a>> /\ h \in Ids /\ HomeOf(h) = CoreOf[w] /\ h[3] = a
  BY WriteName
<1>4. SkipId[k] = h
  BY <1>1, <1>2, <1>3 DEF SkipId
<1>5. In(skipL1[c], SkipId, h)
  BY <1>4 DEF In
<1>6. Held(h, "back")
  BY <1>1, <1>2, <1>3, <1>5, HeldAt
<1> QED BY <1>1, <1>2, <1>3, <1>4, <1>6

\* What a warp is owed is a write of its that is under way.
LEMMA OwedHeld ==
    ASSUME TypeOK, WriteInv, ClockInv, NEW w \in Warps, NEW e, Owed(w, e)
    PROVE  \E a \in Addrs, s \in Stages : Held(<<"W", w, a>>, s)
<1>1. PICK c \in Cores : c = CoreOf[w]
  BY CoreOfAssumption
<1>2. "resp" \in Stages /\ "back" \in Stages
  BY DEF Stages, BeyondL1
<1>3. ASSUME NEW b \in Banks, NEW i \in DOMAIN respNet[b][c], respNet[b][c][i].type # "DATA",
             respNet[b][c][i].warp = w
      PROVE  \E a \in Addrs, s \in Stages : Held(<<"W", w, a>>, s)
  <2>1. PICK a \in Addrs : a = respNet[b][c][i].addr
    BY MessageTypes
  <2>2. Held(<<"W", w, a>>, "resp")
    BY <1>3, <2>1, WriteFound
  <2> QED BY <1>2, <2>2
<1>4. ASSUME NEW i \in DOMAIN skipL1[c], skipL1[c][i].warp = w
      PROVE  \E a \in Addrs, s \in Stages : Held(<<"W", w, a>>, s)
  <2>1. PICK k : k = skipL1[c][i]
    OBVIOUS
  <2>2. k.addr \in Addrs /\ Held(<<"W", k.warp, k.addr>>, "back")
    BY <2>1, SkipFound
  <2>3. k.warp = w
    BY <1>4, <2>1
  <2> QED BY <1>2, <2>2, <2>3
<1> QED BY <1>1, <1>3, <1>4 DEF Owed

\* A warp has one access under way.
LEMMA OneAccess ==
    ASSUME FlightInv, NEW w \in Warps, NEW a \in Addrs, NEW s \in Stages, Held(<<"W", w, a>>, s)
    PROVE  /\ \A x \in Addrs : ~Reads(w, x)
           /\ \A x \in Addrs, t \in Stages : Held(<<"W", w, x>>, t) => x = a /\ t = s
<1>1. ASSUME NEW x \in Addrs, NEW t \in Stages, Held(<<"W", w, x>>, t) PROVE Writes(w, x)
  <2>1. PICK h \in Ids : h = <<"W", w, x>> /\ h[1] = "W" /\ h[2] = w /\ h[3] = x
    BY WriteName
  <2>2. Wanted(h)
    BY <1>1, <2>1 DEF FlightInv, Awaited
  <2> QED BY <2>1, <2>2 DEF Wanted
<1>2. Writes(w, a)
  BY <1>1
<1>3. \A x \in Addrs : ~Reads(w, x)
  BY <1>2 DEF FlightInv, Busy
<1>4. ASSUME NEW x \in Addrs, NEW t \in Stages, Held(<<"W", w, x>>, t) PROVE x = a /\ t = s
  <2>1. x = a
    BY <1>1, <1>2, <1>4 DEF FlightInv, Busy
  <2>2. PICK h \in Ids : h = <<"W", w, x>>
    BY WriteName
  <2> QED BY <1>4, <2>1, <2>2 DEF FlightInv, Single
<1> QED BY <1>3, <1>4

\* A read is handed to its warp.
LEMMA ReadBackLog ==
    ASSUME TypeOK, WriteInv, ClockInv, FlightInv, AtInv, LogInv, NEW c \in Cores, ReadBack(c)
    PROVE  LogInv'
<1>1. Writeback(c)
  BY DEF ReadBack
<1>2. PICK w \in Warps, a \in Addrs :
              /\ a = Head(ready[c]) /\ 1 \in DOMAIN ready[c] /\ a = ready[c][1]
              /\ w = Head(mshr[c][a].list) /\ CoreOf[w] = c /\ Reads(w, a)
              /\ \A u \in Warps, x \in Addrs : Reads(u, x)' => Reads(u, x) /\ (u # w \/ x # a)
  BY <1>1, ReadTaken
<1>3. PICK v \in Nat, t \in Nat : v = mshr[c][a].ver /\ t = at[c][a]
  BY DEF TypeOK, MSHRTypeOK, MSHREntry, AtInv
<1>4. PICK e \in LogEntry : e = [op |-> "LD", addr |-> a, ver |-> v]
  BY DEF LogEntry
<1>5. log' = [log EXCEPT ![w] = Append(@, e)] /\ respNet' = respNet /\ skipL1' = skipL1
  BY <1>1, <1>2, <1>3, <1>4 DEF Writeback, next_access, Complete, netVars
<1>6. Performed(w, "LD", a, v, t)
  BY <1>2, <1>3 DEF ReadBack
<1>7. PICK x \in Memory!Access : acc' = Append(acc, x) /\ x.warp = w /\ Strip(x) = e
  <2>1. PICK x : x = [warp |-> w, op |-> "LD", addr |-> a, ver |-> v, time |-> t]
    OBVIOUS
  <2>2. x \in Memory!Access /\ acc' = Append(acc, x) /\ x.warp = w
    BY <1>6, <2>1 DEF Performed, Memory!Access
  <2>3. Strip(x) = e
    BY <1>4, <2>1 DEF Strip
  <2> QED BY <2>2, <2>3
<1>8. PICK n \in Nat : n = Len(acc) /\ DOMAIN acc = 1..n
  BY DEF LogInv
<1>9. /\ acc' \in Seq(Memory!Access) /\ Len(acc') = Len(acc) + 1 /\ acc'[Len(acc) + 1] = x
      /\ \A i \in DOMAIN acc' : (i \in DOMAIN acc /\ acc'[i] = acc[i]) \/ acc'[i] = x
      /\ \A i \in DOMAIN acc : i \in DOMAIN acc' /\ acc'[i] = acc[i]
      /\ \E i \in DOMAIN acc' : acc'[i] = x
  BY <1>7, OneMore DEF LogInv
<1>10. n + 1 \in DOMAIN acc' /\ acc'[n + 1] = x /\ \A i \in DOMAIN acc : i < n + 1
  BY <1>8, <1>9
<1>11. \A u \in Warps : \A z : Owed(u, z)' <=> Owed(u, z)
  BY <1>5 DEF Owed
<1>12. ASSUME NEW u \in Warps, u # w PROVE \E f : Follows(u, f)'
  <2>1. log'[u] = log[u]
    BY <1>5, <1>12 DEF TypeOK, MSHRTypeOK
  <2> QED BY <1>9, <1>11, <2>1, NotTold
<1>13. \E f : Follows(w, f)'
  <2>1. PICK f : Follows(w, f)
    BY DEF LogInv
  <2>2. log[w] \in Seq(LogEntry) /\ log'[w] = Append(log[w], e)
    BY <1>5 DEF TypeOK, MSHRTypeOK
  <2>3. \A i \in DOMAIN log[w] : f[i] < n + 1
    <3>1. \A i \in DOMAIN log[w] : f[i] \in DOMAIN acc
      BY <2>1 DEF Follows
    <3> QED BY <1>10, <3>1
  <2>4. \A z : ~Owed(w, z)'
    <3>1. ASSUME NEW z, Owed(w, z) PROVE FALSE
      <4>1. PICK y \in Addrs, s \in Stages : Held(<<"W", w, y>>, s)
        BY <3>1, OwedHeld
      <4> QED BY <1>2, <4>1, OneAccess
    <3> QED BY <1>11, <3>1
  <2>5. PICK p \in DOMAIN acc' : p = n + 1 /\ acc'[p] = x
    BY <1>10
  <2>6. acc'[p].warp = w /\ Strip(acc'[p]) = e /\ \A i \in DOMAIN log[w] : f[i] < p
    BY <1>7, <2>3, <2>5
  <2> QED BY <1>9, <2>1, <2>2, <2>4, <2>6, ToldOne
<1> QED BY <1>9, <1>12, <1>13 DEF LogInv

\* A warp is told that its write is done.
LEMMA WriteAckLog ==
    ASSUME TypeOK, WriteInv, ClockInv, FlightInv, LogInv, acc' = acc, NEW c \in Cores, WriteAck(c)
    PROVE  LogInv'
<1>1. skipL1[c] # <<>> /\ 1 \in DOMAIN skipL1[c] /\ Head(skipL1[c]) = skipL1[c][1]
  <2>1. skipL1[c] # <<>> /\ skipL1[c] \in Seq(SkipL1Request)
    BY DEF WriteAck, mark_skipped_write_done, TypeOK, MSHRTypeOK
  <2> QED BY <2>1, QueueFacts
<1>2. PICK k \in SkipL1Request, w \in Warps, a \in Addrs :
              /\ k = skipL1[c][1] /\ w = k.warp /\ a = k.addr /\ CoreOf[w] = c
              /\ SkipId[k] = <<"W", w, a>> /\ Held(<<"W", w, a>>, "back")
  <2>1. PICK k : k = skipL1[c][1]
    OBVIOUS
  <2>2. /\ k \in SkipL1Request /\ k.warp \in Warps /\ k.addr \in Addrs /\ CoreOf[k.warp] = c
        /\ SkipId[k] = <<"W", k.warp, k.addr>> /\ Held(<<"W", k.warp, k.addr>>, "back")
    BY SMTT(60), <1>1, <2>1, SkipFound
  <2> QED BY <2>1, <2>2
<1>3. PICK e \in LogEntry : e = Strip(k) /\ e = [op |-> k.op, addr |-> k.addr, ver |-> k.ver]
  BY DEF SkipL1Request, LogEntry, Strip
<1>4. /\ log' = [log EXCEPT ![w] = Append(@, e)] /\ respNet' = respNet
      /\ skipL1' = [skipL1 EXCEPT ![c] = Tail(@)]
  BY <1>1, <1>2, <1>3 DEF WriteAck, mark_skipped_write_done, Complete, netVars
<1>5. ASSUME NEW d \in Cores, NEW i \in DOMAIN skipL1'[d]
      PROVE  \E j \in DOMAIN skipL1[d] : skipL1'[d][i] = skipL1[d][j] /\ (d = c => j # 1)
  <2>1. CASE d = c
    <3>1. PICK q \in Seq(SkipL1Request) : q = skipL1[c] /\ q # <<>>
      BY <1>1 DEF TypeOK, MSHRTypeOK
    <3>2. skipL1'[d] = Tail(q)
      BY <1>4, <2>1, <3>1 DEF TypeOK, MSHRTypeOK
    <3>3. PICK n \in Nat : n = Len(q) /\ DOMAIN q = 1..n /\ n >= 1
      BY <3>1, EmptySeq
    <3>4. DOMAIN Tail(q) = 1..(n - 1) /\ \A j \in 1..(n - 1) : Tail(q)[j] = q[j + 1]
      BY <3>1, <3>3, HeadTailProperties
    <3>5. i \in 1..(n - 1)
      BY <1>5, <3>2, <3>4
    <3>6. i + 1 \in 1..n /\ i + 1 # 1
      BY <3>3, <3>5
    <3> QED BY <2>1, <3>1, <3>2, <3>3, <3>4, <3>5, <3>6
  <2>2. CASE d # c
    <3>1. skipL1'[d] = skipL1[d]
      BY <1>4, <2>2 DEF TypeOK, MSHRTypeOK
    <3> QED BY <1>5, <2>2, <3>1
  <2> QED BY <2>1, <2>2
<1>6. ASSUME NEW u \in Warps, NEW z, Owed(u, z)' PROVE Owed(u, z)
  <2>1. PICK d \in Cores : d = CoreOf[u]
    BY CoreOfAssumption
  <2>2. ASSUME NEW i \in DOMAIN skipL1'[d], skipL1'[d][i].warp = u, Strip(skipL1'[d][i]) = z
        PROVE  Owed(u, z)
    <3>1. PICK j \in DOMAIN skipL1[d] : skipL1'[d][i] = skipL1[d][j]
      BY <1>5
    <3> QED BY <2>1, <2>2, <3>1 DEF Owed
  <2> QED BY <1>4, <1>6, <2>1, <2>2 DEF Owed
<1>7. ASSUME NEW u \in Warps, u # w PROVE \E f : Follows(u, f)'
  <2>1. log'[u] = log[u]
    BY <1>4, <1>7 DEF TypeOK, MSHRTypeOK
  <2> QED BY <1>6, <2>1, NotTold
<1>8. "resp" \in Stages /\ "back" \in Stages
  BY DEF Stages, BeyondL1
<1>9. ASSUME NEW z, Owed(w, z)' PROVE FALSE
  <2>1. ASSUME NEW b \in Banks, NEW i \in DOMAIN respNet[b][c], respNet[b][c][i].type # "DATA",
               respNet[b][c][i].warp = w
        PROVE  FALSE
    <3>1. PICK x \in Addrs : x = respNet[b][c][i].addr
      BY MessageTypes
    <3>2. Held(<<"W", w, x>>, "resp")
      BY <2>1, <3>1, WriteFound
    <3>3. x = a /\ "resp" = "back"
      BY <1>2, <1>8, <3>2, OneAccess
    <3> QED BY <3>3
  <2>2. ASSUME NEW i \in DOMAIN skipL1'[c], skipL1'[c][i].warp = w PROVE FALSE
    <3>1. PICK j \in DOMAIN skipL1[c] : skipL1'[c][i] = skipL1[c][j] /\ j # 1
      BY <1>5
    <3>2. PICK l : l = skipL1[c][j]
      OBVIOUS
    <3>3. l.addr \in Addrs /\ SkipId[l] = <<"W", l.warp, l.addr>> /\ Held(<<"W", l.warp, l.addr>>, "back")
      BY <3>1, <3>2, SkipFound
    <3>4. l.warp = w
      BY <2>2, <3>1, <3>2
    <3>5. l.addr = a
      BY <1>2, <1>8, <3>3, <3>4, OneAccess
    <3>6. SkipId[skipL1[c][j]] = SkipId[skipL1[c][1]]
      BY <1>2, <3>2, <3>3, <3>4, <3>5
    <3>7. Once(skipL1[c], SkipId)
      BY DEF FlightInv, OnceEach
    <3> QED BY <1>1, <3>1, <3>6, <3>7 DEF Once
  <2> QED BY <1>2, <1>4, <1>9, <2>1, <2>2 DEF Owed
<1>10. \E f : Follows(w, f)'
  <2>1. PICK f : Follows(w, f)
    BY DEF LogInv
  <2>2. log[w] \in Seq(LogEntry) /\ log'[w] = Append(log[w], e)
    BY <1>4 DEF TypeOK, MSHRTypeOK
  <2>3. Owed(w, e)
    BY <1>1, <1>2, <1>3 DEF Owed
  <2>4. PICK p \in DOMAIN acc : /\ acc[p].warp = w /\ Strip(acc[p]) = e
                                /\ \A i \in DOMAIN log[w] : f[i] < p
    BY <2>1, <2>3 DEF Follows
  <2> QED BY <1>9, <2>1, <2>2, <2>4, ToldOne
<1> QED BY <1>7, <1>10 DEF LogInv

\* Initially nothing was done and nobody was told.
LEMMA InitLog == SerialInit => LogInv
<1> SUFFICES ASSUME SerialInit PROVE LogInv
  OBVIOUS
<1>1. acc = <<>> /\ Init
  BY DEF SerialInit
<1>2. /\ \A b \in Banks, c \in Cores : respNet[b][c] = <<>>
      /\ \A c \in Cores : skipL1[c] = <<>>
      /\ \A w \in Warps : log[w] = <<>>
  BY <1>1 DEF Init, NetInit, MSHRInit
<1>3. acc \in Seq(Memory!Access) /\ DOMAIN acc = {}
  BY <1>1
<1>4. ASSUME NEW w \in Warps PROVE \E f : Follows(w, f)
  <2>1. DOMAIN log[w] = {}
    BY <1>2
  <2>2. PICK f : f = [i \in {} |-> 0]
    OBVIOUS
  <2>3. f \in [DOMAIN log[w] -> DOMAIN acc]
    BY <2>1, <2>2
  <2>4. \A e : ~Owed(w, e)
    BY <1>2, CoreOfAssumption DEF Owed
  <2>5. Follows(w, f)
    BY <2>1, <2>3, <2>4 DEF Follows
  <2> QED BY <2>5
<1> QED BY <1>3, <1>4 DEF LogInv

\* Every step keeps the logs the accesses of their warps.
LEMMA NextLog ==
    ASSUME TypeOK, TypeOK', WriteInv, ClockInv, FlightInv, AtInv, LogInv, [SerialNext]_svars
    PROVE  LogInv'
<1>1. ASSUME NEW c \in Cores, Load(c) PROVE LogInv'
  <2>1. acc' = acc
    BY <1>1 DEF Load
  <2> QED BY <1>1, <2>1, QuietLog
<1>2. ASSUME NEW c \in Cores, L1Rest(c) PROVE LogInv'
  <2>1. acc' = acc
    BY <1>2 DEF L1Rest
  <2>2. CASE WriteThrough(c)
    BY <2>1, <2>2, QuietLog
  <2>3. ASSUME NEW v \in Addrs, L1_Replacement(c, v) PROVE LogInv'
    BY <2>1, <2>3, QuietLog
  <2>4. ASSUME NEW b \in Banks, WriteDone(c, b) PROVE LogInv'
    BY <2>1, <2>4, WriteDoneLog
  <2> QED BY <1>2, <2>2, <2>3, <2>4 DEF L1Rest
<1>3. ASSUME NEW c \in Cores, ReadBack(c) PROVE LogInv'
  BY <1>3, ReadBackLog
<1>4. ASSUME NEW c \in Cores, NEW b \in Banks, Arrive(c, b) PROVE LogInv'
  BY <1>4, ArriveLog
<1>5. ASSUME NEW b \in Banks, Bank(b) PROVE LogInv'
  BY <1>5, BankLog
<1>6. ASSUME NEW a \in Addrs, FetchedAtomic(a) PROVE LogInv'
  BY <1>6, AtomicLog
<1>7. ASSUME acc' = acc, NEW w \in Warps, Issue(w) PROVE LogInv'
  BY <1>7, QuietLog
<1>8. ASSUME acc' = acc, NEW c \in Cores, WriteAck(c) PROVE LogInv'
  BY <1>8, WriteAckLog
<1>9. ASSUME acc' = acc, NEW c \in Cores, NEW b \in Banks, Network(c, b) PROVE LogInv'
  BY <1>9, QuietLog
<1>10. ASSUME acc' = acc, NEW a \in Addrs, MemData(a), UNCHANGED <<coreVars, l1Vars>> PROVE LogInv'
  <2>1. UNCHANGED coreVars
    BY <1>10
  <2> QED BY <1>10, <2>1, QuietLog
<1>11. ASSUME acc' = acc, UNCHANGED vars PROVE LogInv'
  BY <1>11, QuietLog
<1>12. UNCHANGED svars => acc' = acc /\ UNCHANGED vars
  BY DEF svars
<1>13. CASE acc' = acc
  BY <1>1, <1>2, <1>3, <1>4, <1>5, <1>6, <1>7, <1>8, <1>9, <1>10, <1>11, <1>12, <1>13 DEF SerialNext, Terminated
<1>14. CASE acc' # acc
  BY <1>1, <1>2, <1>3, <1>4, <1>5, <1>6, <1>12, <1>14 DEF SerialNext
<1> QED BY <1>13, <1>14

\* What a warp is told (Complete) are its accesses to the memory, each once and
\* in the order in which they took effect, and what it is about to be told
\* comes after them.
THEOREM LogFollowsMemory == SerialSpec => []LogInv
<1>1. TypeOK /\ TypeOK' /\ WriteInv /\ ClockInv /\ FlightInv /\ AtInv /\ LogInv /\ [SerialNext]_svars => LogInv'
  BY NextLog
<1> QED BY <1>1, InitLog, SpecOfRCC, TypeCorrect, WritesInvariant, ClocksInvariant, FlightInvariant,
           ReadsInvariant, PTL DEF SerialSpec

\* The accesses of the logs are accesses of the memory, so what orders these
\* orders those.
LEMMA LogConsistent ==
    ASSUME LogInv, Memory!SequentialConsistency
    PROVE  SequentialConsistency
<1>1. PICK F : \A w \in Warps : Follows(w, F[w])
  <2>1. PICK G : G = [w \in Warps |-> CHOOSE f : Follows(w, f)]
    OBVIOUS
  <2>2. ASSUME NEW w \in Warps PROVE Follows(w, G[w])
    <3>1. \E f : Follows(w, f)
      BY DEF LogInv
    <3>2. PICK g : g = CHOOSE f : Follows(w, f)
      OBVIOUS
    <3>3. Follows(w, g)
      BY <3>1, <3>2, Zenon
    <3>4. G[w] = g
      BY <2>1, <3>2
    <3> QED BY <3>3, <3>4
  <2> QED BY <2>2
<1>2. PICK P : P = [e \in Events |-> F[e[1]][e[2]]]
  OBVIOUS
<1>3. ASSUME NEW e \in Events
      PROVE  /\ e[1] \in Warps /\ e[2] \in DOMAIN log[e[1]]
             /\ P[e] \in DOMAIN acc /\ acc[P[e]].warp = e[1]
             /\ acc[P[e]].addr = At(e).addr /\ Memory!Turn(acc[P[e]]) = Turn(At(e))
  <2>1. PICK w \in Warps : e \in {w} \X DOMAIN log[w]
    BY DEF Events
  <2>2. PICK i \in DOMAIN log[w] : e[1] = w /\ e[2] = i
    BY <2>1
  <2>3. Follows(w, F[w])
    BY <1>1
  <2>4. F[w][i] \in DOMAIN acc /\ acc[F[w][i]].warp = w /\ Strip(acc[F[w][i]]) = log[w][i]
    BY <2>3 DEF Follows
  <2>5. P[e] = F[w][i]
    BY <1>2, <2>2
  <2>6. PICK x, y : x = acc[P[e]] /\ y = At(e)
    OBVIOUS
  <2>7. y = Strip(x)
    BY <2>2, <2>4, <2>5, <2>6 DEF At
  <2>8. y.op = x.op /\ y.addr = x.addr /\ y.ver = x.ver
    BY <2>7 DEF Strip
  <2>9. Memory!Turn(x) = Turn(y)
    BY <2>8 DEF Memory!Turn, Memory!IsWrite, Turn
  <2> QED BY <2>2, <2>4, <2>5, <2>6, <2>8, <2>9
<1>4. ASSUME NEW g \in Events, NEW e \in Events, Before(g, e)
      PROVE  Memory!Before(P[g], P[e])
  <2>1. CASE g[1] = e[1] /\ g[2] < e[2]
    <3>1. PICK w \in Warps : w = e[1] /\ w = g[1] /\ g[2] \in DOMAIN log[w] /\ e[2] \in DOMAIN log[w]
      BY <1>3, <2>1
    <3>2. Follows(w, F[w])
      BY <1>1
    <3>3. F[w][g[2]] < F[w][e[2]]
      BY <2>1, <3>1, <3>2 DEF Follows
    <3>4. P[g] = F[w][g[2]] /\ P[e] = F[w][e[2]]
      BY <1>2, <3>1
    <3>5. acc[P[g]].warp = acc[P[e]].warp
      BY <1>3, <2>1
    <3> QED BY <3>3, <3>4, <3>5 DEF Memory!Before
  <2>2. CASE At(g).addr = At(e).addr /\ Turn(At(g)) < Turn(At(e))
    BY <1>3, <2>2 DEF Memory!Before
  <2> QED BY <1>4, <2>1, <2>2 DEF Before
<1>5. ASSUME NEW S \in SUBSET Events, S # {} PROVE \E e \in S : \A g \in S : ~Before(g, e)
  <2>1. PICK T : T = {P[e] : e \in S}
    OBVIOUS
  <2>2. T \in SUBSET DOMAIN acc /\ T # {}
    BY <1>3, <1>5, <2>1
  <2>3. PICK t \in T : \A j \in T : ~Memory!Before(j, t)
    BY <2>2 DEF Memory!SequentialConsistency
  <2>4. PICK e \in S : t = P[e]
    BY <2>1, <2>3
  <2>5. ASSUME NEW g \in S PROVE ~Before(g, e)
    <3>1. P[g] \in T
      BY <2>1
    <3>2. ~Memory!Before(P[g], P[e])
      BY <2>3, <2>4, <3>1
    <3> QED BY <1>4, <1>5, <2>4, <3>2
  <2> QED BY <2>4, <2>5
<1> QED BY <1>5 DEF SequentialConsistency

\* What the warps of the whole GPU see is sequentially consistent: there is one
\* order of their accesses that respects every program and in which each load
\* returns the latest write.  It rests on leases (isLive, tr_updateL2BlockRts),
\* on the version order (tw_updateL2BlockWts, mt), on the clocks (tp) and on
\* the SC fence (warp_can_issue's check of the outstanding accesses).
THEOREM WarpsConsistent ==
    ASSUME NoMerge, LinesFit, Gap = 1
    PROVE  SerialSpec => []SequentialConsistency
BY LogConsistent, LogFollowsMemory, AccessesConsistent, PTL

=============================================================================
