------------------------------ MODULE RCCDelay ------------------------------
(***************************************************************************)
(* The delay queue of an L1 (-ruby_delay_queue_enabled).  A response that   *)
(* would push the core's clock far ahead is held back, so that leases of    *)
(* the core live longer, until the L1 is woken in a cycle in which a warp   *)
(* scheduler could not issue.                                               *)
(*                                                                          *)
(* A held response causes one wake-up of its own, when it is inserted.      *)
(* Afterwards the L1 only looks at the queue when some other message wakes  *)
(* it: an event whose in_port triggers nothing is not scheduled again.      *)
(* Whether the scheduler issues in a given cycle depends on the arithmetic  *)
(* instructions of the warps, which are not modelled: a look at the queue   *)
(* finds it stalled or not.                                                 *)
(***************************************************************************)
EXTENDS RCCProperties

LOCAL INSTANCE SequencesExt

CONSTANT DelayThreshold     \* delay_queue_threshold()

ASSUME ThresholdAssumption == DelayThreshold \in Nat

VARIABLES
    delayQ,     \* delayQ[c]: held responses, earliest wts first
    wake        \* wake[c]: wake-ups of L1 c that still will look at delayQ[c]

delayVars == <<delayQ, wake>>

dvars == <<vars, delayVars>>

DelayInit ==
    /\ Init
    /\ delayQ = [c \in Cores |-> <<>>]
    /\ wake = [c \in Cores |-> 0]

\* The condition of the response port.
MustDelay(c, m) == m.wts - pts[c] > DelayThreshold

\* Fault: a response is held behind every response held before it.
Held_fifo(q, m) == Append(q, m)

\* Fault: one response is held per line.
Held_perLine(q, m) ==
    LET other(x) == x.addr # m.addr
        r == SelectSeq(q, other)
    IN InsertAt(r, Cardinality({i \in DOMAIN r : r[i].wts <= m.wts}) + 1, m)

\* node_less_then_eq: the heap is ordered by reply_wts, then by insertion.
Held(q, m) == InsertAt(q, Cardinality({i \in DOMAIN q : q[i].wts <= m.wts}) + 1, m)

\* scheduleEventAbsolute: a wake-up for a cycle that has one is redundant.
Schedule(c) ==
    \/ wake' = [wake EXCEPT ![c] = @ + 1]
    \/ wake[c] > 0 /\ UNCHANGED wake

\* Delay: idq_insertDelayQueue, then the response is popped.
Delay(c, b) ==
    /\ respNet[b][c] # <<>>
    /\ MustDelay(c, Head(respNet[b][c]))
    /\ delayQ' = [delayQ EXCEPT ![c] = Held(@, Head(respNet[b][c]))]
    /\ respNet' = [respNet EXCEPT ![b][c] = Tail(@)]
    /\ Schedule(c)
    /\ UNCHANGED <<mandQ, reqNet, l2in, coreVars, l1Vars, l2Vars>>

\* A response that is not held, or a request of the core.  The L1 looks at
\* its first port, the delay queue, in the same wake-up.
Undelayed(c) ==
    /\ L1Next(c)
    /\ \A b \in Banks : respNet'[b][c] # respNet[b][c] => ~MustDelay(c, Head(respNet[b][c]))
    /\ IF delayQ[c] = <<>> THEN UNCHANGED wake ELSE Schedule(c)
    /\ UNCHANGED <<delayQ, l2Vars>>

\* The Delay_ transitions are those of responses with the delay queue in the
\* place of the network.
Queue == INSTANCE TardisL1 WITH
            Banks <- {"delay"},
            BankOf <- [a \in Addrs |-> "delay"],
            respNet <- [q \in {"delay"} |-> delayQ]

\* L2ResponseDelayQueue_in while the scheduler is stalled: one response is
\* handed out (delay_queue_transitions_per_cycle is 1).
Serve(c) ==
    /\ wake[c] > 0 /\ delayQ[c] # <<>>
    /\ delayQ' = [delayQ EXCEPT ![c] = Tail(@)]
    /\ Queue!Data(c, "delay") \/ Queue!WriteDone(c, "delay")
    /\ wake' = [wake EXCEPT ![c] = IF delayQ'[c] = <<>> THEN 0 ELSE @ - 1]
    /\ UNCHANGED <<respNet, l2Vars>>

\* The scheduler has issued in the cycle of the wake-up: nothing is handed
\* out and nothing is scheduled.
Missed(c) ==
    /\ wake[c] > 0 /\ delayQ[c] # <<>>
    /\ wake' = [wake EXCEPT ![c] = @ - 1]
    /\ UNCHANGED <<vars, delayQ>>

Others ==
    /\ \/ \E w \in Warps : Issue(w)
       \/ \E c \in Cores : Writeback(c) \/ WriteAck(c)
       \/ \E c \in Cores, b \in Banks : Network(c, b)
       \/ \E b \in Banks : L2Step(b)
       \/ \E a \in Addrs : Dram(a)
       \/ Terminated
    /\ UNCHANGED delayVars

DelayNext ==
    \/ \E c \in Cores : Undelayed(c) \/ Serve(c) \/ Missed(c)
    \/ \E c \in Cores, b \in Banks : Delay(c, b)
    \/ Others

DelaySpec == DelayInit /\ [][DelayNext]_dvars

-----------------------------------------------------------------------------
(* Properties.                                                              *)

HeldFor(c, a, rd) ==
    LET rsp(m) == m.addr = a /\ (m.type = "DATA") = rd IN InQueue(delayQ[c], rsp)

\* Holding a response back loses and repeats nothing: the pending counters of
\* an L1's TBE count the requests beyond the L1 and the responses it holds, and
\* every response, held or on its way, still finds the TBE and the line that
\* the asserts of both response ports expect.
HeldCounted ==
    \A c \in Cores, a \in Addrs :
        /\ tbe[c][a].reads = InFlight(c, a, TRUE) + HeldFor(c, a, TRUE)
        /\ tbe[c][a].writes = InFlight(c, a, FALSE) + HeldFor(c, a, FALSE)
        /\ HeldFor(c, a, TRUE) > 0 => tbe[c][a].reads = 1 /\ line[c][a].tag

\* Serving the delay queue never makes a held response wait for one that moves
\* the clock further: the clock passes the held times in increasing order.
ServedInOrder ==
    [][\A c \in Cores : Len(delayQ'[c]) < Len(delayQ[c]) =>
          \A i \in DOMAIN delayQ'[c] : pts'[c] <= getTimeMax(pts[c], delayQ'[c][i].wts)]_dvars
=============================================================================
