----------------------------- MODULE TardisNet -----------------------------
(***************************************************************************)
(* What the controllers of the tardis-VI protocol share: the parameters of  *)
(* the GPU, the two message structures of tardis-VI-msg.sm, the requests    *)
(* the cores put into their L1's mandatory queue, and the message buffers   *)
(* of the two ordered virtual networks.                                     *)
(*                                                                          *)
(* A memfetch pointer is modelled by the warp that issued it: a warp under  *)
(* the SC fence has one memory instruction in flight, so the warp names the *)
(* request, its core (CoreOf) and, through the core, the Requestor field.   *)
(* A data block is modelled by its version, the number of writes to the     *)
(* block that reached the L2 before it was copied.  The version is history: *)
(* the simulator computes values outside Ruby, a store never fills a        *)
(* DataBlk and h_load_hit hands none to the core, so the version says which *)
(* write the timestamps of a message or line stand for.                     *)
(***************************************************************************)
EXTENDS Integers, Sequences, FiniteSets

CONSTANTS
    Cores,      \* shader cores, one private L1 each
    Warps,      \* warps of all cores
    CoreOf,     \* the core a warp runs on
    Addrs,      \* line addresses
    Banks,      \* L2 banks, each with its own mts
    BankOf,     \* the bank a line maps to (map_L1CacheMachId_to_L2Cache)
    Lease,      \* get_lease_fixed(): the delta every GETS asks for
    L1Ways,     \* lines an L1 set holds
    L2Ways      \* lines an L2 set holds

ASSUME CoreOfAssumption == CoreOf \in [Warps -> Cores]
ASSUME BankOfAssumption == BankOf \in [Addrs -> Banks]
ASSUME LeaseAssumption == Lease \in Nat
ASSUME WaysAssumption == L1Ways \in Nat \ {0} /\ L2Ways \in Nat \ {0}

VARIABLES
    mandQ,      \* mandQ[c]: the mandatory queue of core c's L1
    reqNet,     \* reqNet[c][b]: virtual network 0, from L1 c to bank b
    l2in,       \* l2in[b]: bank b's L1RequestToL2Cache buffer
    respNet     \* respNet[b][c]: virtual network 1, from bank b to L1 c

netVars == <<mandQ, reqNet, l2in, respNet>>

\* CacheRequestType: the three requests a core makes of its L1.
CacheMsg == [op: {"LD", "ST", "ATOMIC"}, addr: Addrs, warp: Warps]

\* RequestMsg.  A write carries no lifetime, so rts, inL1 and expired keep
\* the default values of the structure.
RequestMsg == [type: {"GETS", "DATA", "DATA_ATOMIC"}, addr: Addrs, warp: Warps,
               pts: Nat, rts: Nat, inL1: BOOLEAN, expired: BOOLEAN]

\* ResponseMsg.  Only DATA carries an rts.
ResponseMsg == [type: {"DATA", "ACK", "DATA_ATOMIC"}, addr: Addrs, warp: Warps,
                wts: Nat, rts: Nat, ver: Nat]

\* getTimeMax
getTimeMax(s, t) == IF s > t THEN s ELSE t

NetInit ==
    /\ mandQ = [c \in Cores |-> <<>>]
    /\ reqNet = [c \in Cores |-> [b \in Banks |-> <<>>]]
    /\ l2in = [b \in Banks |-> <<>>]
    /\ respNet = [b \in Banks |-> [c \in Cores |-> <<>>]]

\* Virtual network 0 keeps the order between one L1 and one bank; messages of
\* different L1s arrive in any order.
Deliver(c, b) ==
    /\ reqNet[c][b] # <<>>
    /\ l2in' = [l2in EXCEPT ![b] = Append(@, Head(reqNet[c][b]))]
    /\ reqNet' = [reqNet EXCEPT ![c][b] = Tail(@)]

\* enqueue(requestIntraChipL1Network_out) by core c
SendRequest(c, m) ==
    reqNet' = [reqNet EXCEPT ![c][BankOf[m.addr]] = Append(@, m)]

\* enqueue(responseIntraChipL2Network_out) by bank b: one copy of a response
\* to the L1 of every warp that m(_) is about.
SendResponses(b, ws, m(_)) ==
    respNet' = [respNet EXCEPT ![b] = [c \in Cores |->
        IF \E w \in ws : CoreOf[w] = c
          THEN Append(@[c], m(CHOOSE w \in ws : CoreOf[w] = c))
          ELSE @[c]]]

SendResponse(b, m) ==
    respNet' = [respNet EXCEPT ![b][CoreOf[m.warp]] = Append(@, m)]

NetTypeOK ==
    /\ mandQ \in [Cores -> Seq(CacheMsg)]
    /\ reqNet \in [Cores -> [Banks -> Seq(RequestMsg)]]
    /\ l2in \in [Banks -> Seq(RequestMsg)]
    /\ respNet \in [Banks -> [Cores -> Seq(ResponseMsg)]]
=============================================================================
