------------------------------- MODULE MCCore -------------------------------
(***************************************************************************)
(* Instances of a shader core.                                              *)
(***************************************************************************)
EXTENDS ShaderCore, TLC

OneCta == "w1" :> "cta1" @@ "w2" :> "cta1"
OneCta3 == OneCta @@ "w3" :> "cta1"

\* the addresses of two lanes: one word, one segment, two segments
Same == <<0, 0>>
Near == <<0, 1>>
Far == <<0, 2>>

Access(op, space, off, addrs, words, out) ==
    {[op |-> op, space |-> space, off |-> off, addr |-> a, words |-> words, out |-> out,
      in |-> {}] : a \in addrs}

LD(addrs, out) == Access("LD", "global", {}, addrs, 1, out)
ST(addrs) == Access("ST", "global", {}, addrs, 1, 0)
ATOM(addrs) == Access("ATOM", "global", {}, addrs, 1, 0) \cup Access("ATOM", "global", {}, addrs, 1, 1)
Local(op, out) == Access(op, "local", {}, {Near}, 1, out)
Wide(op, out) == Access(op, "local", {}, {Near}, 2, out)
Generic(op, out) == Access(op, "generic", {}, {Near}, 1, out)
Predicated(op, out) == Access(op, "global", {2}, {Near}, 1, out)

Control(op, in) == {[op |-> op, out |-> 0, in |-> in]}
MEMBAR == Control("MEMBAR", {})
BAR == Control("BAR", {})
EXIT == Control("EXIT", {})

\* Loads, stores and atomics of all shapes, then a memory barrier or a load.
Kinds == LD({Near, Far}, 1) \cup ST({Far}) \cup ATOM({Same, Far}) \cup Local("ST", 0)
Memory == "w1" :> <<Kinds, MEMBAR \cup LD({Far}, 1) \cup ST({Near}), EXIT>>
       @@ "w2" :> <<Kinds, MEMBAR \cup ST({Far}), EXIT>>
\* Loads of one and of several accesses into two registers, under a predicate,
\* through a generic address and of a double in local memory, with barriers in
\* between; w3 exits early.
Barriers == "w1" :> <<LD({Far}, 1) \cup ST({Far}), BAR, LD({Near}, 2) \cup Predicated("LD", 1), BAR, EXIT>>
         @@ "w2" :> <<BAR, LD({Far}, 1) \cup Wide("LD", 1) \cup Generic("LD", 1), BAR, EXIT>>
         @@ "w3" :> <<ST({Far}) \cup BAR, EXIT>>
\* A load under a predicate.
Guarded == "w1" :> <<Predicated("LD", 1), LD({Near}, 2), EXIT>> @@ "w2" :> <<LD({Near}, 1), EXIT>>
=============================================================================
