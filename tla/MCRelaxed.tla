------------------------------ MODULE MCRelaxed ------------------------------
(***************************************************************************)
(* Small GPUs with the relaxed protocol: litmus tests with fences.          *)
(***************************************************************************)
EXTENDS RCCRelaxed, TLC

TwoBanks == "x" :> "b1" @@ "y" :> "b2" @@ "z" :> "b1"

FENCE == {<<"FENCE", "none">>}
On(ops, lines) == ops \X lines
xy == {"x", "y"}

\* Messages and flags: one thread publishes, or writes and looks; the other one,
\* which has old copies, looks, or publishes as well, and a third one on its
\* core joins the core's clocks at any time.  The load of z evicts a line.
Mixed == "t1" :> <<On({"ATOMIC", "ST"}, {"x"}), FENCE, On({"ATOMIC", "ST", "LD"}, {"y"})>>
      @@ "t2" :> <<On({"LD"}, xy), On({"LD", "ATOMIC"}, xy), FENCE, On({"LD"}, {"x", "z"})>>
      @@ "t3" :> <<FENCE>>
\* A message and its flag, both stored.
Stored == "t1" :> <<On({"ST"}, xy), FENCE, On({"ST"}, xy)>>
       @@ "t2" :> <<On({"LD"}, xy), On({"LD"}, xy), FENCE, On({"LD"}, xy)>>
\* t1 runs on c1, the others on c2.
Placed(fetches) == [f \in fetches |-> IF f[1] = "t1" THEN "c1" ELSE "c2"]
StoredFetches == {"t1"} \X (1..3) \cup {"t2"} \X (1..4)
StoredCores == Placed(StoredFetches)
MixedFetches == StoredFetches \cup {<<"t3", 1>>}
MixedCores == Placed(MixedFetches)
=============================================================================
