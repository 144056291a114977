------------------------------ MODULE MCRenew ------------------------------
(***************************************************************************)
(* An instance of the system with renewals and predicted leases.            *)
(***************************************************************************)
EXTENDS RCCPred, MC

OneBank3 == OneBank @@ "z" :> "b1"

LD(A) == {"LD"} \X A
ST(A) == {"ST"} \X A

\* The first warp comes back to x after its clock has moved on; the second
\* writes, which may evict x meanwhile.
Again == "w1" :> <<LD({"x"}), LD({"y"}), ST({"y"}) \cup LD({"z"}), LD({"x", "y"})>>
      @@ "w2" :> <<ST(Addrs) \cup {<<"ATOMIC", "x">>}, ST(Addrs) \cup LD({"x"}), LD({"x"})>>
=============================================================================
