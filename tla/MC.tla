--------------------------------- MODULE MC ---------------------------------
(***************************************************************************)
(* Small GPUs for TLC.  A configuration names its cores, warps, lines and   *)
(* banks; the functions between them and the programs are defined here.     *)
(***************************************************************************)
EXTENDS RCCProperties, TLC

\* one warp per core
OneWarp == "w1" :> "c1" @@ "w2" :> "c2"
\* two warps on core c1, one on c2
TwoWarps == "w1" :> "c1" @@ "w2" :> "c1" @@ "w3" :> "c2"

OneBank == "x" :> "b1" @@ "y" :> "b1"
TwoBanks == "x" :> "b1" @@ "y" :> "b2"

Every == {"LD", "ST", "ATOMIC"} \X Addrs
Plain == {"LD", "ST"} \X Addrs
Stores == {"ST"} \X Addrs
Loads == {"LD"} \X Addrs

\* Core c2 only stores.
Passing == "w1" :> <<Plain, Plain, Plain>> @@ "w2" :> <<Stores, Stores, Stores>>
\* Two warps of c1 share lines with a warp of c2.
Shared == "w1" :> <<Plain>> @@ "w2" :> <<Plain, Plain>> @@ "w3" :> <<Plain>>
\* c2 passes a message to the second warp of c1 while the first one loads.
Message == "w1" :> <<Loads>> @@ "w2" :> <<Loads, Loads>> @@ "w3" :> <<Stores, Stores>>
=============================================================================
