------------------------------ MODULE MCDelay ------------------------------
(***************************************************************************)
(* An instance of the system with delay queues.                             *)
(***************************************************************************)
EXTENDS RCCDelay, MC

\* Two warps of c1 read and write while c2 stores.
Held3 == "w1" :> <<Loads, Loads>> @@ "w2" :> <<Plain>>
      @@ "w3" :> <<Every \ Loads, Every \ Loads>>
=============================================================================
