------------------------------ MODULE MCSerial ------------------------------
(***************************************************************************)
(* Instances for the refinement of a memory in logical time.                *)
(***************************************************************************)
EXTENDS RCCSerial, MC

Every22 == "w1" :> <<Every, Every>> @@ "w2" :> <<Every, Every>>
\* A warp of c1 reads x or writes it, the other one reads or upgrades a line of
\* theirs, and c2 writes and looks.  (x and y are alike, so w1 starts with x.)
Buffered == "w1" :> <<{"LD", "ST"} \X {"x"}, Loads>> @@ "w2" :> <<Plain>>
         @@ "w3" :> <<Stores, Plain>>
=============================================================================
