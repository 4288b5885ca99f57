--------------------------- MODULE MCRandomXPool ---------------------------
(***************************************************************************)
(* Instance of RandomXPool for TLC: four threads of different priorities,  *)
(* two of them consensus-critical, share a pool smaller than their number. *)
(***************************************************************************)
EXTENDS RandomXPool, TLC

CONSTANTS t1, t2, t3, t4

MCPriority ==
    (t1 :> CONSENSUS_CRITICAL) @@ (t2 :> CONSENSUS_CRITICAL) @@ (t3 :> HIGH) @@ (t4 :> LOW)

=============================================================================
