---------------------------- MODULE MCTokenSync ----------------------------
(***************************************************************************)
(* Instance of TokenSync for TLC: two branches that fork after the first   *)
(* block; the middle block of each branch has no token operations.         *)
(***************************************************************************)
EXTENDS TokenSync, TLC

CONSTANTS g, a1, a2, a3, b2, b3

MCParent == (a1 :> g) @@ (a2 :> a1) @@ (a3 :> a2) @@ (b2 :> a1) @@ (b3 :> b2)

=============================================================================
