--------------------------- MODULE MCTokenCache ---------------------------
(***************************************************************************)
(* Instance of TokenCache for TLC: two tokens that compete for a cache of  *)
(* one entry, or share one of two, and two RPC threads.                    *)
(***************************************************************************)
EXTENDS TokenCache, TLC

Symmetry == Permutations(Tokens) \cup Permutations(Readers)

=============================================================================
