-------------------------- MODULE MCRandomXMining --------------------------
(* Two calls with two threads each, over a change of the key block.        *)
EXTENDS RandomXMining

CONSTANTS c1, c2

MCCalls == {c1, c2}

(* The first call has more tries than the threads have nonces, the second  *)
(* too few for a hash.                                                     *)
MCnMaxTries == [c \in MCCalls |-> IF c = c1 THEN 6 ELSE 1]

MCnGenerate == [c \in MCCalls |-> 1]
============================================================================
