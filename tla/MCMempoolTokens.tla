-------------------------- MODULE MCMempoolTokens --------------------------
(***************************************************************************)
(* Instance of MempoolTokens for TLC: two issuances of one ticker, where   *)
(* one spends the other's output, a replacement of the first, a transfer   *)
(* of two operations, a replacement of it without token operations, and a  *)
(* burn.                                                                   *)
(***************************************************************************)
EXTENDS MempoolTokens

CONSTANTS issue, child, bump, send, cancel, burn, A, B, X, T

Op(a, k, n) == [action |-> a, id |-> k, amount |-> n]

MCSender == [t \in Tx |-> IF t = child THEN B ELSE A]

MCRecipient == [t \in Tx |-> B]

MCOps ==
    [t \in Tx |->
        CASE t \in {issue, child, bump} -> <<Op("ISSUE", X, 0)>>
          [] t = send -> <<Op("TRANSFER", T, 1), Op("TRANSFER", T, 1)>>
          [] t = cancel -> <<>>
          [] t = burn -> <<Op("BURN", T, 1)>>]

MCCoin == [t \in Tx |-> IF t = bump THEN issue ELSE IF t = cancel THEN send ELSE t]

MCParent == [t \in Tx |-> IF t = child THEN issue ELSE NoTx]

MCFee == [t \in Tx |-> IF t \in {bump, cancel} THEN 3 ELSE 1]

MCSupply == [x \in Addr \X Tokens |-> IF x[1] = A THEN 3 ELSE 1]

MCPackages == {<<issue, child>>}

=============================================================================
