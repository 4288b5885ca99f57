------------------------- MODULE TokenDBRefinement -------------------------
(***************************************************************************)
(* TokenDB implements TokenLedger: the accounts are the balance, supply    *)
(* and ticker tables as committed.  Also here: the conservation of supply. *)
(***************************************************************************)
EXTENDS TokenDB, Functions

Accounts(L) == [balances |-> L.balances,
                supply |-> [t \in Txids |-> L.infos[t].circulating_supply],
                tickers |-> L.tickers]

Abstract == INSTANCE TokenLedger WITH
    accounts <- Accounts(ledger),
    past <- [h \in DOMAIN trail |-> Accounts(Head(trail[h]))]

(* ProcessBlock's operation-by-operation batch, with its overlay, its      *)
(* per-table writes and its skip of an already processed block, amounts to *)
(* applying the block to the accounts at once, and DisconnectBlock to      *)
(* returning to the accounts before it: the database is a function of the  *)
(* active chain whatever reorgs led to it.                                 *)
ImplementsLedger == Abstract!Spec

(* No sequence of issuances, transfers (to oneself too), burns and reorgs  *)
(* creates or loses tokens: the balances of a token add up to its          *)
(* circulating supply, which never exceeds what was issued.                *)
SupplyConserved ==
    \A t \in Txids :
        /\ SumFunction(ledger.balances[t]) = ledger.infos[t].circulating_supply
        /\ ledger.infos[t].circulating_supply <= ledger.infos[t].total_supply

=============================================================================
