----------------------------- MODULE MCTokenDB -----------------------------
(***************************************************************************)
(* Instance of TokenDB for TLC: two owners, two tickers, and transactions  *)
(* chosen so that tickers collide, one transaction carries two operations, *)
(* balances are drained by transfers and by burns, an address pays itself, *)
(* and fees and balances are sometimes too small.                          *)
(***************************************************************************)
EXTENDS TokenDBRefinement, TokenDBInvariant

CONSTANTS alice, bob, gold, coal, k1, k2, pay, drain, self, burn

Issue(k, n) == [action |-> "ISSUE", ticker |-> k, token_id |-> NoTxid, amount |-> n]

Transfer(t, n) == [action |-> "TRANSFER", ticker |-> NoTicker, token_id |-> t, amount |-> n]

Burn(t, n) == [action |-> "BURN", ticker |-> NoTicker, token_id |-> t, amount |-> n]

Tx(id, from, to, fee, ops) ==
    [txid |-> id, sender |-> from, recipient |-> to, issuer |-> from, fee |-> fee, ops |-> ops]

MCScripts == {alice, bob}

MCTxids == {gold, coal, pay, drain, self, burn}

MCTickers == {k1, k2}

MCTxs == {
    Tx(gold, alice, EmptyScript, 1, <<Issue(k1, 3)>>),
    Tx(coal, bob, EmptyScript, 1, <<Issue(k1, 1), Issue(k2, 2)>>),
    Tx(pay, alice, bob, 0, <<Transfer(gold, 1), Burn(gold, 1)>>),
    Tx(drain, alice, bob, 0, <<Transfer(gold, 3)>>),
    Tx(self, bob, bob, 0, <<Transfer(gold, 1)>>),
    Tx(burn, bob, EmptyScript, 0, <<Burn(gold, 1)>>)}

=============================================================================
