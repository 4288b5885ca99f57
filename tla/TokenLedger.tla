---------------------------- MODULE TokenLedger ----------------------------
(***************************************************************************)
(* What the token database promises: the accounts are a function of the    *)
(* active chain.  Connecting a block applies its operations in one step,   *)
(* disconnecting it returns to the accounts the block was connected on.    *)
(* There are no indexes, batches, undo records or best-block pointers.     *)
(***************************************************************************)
EXTENDS Integers, Sequences, SequencesExt

CONSTANTS Addresses, EmptyScript, Txids, NoTxid, Tickers, Txs,
          MAX_TOKENS_PER_BLOCK, MIN_TOKEN_ISSUANCE_FEE

VARIABLES
    chain,      \* the transaction lists of the active chain
    accounts,   \* who owns what
    past        \* the accounts before each block of the chain

vars == <<chain, accounts, past>>

NoAccounts == [balances |-> [t \in Txids |-> [a \in Addresses |-> 0]],
               supply |-> [t \in Txids |-> 0],
               tickers |-> [k \in Tickers |-> NoTxid]]

(* The first issuance of a ticker wins, a transaction issues at most one   *)
(* token, and the issuer owns the whole supply.                            *)
Issued(A, tx, op) ==
    IF /\ tx.issuer # EmptyScript
       /\ tx.fee >= MIN_TOKEN_ISSUANCE_FEE
       /\ A.tickers[op.ticker] = NoTxid
       /\ \A k \in Tickers : A.tickers[k] # tx.txid
    THEN {[A EXCEPT !.tickers[op.ticker] = tx.txid,
                    !.supply[tx.txid] = op.amount,
                    !.balances[tx.txid][tx.issuer] = op.amount]}
    ELSE {}

Transferred(A, tx, op) ==
    IF tx.recipient # EmptyScript /\ A.balances[op.token_id][tx.sender] >= op.amount
    THEN {[A EXCEPT !.balances[op.token_id] =
             [[@ EXCEPT ![tx.sender] = @ - op.amount] EXCEPT ![tx.recipient] = @ + op.amount]]}
    ELSE {}

Burned(A, tx, op) ==
    IF A.balances[op.token_id][tx.sender] >= op.amount
    THEN {[A EXCEPT !.balances[op.token_id][tx.sender] = @ - op.amount,
                    !.supply[op.token_id] = @ - op.amount]}
    ELSE {}

(* The accounts after an accepted operation; {} when it is rejected.       *)
Outcome(A, tx, op) ==
    CASE op.action = "ISSUE" -> Issued(A, tx, op)
      [] op.action = "TRANSFER" -> Transferred(A, tx, op)
      [] op.action = "BURN" -> Burned(A, tx, op)

(* A block's operations in order; after MAX_TOKENS_PER_BLOCK accepted ones *)
(* the rest is ignored.                                                    *)
ApplyBlock(A, block) ==
    LET step(acc, tx, op) ==
            LET after == Outcome(acc.state, tx, op) IN
            IF acc.count >= MAX_TOKENS_PER_BLOCK \/ after = {} THEN acc
            ELSE [state |-> CHOOSE B \in after : TRUE, count |-> acc.count + 1]
        applyTx(acc, tx) == FoldLeft(LAMBDA a, op : step(a, tx, op), acc, tx.ops)
    IN  FoldLeft(applyTx, [state |-> A, count |-> 0], block).state

Init == chain = <<>> /\ accounts = NoAccounts /\ past = <<>>

Connect ==
    /\ Len(chain') = Len(chain) + 1
    /\ IsPrefix(chain, chain')
    /\ accounts' = ApplyBlock(accounts, Last(chain'))
    /\ past' = Append(past, accounts)

Disconnect ==
    /\ chain # <<>>
    /\ chain' = Front(chain)
    /\ accounts' = Last(past)
    /\ past' = Front(past)

Next == Connect \/ Disconnect

Spec == Init /\ [][Next]_vars

=============================================================================
