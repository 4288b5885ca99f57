------------------------------ MODULE TokenDB ------------------------------
(***************************************************************************)
(* The block level of the SRC-20 token database (tokens/tokendb.cpp):      *)
(* ProcessBlock, which applies the operations of a connected block in one  *)
(* batch and writes an undo record for each, and DisconnectBlock, which    *)
(* replays those records backwards.                                        *)
(*                                                                         *)
(* A block's hash commits to its parent and its contents, so a block is    *)
(* named by the sequence of the transaction lists from genesis up to it:   *)
(* the active chain is its own tip hash, and <<>> is the genesis hash.     *)
(* cs_main is held from the start of ProcessBlock or DisconnectBlock to    *)
(* its end; the steps in between only build the batch.                     *)
(***************************************************************************)
EXTENDS TokenTables, Sequences

CONSTANTS
    NoBlock,               \* the null hash: no BestBlock key yet
    Txs,                   \* the transactions miners may put in blocks
    MAX_TOKENS_PER_BLOCK,
    MAX_OPS_PER_TX,
    MIN_TOKEN_ISSUANCE_FEE,
    MaxBlockTxs,           \* bound: transactions in one block
    MaxHeight              \* bound: blocks above genesis

(* What ParseTransactionSRC20 returns holds valid operations only, so an   *)
(* amount (the total supply of an ISSUE) is in 1..INT64_MAX.               *)
Operation == [action : {"ISSUE", "TRANSFER", "BURN"},
              ticker : Tickers \cup {NoTicker},
              token_id : Txids \cup {NoTxid},
              amount : 1..INT64_MAX]

(* A transaction as ProcessBlock sees it: sender is the script of the      *)
(* output spent by vin[0] (blockundo), recipient the answer of             *)
(* GetTransferRecipient, issuer the first spendable output; each is        *)
(* EmptyScript when there is none.                                         *)
Transaction == [txid : Txids, sender : Addresses, recipient : Addresses,
                issuer : Addresses, fee : Nat, ops : Seq(Operation)]

ASSUME ConstantsAssumption ==
    /\ Txs \subseteq Transaction
    /\ \A x \in Txs : \A i \in DOMAIN x.ops :
          /\ x.ops[i].action = "ISSUE" => x.ops[i].ticker \in Tickers
          /\ x.ops[i].action # "ISSUE" => x.ops[i].token_id \in Txids
    /\ MAX_TOKENS_PER_BLOCK \in Nat
    /\ MAX_OPS_PER_TX \in Nat
    /\ \A x \in Txs : Len(x.ops) <= MAX_OPS_PER_TX
    /\ MIN_TOKEN_ISSUANCE_FEE \in Nat
    /\ MaxBlockTxs \in Nat
    /\ MaxHeight \in Nat

VARIABLES
    chain,         \* active chain: the transaction lists of its blocks
    ledger,        \* committed tables: infos, tickers, balances, indexes, history
    undo,          \* committed undo records of each height, in writing order
    best,          \* committed BestBlock
    pc,            \* "idle", "process" or "disconnect"
    batch,         \* ledger as the pending batch and overlay show it
    batch_undo,    \* undo records in the pending batch
    pending_tickers,
    block,         \* transactions of the block being connected
    tx_pos, op_pos,        \* cursors of the two loops of ProcessBlock
    tx_op_index,
    issue_count_this_tx,
    trail,         \* history variable: per block, the ledger before each operation
    batch_trail    \* history variable: trail of the block being connected

vars == <<chain, ledger, undo, best, pc, batch, batch_undo, pending_tickers, block,
          tx_pos, op_pos, tx_op_index, issue_count_this_tx, trail, batch_trail>>

----------------------------------------------------------------------------
(* ProcessBlock                                                            *)

(* A miner's block: each transaction at most once in a chain.              *)
ChainTxids == UNION {{chain[h][i].txid : i \in DOMAIN chain[h]} : h \in DOMAIN chain}

Blocks == UNION {[1..n -> Txs] : n \in 0..MaxBlockTxs}

MinedBlock(b) ==
    /\ \A i, j \in DOMAIN b : i # j => b[i].txid # b[j].txid
    /\ \A i \in DOMAIN b : b[i].txid \notin ChainTxids

height == Len(chain) + 1

(* The chain up to the parent of its tip (pprev).                          *)
ButLast(s) == SubSeq(s, 1, Len(s) - 1)

Idle ==
    /\ pc' = "idle" /\ batch' = EmptyLedger /\ batch_undo' = <<>> /\ pending_tickers' = {}
    /\ block' = <<>> /\ tx_pos' = 1 /\ op_pos' = 1 /\ tx_op_index' = 0
    /\ issue_count_this_tx' = 0 /\ batch_trail' = <<>>

(* The early return: BestBlock already names this block.                   *)
SkipProcessedBlock(b) ==
    /\ best = Append(chain, b)
    /\ chain' = Append(chain, b)
    /\ trail' = Append(trail, <<ledger>>)
    /\ UNCHANGED <<ledger, undo, best, pc, batch, batch_undo, pending_tickers, block,
                   tx_pos, op_pos, tx_op_index, issue_count_this_tx, batch_trail>>

StartProcessBlock(b) ==
    /\ best # Append(chain, b)
    /\ pc' = "process" /\ block' = b
    /\ batch' = ledger /\ batch_trail' = <<ledger>>
    /\ UNCHANGED <<chain, ledger, undo, best, batch_undo, pending_tickers, tx_pos, op_pos,
                   tx_op_index, issue_count_this_tx, trail>>

ConnectBlock ==
    /\ pc = "idle" /\ Len(chain) < MaxHeight
    /\ \E b \in Blocks :
          /\ MinedBlock(b)
          /\ SkipProcessedBlock(b) \/ StartProcessBlock(b)

ops_count == Len(batch_undo)

tx == block[tx_pos]

op == tx.ops[op_pos]

InTx ==
    /\ pc = "process"
    /\ tx_pos <= Len(block)
    /\ ops_count < MAX_TOKENS_PER_BLOCK

AtOp(action) ==
    /\ InTx
    /\ op_pos <= Len(tx.ops)
    /\ op.action = action

(* An operation that was accepted writes its undo record under the next    *)
(* free op_index of its transaction; a rejected one leaves no trace.       *)
ApplyOp(L, u) ==
    /\ batch' = L
    /\ batch_undo' = Append(batch_undo, u)
    /\ batch_trail' = Append(batch_trail, L)
    /\ tx_op_index' = tx_op_index + 1
    /\ op_pos' = op_pos + 1
    /\ UNCHANGED <<chain, ledger, undo, best, pc, block, tx_pos, trail>>

RejectOp ==
    /\ op_pos' = op_pos + 1
    /\ UNCHANGED <<chain, ledger, undo, best, pc, batch, batch_undo, pending_tickers, block,
                   tx_pos, tx_op_index, issue_count_this_tx, trail, batch_trail>>

(* Mutant: duplicate tickers are looked up in committed data only.         *)
IssueAcceptedCommitted ==
    /\ tx.fee >= MIN_TOKEN_ISSUANCE_FEE * (issue_count_this_tx + 1)
    /\ tx.issuer # EmptyScript
    /\ CanRegisterToken(ledger, batch, tx.txid, op.ticker)

IssueAccepted ==
    /\ tx.fee >= MIN_TOKEN_ISSUANCE_FEE * (issue_count_this_tx + 1)
    /\ tx.issuer # EmptyScript
    /\ op.ticker \notin pending_tickers
    /\ CanRegisterToken(ledger, batch, tx.txid, op.ticker)

(* Fields an operation does not set keep the defaults of TokenUndoRecord.  *)
IssueUndo ==
    [op_type |-> "ISSUE", txid |-> tx.txid, op_index |-> tx_op_index,
     token_id |-> tx.txid, ticker |-> op.ticker,
     from_address |-> tx.issuer, to_address |-> EmptyScript, amount |-> 0,
     prev_from_balance |-> 0, prev_to_balance |-> 0,
     prev_holder_count |-> 0, prev_circulating_supply |-> 0]

ProcessIssue ==
    /\ AtOp("ISSUE")
    /\ \/ /\ IssueAccepted
          /\ ApplyOp(RegisterToken(batch, tx.txid, op.ticker, op.amount, tx.issuer, height,
                                   tx_op_index),
                     IssueUndo)
          /\ pending_tickers' = pending_tickers \cup {op.ticker}
          /\ issue_count_this_tx' = issue_count_this_tx + 1
       \/ /\ ~IssueAccepted
          /\ RejectOp

TransferAccepted ==
    /\ tx.recipient # EmptyScript
    /\ CanTransferTokens(batch, op.token_id, tx.sender, tx.recipient, op.amount)

TransferUndo ==
    [op_type |-> "TRANSFER", txid |-> tx.txid, op_index |-> tx_op_index,
     token_id |-> op.token_id, ticker |-> NoTicker,
     from_address |-> tx.sender, to_address |-> tx.recipient, amount |-> op.amount,
     prev_from_balance |-> batch.balances[op.token_id][tx.sender],
     prev_to_balance |-> batch.balances[op.token_id][tx.recipient],
     prev_holder_count |-> batch.infos[op.token_id].holder_count,
     prev_circulating_supply |-> 0]

ProcessTransfer ==
    /\ AtOp("TRANSFER")
    /\ \/ /\ TransferAccepted
          /\ ApplyOp(TransferTokens(batch, op.token_id, tx.sender, tx.recipient, op.amount,
                                    height, tx.txid, tx_op_index),
                     TransferUndo)
          /\ UNCHANGED <<pending_tickers, issue_count_this_tx>>
       \/ /\ ~TransferAccepted
          /\ RejectOp

BurnAccepted == CanBurnTokens(batch, op.token_id, tx.sender, op.amount)

BurnUndo ==
    [op_type |-> "BURN", txid |-> tx.txid, op_index |-> tx_op_index,
     token_id |-> op.token_id, ticker |-> NoTicker,
     from_address |-> tx.sender, to_address |-> EmptyScript, amount |-> op.amount,
     prev_from_balance |-> batch.balances[op.token_id][tx.sender], prev_to_balance |-> 0,
     prev_holder_count |-> batch.infos[op.token_id].holder_count,
     prev_circulating_supply |-> batch.infos[op.token_id].circulating_supply]

ProcessBurn ==
    /\ AtOp("BURN")
    /\ \/ /\ BurnAccepted
          /\ ApplyOp(BurnTokens(batch, op.token_id, tx.sender, op.amount, height, tx.txid,
                                tx_op_index),
                     BurnUndo)
          /\ UNCHANGED <<pending_tickers, issue_count_this_tx>>
       \/ /\ ~BurnAccepted
          /\ RejectOp

(* Mutant: tx_op_index runs on over the transactions of a block.           *)
NextTxSameIndex ==
    /\ InTx
    /\ op_pos > Len(tx.ops)
    /\ tx_pos' = tx_pos + 1
    /\ op_pos' = 1 /\ issue_count_this_tx' = 0
    /\ UNCHANGED <<chain, ledger, undo, best, pc, batch, batch_undo, pending_tickers, block,
                   tx_op_index, trail, batch_trail>>

NextTx ==
    /\ InTx
    /\ op_pos > Len(tx.ops)
    /\ tx_pos' = tx_pos + 1
    /\ op_pos' = 1 /\ tx_op_index' = 0 /\ issue_count_this_tx' = 0
    /\ UNCHANGED <<chain, ledger, undo, best, pc, batch, batch_undo, pending_tickers, block,
                   trail, batch_trail>>

(* One WriteBatch: tables, undo records, block key and BestBlock.          *)
CommitBlock ==
    /\ pc = "process"
    /\ tx_pos > Len(block) \/ ops_count >= MAX_TOKENS_PER_BLOCK
    /\ chain' = Append(chain, block)
    /\ ledger' = batch
    /\ undo' = IF batch_undo = <<>> THEN undo ELSE [undo EXCEPT ![height] = batch_undo]
    /\ best' = Append(chain, block)
    /\ trail' = Append(trail, batch_trail)
    /\ Idle

----------------------------------------------------------------------------
(* DisconnectBlock                                                         *)

(* The two early returns that leave the database as it is: BestBlock is    *)
(* the parent already, or no BlockTokens key exists at this height.        *)
SkipDisconnect ==
    /\ best = ButLast(chain) \/ undo[Len(chain)] = <<>>
    /\ chain' = ButLast(chain)
    /\ trail' = ButLast(trail)
    /\ UNCHANGED <<ledger, undo, best, pc, batch, batch_undo, pending_tickers, block,
                   tx_pos, op_pos, tx_op_index, issue_count_this_tx, batch_trail>>

StartDisconnect ==
    /\ best # ButLast(chain) /\ undo[Len(chain)] # <<>>
    /\ pc' = "disconnect"
    /\ batch' = ledger
    /\ batch_undo' = undo[Len(chain)]
    /\ UNCHANGED <<chain, ledger, undo, best, pending_tickers, block, tx_pos, op_pos,
                   tx_op_index, issue_count_this_tx, trail, batch_trail>>

DisconnectBlock ==
    /\ pc = "idle" /\ chain # <<>>
    /\ SkipDisconnect \/ StartDisconnect

(* Mutant: records are undone in the order they were written.              *)
UndoStepForward ==
    /\ pc = "disconnect" /\ batch_undo # <<>>
    /\ batch' = UndoOperation(batch, Head(batch_undo), Len(chain))
    /\ batch_undo' = Tail(batch_undo)
    /\ UNCHANGED <<chain, ledger, undo, best, pc, pending_tickers, block, tx_pos, op_pos,
                   tx_op_index, issue_count_this_tx, trail, batch_trail>>

UndoStep ==
    /\ pc = "disconnect" /\ batch_undo # <<>>
    /\ batch' = UndoOperation(batch, batch_undo[Len(batch_undo)], Len(chain))
    /\ batch_undo' = ButLast(batch_undo)
    /\ UNCHANGED <<chain, ledger, undo, best, pc, pending_tickers, block, tx_pos, op_pos,
                   tx_op_index, issue_count_this_tx, trail, batch_trail>>

(* Mutant: the block's undo records are not erased.                        *)
CommitDisconnectKeeps ==
    /\ pc = "disconnect" /\ batch_undo = <<>>
    /\ chain' = ButLast(chain)
    /\ ledger' = batch
    /\ undo' = undo
    /\ best' = ButLast(chain)
    /\ trail' = ButLast(trail)
    /\ Idle

CommitDisconnect ==
    /\ pc = "disconnect" /\ batch_undo = <<>>
    /\ chain' = ButLast(chain)
    /\ ledger' = batch
    /\ undo' = [undo EXCEPT ![Len(chain)] = <<>>]
    /\ best' = ButLast(chain)
    /\ trail' = ButLast(trail)
    /\ Idle

----------------------------------------------------------------------------
Init ==
    /\ chain = <<>> /\ ledger = EmptyLedger
    /\ undo = [h \in 1..MaxHeight |-> <<>>]
    /\ best = NoBlock
    /\ pc = "idle" /\ batch = EmptyLedger /\ batch_undo = <<>> /\ pending_tickers = {}
    /\ block = <<>> /\ tx_pos = 1 /\ op_pos = 1 /\ tx_op_index = 0
    /\ issue_count_this_tx = 0
    /\ trail = <<>> /\ batch_trail = <<>>

Next ==
    \/ ConnectBlock
    \/ ProcessIssue
    \/ ProcessTransfer
    \/ ProcessBurn
    \/ NextTx
    \/ CommitBlock
    \/ DisconnectBlock
    \/ UndoStep
    \/ CommitDisconnect

Spec == Init /\ [][Next]_vars

----------------------------------------------------------------------------
(* Properties                                                              *)

BlockHash == Seq(Seq(Txs)) \cup {NoBlock}

(* Every variable stays in its type; a balance never wraps a uint64.       *)
TypeOK ==
    /\ chain \in Seq(Seq(Txs)) /\ Len(chain) <= MaxHeight
    /\ ledger \in Ledger /\ batch \in Ledger
    /\ undo \in [1..MaxHeight -> Seq(TokenUndoRecord)]
    /\ best \in BlockHash
    /\ pc \in {"idle", "process", "disconnect"}
    /\ batch_undo \in Seq(TokenUndoRecord)
    /\ pending_tickers \subseteq Tickers
    /\ block \in Seq(Txs)
    /\ tx_pos \in Nat \ {0} /\ op_pos \in Nat \ {0}
    /\ tx_op_index \in Nat /\ issue_count_this_tx \in Nat
    /\ trail \in Seq(Seq(Ledger)) /\ batch_trail \in Seq(Ledger)

(* Five tables are updated by three operations and three undo paths, each  *)
(* through its own reads of the overlay: after every WriteBatch of         *)
(* ProcessBlock and DisconnectBlock they still agree, and so they do in    *)
(* the overlay that the next operation of the block reads.                 *)
IndexConsistent == Consistent(ledger) /\ (pc # "idle" => Consistent(batch))

(* The holder_count that TransferTokens and BurnTokens maintain by         *)
(* increments, and that DisconnectBlock restores from undo records, is the *)
(* number of addresses in the holder index.                                *)
HolderCountExact == HolderExact(ledger)

(* The undo records of a transaction have the keys 0, 1, 2, ... without a  *)
(* gap and within the MAX_UNDO_OPS_PER_TX keys DisconnectBlock probes, and *)
(* the records of a block are grouped by transaction: the scan that stops  *)
(* at the first missing key, run over the deduplicated txids backwards,    *)
(* meets every record of the block in reverse order of writing.            *)
UndoKeysContiguous ==
    \A h \in 1..MaxHeight : \A i \in DOMAIN undo[h] :
        LET u == undo[h][i] IN
        /\ u.op_index < MAX_OPS_PER_TX * 2
        /\ u.op_index = Cardinality({j \in 1..(i-1) : undo[h][j].txid = u.txid})
        /\ u.op_index > 0 => undo[h][i-1].txid = u.txid

(* The transfer history holds one record for each operation applied on the *)
(* active chain, none of a disconnected block, and none overwritten by     *)
(* another operation of the same transaction.                              *)
HistoryMatchesChain ==
    LET key(r) == <<r.token_id, r.height, r.txid, r.op_index>>
        applied == UNION {{<<undo[h][i].token_id, h, undo[h][i].txid, undo[h][i].op_index>> :
                             i \in DOMAIN undo[h]} : h \in DOMAIN chain}
    IN  /\ {key(r) : r \in ledger.transfers} = applied
        /\ Cardinality(ledger.transfers) = Cardinality(applied)

(* Disconnecting a block, record by record and in reverse, puts back       *)
(* exactly the tables that the block was connected on.                     *)
DisconnectRestores ==
    [][Len(chain') < Len(chain) => ledger' = Head(trail[Len(chain)])]_vars

(* The already-disconnected guard of DisconnectBlock compares BestBlock    *)
(* with the parent hash.  It is meant for restarts: while the node runs it *)
(* never fires, so it cannot leave the operations of a block in place.     *)
GuardNeverSkips == pc = "idle" /\ chain # <<>> => best # ButLast(chain)

=============================================================================
