-------------------------- MODULE TokenDBInvariant --------------------------
(***************************************************************************)
(* The inductive invariant of TokenDB.  Its heart is that every undo       *)
(* record, committed or pending, takes the tables after its operation back *)
(* to the tables before it; everything else is there to keep that true.    *)
(***************************************************************************)
EXTENDS TokenDB

Sound(L) == L \in Ledger /\ Consistent(L) /\ HolderExact(L)

HistoryUpTo(L, h) == \A r \in L.transfers : r.height <= h

(* T lists the tables before each operation of the block at height h and   *)
(* after the last one; U lists the undo records of these operations.       *)
Linked(T, U, h) ==
    /\ Len(T) = Len(U) + 1
    /\ \A i \in 1..Len(T) : Sound(T[i])
    /\ HistoryUpTo(T[1], h - 1)
    /\ \A i \in 1..Len(U) : UndoOperation(T[i + 1], U[i], h) = T[i]

(* The committed undo records lead from the ledger back to genesis.        *)
ChainInv ==
    /\ Len(trail) = Len(chain)
    /\ Sound(ledger) /\ HistoryUpTo(ledger, Len(chain))
    /\ \A h \in 1..Len(chain) : Linked(trail[h], undo[h], h)
    /\ \A h \in 1..Len(chain) :
          trail[h][Len(trail[h])] = IF h = Len(chain) THEN ledger ELSE trail[h + 1][1]
    /\ \A h \in 1..MaxHeight : h > Len(chain) => undo[h] = <<>>

(* BestBlock may be ahead of the tip, after blocks without token           *)
(* operations were disconnected, but never behind it.                      *)
BestInv == chain # <<>> => best \in Seq(Seq(Txs)) /\ Len(best) >= Len(chain)

IdleInv ==
    pc = "idle" => /\ batch_undo = <<>> /\ pending_tickers = {}
                   /\ tx_pos = 1 /\ op_pos = 1 /\ tx_op_index = 0

(* A history record of the block being connected belongs to an operation   *)
(* that the loops have passed, so the next key is free.                    *)
PassedRecord(r) ==
    \E i \in 1..Len(block) :
        /\ block[i].txid = r.txid
        /\ i < tx_pos \/ (i = tx_pos /\ r.op_index < tx_op_index)

ProcessInv ==
    pc = "process" =>
        /\ Len(chain) < MaxHeight
        /\ Linked(batch_trail, batch_undo, height)
        /\ batch_trail[1] = ledger /\ batch_trail[Len(batch_trail)] = batch
        /\ HistoryUpTo(batch, height)
        /\ \A i, j \in 1..Len(block) : i # j => block[i].txid # block[j].txid
        /\ \A r \in batch.transfers : r.height = height => PassedRecord(r)
        /\ \A k \in Tickers : TickerExists(batch, k) =>
              TickerExists(ledger, k) \/ k \in pending_tickers

(* The records still to be undone are a prefix of the block's, and the     *)
(* batch is what the tables were after the operations of that prefix.      *)
DisconnectInv ==
    pc = "disconnect" =>
        LET h == Len(chain)
            n == Len(batch_undo)
        IN  /\ chain # <<>>
            /\ n <= Len(undo[h])
            /\ \A i \in 1..n : batch_undo[i] = undo[h][i]
            /\ batch = trail[h][n + 1]

(* The inductive invariant: ProcessBlock and DisconnectBlock keep every    *)
(* undo record exact, and the overlay sound, at every step.                *)
IInv ==
    /\ TypeOK
    /\ ChainInv
    /\ BestInv
    /\ IdleInv
    /\ ProcessInv
    /\ DisconnectInv

=============================================================================
