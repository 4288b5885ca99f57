--------------------------- MODULE TokenDB_proofs ---------------------------
(***************************************************************************)
(* ProcessBlock and DisconnectBlock preserve IInv, for every set of        *)
(* scripts, tickers and transactions and every bound, and what follows.    *)
(***************************************************************************)
EXTENDS TokenDBInvariant, TokenTables_proofs, TLAPS

(* ButLast drops the last element.                                           *)
LEMMA ButLastFacts ==
    ASSUME NEW S, NEW s \in Seq(S), s # <<>>
    PROVE  /\ Len(s) \in Nat /\ Len(s) > 0
           /\ ButLast(s) \in Seq(S) /\ Len(ButLast(s)) = Len(s) - 1
           /\ \A i \in 1..(Len(s) - 1) : ButLast(s)[i] = s[i]
<1>1. Len(s) \in Nat /\ Len(s) # 0
  OBVIOUS
<1>2. \A i \in 1..(Len(s) - 1) : s[i] \in S
  BY <1>1
<1> DEFINE n == Len(s) - 1
<1>3. n \in Nat /\ \A i \in 1..n : s[i] \in S
  BY <1>1, <1>2
<1>4. ButLast(s) = SubSeq(s, 1, n)
  BY Zenon DEF ButLast
<1> HIDE DEF n
<1>5. SubSeq(s, 1, n) \in Seq(S) /\ Len(SubSeq(s, 1, n)) = n
  BY <1>3
<1>6. \A i \in 1..n : SubSeq(s, 1, n)[i] = s[i]
  BY <1>3
<1> QED BY <1>1, <1>4, <1>5, <1>6 DEF n

(* Append adds one element at the end.                                     *)
LEMMA AppendFacts ==
    ASSUME NEW S, NEW s \in Seq(S), NEW e \in S
    PROVE  /\ Len(s) \in Nat
           /\ Append(s, e) \in Seq(S) /\ Len(Append(s, e)) = Len(s) + 1
           /\ Append(s, e)[Len(s) + 1] = e
           /\ \A i \in 1..Len(s) : Append(s, e)[i] = s[i]
OBVIOUS

(* The database of a fresh node is sound and has no history.               *)
LEMMA EmptySound == Sound(EmptyLedger) /\ \A h : HistoryUpTo(EmptyLedger, h)
<1>1. EmptyLedger \in Ledger
  <2>1. NoInfo \in TokenInfo
    BY DEF NoInfo, TokenInfo
  <2>2. 0 \in 0..UINT64_MAX
    BY TablesAssumption DEF UINT64_MAX
  <2> QED BY <2>1, <2>2, Zenon DEF EmptyLedger, Ledger
<1>2. Consistent(EmptyLedger)
  BY TablesAssumption DEF Consistent, EmptyLedger, TokenExists, TickerExists, Addresses
<1>3. HolderExact(EmptyLedger)
  <2>1. Cardinality({}) = 0
    BY FS_EmptySet
  <2> QED BY <2>1 DEF HolderExact, EmptyLedger, NoInfo
<1>4. EmptyLedger.transfers = {}
  BY Zenon DEF EmptyLedger
<1> QED BY <1>1, <1>2, <1>3, <1>4, Zenon DEF Sound, HistoryUpTo

(* A new database satisfies the invariant.                                 *)
LEMMA InitInv == Init => IInv
<1> SUFFICES ASSUME Init PROVE IInv
  OBVIOUS
<1>1. TypeOK
  BY EmptySound, ConstantsAssumption DEF Init, TypeOK, Sound, BlockHash
<1>2. ChainInv
  BY EmptySound DEF Init, ChainInv
<1>3. BestInv /\ IdleInv /\ ProcessInv /\ DisconnectInv
  BY DEF Init, BestInv, IdleInv, ProcessInv, DisconnectInv
<1> QED BY <1>1, <1>2, <1>3, Zenon DEF IInv

(* A block that ProcessBlock finds already processed changes no table, and *)
(* has no undo records.                                                    *)
LEMMA SkipProcessedInv ==
    ASSUME IInv, NEW b \in Seq(Txs), pc = "idle", Len(chain) < MaxHeight, SkipProcessedBlock(b)
    PROVE  IInv'
<1> DEFINE h == Len(chain) + 1
<1>1. /\ chain' = Append(chain, b) /\ trail' = Append(trail, <<ledger>>)
      /\ best = chain' /\ best' = best
      /\ ledger' = ledger /\ undo' = undo /\ pc' = pc /\ batch' = batch
      /\ batch_undo' = batch_undo /\ pending_tickers' = pending_tickers /\ block' = block
      /\ tx_pos' = tx_pos /\ op_pos' = op_pos /\ tx_op_index' = tx_op_index
      /\ issue_count_this_tx' = issue_count_this_tx /\ batch_trail' = batch_trail
  BY DEF SkipProcessedBlock
<1>2. TypeOK /\ ChainInv /\ IdleInv
  BY DEF IInv
<1>3. /\ chain \in Seq(Seq(Txs)) /\ Len(chain) \in Nat /\ trail \in Seq(Seq(Ledger))
      /\ ledger \in Ledger /\ MaxHeight \in Nat
  BY <1>2, ConstantsAssumption DEF TypeOK
<1>4. <<ledger>> \in Seq(Ledger) /\ Len(<<ledger>>) = 1 /\ <<ledger>>[1] = ledger
  BY <1>3
<1>5. /\ chain' \in Seq(Seq(Txs)) /\ Len(chain') = h
      /\ trail' \in Seq(Seq(Ledger)) /\ Len(trail') = Len(trail) + 1
      /\ trail'[Len(trail) + 1] = <<ledger>>
      /\ \A i \in 1..Len(trail) : trail'[i] = trail[i]
  BY <1>1, <1>3, <1>4, AppendFacts
<1>6. TypeOK'
  BY <1>1, <1>2, <1>3, <1>5 DEF TypeOK, BlockHash
<1>7. Linked(<<ledger>>, <<>>, h) /\ undo[h] = <<>>
  BY <1>2, <1>3, <1>4 DEF Linked, ChainInv, Sound
<1>8. ChainInv'
  <2>1. Len(trail') = Len(chain') /\ Sound(ledger') /\ HistoryUpTo(ledger', Len(chain'))
    BY <1>1, <1>2, <1>3, <1>5 DEF ChainInv, HistoryUpTo, Ledger, TransferRecord
  <2>2. \A g \in 1..Len(chain') : Linked(trail'[g], undo'[g], g)
    <3> SUFFICES ASSUME NEW g \in 1..h PROVE Linked(trail'[g], undo[g], g)
      BY <1>1, <1>5, Zenon
    <3>1. CASE g = h
      <4>1. trail'[h] = <<ledger>>
        BY <1>2, <1>5, Zenon DEF ChainInv
      <4> QED BY <1>7, <3>1, <4>1, Zenon
    <3>2. CASE g # h
      <4>1. g \in 1..Len(chain)
        BY <1>3, <3>2
      <4> QED BY <1>2, <1>5, <4>1, Zenon DEF ChainInv
    <3> QED BY <3>1, <3>2, Zenon
  <2>3. \A g \in 1..Len(chain') :
          trail'[g][Len(trail'[g])] = IF g = Len(chain') THEN ledger' ELSE trail'[g + 1][1]
    <3> SUFFICES ASSUME NEW g \in 1..h
                 PROVE  trail'[g][Len(trail'[g])] = IF g = h THEN ledger ELSE trail'[g + 1][1]
      BY <1>1, <1>5, Zenon
    <3>1. Len(trail) = Len(chain)
      BY <1>2, Zenon DEF ChainInv
    <3>2. CASE g = h
      BY <1>4, <1>5, <3>1, <3>2, Zenon
    <3>3. CASE g # h
      <4>1. g \in 1..Len(chain) /\ g + 1 \in 1..h
        BY <1>3, <3>3
      <4>2. trail'[g] = trail[g]
        BY <1>5, <3>1, <4>1, Zenon
      <4>3. trail'[g + 1][1] = IF g = Len(chain) THEN ledger ELSE trail[g + 1][1]
        <5>1. CASE g = Len(chain)
          BY <1>4, <1>5, <3>1, <5>1, Zenon
        <5>2. CASE g # Len(chain)
          <6>1. g + 1 \in 1..Len(trail)
            BY <1>3, <3>1, <4>1, <5>2
          <6> QED BY <1>5, <5>2, <6>1, Zenon
        <5> QED BY <5>1, <5>2, Zenon
      <4> QED BY <1>2, <3>3, <4>1, <4>2, <4>3, Zenon DEF ChainInv
    <3> QED BY <3>2, <3>3, Zenon
  <2>4. \A g \in 1..MaxHeight : g > Len(chain') => undo'[g] = <<>>
    BY <1>1, <1>2, <1>3, <1>5 DEF ChainInv
  <2> QED BY <2>1, <2>2, <2>3, <2>4, Zenon DEF ChainInv
<1>9. BestInv'
  BY <1>1, <1>3, <1>5 DEF BestInv
<1>10. IdleInv' /\ ProcessInv' /\ DisconnectInv'
  BY <1>1, <1>2 DEF IdleInv, ProcessInv, DisconnectInv
<1> QED BY <1>6, <1>8, <1>9, <1>10, Zenon DEF IInv

(* The invariants of the committed chain only speak of committed state.    *)
LEMMA KeepChain ==
    ASSUME ChainInv, BestInv, chain' = chain, ledger' = ledger, undo' = undo,
           best' = best, trail' = trail
    PROVE  ChainInv' /\ BestInv'
BY Zenon DEF ChainInv, BestInv

(* ProcessBlock starts with an empty batch on the committed tables.        *)
LEMMA StartProcessInv ==
    ASSUME IInv, NEW b \in Seq(Txs), MinedBlock(b), pc = "idle", Len(chain) < MaxHeight,
           StartProcessBlock(b)
    PROVE  IInv'
<1>1. /\ pc' = "process" /\ block' = b /\ batch' = ledger /\ batch_trail' = <<ledger>>
      /\ chain' = chain /\ ledger' = ledger /\ undo' = undo /\ best' = best
      /\ batch_undo' = batch_undo /\ pending_tickers' = pending_tickers
      /\ tx_pos' = tx_pos /\ op_pos' = op_pos /\ tx_op_index' = tx_op_index
      /\ issue_count_this_tx' = issue_count_this_tx /\ trail' = trail
  BY DEF StartProcessBlock
<1>2. TypeOK /\ ChainInv /\ BestInv /\ IdleInv
  BY Zenon DEF IInv
<1>3. ledger \in Ledger /\ Len(chain) \in Nat /\ Sound(ledger) /\ HistoryUpTo(ledger, Len(chain))
  BY <1>2 DEF TypeOK, ChainInv
<1>4. <<ledger>> \in Seq(Ledger) /\ Len(<<ledger>>) = 1 /\ <<ledger>>[1] = ledger
  BY <1>3
<1>5. TypeOK'
  BY <1>1, <1>2, <1>3, <1>4 DEF TypeOK
<1>6. ChainInv' /\ BestInv'
  BY <1>1, <1>2, KeepChain, Zenon
<1>7. IdleInv' /\ DisconnectInv'
  BY <1>1 DEF IdleInv, DisconnectInv
<1>8. ProcessInv'
  <2>1. batch_undo = <<>> /\ pending_tickers = {}
    BY <1>2 DEF IdleInv
  <2>2. height' = height /\ height \in Nat /\ height - 1 = Len(chain)
    BY <1>1, <1>3 DEF height
  <2>3. Linked(<<ledger>>, <<>>, height)
    BY <1>3, <1>4, <2>2 DEF Linked
  <2>4. \A r \in ledger.transfers : r.height \in Nat /\ r.height <= Len(chain)
    BY <1>3 DEF HistoryUpTo, Ledger, TransferRecord
  <2>5. HistoryUpTo(ledger, height) /\ \A r \in ledger.transfers : r.height # height
    BY <1>3, <2>2, <2>4 DEF HistoryUpTo
  <2>6. \A i, j \in 1..Len(b) : i # j => b[i].txid # b[j].txid
    BY DEF MinedBlock
  <2> QED BY <1>1, <1>4, <2>1, <2>2, <2>3, <2>5, <2>6 DEF ProcessInv
<1> QED BY <1>5, <1>6, <1>7, <1>8, Zenon DEF IInv

(* One more operation and its undo record.                                 *)
LEMMA LinkedAppend ==
    ASSUME NEW T \in Seq(Ledger), NEW U \in Seq(TokenUndoRecord), NEW h, Linked(T, U, h),
           NEW M \in Ledger, NEW u \in TokenUndoRecord, Sound(M),
           UndoOperation(M, u, h) = T[Len(T)]
    PROVE  /\ Linked(Append(T, M), Append(U, u), h)
           /\ Append(T, M)[1] = T[1]
           /\ Append(T, M)[Len(Append(T, M))] = M
<1> DEFINE T2 == Append(T, M)
           U2 == Append(U, u)
<1>1. /\ Len(T) \in Nat /\ Len(T2) = Len(T) + 1 /\ T2[Len(T) + 1] = M
      /\ \A i \in 1..Len(T) : T2[i] = T[i]
  BY AppendFacts
<1>2. /\ Len(U) \in Nat /\ Len(U2) = Len(U) + 1 /\ U2[Len(U) + 1] = u
      /\ \A i \in 1..Len(U) : U2[i] = U[i]
  BY AppendFacts
<1> HIDE DEF T2, U2
<1>3. Len(T) = Len(U) + 1
  BY Zenon DEF Linked
<1>4. T2[1] = T[1]
  BY <1>1, <1>2, <1>3
<1>5. \A i \in 1..Len(T2) : Sound(T2[i])
  <2> SUFFICES ASSUME NEW i \in 1..Len(T2) PROVE Sound(T2[i])
    BY Zenon
  <2>1. i \in 1..Len(T) \/ i = Len(T) + 1
    BY <1>1
  <2> QED BY <1>1, <2>1, Zenon DEF Linked
<1>6. \A i \in 1..Len(U2) : UndoOperation(T2[i + 1], U2[i], h) = T2[i]
  <2> SUFFICES ASSUME NEW i \in 1..Len(U2) PROVE UndoOperation(T2[i + 1], U2[i], h) = T2[i]
    BY Zenon
  <2>1. CASE i = Len(U) + 1
    <3>1. T2[i] = T[Len(T)] /\ T2[i + 1] = M /\ U2[i] = u
      BY <1>1, <1>2, <1>3, <2>1
    <3> QED BY <3>1, Zenon
  <2>2. CASE i # Len(U) + 1
    <3>1. i \in 1..Len(U) /\ i \in 1..Len(T) /\ i + 1 \in 1..Len(T)
      BY <1>1, <1>2, <1>3, <2>2
    <3> QED BY <1>1, <1>2, <3>1, Zenon DEF Linked
  <2> QED BY <2>1, <2>2, Zenon
<1>7. Linked(T2, U2, h)
  <2>1. Len(T2) = Len(U2) + 1
    BY <1>1, <1>2, <1>3
  <2> QED BY <1>4, <1>5, <1>6, <2>1, Zenon DEF Linked
<1> QED BY <1>1, <1>4, <1>7 DEF T2, U2

(* The loops of ProcessBlock stand on an operation of Txs.                 *)
LEMMA CurrentTx ==
    ASSUME TypeOK, InTx
    PROVE  /\ pc = "process" /\ tx_pos \in 1..Len(block) /\ Len(block) \in Nat
           /\ tx \in Txs /\ tx \in Transaction
           /\ tx.txid \in Txids /\ tx.sender \in Addresses /\ tx.recipient \in Addresses
           /\ tx.issuer \in Addresses /\ tx.ops \in Seq(Operation) /\ Len(tx.ops) \in Nat
<1>1. pc = "process" /\ tx_pos \in 1..Len(block) /\ Len(block) \in Nat
  BY DEF TypeOK, InTx
<1>2. tx \in Txs
  BY <1>1 DEF TypeOK, tx
<1>3. tx \in Transaction
  BY <1>2, ConstantsAssumption
<1>4. /\ tx.txid \in Txids /\ tx.sender \in Addresses /\ tx.recipient \in Addresses
      /\ tx.issuer \in Addresses /\ tx.ops \in Seq(Operation)
  BY <1>3, Zenon DEF Transaction
<1> QED BY <1>1, <1>2, <1>3, <1>4

(* The same for the inner loop.                                            *)
LEMMA CurrentOp ==
    ASSUME TypeOK, NEW a, AtOp(a)
    PROVE  /\ InTx /\ op.action = a
           /\ op.amount \in 1..INT64_MAX
           /\ op.ticker \in Tickers \cup {NoTicker}
           /\ a = "ISSUE" => op.ticker \in Tickers
           /\ a # "ISSUE" => op.token_id \in Txids
<1>1. InTx /\ op_pos <= Len(tx.ops) /\ op.action = a
  BY Zenon DEF AtOp
<1>2. tx \in Txs /\ tx.ops \in Seq(Operation) /\ Len(tx.ops) \in Nat
  BY <1>1, CurrentTx, Zenon
<1>3. op_pos \in 1..Len(tx.ops) /\ DOMAIN tx.ops = 1..Len(tx.ops)
  BY <1>1, <1>2 DEF TypeOK
<1>4. op \in Operation
  BY <1>2, <1>3 DEF op
<1>5. op.amount \in 1..INT64_MAX /\ op.ticker \in Tickers \cup {NoTicker}
  BY <1>4, Zenon DEF Operation
<1>6. (op.action = "ISSUE" => op.ticker \in Tickers) /\ (op.action # "ISSUE" => op.token_id \in Txids)
  BY <1>2, <1>3, ConstantsAssumption, Zenon DEF op
<1> QED BY <1>1, <1>5, <1>6, Zenon

(* The key under which the current operation writes its history record is  *)
(* free: no block holds a transaction twice, and tx_op_index has passed    *)
(* the records of this one.                                                *)
LEMMA NextKeyFresh ==
    ASSUME IInv, InTx, NEW t
    PROVE  FreshKey(batch.transfers, t, height, tx.txid, tx_op_index)
<1>1. TypeOK /\ ProcessInv
  BY Zenon DEF IInv
<1>2. pc = "process" /\ tx_pos \in 1..Len(block)
  BY <1>1, CurrentTx, Zenon
<1>3. /\ \A i, j \in 1..Len(block) : i # j => block[i].txid # block[j].txid
      /\ \A r \in batch.transfers : r.height = height => PassedRecord(r)
  BY <1>1, <1>2, Zenon DEF ProcessInv
<1>4. SUFFICES ASSUME NEW r \in batch.transfers, r.height = height, r.txid = tx.txid,
                      r.op_index = tx_op_index
               PROVE  FALSE
  BY Zenon DEF FreshKey
<1>5. PICK i \in 1..Len(block) :
        block[i].txid = r.txid /\ (i < tx_pos \/ (i = tx_pos /\ r.op_index < tx_op_index))
  BY <1>3, <1>4, Zenon DEF PassedRecord
<1>6. i = tx_pos
  BY <1>2, <1>3, <1>4, <1>5, Zenon DEF tx
<1>7. tx_pos \in Nat /\ tx_op_index \in Nat
  BY <1>1 DEF TypeOK
<1> QED BY <1>4, <1>5, <1>6, <1>7

(* An accepted operation: its effect on the batch, its undo record and its *)
(* history record keep the invariant.                                      *)
LEMMA ApplyInv ==
    ASSUME IInv, InTx, NEW M, NEW u \in TokenUndoRecord, ApplyOp(M, u),
           Applied(batch, M, u, tx.txid, tx_op_index, height),
           pending_tickers \subseteq pending_tickers', pending_tickers' \subseteq Tickers,
           issue_count_this_tx' \in Nat,
           \A k \in Tickers : TickerExists(M, k) => TickerExists(batch, k) \/ k \in pending_tickers'
    PROVE  IInv'
<1>1. /\ batch' = M /\ batch_undo' = Append(batch_undo, u)
      /\ batch_trail' = Append(batch_trail, M)
      /\ tx_op_index' = tx_op_index + 1 /\ op_pos' = op_pos + 1
      /\ chain' = chain /\ ledger' = ledger /\ undo' = undo /\ best' = best /\ pc' = pc
      /\ block' = block /\ tx_pos' = tx_pos /\ trail' = trail
  BY DEF ApplyOp
<1>2. TypeOK /\ ChainInv /\ BestInv /\ ProcessInv
  BY Zenon DEF IInv
<1>3. pc = "process" /\ tx_pos \in 1..Len(block)
  BY <1>2, CurrentTx, Zenon
<1>4. /\ Sound(M) /\ M \in Ledger /\ UndoOperation(M, u, height) = batch
      /\ \A r \in M.transfers : r \in batch.transfers
            \/ (r.height = height /\ r.txid = tx.txid /\ r.op_index = tx_op_index)
  BY Zenon DEF Applied, Sound
<1>5. batch_trail \in Seq(Ledger) /\ batch_undo \in Seq(TokenUndoRecord)
  BY <1>2, Zenon DEF TypeOK
<1>6. TypeOK'
  <2>1. batch_undo' \in Seq(TokenUndoRecord) /\ batch_trail' \in Seq(Ledger)
    BY <1>1, <1>4, <1>5, AppendFacts, Zenon
  <2>2. tx_op_index' \in Nat /\ op_pos' \in Nat \ {0}
    BY <1>1, <1>2 DEF TypeOK
  <2> QED BY <1>1, <1>2, <1>4, <2>1, <2>2, Zenon DEF TypeOK, BlockHash
<1>7. ChainInv' /\ BestInv'
  BY <1>1, <1>2, KeepChain, Zenon
<1>8. IdleInv' /\ DisconnectInv'
  BY <1>1, <1>3 DEF IdleInv, DisconnectInv
<1>9. ProcessInv'
  <2>1. /\ Len(chain) < MaxHeight /\ Linked(batch_trail, batch_undo, height)
        /\ batch_trail[1] = ledger /\ batch_trail[Len(batch_trail)] = batch
        /\ HistoryUpTo(batch, height)
        /\ \A i, j \in 1..Len(block) : i # j => block[i].txid # block[j].txid
        /\ \A r \in batch.transfers : r.height = height => PassedRecord(r)
        /\ \A k \in Tickers : TickerExists(batch, k) =>
              TickerExists(ledger, k) \/ k \in pending_tickers
    BY <1>2, <1>3, Zenon DEF ProcessInv
  <2>2. height' = height
    BY <1>1, Zenon DEF height
  <2>3. /\ Linked(batch_trail', batch_undo', height) /\ batch_trail'[1] = ledger
        /\ batch_trail'[Len(batch_trail')] = M
    <3>1. UndoOperation(M, u, height) = batch_trail[Len(batch_trail)]
      BY <1>4, <2>1, Zenon
    <3>2. /\ Linked(Append(batch_trail, M), Append(batch_undo, u), height)
          /\ Append(batch_trail, M)[1] = batch_trail[1]
          /\ Append(batch_trail, M)[Len(Append(batch_trail, M))] = M
      BY <1>4, <1>5, <2>1, <3>1, LinkedAppend
    <3> QED BY <1>1, <2>1, <3>2, Zenon
  <2>4. HistoryUpTo(M, height)
    <3>1. height <= height
      BY <1>2 DEF height, TypeOK
    <3> QED BY <1>4, <2>1, <3>1, Zenon DEF HistoryUpTo
  <2>5. \A r \in M.transfers : r.height = height => PassedRecord(r)'
    <3> SUFFICES ASSUME NEW r \in M.transfers, r.height = height PROVE PassedRecord(r)'
      BY Zenon
    <3>1. CASE r \in batch.transfers
      <4>1. PICK i \in 1..Len(block) :
              block[i].txid = r.txid /\ (i < tx_pos \/ (i = tx_pos /\ r.op_index < tx_op_index))
        BY <2>1, <3>1, Zenon DEF PassedRecord
      <4>2. r.op_index \in Nat /\ tx_op_index \in Nat
        BY <1>2, <3>1 DEF TypeOK, Ledger, TransferRecord
      <4>3. r.op_index < tx_op_index => r.op_index < tx_op_index + 1
        BY <4>2
      <4> QED BY <1>1, <4>1, <4>3, Zenon DEF PassedRecord
    <3>2. CASE r \notin batch.transfers
      <4>1. tx_op_index < tx_op_index + 1
        BY <1>2 DEF TypeOK
      <4> QED BY <1>1, <1>3, <1>4, <3>2, <4>1, Zenon DEF PassedRecord, tx
    <3> QED BY <3>1, <3>2, Zenon
  <2>6. \A k \in Tickers : TickerExists(M, k) => TickerExists(ledger, k) \/ k \in pending_tickers'
    BY <2>1, Zenon
  <2> QED BY <1>1, <2>1, <2>2, <2>3, <2>4, <2>5, <2>6, Zenon DEF ProcessInv
<1> QED BY <1>6, <1>7, <1>8, <1>9, Zenon DEF IInv

(* A rejected operation only moves the cursor.                             *)
LEMMA RejectInv ==
    ASSUME IInv, InTx, RejectOp
    PROVE  IInv'
<1>1. /\ op_pos' = op_pos + 1
      /\ chain' = chain /\ ledger' = ledger /\ undo' = undo /\ best' = best /\ pc' = pc
      /\ batch' = batch /\ batch_undo' = batch_undo /\ pending_tickers' = pending_tickers
      /\ block' = block /\ tx_pos' = tx_pos /\ tx_op_index' = tx_op_index
      /\ issue_count_this_tx' = issue_count_this_tx /\ trail' = trail
      /\ batch_trail' = batch_trail
  BY DEF RejectOp
<1>2. TypeOK /\ ChainInv /\ BestInv /\ ProcessInv
  BY Zenon DEF IInv
<1>3. pc = "process"
  BY <1>2, CurrentTx, Zenon
<1>4. TypeOK'
  <2>1. op_pos' \in Nat \ {0}
    BY <1>1, <1>2 DEF TypeOK
  <2> QED BY <1>1, <1>2, <2>1, Zenon DEF TypeOK
<1>5. ChainInv' /\ BestInv'
  BY <1>1, <1>2, KeepChain, Zenon
<1>6. IdleInv' /\ DisconnectInv'
  BY <1>1, <1>3 DEF IdleInv, DisconnectInv
<1>7. ProcessInv'
  BY <1>1, <1>2, Zenon DEF ProcessInv, height, PassedRecord
<1> QED BY <1>4, <1>5, <1>6, <1>7, Zenon DEF IInv

(* The overlay on which the next operation works is sound.                 *)
LEMMA BatchSound ==
    ASSUME TypeOK, ProcessInv, pc = "process"
    PROVE  Sound(batch) /\ batch \in Ledger /\ height \in Nat /\ tx_op_index \in Nat
<1>1. Linked(batch_trail, batch_undo, height) /\ batch_trail[Len(batch_trail)] = batch
  BY Zenon DEF ProcessInv
<1>2. batch \in Ledger /\ height \in Nat /\ tx_op_index \in Nat
  BY DEF TypeOK, height
<1>3. Len(batch_trail) \in 1..Len(batch_trail)
  BY <1>1 DEF TypeOK, Linked
<1> QED BY <1>1, <1>2, <1>3, Zenon DEF Linked

(* The ISSUE case of ProcessBlock.                                         *)
LEMMA ProcessIssueInv == ASSUME IInv, ProcessIssue PROVE IInv'
<1>1. TypeOK /\ ProcessInv
  BY Zenon DEF IInv
<1>2. InTx /\ op.amount \in 1..INT64_MAX /\ op.ticker \in Tickers
  BY <1>1, CurrentOp, Zenon DEF ProcessIssue
<1>3. CASE ~IssueAccepted
  BY <1>2, <1>3, RejectInv, Zenon DEF ProcessIssue
<1>4. CASE IssueAccepted
  <2> DEFINE M == RegisterToken(batch, tx.txid, op.ticker, op.amount, tx.issuer, height, tx_op_index)
  <2>1. /\ ApplyOp(M, IssueUndo)
        /\ pending_tickers' = pending_tickers \cup {op.ticker}
        /\ issue_count_this_tx' = issue_count_this_tx + 1
    BY <1>4, Zenon DEF ProcessIssue
  <2>2. /\ tx.issuer # EmptyScript /\ op.ticker \notin pending_tickers
        /\ ~TickerExists(ledger, op.ticker) /\ ~TokenExists(batch, tx.txid)
    BY <1>4, Zenon DEF IssueAccepted, CanRegisterToken
  <2>3. pc = "process" /\ tx.txid \in Txids /\ tx.issuer \in Addresses
    BY <1>1, <1>2, CurrentTx, Zenon
  <2>4. /\ batch \in Ledger /\ Sound(batch) /\ ~TickerExists(batch, op.ticker)
        /\ height \in Nat /\ tx_op_index \in Nat
    <3>1. ~TickerExists(batch, op.ticker)
      BY <1>1, <1>2, <2>2, <2>3, Zenon DEF ProcessInv
    <3> QED BY <1>1, <2>3, <3>1, BatchSound, Zenon
  <2>5. FreshKey(batch.transfers, tx.txid, height, tx.txid, tx_op_index)
    BY <1>2, NextKeyFresh, Zenon
  <2>6. IssueUndo.op_type = "ISSUE" /\ IssueUndoOf(IssueUndo, tx.txid, op.ticker, tx.issuer, tx_op_index)
    BY Zenon DEF IssueUndo, IssueUndoOf
  <2>7. Applied(batch, M, IssueUndo, tx.txid, tx_op_index, height)
    BY <1>2, <2>2, <2>3, <2>4, <2>5, <2>6, IssueApplied, Zenon DEF Sound
  <2>8. IssueUndo \in TokenUndoRecord
    BY <1>2, <2>3, <2>4 DEF IssueUndo, TokenUndoRecord, Addresses
  <2>9. issue_count_this_tx' \in Nat
    BY <1>1, <2>1 DEF TypeOK
  <2>10. \A k \in Tickers : TickerExists(M, k) => TickerExists(batch, k) \/ k \in pending_tickers'
    <3>1. M.tickers = [batch.tickers EXCEPT ![op.ticker] = tx.txid]
      BY Zenon DEF RegisterToken
    <3>2. batch.tickers \in [Tickers -> Txids \cup {NoTxid}]
      BY <2>4, LedgerFields, Zenon
    <3> HIDE DEF M
    <3> QED BY <2>1, <3>1, <3>2, Zenon DEF TickerExists
  <2>11. pending_tickers \subseteq pending_tickers' /\ pending_tickers' \subseteq Tickers
    BY <1>1, <1>2, <2>1, Zenon DEF TypeOK
  <2> HIDE DEF M
  <2> QED BY <1>2, <2>1, <2>7, <2>8, <2>9, <2>10, <2>11, ApplyInv, Zenon
<1> QED BY <1>3, <1>4, Zenon

(* The TRANSFER case of ProcessBlock.                                      *)
LEMMA ProcessTransferInv == ASSUME IInv, ProcessTransfer PROVE IInv'
<1>1. TypeOK /\ ProcessInv
  BY Zenon DEF IInv
<1>2. InTx /\ op.amount \in 1..INT64_MAX /\ op.token_id \in Txids
  <2>1. AtOp("TRANSFER") /\ "TRANSFER" # "ISSUE"
    BY DEF ProcessTransfer
  <2> QED BY <1>1, <2>1, CurrentOp, Zenon
<1>3. CASE ~TransferAccepted
  BY <1>2, <1>3, RejectInv, Zenon DEF ProcessTransfer
<1>4. CASE TransferAccepted
  <2> DEFINE M == TransferTokens(batch, op.token_id, tx.sender, tx.recipient, op.amount,
                                 height, tx.txid, tx_op_index)
  <2>1. /\ ApplyOp(M, TransferUndo)
        /\ pending_tickers' = pending_tickers /\ issue_count_this_tx' = issue_count_this_tx
    BY <1>4, Zenon DEF ProcessTransfer
  <2>2. /\ tx.recipient # EmptyScript
        /\ CanTransferTokens(batch, op.token_id, tx.sender, tx.recipient, op.amount)
    BY <1>4, Zenon DEF TransferAccepted
  <2>3. /\ pc = "process" /\ tx.txid \in Txids
        /\ tx.sender \in Addresses /\ tx.recipient \in Addresses
    BY <1>1, <1>2, CurrentTx, Zenon
  <2>4. Sound(batch) /\ batch \in Ledger /\ height \in Nat /\ tx_op_index \in Nat
    BY <1>1, <2>3, BatchSound, Zenon
  <2>5. FreshKey(batch.transfers, op.token_id, height, tx.txid, tx_op_index)
    BY <1>2, NextKeyFresh, Zenon
  <2>6. /\ TransferUndo.op_type = "TRANSFER"
        /\ TransferUndoOf(TransferUndo, batch, op.token_id, tx.sender, tx.recipient, op.amount,
                          tx.txid, tx_op_index)
    BY Zenon DEF TransferUndo, TransferUndoOf
  <2>7. Applied(batch, M, TransferUndo, tx.txid, tx_op_index, height)
    BY <1>2, <2>2, <2>3, <2>4, <2>5, <2>6, TransferApplied, Zenon DEF Sound
  <2>8. TransferUndo \in TokenUndoRecord
    <3>1. /\ batch.balances[op.token_id][tx.sender] \in Nat
          /\ batch.balances[op.token_id][tx.recipient] \in Nat
          /\ batch.infos[op.token_id].holder_count \in Nat
          /\ op.amount \in Nat
      BY <1>2, <2>3, <2>4, LedgerFields, TablesAssumption DEF TokenInfo, UINT64_MAX
    <3> QED BY <1>2, <2>3, <2>4, <3>1 DEF TransferUndo, TokenUndoRecord
  <2>9. issue_count_this_tx' \in Nat
    BY <1>1, <2>1, Zenon DEF TypeOK
  <2>10. \A k \in Tickers : TickerExists(M, k) => TickerExists(batch, k) \/ k \in pending_tickers'
    BY Zenon DEF TransferTokens, TickerExists
  <2>11. pending_tickers \subseteq pending_tickers' /\ pending_tickers' \subseteq Tickers
    BY <1>1, <2>1, Zenon DEF TypeOK
  <2> HIDE DEF M
  <2> QED BY <1>2, <2>1, <2>7, <2>8, <2>9, <2>10, <2>11, ApplyInv, Zenon
<1> QED BY <1>3, <1>4, Zenon

(* The BURN case of ProcessBlock.                                          *)
LEMMA ProcessBurnInv == ASSUME IInv, ProcessBurn PROVE IInv'
<1>1. TypeOK /\ ProcessInv
  BY Zenon DEF IInv
<1>2. InTx /\ op.amount \in 1..INT64_MAX /\ op.token_id \in Txids
  <2>1. AtOp("BURN") /\ "BURN" # "ISSUE"
    BY DEF ProcessBurn
  <2> QED BY <1>1, <2>1, CurrentOp, Zenon
<1>3. CASE ~BurnAccepted
  BY <1>2, <1>3, RejectInv, Zenon DEF ProcessBurn
<1>4. CASE BurnAccepted
  <2> DEFINE M == BurnTokens(batch, op.token_id, tx.sender, op.amount, height, tx.txid, tx_op_index)
  <2>1. /\ ApplyOp(M, BurnUndo)
        /\ pending_tickers' = pending_tickers /\ issue_count_this_tx' = issue_count_this_tx
    BY <1>4, Zenon DEF ProcessBurn
  <2>2. CanBurnTokens(batch, op.token_id, tx.sender, op.amount)
    BY <1>4, Zenon DEF BurnAccepted
  <2>3. pc = "process" /\ tx.txid \in Txids /\ tx.sender \in Addresses
    BY <1>1, <1>2, CurrentTx, Zenon
  <2>4. Sound(batch) /\ batch \in Ledger /\ height \in Nat /\ tx_op_index \in Nat
    BY <1>1, <2>3, BatchSound, Zenon
  <2>5. FreshKey(batch.transfers, op.token_id, height, tx.txid, tx_op_index)
    BY <1>2, NextKeyFresh, Zenon
  <2>6. /\ BurnUndo.op_type = "BURN"
        /\ BurnUndoOf(BurnUndo, batch, op.token_id, tx.sender, op.amount, tx.txid, tx_op_index)
    BY Zenon DEF BurnUndo, BurnUndoOf
  <2>7. Applied(batch, M, BurnUndo, tx.txid, tx_op_index, height)
    BY <1>2, <2>2, <2>3, <2>4, <2>5, <2>6, BurnApplied, Zenon DEF Sound
  <2>8. BurnUndo \in TokenUndoRecord
    <3>1. /\ batch.balances[op.token_id][tx.sender] \in Nat
          /\ batch.infos[op.token_id].holder_count \in Nat
          /\ batch.infos[op.token_id].circulating_supply \in Nat
          /\ op.amount \in Nat /\ EmptyScript \in Addresses
      BY <1>2, <2>3, <2>4, LedgerFields, TablesAssumption DEF TokenInfo, UINT64_MAX, Addresses
    <3> QED BY <1>2, <2>3, <2>4, <3>1 DEF BurnUndo, TokenUndoRecord
  <2>9. issue_count_this_tx' \in Nat
    BY <1>1, <2>1, Zenon DEF TypeOK
  <2>10. \A k \in Tickers : TickerExists(M, k) => TickerExists(batch, k) \/ k \in pending_tickers'
    <3>1. M.tickers = batch.tickers
      <4>1. BurnedTables(batch, M, op.token_id, tx.sender, op.amount)
        BY <1>2, <2>2, <2>3, <2>4, BurnTables, Zenon DEF Sound
      <4> QED BY <4>1, Zenon DEF BurnedTables, SameTokens
    <3> HIDE DEF M
    <3> QED BY <3>1, Zenon DEF TickerExists
  <2>11. pending_tickers \subseteq pending_tickers' /\ pending_tickers' \subseteq Tickers
    BY <1>1, <2>1, Zenon DEF TypeOK
  <2> HIDE DEF M
  <2> QED BY <1>2, <2>1, <2>7, <2>8, <2>9, <2>10, <2>11, ApplyInv, Zenon
<1> QED BY <1>3, <1>4, Zenon

(* The outer loop moves on: the records of the transaction it leaves are   *)
(* passed, whatever their index.                                           *)
LEMMA NextTxInv == ASSUME IInv, NextTx PROVE IInv'
<1>1. /\ tx_pos' = tx_pos + 1 /\ op_pos' = 1 /\ tx_op_index' = 0 /\ issue_count_this_tx' = 0
      /\ chain' = chain /\ ledger' = ledger /\ undo' = undo /\ best' = best /\ pc' = pc
      /\ batch' = batch /\ batch_undo' = batch_undo /\ pending_tickers' = pending_tickers
      /\ block' = block /\ trail' = trail /\ batch_trail' = batch_trail
  BY DEF NextTx
<1>2. TypeOK /\ ChainInv /\ BestInv /\ ProcessInv
  BY Zenon DEF IInv
<1>3. pc = "process" /\ tx_pos \in Nat
  BY <1>2, CurrentTx DEF NextTx, TypeOK
<1>4. TypeOK'
  <2>1. tx_pos' \in Nat \ {0} /\ op_pos' \in Nat \ {0} /\ tx_op_index' \in Nat /\ issue_count_this_tx' \in Nat
    BY <1>1, <1>3
  <2> QED BY <1>1, <1>2, <2>1, Zenon DEF TypeOK
<1>5. ChainInv' /\ BestInv'
  BY <1>1, <1>2, KeepChain, Zenon
<1>6. IdleInv' /\ DisconnectInv'
  BY <1>1, <1>3 DEF IdleInv, DisconnectInv
<1>7. ProcessInv'
  <2>1. \A i \in 1..Len(block) : i < tx_pos => i < tx_pos + 1
    BY <1>3
  <2>2. tx_pos < tx_pos + 1
    BY <1>3
  <2>3. \A r : PassedRecord(r) => PassedRecord(r)'
    BY <1>1, <2>1, <2>2, Zenon DEF PassedRecord
  <2> QED BY <1>1, <1>2, <2>3, Zenon DEF ProcessInv, height
<1> QED BY <1>4, <1>5, <1>6, <1>7, Zenon DEF IInv

(* WriteBatch at the end of ProcessBlock: the undo records of the block    *)
(* extend the committed ones by one height.                                *)
LEMMA CommitBlockInv == ASSUME IInv, CommitBlock PROVE IInv'
<1> DEFINE h == Len(chain) + 1
<1>1. /\ pc = "process" /\ chain' = Append(chain, block) /\ ledger' = batch
      /\ undo' = (IF batch_undo = <<>> THEN undo ELSE [undo EXCEPT ![h] = batch_undo])
      /\ best' = Append(chain, block) /\ trail' = Append(trail, batch_trail)
  BY Zenon DEF CommitBlock, height
<1>2. /\ pc' = "idle" /\ batch' = EmptyLedger /\ batch_undo' = <<>> /\ pending_tickers' = {}
      /\ block' = <<>> /\ tx_pos' = 1 /\ op_pos' = 1 /\ tx_op_index' = 0
      /\ issue_count_this_tx' = 0 /\ batch_trail' = <<>>
  BY Zenon DEF CommitBlock, Idle
<1>3. TypeOK /\ ChainInv /\ ProcessInv
  BY Zenon DEF IInv
<1>4. /\ chain \in Seq(Seq(Txs)) /\ Len(chain) \in Nat /\ trail \in Seq(Seq(Ledger))
      /\ block \in Seq(Txs) /\ batch_trail \in Seq(Ledger) /\ MaxHeight \in Nat
      /\ undo \in [1..MaxHeight -> Seq(TokenUndoRecord)]
      /\ batch_undo \in Seq(TokenUndoRecord)
  BY <1>3, ConstantsAssumption DEF TypeOK
<1>5. /\ Len(chain) < MaxHeight /\ Linked(batch_trail, batch_undo, h)
      /\ batch_trail[1] = ledger /\ batch_trail[Len(batch_trail)] = batch
      /\ HistoryUpTo(batch, h)
  BY <1>1, <1>3, Zenon DEF ProcessInv, height
<1>6. /\ chain' \in Seq(Seq(Txs)) /\ Len(chain') = h
  BY <1>1, <1>4, AppendFacts, Zenon
<1>7. /\ trail' \in Seq(Seq(Ledger)) /\ Len(trail') = Len(trail) + 1
      /\ trail'[Len(trail) + 1] = batch_trail
      /\ \A i \in 1..Len(trail) : trail'[i] = trail[i]
  BY <1>1, <1>4, AppendFacts
<1>8. h \in 1..MaxHeight
  BY <1>4, <1>5
<1>9. Sound(batch) /\ batch \in Ledger
  BY <1>1, <1>3, BatchSound, Zenon
<1>10. /\ undo' \in [1..MaxHeight -> Seq(TokenUndoRecord)]
       /\ undo'[h] = batch_undo
       /\ \A g \in 1..MaxHeight : g # h => undo'[g] = undo[g]
  <2>1. CASE batch_undo = <<>>
    <3>1. undo[h] = <<>>
      BY <1>3, <1>4, <1>8 DEF ChainInv
    <3> QED BY <1>1, <1>4, <2>1, <3>1, Zenon
  <2>2. CASE batch_undo # <<>>
    BY <1>1, <1>4, <1>8, <2>2, Zenon
  <2> QED BY <2>1, <2>2, Zenon
<1>11. TypeOK'
  <2>1. Len(chain') <= MaxHeight
    BY <1>4, <1>5, <1>6
  <2>2. EmptyLedger \in Ledger
    BY EmptySound, Zenon DEF Sound
  <2>3. <<>> \in Seq(TokenUndoRecord) /\ <<>> \in Seq(Txs) /\ <<>> \in Seq(Ledger)
    OBVIOUS
  <2>4. 1 \in Nat \ {0} /\ 0 \in Nat
    OBVIOUS
  <2>5. best' \in BlockHash
    BY <1>1, <1>6, Zenon DEF BlockHash
  <2> QED BY <1>1, <1>2, <1>6, <1>7, <1>9, <1>10, <2>1, <2>2, <2>3, <2>4, <2>5, Zenon DEF TypeOK
<1>12. ChainInv'
  <2>0. Len(trail) = Len(chain)
    BY <1>3, Zenon DEF ChainInv
  <2>1. Len(trail') = Len(chain') /\ Sound(ledger') /\ HistoryUpTo(ledger', Len(chain'))
    BY <1>1, <1>5, <1>6, <1>7, <1>9, <2>0, Zenon
  <2>2. \A g \in 1..Len(chain') : Linked(trail'[g], undo'[g], g)
    <3> SUFFICES ASSUME NEW g \in 1..h PROVE Linked(trail'[g], undo'[g], g)
      BY <1>6, Zenon
    <3>1. CASE g = h
      BY <1>5, <1>7, <1>10, <2>0, <3>1, Zenon
    <3>2. CASE g # h
      <4>0. Len(chain) \in Nat /\ MaxHeight \in Nat /\ Len(chain) < MaxHeight
        BY <1>4, <1>5, Zenon
      <4>1. g \in 1..Len(chain) /\ g \in 1..MaxHeight
        BY <3>2, <4>0
      <4> QED BY <1>3, <1>7, <1>10, <2>0, <3>2, <4>1, Zenon DEF ChainInv
    <3> QED BY <3>1, <3>2, Zenon
  <2>3. \A g \in 1..Len(chain') :
          trail'[g][Len(trail'[g])] = IF g = Len(chain') THEN ledger' ELSE trail'[g + 1][1]
    <3> SUFFICES ASSUME NEW g \in 1..h
                 PROVE  trail'[g][Len(trail'[g])] = IF g = h THEN batch ELSE trail'[g + 1][1]
      BY <1>1, <1>6, Zenon
    <3>1. CASE g = h
      BY <1>5, <1>7, <2>0, <3>1, Zenon
    <3>2. CASE g # h
      <4>1. g \in 1..Len(chain) /\ g \in 1..Len(trail)
        BY <1>4, <2>0, <3>2
      <4>2. trail'[g + 1][1] = IF g = Len(chain) THEN ledger ELSE trail[g + 1][1]
        <5>1. CASE g = Len(chain)
          BY <1>5, <1>7, <2>0, <5>1, Zenon
        <5>2. CASE g # Len(chain)
          <6>1. g + 1 \in 1..Len(trail)
            BY <1>4, <2>0, <4>1, <5>2
          <6> QED BY <1>7, <5>2, <6>1, Zenon
        <5> QED BY <5>1, <5>2, Zenon
      <4> QED BY <1>3, <1>7, <3>2, <4>1, <4>2, Zenon DEF ChainInv
    <3> QED BY <3>1, <3>2, Zenon
  <2>4. \A g \in 1..MaxHeight : g > Len(chain') => undo'[g] = <<>>
    <3> SUFFICES ASSUME NEW g \in 1..MaxHeight, g > h PROVE undo'[g] = <<>>
      BY <1>6, Zenon
    <3>1. g # h /\ g > Len(chain)
      BY <1>4
    <3> QED BY <1>3, <1>10, <3>1, Zenon DEF ChainInv
  <2> QED BY <2>1, <2>2, <2>3, <2>4, Zenon DEF ChainInv
<1>13. BestInv'
  <2>1. h >= h
    BY <1>4
  <2> QED BY <1>1, <1>6, <2>1, Zenon DEF BestInv
<1>14. IdleInv' /\ ProcessInv' /\ DisconnectInv'
  BY <1>2 DEF IdleInv, ProcessInv, DisconnectInv
<1> QED BY <1>11, <1>12, <1>13, <1>14, Zenon DEF IInv

(* BestBlock is never the parent of the tip, so the guard of               *)
(* DisconnectBlock does not fire while the node runs.                      *)
LEMMA BestNotParent ==
    ASSUME TypeOK, BestInv, chain # <<>>
    PROVE  best # ButLast(chain)
<1>1. chain \in Seq(Seq(Txs))
  BY Zenon DEF TypeOK
<1>2. Len(chain) \in Nat /\ Len(ButLast(chain)) = Len(chain) - 1
  BY <1>1, ButLastFacts, Zenon
<1>3. best \in Seq(Seq(Txs)) /\ Len(best) >= Len(chain)
  BY Zenon DEF BestInv
<1>4. Len(best) \in Nat
  BY <1>3
<1> QED BY <1>2, <1>3, <1>4

(* Removing the tip, when the ledger returns to what it was before it.     *)
LEMMA ChainShortened ==
    ASSUME TypeOK, ChainInv, chain # <<>>,
           chain' = ButLast(chain), trail' = ButLast(trail), ledger' = trail[Len(chain)][1],
           undo' \in [1..MaxHeight -> Seq(TokenUndoRecord)], undo'[Len(chain)] = <<>>,
           \A g \in 1..MaxHeight : g # Len(chain) => undo'[g] = undo[g]
    PROVE  /\ ChainInv'
           /\ chain' \in Seq(Seq(Txs)) /\ trail' \in Seq(Seq(Ledger))
           /\ Len(chain') <= MaxHeight /\ Len(chain') < Len(chain)
           /\ ledger' \in Ledger
<1> DEFINE h == Len(chain)
<1>1. /\ chain \in Seq(Seq(Txs)) /\ trail \in Seq(Seq(Ledger)) /\ MaxHeight \in Nat
      /\ Len(chain) <= MaxHeight /\ Len(trail) = Len(chain)
  BY ConstantsAssumption, Zenon DEF TypeOK, ChainInv
<1>2. h \in Nat /\ h > 0 /\ chain' \in Seq(Seq(Txs)) /\ Len(chain') = h - 1
  BY <1>1, ButLastFacts, Zenon
<1>3. trail # <<>>
  BY <1>1, <1>2
<1>4. /\ trail' \in Seq(Seq(Ledger)) /\ Len(trail') = h - 1
      /\ \A i \in 1..(h - 1) : trail'[i] = trail[i]
  BY <1>1, <1>3, ButLastFacts, Zenon
<1>n. h \in Nat /\ h > 0 /\ h <= MaxHeight /\ MaxHeight \in Nat /\ Len(chain') = h - 1
  BY <1>1, <1>2, Zenon
<1>5. h \in 1..h /\ h \in 1..MaxHeight /\ Len(chain') <= MaxHeight /\ Len(chain') < h
  <2> HIDE DEF h
  <2> QED BY <1>n
<1>6. Linked(trail[h], undo[h], h)
  BY <1>5, Zenon DEF ChainInv
<1>7. Sound(ledger') /\ HistoryUpTo(ledger', h - 1)
  <2>1. 1 \in 1..Len(trail[h])
    <3>1. undo[h] \in Seq(TokenUndoRecord)
      BY <1>5, Zenon DEF TypeOK
    <3>2. Len(trail[h]) = Len(undo[h]) + 1
      BY <1>6, Zenon DEF Linked
    <3> QED BY <3>1, <3>2
  <2> QED BY <1>6, <2>1, Zenon DEF Linked
<1>8. \A g \in 1..(h - 1) : g \in 1..h /\ g \in 1..MaxHeight /\ g # h
  <2> HIDE DEF h
  <2> QED BY <1>n
<1>9. \A g \in 1..Len(chain') : Linked(trail'[g], undo'[g], g)
  BY <1>2, <1>4, <1>8, Zenon DEF ChainInv
<1>10. \A g \in 1..Len(chain') :
         trail'[g][Len(trail'[g])] = IF g = Len(chain') THEN ledger' ELSE trail'[g + 1][1]
  <2> SUFFICES ASSUME NEW g \in 1..(h - 1)
               PROVE  trail'[g][Len(trail'[g])] = IF g = h - 1 THEN ledger' ELSE trail'[g + 1][1]
    BY <1>2, Zenon
  <2>1. trail'[g][Len(trail'[g])] = trail[g + 1][1]
    BY <1>4, <1>8, Zenon DEF ChainInv
  <2>2. CASE g = h - 1
    <3>1. g + 1 = h
      BY <1>2, <2>2
    <3> QED BY <2>1, <2>2, <3>1, Zenon
  <2>3. CASE g # h - 1
    <3>1. g + 1 \in 1..(h - 1)
      BY <1>2, <2>3
    <3> QED BY <1>4, <2>1, <2>3, <3>1, Zenon
  <2> QED BY <2>2, <2>3, Zenon
<1>11. \A g \in 1..MaxHeight : g > Len(chain') => undo'[g] = <<>>
  <2> SUFFICES ASSUME NEW g \in 1..MaxHeight, g > h - 1, g # h PROVE undo[g] = <<>>
    BY <1>2, Zenon
  <2>1. g > h
    BY <1>2
  <2> QED BY <2>1, Zenon DEF ChainInv
<1>12. ChainInv'
  <2>1. MaxHeight' = MaxHeight
    OBVIOUS
  <2> QED BY <1>2, <1>4, <1>7, <1>9, <1>10, <1>11, Zenon DEF ChainInv
<1> QED BY <1>2, <1>4, <1>5, <1>7, <1>12, Zenon DEF Sound

(* A block without undo records is disconnected without touching a table.  *)
LEMMA SkipDisconnectInv ==
    ASSUME IInv, pc = "idle", chain # <<>>, SkipDisconnect
    PROVE  IInv' /\ ledger' = trail[Len(chain)][1]
<1> DEFINE h == Len(chain)
<1>1. /\ chain' = ButLast(chain) /\ trail' = ButLast(trail)
      /\ ledger' = ledger /\ undo' = undo /\ best' = best /\ pc' = pc /\ batch' = batch
      /\ batch_undo' = batch_undo /\ pending_tickers' = pending_tickers /\ block' = block
      /\ tx_pos' = tx_pos /\ op_pos' = op_pos /\ tx_op_index' = tx_op_index
      /\ issue_count_this_tx' = issue_count_this_tx /\ batch_trail' = batch_trail
  BY DEF SkipDisconnect
<1>2. TypeOK /\ ChainInv /\ BestInv /\ IdleInv
  BY Zenon DEF IInv
<1>3. undo[h] = <<>>
  BY <1>2, BestNotParent, Zenon DEF SkipDisconnect
<1>4. h \in 1..h /\ h \in Nat
  BY <1>2 DEF TypeOK
<1>5. ledger = trail[h][1]
  <2>1. Len(trail[h]) = Len(undo[h]) + 1 /\ trail[h][Len(trail[h])] = ledger
    BY <1>2, <1>4, Zenon DEF ChainInv, Linked
  <2>2. Len(trail[h]) = 1
    BY <1>3, <2>1
  <2> QED BY <2>1, <2>2, Zenon
<1>6. /\ undo' \in [1..MaxHeight -> Seq(TokenUndoRecord)] /\ undo'[h] = <<>>
      /\ \A g \in 1..MaxHeight : g # h => undo'[g] = undo[g]
  BY <1>1, <1>2, <1>3, Zenon DEF TypeOK
<1>7. /\ ChainInv' /\ chain' \in Seq(Seq(Txs)) /\ trail' \in Seq(Seq(Ledger))
      /\ Len(chain') <= MaxHeight /\ Len(chain') < Len(chain)
  BY <1>1, <1>2, <1>5, <1>6, ChainShortened, Zenon
<1>8. TypeOK'
  BY <1>1, <1>2, <1>7, Zenon DEF TypeOK, BlockHash
<1>9. BestInv'
  <2>1. best \in Seq(Seq(Txs)) /\ Len(best) >= Len(chain)
    BY <1>2, Zenon DEF BestInv
  <2>2. Len(best) >= Len(chain')
    BY <1>4, <1>7, <2>1
  <2> QED BY <1>1, <2>1, <2>2, Zenon DEF BestInv
<1>10. IdleInv' /\ ProcessInv' /\ DisconnectInv'
  BY <1>1, <1>2 DEF IdleInv, ProcessInv, DisconnectInv
<1> QED BY <1>1, <1>5, <1>7, <1>8, <1>9, <1>10, Zenon DEF IInv

(* DisconnectBlock starts from the committed tables and all undo records.  *)
LEMMA StartDisconnectInv ==
    ASSUME IInv, pc = "idle", chain # <<>>, StartDisconnect
    PROVE  IInv'
<1> DEFINE h == Len(chain)
<1>1. /\ pc' = "disconnect" /\ batch' = ledger /\ batch_undo' = undo[h]
      /\ chain' = chain /\ ledger' = ledger /\ undo' = undo /\ best' = best
      /\ pending_tickers' = pending_tickers /\ block' = block
      /\ tx_pos' = tx_pos /\ op_pos' = op_pos /\ tx_op_index' = tx_op_index
      /\ issue_count_this_tx' = issue_count_this_tx /\ trail' = trail
      /\ batch_trail' = batch_trail
  BY DEF StartDisconnect
<1>2. TypeOK /\ ChainInv /\ BestInv
  BY Zenon DEF IInv
<1>3. h \in 1..h /\ h \in 1..MaxHeight
  BY <1>2, ConstantsAssumption DEF TypeOK
<1>4. undo[h] \in Seq(TokenUndoRecord)
  BY <1>2, <1>3, Zenon DEF TypeOK
<1>5. TypeOK'
  BY <1>1, <1>2, <1>4, Zenon DEF TypeOK
<1>6. ChainInv' /\ BestInv'
  BY <1>1, <1>2, KeepChain, Zenon
<1>7. IdleInv' /\ ProcessInv'
  BY <1>1 DEF IdleInv, ProcessInv
<1>8. DisconnectInv'
  <2>1. Len(undo[h]) <= Len(undo[h])
    BY <1>4
  <2>2. ledger = trail[h][Len(undo[h]) + 1]
    BY <1>2, <1>3, Zenon DEF ChainInv, Linked
  <2> QED BY <1>1, <2>1, <2>2, Zenon DEF DisconnectInv
<1> QED BY <1>5, <1>6, <1>7, <1>8, Zenon DEF IInv

(* One undo record takes the batch one operation back.                     *)
LEMMA UndoStepInv == ASSUME IInv, UndoStep PROVE IInv'
<1> DEFINE h == Len(chain)
           n == Len(batch_undo)
<1>1. /\ pc = "disconnect" /\ batch_undo # <<>>
      /\ batch' = UndoOperation(batch, batch_undo[n], h) /\ batch_undo' = ButLast(batch_undo)
      /\ chain' = chain /\ ledger' = ledger /\ undo' = undo /\ best' = best /\ pc' = pc
      /\ pending_tickers' = pending_tickers /\ block' = block
      /\ tx_pos' = tx_pos /\ op_pos' = op_pos /\ tx_op_index' = tx_op_index
      /\ issue_count_this_tx' = issue_count_this_tx /\ trail' = trail
      /\ batch_trail' = batch_trail
  BY DEF UndoStep
<1>2. TypeOK /\ ChainInv /\ BestInv /\ DisconnectInv
  BY Zenon DEF IInv
<1>3. /\ chain # <<>> /\ n <= Len(undo[h]) /\ batch = trail[h][n + 1]
      /\ \A i \in 1..n : batch_undo[i] = undo[h][i]
  BY <1>1, <1>2, Zenon DEF DisconnectInv
<1>4. batch_undo \in Seq(TokenUndoRecord)
  BY <1>2, Zenon DEF TypeOK
<1>5. /\ n \in Nat /\ n > 0 /\ batch_undo' \in Seq(TokenUndoRecord) /\ Len(batch_undo') = n - 1
      /\ \A i \in 1..(n - 1) : batch_undo'[i] = batch_undo[i]
  BY <1>1, <1>4, ButLastFacts
<1>6. h \in 1..h /\ h \in 1..MaxHeight
  BY <1>2, <1>3, ConstantsAssumption DEF TypeOK
<1>7. undo[h] \in Seq(TokenUndoRecord)
  BY <1>2, <1>6, Zenon DEF TypeOK
<1>8. Len(undo[h]) \in Nat
  BY <1>7
<1>9. n \in 1..n /\ n \in 1..Len(undo[h]) /\ n \in 1..(Len(undo[h]) + 1) /\ (n - 1) + 1 = n
      /\ n - 1 <= Len(undo[h]) /\ \A i \in 1..(n - 1) : i \in 1..n
  <2> HIDE DEF n
  <2> QED BY <1>3, <1>5, <1>8
<1>10. Linked(trail[h], undo[h], h)
  BY <1>2, <1>6, Zenon DEF ChainInv
<1>11. batch' = trail[h][n]
  BY <1>1, <1>3, <1>9, <1>10, Zenon DEF Linked
<1>12. batch' \in Ledger
  BY <1>9, <1>10, <1>11, Zenon DEF Linked, Sound
<1>13. TypeOK'
  BY <1>1, <1>2, <1>5, <1>12, Zenon DEF TypeOK
<1>14. ChainInv' /\ BestInv'
  BY <1>1, <1>2, KeepChain, Zenon
<1>15. IdleInv' /\ ProcessInv'
  BY <1>1 DEF IdleInv, ProcessInv
<1>16. DisconnectInv'
  <2>1. \A i \in 1..(n - 1) : batch_undo'[i] = undo[h][i]
    BY <1>3, <1>5, <1>9, Zenon
  <2> QED BY <1>1, <1>3, <1>5, <1>9, <1>11, <2>1, Zenon DEF DisconnectInv
<1> QED BY <1>13, <1>14, <1>15, <1>16, Zenon DEF IInv

(* WriteBatch at the end of DisconnectBlock: with every record undone, the *)
(* batch is what the tables were before the block.                         *)
LEMMA CommitDisconnectInv ==
    ASSUME IInv, CommitDisconnect
    PROVE  IInv' /\ ledger' = trail[Len(chain)][1]
<1> DEFINE h == Len(chain)
<1>1. /\ pc = "disconnect" /\ batch_undo = <<>> /\ chain' = ButLast(chain) /\ ledger' = batch
      /\ undo' = [undo EXCEPT ![h] = <<>>] /\ best' = ButLast(chain) /\ trail' = ButLast(trail)
  BY Zenon DEF CommitDisconnect
<1>2. /\ pc' = "idle" /\ batch' = EmptyLedger /\ batch_undo' = <<>> /\ pending_tickers' = {}
      /\ block' = <<>> /\ tx_pos' = 1 /\ op_pos' = 1 /\ tx_op_index' = 0
      /\ issue_count_this_tx' = 0 /\ batch_trail' = <<>>
  BY Zenon DEF CommitDisconnect, Idle
<1>3. TypeOK /\ ChainInv /\ DisconnectInv
  BY Zenon DEF IInv
<1>4. chain # <<>> /\ batch = trail[h][Len(batch_undo) + 1]
  BY <1>1, <1>3, Zenon DEF DisconnectInv
<1>5. batch = trail[h][1]
  <2>1. Len(batch_undo) + 1 = 1
    BY <1>1
  <2> QED BY <1>4, <2>1, Zenon
<1>6. h \in 1..MaxHeight
  BY <1>3, <1>4, ConstantsAssumption DEF TypeOK
<1>7. <<>> \in Seq(TokenUndoRecord) /\ <<>> \in Seq(Txs) /\ <<>> \in Seq(Ledger)
  OBVIOUS
<1>8. /\ undo' \in [1..MaxHeight -> Seq(TokenUndoRecord)] /\ undo'[h] = <<>>
      /\ \A g \in 1..MaxHeight : g # h => undo'[g] = undo[g]
  BY <1>1, <1>3, <1>6, <1>7, Zenon DEF TypeOK
<1>9. /\ ChainInv' /\ chain' \in Seq(Seq(Txs)) /\ trail' \in Seq(Seq(Ledger))
      /\ Len(chain') <= MaxHeight /\ ledger' \in Ledger
  BY <1>1, <1>3, <1>4, <1>5, <1>8, ChainShortened, Zenon
<1>10. TypeOK'
  <2>1. EmptyLedger \in Ledger
    BY EmptySound, Zenon DEF Sound
  <2>2. 1 \in Nat \ {0} /\ 0 \in Nat
    OBVIOUS
  <2>3. best' \in BlockHash
    BY <1>1, <1>9, Zenon DEF BlockHash
  <2> QED BY <1>2, <1>7, <1>8, <1>9, <2>1, <2>2, <2>3, Zenon DEF TypeOK
<1>11. BestInv'
  <2>1. best' = chain'
    BY <1>1, Zenon
  <2>2. Len(chain') >= Len(chain')
    BY <1>9
  <2> QED BY <1>9, <2>1, <2>2, Zenon DEF BestInv
<1>12. IdleInv' /\ ProcessInv' /\ DisconnectInv'
  BY <1>2 DEF IdleInv, ProcessInv, DisconnectInv
<1> QED BY <1>1, <1>5, <1>9, <1>10, <1>11, <1>12, Zenon DEF IInv

(* Every step of ProcessBlock and DisconnectBlock preserves the invariant, *)
(* and a step that shortens the chain puts back the tables of the parent.  *)
LEMMA StepInv ==
    ASSUME IInv, [Next]_vars
    PROVE  IInv' /\ (Len(chain') < Len(chain) => ledger' = trail[Len(chain)][1])
<1>0. TypeOK /\ Len(chain) \in Nat
  BY DEF IInv, TypeOK
<1> DEFINE Restored == Len(chain') < Len(chain) => ledger' = trail[Len(chain)][1]
<1>1. CASE chain' = chain /\ IInv'
  BY <1>0, <1>1
<1>2. CASE ConnectBlock
  <2>1. PICK b \in Blocks : MinedBlock(b) /\ (SkipProcessedBlock(b) \/ StartProcessBlock(b))
    BY <1>2, Zenon DEF ConnectBlock
  <2>2. pc = "idle" /\ Len(chain) < MaxHeight
    BY <1>2, Zenon DEF ConnectBlock
  <2>3. b \in Seq(Txs)
    BY ConstantsAssumption DEF Blocks
  <2>4. CASE SkipProcessedBlock(b)
    <3>1. IInv'
      BY <2>2, <2>3, <2>4, SkipProcessedInv, Zenon
    <3>2. chain' = Append(chain, b) /\ chain \in Seq(Seq(Txs))
      BY <1>0, <2>4, Zenon DEF SkipProcessedBlock, TypeOK
    <3>3. Len(chain') = Len(chain) + 1
      BY <2>3, <3>2, AppendFacts, Zenon
    <3> QED BY <1>0, <3>1, <3>3
  <2>5. CASE StartProcessBlock(b)
    <3>1. IInv'
      BY <2>1, <2>2, <2>3, <2>5, StartProcessInv, Zenon
    <3> QED BY <1>1, <2>5, <3>1 DEF StartProcessBlock
  <2> QED BY <2>1, <2>4, <2>5, Zenon
<1>3. CASE ProcessIssue
  <2>1. IInv'
    BY <1>3, ProcessIssueInv, Zenon
  <2> QED BY <1>1, <1>3, <2>1 DEF ProcessIssue, ApplyOp, RejectOp
<1>4. CASE ProcessTransfer
  <2>1. IInv'
    BY <1>4, ProcessTransferInv, Zenon
  <2> QED BY <1>1, <1>4, <2>1 DEF ProcessTransfer, ApplyOp, RejectOp
<1>5. CASE ProcessBurn
  <2>1. IInv'
    BY <1>5, ProcessBurnInv, Zenon
  <2> QED BY <1>1, <1>5, <2>1 DEF ProcessBurn, ApplyOp, RejectOp
<1>6. CASE NextTx
  <2>1. IInv'
    BY <1>6, NextTxInv, Zenon
  <2> QED BY <1>1, <1>6, <2>1 DEF NextTx
<1>7. CASE CommitBlock
  <2>1. IInv'
    BY <1>7, CommitBlockInv, Zenon
  <2>2. chain' = Append(chain, block) /\ chain \in Seq(Seq(Txs)) /\ block \in Seq(Txs)
    BY <1>0, <1>7, Zenon DEF CommitBlock, TypeOK
  <2>3. Len(chain') = Len(chain) + 1
    BY <2>2, AppendFacts, Zenon
  <2> QED BY <1>0, <2>1, <2>3
<1>8. CASE DisconnectBlock
  <2>1. pc = "idle" /\ chain # <<>> /\ (SkipDisconnect \/ StartDisconnect)
    BY <1>8, Zenon DEF DisconnectBlock
  <2>2. CASE SkipDisconnect
    BY <2>1, <2>2, SkipDisconnectInv, Zenon
  <2>3. CASE StartDisconnect
    <3>1. IInv'
      BY <2>1, <2>3, StartDisconnectInv, Zenon
    <3> QED BY <1>1, <2>3, <3>1 DEF StartDisconnect
  <2> QED BY <2>1, <2>2, <2>3, Zenon
<1>9. CASE UndoStep
  <2>1. IInv'
    BY <1>9, UndoStepInv, Zenon
  <2> QED BY <1>1, <1>9, <2>1 DEF UndoStep
<1>10. CASE CommitDisconnect
  BY <1>10, CommitDisconnectInv, Zenon
<1>11. CASE UNCHANGED vars
  <2>1. /\ chain' = chain /\ ledger' = ledger /\ undo' = undo /\ best' = best /\ pc' = pc
        /\ batch' = batch /\ batch_undo' = batch_undo /\ pending_tickers' = pending_tickers
        /\ block' = block /\ tx_pos' = tx_pos /\ op_pos' = op_pos
        /\ tx_op_index' = tx_op_index /\ issue_count_this_tx' = issue_count_this_tx
        /\ trail' = trail /\ batch_trail' = batch_trail
    BY <1>11 DEF vars
  <2>2. ChainInv' /\ BestInv'
    BY <2>1, KeepChain, Zenon DEF IInv
  <2>3. TypeOK' /\ IdleInv' /\ DisconnectInv'
    BY <2>1, Zenon DEF IInv, TypeOK, IdleInv, DisconnectInv
  <2>4. ProcessInv'
    BY <2>1, Zenon DEF IInv, ProcessInv, height, PassedRecord
  <2> QED BY <1>1, <2>1, <2>2, <2>3, <2>4, Zenon DEF IInv
<1> QED BY <1>2, <1>3, <1>4, <1>5, <1>6, <1>7, <1>8, <1>9, <1>10, <1>11, Zenon DEF Next

(* IInv holds in every reachable state.                                    *)
THEOREM Inductive == Spec => []IInv
<1>1. IInv /\ [Next]_vars => IInv'
  BY StepInv, Zenon
<1> QED BY <1>1, InitInv, PTL DEF Spec

(* Every variable of the database keeps its type; no balance wraps.        *)
THEOREM TypeCorrect == Spec => []TypeOK
<1>1. IInv => TypeOK
  BY Zenon DEF IInv
<1> QED BY <1>1, Inductive, PTL

(* The tables agree with each other after every WriteBatch, and so does    *)
(* the overlay that ProcessBlock and DisconnectBlock work on.              *)
THEOREM IndexesAgree == Spec => []IndexConsistent
<1>1. IInv => IndexConsistent
  <2> SUFFICES ASSUME IInv, pc # "idle" PROVE Consistent(batch)
    BY Zenon DEF IndexConsistent, IInv, ChainInv, Sound
  <2>1. CASE pc = "process"
    BY <2>1, BatchSound, Zenon DEF IInv, Sound
  <2>2. CASE pc = "disconnect"
    <3> DEFINE h == Len(chain)
               n == Len(batch_undo)
    <3>1. TypeOK /\ ChainInv /\ chain # <<>> /\ n <= Len(undo[h]) /\ batch = trail[h][n + 1]
      BY <2>2, Zenon DEF IInv, DisconnectInv
    <3>2. h \in 1..h /\ h \in 1..MaxHeight /\ n \in Nat
      BY <3>1, ConstantsAssumption DEF TypeOK
    <3>3. undo[h] \in Seq(TokenUndoRecord) /\ Linked(trail[h], undo[h], h)
      BY <3>1, <3>2, Zenon DEF TypeOK, ChainInv
    <3>4. n + 1 \in 1..Len(trail[h])
      <4>1. Len(undo[h]) \in Nat /\ Len(trail[h]) = Len(undo[h]) + 1
        BY <3>3 DEF Linked
      <4> HIDE DEF n
      <4> QED BY <3>1, <3>2, <4>1
    <3> QED BY <3>1, <3>3, <3>4, Zenon DEF Linked, Sound
  <2> QED BY <2>1, <2>2, Zenon DEF IInv, TypeOK
<1> QED BY <1>1, Inductive, PTL

(* holder_count is the number of holders, whatever blocks are connected    *)
(* and disconnected.                                                       *)
THEOREM HolderCounts == Spec => []HolderCountExact
<1>1. IInv => HolderCountExact
  BY Zenon DEF IInv, ChainInv, Sound, HolderCountExact
<1> QED BY <1>1, Inductive, PTL

(* The already-disconnected guard of DisconnectBlock never fires while the *)
(* node runs.                                                              *)
THEOREM GuardSafe == Spec => []GuardNeverSkips
<1>1. IInv => GuardNeverSkips
  BY BestNotParent, Zenon DEF IInv, GuardNeverSkips
<1> QED BY <1>1, Inductive, PTL

(* DisconnectBlock puts back exactly the tables its block was connected on. *)
THEOREM ReorgExact == Spec => DisconnectRestores
<1>1. IInv /\ [Next]_vars => [Len(chain') < Len(chain) => ledger' = Head(trail[Len(chain)])]_vars
  <2> SUFFICES ASSUME IInv, [Next]_vars, Len(chain') < Len(chain)
               PROVE  ledger' = Head(trail[Len(chain)])
    BY Zenon
  <2>1. ledger' = trail[Len(chain)][1]
    BY StepInv, Zenon
  <2>2. TypeOK /\ ChainInv /\ Len(chain) \in 1..Len(chain)
    <3>1. chain \in Seq(Seq(Txs)) /\ TypeOK /\ ChainInv
      BY Zenon DEF IInv, TypeOK
    <3>2. chain' \in Seq(Seq(Txs))
      BY StepInv, Zenon DEF IInv, TypeOK
    <3>3. Len(chain) \in Nat /\ Len(chain') \in Nat
      BY <3>1, <3>2
    <3> QED BY <3>1, <3>3
  <2>3. Head(trail[Len(chain)]) = trail[Len(chain)][1]
    <3>1. trail[Len(chain)] \in Seq(Ledger) /\ Len(trail[Len(chain)]) # 0
      <4>1. Len(chain) \in 1..MaxHeight /\ Len(trail) = Len(chain)
        BY <2>2, ConstantsAssumption DEF TypeOK, ChainInv
      <4>2. undo[Len(chain)] \in Seq(TokenUndoRecord) /\ trail \in Seq(Seq(Ledger))
        BY <2>2, <4>1, Zenon DEF TypeOK
      <4>3. Len(trail[Len(chain)]) = Len(undo[Len(chain)]) + 1
        BY <2>2, Zenon DEF ChainInv, Linked
      <4>4. Len(undo[Len(chain)]) \in Nat
        BY <4>2
      <4>5. trail[Len(chain)] \in Seq(Ledger)
        BY <2>2, <4>1, <4>2
      <4> QED BY <4>3, <4>4, <4>5
    <3> QED BY <3>1
  <2> QED BY <2>1, <2>3, Zenon
<1> QED BY <1>1, Inductive, PTL DEF Spec, DisconnectRestores

=============================================================================
