--------------------------- MODULE TokenTables_proofs ---------------------------
(***************************************************************************)
(* What the token operations do to the tables: each keeps them well-typed  *)
(* and in agreement, and each is taken back by its undo record.            *)
(***************************************************************************)
EXTENDS TokenTables, FiniteSetTheorems, TLAPS

(* No record of the history has this key.                                  *)
FreshKey(T, t, h, txid, i) ==
    \A r \in T : ~(r.token_id = t /\ r.height = h /\ r.txid = txid /\ r.op_index = i)

(* The undo record ProcessBlock writes for an operation applied to L.      *)
IssueUndoOf(u, t, k, a, i) ==
    /\ u.token_id = t /\ u.txid = t /\ u.op_index = i
    /\ u.from_address = a /\ u.ticker = k

TransferUndoOf(u, L, t, from, to, n, x, i) ==
    /\ u.token_id = t /\ u.txid = x /\ u.op_index = i
    /\ u.from_address = from /\ u.to_address = to /\ u.amount = n
    /\ u.prev_from_balance = L.balances[t][from]
    /\ u.prev_to_balance = L.balances[t][to]
    /\ u.prev_holder_count = L.infos[t].holder_count

BurnUndoOf(u, L, t, from, n, x, i) ==
    /\ u.token_id = t /\ u.txid = x /\ u.op_index = i
    /\ u.from_address = from /\ u.amount = n
    /\ u.prev_from_balance = L.balances[t][from]
    /\ u.prev_holder_count = L.infos[t].holder_count
    /\ u.prev_circulating_supply = L.infos[t].circulating_supply

(* The type of each table of a ledger.                                     *)
LEMMA LedgerFields ==
    ASSUME NEW L \in Ledger
    PROVE  /\ L.infos \in [Txids -> TokenInfo]
           /\ L.tickers \in [Tickers -> Txids \cup {NoTxid}]
           /\ L.balances \in [Txids -> [Addresses -> 0..UINT64_MAX]]
           /\ L.holders \in [Txids -> SUBSET Addresses]
           /\ L.addr_tokens \in [Addresses -> SUBSET Txids]
           /\ L.transfers \in SUBSET TransferRecord
BY Zenon DEF Ledger

(* A function that differs from g in at most two places becomes g when the *)
(* values of g are put back there.                                         *)
LEMMA PutBackTwo ==
    ASSUME NEW S, NEW T, NEW f \in [S -> T], NEW g \in [S -> T], NEW x \in S, NEW y \in S,
           \A s \in S : s # x /\ s # y => f[s] = g[s]
    PROVE  [[f EXCEPT ![x] = g[x]] EXCEPT ![y] = g[y]] = g
<1> DEFINE e == [f EXCEPT ![x] = g[x]]
<1>1. e \in [S -> T] /\ \A s \in S : s # y => e[s] = g[s]
  BY Zenon
<1> HIDE DEF e
<1>2. [e EXCEPT ![y] = g[y]] = g
  BY <1>1, Zenon
<1> QED BY <1>2, Zenon DEF e

(* Erasing the history record an operation wrote under a free key restores *)
(* the history.                                                            *)
LEMMA EraseWritten ==
    ASSUME NEW T \in SUBSET TransferRecord, NEW t, NEW h, NEW x, NEW i, NEW f, NEW g, NEW n,
           FreshKey(T, t, h, x, i)
    PROVE  /\ EraseTransfer(WriteTransfer(T, Record(t, h, x, i, f, g, n)), t, h, x, i) = T
           /\ WriteTransfer(T, Record(t, h, x, i, f, g, n)) = T \cup {Record(t, h, x, i, f, g, n)}
BY DEF FreshKey, EraseTransfer, WriteTransfer, Record

(* RegisterToken writes well-typed tables.                                 *)
LEMMA IssueType ==
    ASSUME NEW L \in Ledger, NEW t \in Txids, NEW k \in Tickers, NEW n \in 1..INT64_MAX,
           NEW a \in Addresses, NEW h \in Nat, NEW i \in Nat
    PROVE  RegisterToken(L, t, k, n, a, h, i) \in Ledger
<1>1. IssuedInfo(k, n) \in TokenInfo
  BY TablesAssumption DEF IssuedInfo, TokenInfo
<1>2. n \in 0..UINT64_MAX
  BY TablesAssumption DEF UINT64_MAX
<1>3. Record(t, h, t, i, EmptyScript, a, n) \in TransferRecord
  BY TablesAssumption DEF Record, TransferRecord, Addresses
<1>4. WriteTransfer(L.transfers, Record(t, h, t, i, EmptyScript, a, n)) \subseteq TransferRecord
  BY <1>3, Zenon DEF WriteTransfer, EraseTransfer, Ledger
<1> QED BY <1>1, <1>2, <1>4, Zenon DEF RegisterToken, Ledger

(* RegisterToken of an unused token id and ticker keeps the tables in      *)
(* agreement.                                                              *)
LEMMA IssueConsistent ==
    ASSUME NEW L \in Ledger, NEW t \in Txids, NEW k \in Tickers, NEW n \in 1..INT64_MAX,
           NEW a \in Addresses, NEW h \in Nat, NEW i \in Nat,
           Consistent(L), ~TokenExists(L, t), ~TickerExists(L, k), a # EmptyScript
    PROVE  Consistent(RegisterToken(L, t, k, n, a, h, i))
<1>1. IssuedInfo(k, n) # NoInfo /\ IssuedInfo(k, n).ticker = k
  BY TablesAssumption, Zenon DEF IssuedInfo, NoInfo
<1> QED BY <1>1, TablesAssumption DEF RegisterToken, Ledger, Consistent, TokenExists, TickerExists

(* The ISSUE case of DisconnectBlock takes back exactly what RegisterToken *)
(* wrote.                                                                  *)
LEMMA IssueUndone ==
    ASSUME NEW L \in Ledger, NEW t \in Txids, NEW k \in Tickers, NEW n \in 1..INT64_MAX,
           NEW a \in Addresses, NEW h \in Nat, NEW i \in Nat, NEW u,
           Consistent(L), ~TokenExists(L, t), ~TickerExists(L, k), a # EmptyScript,
           FreshKey(L.transfers, t, h, t, i), IssueUndoOf(u, t, k, a, i)
    PROVE  UndoIssue(RegisterToken(L, t, k, n, a, h, i), u, h) = L
<1> DEFINE M == RegisterToken(L, t, k, n, a, h, i)
           U == UndoIssue(M, u, h)
<1>1. U.infos = L.infos
  BY Zenon DEF IssueUndoOf, UndoIssue, RegisterToken, Ledger, TokenExists
<1>2. U.tickers = L.tickers
  BY Zenon DEF IssueUndoOf, UndoIssue, RegisterToken, Ledger, TickerExists
<1>z. L.balances[t][a] = 0 /\ a \notin L.holders[t] /\ t \notin L.addr_tokens[a]
  BY DEF Consistent, TokenExists, Ledger
<1>3. U.balances = L.balances
  <2>1. U.balances = [M.balances EXCEPT ![t] = [M.balances[t] EXCEPT ![a] = 0]]
    BY Zenon DEF IssueUndoOf, UndoIssue
  <2>2. M.balances = [L.balances EXCEPT ![t] = [L.balances[t] EXCEPT ![a] = n]]
    BY Zenon DEF RegisterToken
  <2>3. L.balances \in [Txids -> [Addresses -> 0..UINT64_MAX]]
    BY LedgerFields, Zenon
  <2> HIDE DEF M, U
  <2> QED BY <1>z, <2>1, <2>2, <2>3
<1>4. U.holders = L.holders
  <2>1. U.holders = [M.holders EXCEPT ![t] = M.holders[t] \ {a}]
    BY Zenon DEF IssueUndoOf, UndoIssue
  <2>2. M.holders = [L.holders EXCEPT ![t] = L.holders[t] \cup {a}]
    BY Zenon DEF RegisterToken
  <2>3. L.holders \in [Txids -> SUBSET Addresses]
    BY LedgerFields, Zenon
  <2> HIDE DEF M, U
  <2>4. (L.holders[t] \cup {a}) \ {a} = L.holders[t]
    BY <1>z, Zenon
  <2> QED BY <2>1, <2>2, <2>3, <2>4, Zenon
<1>5. U.addr_tokens = L.addr_tokens
  <2>1. U.addr_tokens = [M.addr_tokens EXCEPT ![a] = M.addr_tokens[a] \ {t}]
    BY Zenon DEF IssueUndoOf, UndoIssue
  <2>2. M.addr_tokens = [L.addr_tokens EXCEPT ![a] = L.addr_tokens[a] \cup {t}]
    BY Zenon DEF RegisterToken
  <2>3. L.addr_tokens \in [Addresses -> SUBSET Txids]
    BY LedgerFields, Zenon
  <2> HIDE DEF M, U
  <2>4. (L.addr_tokens[a] \cup {t}) \ {t} = L.addr_tokens[a]
    BY <1>z, Zenon
  <2> QED BY <2>1, <2>2, <2>3, <2>4, Zenon
<1>6. U.transfers = L.transfers
  <2>1. U.transfers = EraseTransfer(M.transfers, t, h, t, i)
    BY Zenon DEF IssueUndoOf, UndoIssue
  <2>2. M.transfers = WriteTransfer(L.transfers, Record(t, h, t, i, EmptyScript, a, n))
    BY Zenon DEF RegisterToken
  <2>3. L.transfers \in SUBSET TransferRecord
    BY LedgerFields, Zenon
  <2> HIDE DEF M, U
  <2> QED BY <2>1, <2>2, <2>3, EraseWritten
<1> QED BY <1>1, <1>2, <1>3, <1>4, <1>5, <1>6, Zenon DEF IssueUndoOf, UndoIssue, Ledger

(* A token has finitely many holders.                                      *)
LEMMA FiniteHolders ==
    ASSUME NEW L \in Ledger, NEW t \in Txids
    PROVE  IsFiniteSet(L.holders[t]) /\ Cardinality(L.holders[t]) \in Nat
<1>1. IsFiniteSet(Addresses)
  BY TablesAssumption, FS_AddElement, Zenon DEF Addresses
<1>2. L.holders[t] \subseteq Addresses
  BY LedgerFields, Zenon
<1> QED BY <1>1, <1>2, FS_Subset, FS_CardinalityType, Zenon

(* RegisterToken sets the holder count of the new token right.             *)
LEMMA IssueHolders ==
    ASSUME NEW L \in Ledger, NEW t \in Txids, NEW k \in Tickers, NEW n \in 1..INT64_MAX,
           NEW a \in Addresses, NEW h \in Nat, NEW i \in Nat,
           Consistent(L), HolderExact(L), ~TokenExists(L, t)
    PROVE  HolderExact(RegisterToken(L, t, k, n, a, h, i))
<1> DEFINE M == RegisterToken(L, t, k, n, a, h, i)
<1>1. M.holders = [L.holders EXCEPT ![t] = L.holders[t] \cup {a}]
  BY Zenon DEF RegisterToken
<1>2. M.infos = [L.infos EXCEPT ![t] = IssuedInfo(k, n)]
  BY Zenon DEF RegisterToken
<1>3. L.holders[t] = {}
  BY Zenon DEF Consistent, TokenExists, Ledger
<1>4. Cardinality({a}) = 1
  BY FS_Singleton, Zenon
<1>5. L.infos \in [Txids -> TokenInfo] /\ L.holders \in [Txids -> SUBSET Addresses]
  BY LedgerFields, Zenon
<1> HIDE DEF M
<1> SUFFICES ASSUME NEW s \in Txids PROVE M.infos[s].holder_count = Cardinality(M.holders[s])
  BY Zenon DEF HolderExact, M
<1>6. CASE s = t
  <2>1. M.holders[s] = {a}
    BY <1>1, <1>3, <1>5, <1>6, Zenon
  <2> QED BY <1>2, <1>4, <1>5, <1>6, <2>1 DEF IssuedInfo
<1>7. CASE s # t
  BY <1>1, <1>2, <1>5, <1>7, Zenon DEF HolderExact
<1> QED BY <1>6, <1>7, Zenon

(* The balances and indexes that TransferTokens leaves, table by table.    *)
MovedTables(L, M, t, from, to, n) ==
    /\ M.balances = [L.balances EXCEPT ![t] = [L.balances[t] EXCEPT
                       ![from] = L.balances[t][from] - n, ![to] = L.balances[t][to] + n]]
    /\ M.balances \in [Txids -> [Addresses -> 0..UINT64_MAX]]
    /\ M.holders \in [Txids -> SUBSET Addresses]
    /\ \A s \in Txids : s # t => M.holders[s] = L.holders[s]
    /\ M.holders[t] = (IF L.balances[t][from] = n THEN L.holders[t] \ {from} ELSE L.holders[t]) \cup {to}
    /\ M.addr_tokens \in [Addresses -> SUBSET Txids]
    /\ \A a \in Addresses : a # from /\ a # to => M.addr_tokens[a] = L.addr_tokens[a]
    /\ M.addr_tokens[from] = IF L.balances[t][from] = n THEN L.addr_tokens[from] \ {t} ELSE L.addr_tokens[from]
    /\ M.addr_tokens[to] = IF L.balances[t][to] = 0 THEN L.addr_tokens[to] \cup {t} ELSE L.addr_tokens[to]

(* The balances and the two indexes after TransferTokens between two       *)
(* different addresses.                                                    *)
LEMMA TransferTables ==
    ASSUME NEW L \in Ledger, NEW t \in Txids, NEW from \in Addresses, NEW to \in Addresses,
           NEW n \in 1..INT64_MAX, NEW h \in Nat, NEW x \in Txids, NEW i \in Nat,
           CanTransferTokens(L, t, from, to, n), from # to,
           NEW M, M = TransferTokens(L, t, from, to, n, h, x, i)
    PROVE  MovedTables(L, M, t, from, to, n)
<1>1. L.balances[t][from] \in 0..UINT64_MAX /\ L.balances[t][to] \in 0..UINT64_MAX /\ UINT64_MAX \in Nat
  BY TablesAssumption DEF Ledger, UINT64_MAX
<1>2. L.balances[t][from] - n \in 0..UINT64_MAX /\ L.balances[t][to] + n \in 0..UINT64_MAX
  BY <1>1 DEF CanTransferTokens
<1>3. M.balances = [L.balances EXCEPT ![t] = [L.balances[t] EXCEPT
                              ![from] = L.balances[t][from] - n, ![to] = L.balances[t][to] + n]]
  <2> DEFINE paid == [L.balances EXCEPT ![t] = [L.balances[t] EXCEPT ![from] = L.balances[t][from] - n]]
  <2>1. M.balances = [paid EXCEPT ![t] = [paid[t] EXCEPT ![to] = paid[t][to] + n]]
    BY Zenon DEF TransferTokens
  <2>2. L.balances \in [Txids -> [Addresses -> 0..UINT64_MAX]]
    BY LedgerFields, Zenon
  <2>3. paid[t] = [L.balances[t] EXCEPT ![from] = L.balances[t][from] - n] /\ paid[t][to] = L.balances[t][to]
    BY <2>2, Zenon
  <2> QED BY <2>1, <2>2, <2>3, Zenon
<1>4. M.balances \in [Txids -> [Addresses -> 0..UINT64_MAX]]
  BY <1>2, <1>3 DEF Ledger
<1>5. /\ M.holders \in [Txids -> SUBSET Addresses]
      /\ \A s \in Txids : s # t => M.holders[s] = L.holders[s]
      /\ M.holders[t] = (IF L.balances[t][from] = n THEN L.holders[t] \ {from} ELSE L.holders[t]) \cup {to}
  BY Zenon DEF TransferTokens, Ledger
<1>6. /\ M.addr_tokens \in [Addresses -> SUBSET Txids]
      /\ \A a \in Addresses : a # from /\ a # to => M.addr_tokens[a] = L.addr_tokens[a]
      /\ M.addr_tokens[from] = IF L.balances[t][from] = n THEN L.addr_tokens[from] \ {t} ELSE L.addr_tokens[from]
      /\ M.addr_tokens[to] = IF L.balances[t][to] = 0 THEN L.addr_tokens[to] \cup {t} ELSE L.addr_tokens[to]
  <2> DEFINE listed == [L.addr_tokens EXCEPT ![from] = IF L.balances[t][from] = n THEN @ \ {t} ELSE @]
  <2>1. M.addr_tokens = [listed EXCEPT ![to] = IF L.balances[t][to] = 0 THEN @ \cup {t} ELSE @]
    BY Zenon DEF TransferTokens
  <2>2. L.addr_tokens \in [Addresses -> SUBSET Txids]
    BY LedgerFields, Zenon
  <2>3. /\ listed \in [Addresses -> SUBSET Txids]
        /\ \A a \in Addresses : a # from => listed[a] = L.addr_tokens[a]
        /\ listed[from] = IF L.balances[t][from] = n THEN L.addr_tokens[from] \ {t} ELSE L.addr_tokens[from]
    BY <2>2, Zenon
  <2> HIDE DEF listed
  <2> QED BY <2>1, <2>3
<1> QED BY <1>3, <1>4, <1>5, <1>6, Zenon DEF MovedTables

(* What an update of the statistics of one token may not change.           *)
SameTokens(L, M) ==
    /\ M.infos \in [Txids -> TokenInfo]
    /\ \A s \in Txids : M.infos[s].ticker = L.infos[s].ticker
    /\ \A s \in Txids : TokenExists(M, s) <=> TokenExists(L, s)
    /\ M.tickers = L.tickers
    /\ M.transfers \subseteq TransferRecord

(* Tables that name the same tokens and tickers keep the ticker index in   *)
(* agreement with the token infos.                                         *)
LEMMA SameTokensTickers ==
    ASSUME NEW L \in Ledger, NEW M, Consistent(L), SameTokens(L, M)
    PROVE  /\ \A t \in Txids : TokenExists(M, t) => /\ M.infos[t].ticker \in Tickers
                                                   /\ M.tickers[M.infos[t].ticker] = t
           /\ \A k \in Tickers : TickerExists(M, k) => /\ TokenExists(M, M.tickers[k])
                                                      /\ M.infos[M.tickers[k]].ticker = k
<1>1. L.tickers \in [Tickers -> Txids \cup {NoTxid}]
  BY LedgerFields, Zenon
<1> QED BY <1>1 DEF SameTokens, Consistent, TickerExists

(* TransferTokens keeps a token info well-typed and its ticker.            *)
LEMMA TransferredInfoFields ==
    ASSUME NEW info \in TokenInfo, NEW joined \in BOOLEAN, NEW drained \in BOOLEAN
    PROVE  /\ TransferredInfo(info, joined, drained) \in TokenInfo
           /\ TransferredInfo(info, joined, drained).ticker = info.ticker
<1> DEFINE n == IF joined THEN info.holder_count + 1 ELSE info.holder_count
           m == IF drained /\ n > 0 THEN n - 1 ELSE n
<1>1. info.holder_count \in Nat /\ info.transfer_count \in Nat
  BY Zenon DEF TokenInfo
<1>2. m \in Nat
  BY <1>1
<1>3. TransferredInfo(info, joined, drained)
        = Stats(info, info.circulating_supply, m, info.transfer_count + 1)
  BY Zenon DEF TransferredInfo
<1> HIDE DEF m
<1> QED BY <1>1, <1>2, <1>3 DEF TokenInfo, Stats

(* TransferTokens changes the statistics of one token and no ticker.       *)
LEMMA TransferInfos ==
    ASSUME NEW L \in Ledger, NEW t \in Txids, NEW from \in Addresses, NEW to \in Addresses,
           NEW n \in 1..INT64_MAX, NEW h \in Nat, NEW x \in Txids, NEW i \in Nat,
           Consistent(L), TokenExists(L, t),
           NEW M, M = TransferTokens(L, t, from, to, n, h, x, i)
    PROVE  /\ M.infos = [L.infos EXCEPT ![t] = TransferredInfo(L.infos[t],
                 from # to /\ L.balances[t][to] = 0, from # to /\ L.balances[t][from] = n)]
           /\ SameTokens(L, M)
<1> DEFINE joined == from # to /\ L.balances[t][to] = 0
           drained == from # to /\ L.balances[t][from] = n
           info == TransferredInfo(L.infos[t], joined, drained)
<1>1. M.infos = [L.infos EXCEPT ![t] = info]
  BY Zenon DEF TransferTokens
<1>2. L.infos \in [Txids -> TokenInfo]
  BY LedgerFields, Zenon
<1>3. info \in TokenInfo /\ info.ticker = L.infos[t].ticker
  BY <1>2, TransferredInfoFields, Zenon
<1>4. info # NoInfo
  BY <1>3, TablesAssumption DEF Consistent, NoInfo
<1>5. M.tickers = L.tickers
  BY Zenon DEF TransferTokens
<1>6. Record(t, h, x, i, from, to, n) \in TransferRecord
  BY TablesAssumption DEF Record, TransferRecord
<1>7. M.transfers \subseteq TransferRecord
  <2>1. M.transfers = WriteTransfer(L.transfers, Record(t, h, x, i, from, to, n))
    BY Zenon DEF TransferTokens
  <2>2. L.transfers \subseteq TransferRecord
    BY LedgerFields, Zenon
  <2> QED BY <1>6, <2>1, <2>2, Zenon DEF WriteTransfer, EraseTransfer
<1> HIDE DEF info
<1> QED BY <1>1, <1>2, <1>3, <1>4, <1>5, <1>7, Zenon DEF TokenExists, info, SameTokens

(* TransferTokens keeps the tables well-typed and in agreement, to oneself *)
(* too.                                                                    *)
LEMMA TransferConsistent ==
    ASSUME NEW L \in Ledger, NEW t \in Txids, NEW from \in Addresses, NEW to \in Addresses,
           NEW n \in 1..INT64_MAX, NEW h \in Nat, NEW x \in Txids, NEW i \in Nat,
           Consistent(L), CanTransferTokens(L, t, from, to, n), to # EmptyScript,
           NEW M, M = TransferTokens(L, t, from, to, n, h, x, i)
    PROVE  M \in Ledger /\ Consistent(M)
<1>1. L.balances[t][from] > 0 /\ TokenExists(L, t) /\ from # EmptyScript
  BY DEF CanTransferTokens, Consistent, Ledger
<1>2. SameTokens(L, M)
  BY <1>1, TransferInfos, Zenon
<1>3. M = [infos |-> M.infos, tickers |-> M.tickers, balances |-> M.balances,
           holders |-> M.holders, addr_tokens |-> M.addr_tokens, transfers |-> M.transfers]
  BY Zenon DEF TransferTokens
<1>4. CASE from = to
  <2>1. M.balances = L.balances /\ M.holders = L.holders /\ M.addr_tokens = L.addr_tokens
    BY <1>4, Zenon DEF TransferTokens, Ledger
  <2>2. M \in Ledger
    BY <1>2, <1>3, <2>1, Zenon DEF Ledger, SameTokens
  <2> QED BY <1>2, <2>1, <2>2, SameTokensTickers DEF Consistent, SameTokens
<1>5. CASE from # to
  <2>0. MovedTables(L, M, t, from, to, n)
    BY <1>5, TransferTables, Zenon
  <2>1. /\ M.balances \in [Txids -> [Addresses -> 0..UINT64_MAX]]
        /\ M.holders \in [Txids -> SUBSET Addresses]
        /\ M.addr_tokens \in [Addresses -> SUBSET Txids]
    BY <2>0, Zenon DEF MovedTables
  <2>2. M \in Ledger
    BY <1>2, <1>3, <2>1, Zenon DEF Ledger, SameTokens
  <2>3. \A s \in Txids, a \in Addresses :
          /\ a \in M.holders[s] <=> M.balances[s][a] > 0
          /\ s \in M.addr_tokens[a] <=> M.balances[s][a] > 0
          /\ M.balances[s][a] > 0 => TokenExists(M, s)
    <3> SUFFICES ASSUME NEW s \in Txids, NEW a \in Addresses
                 PROVE  /\ a \in M.holders[s] <=> M.balances[s][a] > 0
                        /\ s \in M.addr_tokens[a] <=> M.balances[s][a] > 0
                        /\ M.balances[s][a] > 0 => TokenExists(M, s)
      BY Zenon
    <3>1. L.balances \in [Txids -> [Addresses -> 0..UINT64_MAX]] /\ L.balances[t][from] >= n
      BY Zenon DEF Ledger, CanTransferTokens
    <3>2. /\ a \in L.holders[s] <=> L.balances[s][a] > 0
          /\ s \in L.addr_tokens[a] <=> L.balances[s][a] > 0
          /\ L.balances[s][a] > 0 => TokenExists(L, s)
      BY Zenon DEF Consistent
    <3>3. M.balances[s][a] = IF s = t /\ a = from THEN L.balances[s][a] - n
                             ELSE IF s = t /\ a = to THEN L.balances[s][a] + n
                             ELSE L.balances[s][a]
      BY <1>5, <2>0, <3>1 DEF MovedTables
    <3>4. a \in M.holders[s] <=> M.balances[s][a] > 0
      <4>1. CASE s # t
        BY <2>0, <3>2, <3>3, <4>1, Zenon DEF MovedTables
      <4>2. CASE s = t
        <5>1. a \in M.holders[s] <=> a = to \/ (a \in L.holders[t] /\ ~(a = from /\ L.balances[t][from] = n))
          BY <2>0, <4>2 DEF MovedTables
        <5>2. CASE a = to
          BY <1>5, <3>1, <3>3, <4>2, <5>1, <5>2
        <5>3. CASE a # to
          BY <3>1, <3>2, <3>3, <4>2, <5>1, <5>3
        <5> QED BY <5>2, <5>3, Zenon
      <4> QED BY <4>1, <4>2, Zenon
    <3>5. s \in M.addr_tokens[a] <=> M.balances[s][a] > 0
      <4>1. CASE a # from /\ a # to
        BY <2>0, <3>2, <3>3, <4>1, Zenon DEF MovedTables
      <4>2. CASE a = from
        <5>1. s \in M.addr_tokens[a] <=> s \in L.addr_tokens[a] /\ ~(s = t /\ L.balances[t][from] = n)
          BY <2>0, <4>2 DEF MovedTables
        <5>2. CASE s # t
          BY <3>2, <3>3, <5>1, <5>2, Zenon
        <5>3. CASE s = t
          <6>1. M.balances[s][a] = L.balances[s][a] - n
            BY <3>3, <4>2, <5>3, Zenon
          <6>2. L.balances[s][a] \in Nat /\ L.balances[s][a] = L.balances[t][from] /\ L.balances[s][a] >= n
            BY <3>1, <4>2, <5>3
          <6> QED BY <3>2, <5>1, <5>3, <6>1, <6>2
        <5> QED BY <5>2, <5>3, Zenon
      <4>3. CASE a = to
        <5>1. s \in M.addr_tokens[a] <=> s \in L.addr_tokens[a] \/ (s = t /\ L.balances[t][to] = 0)
          BY <2>0, <4>3 DEF MovedTables
        <5> QED BY <1>5, <3>1, <3>2, <3>3, <4>3, <5>1
      <4> QED BY <4>1, <4>2, <4>3, Zenon
    <3> QED BY <1>1, <1>2, <3>1, <3>2, <3>3, <3>4, <3>5, Zenon DEF SameTokens
  <2>4. \A s \in Txids : M.balances[s][EmptyScript] = 0
    BY <1>1, <1>5, <2>0, TablesAssumption DEF Consistent, Ledger, Addresses, MovedTables
  <2> QED BY <1>2, <2>2, <2>3, <2>4, SameTokensTickers DEF Consistent
<1> QED BY <1>4, <1>5, Zenon

(* TransferTokens counts the recipient that joins and the sender it        *)
(* drains.                                                                 *)
LEMMA TransferHolders ==
    ASSUME NEW L \in Ledger, NEW t \in Txids, NEW from \in Addresses, NEW to \in Addresses,
           NEW n \in 1..INT64_MAX, NEW h \in Nat, NEW x \in Txids, NEW i \in Nat,
           Consistent(L), HolderExact(L), CanTransferTokens(L, t, from, to, n),
           NEW M, M = TransferTokens(L, t, from, to, n, h, x, i)
    PROVE  HolderExact(M)
<1> DEFINE joined == from # to /\ L.balances[t][to] = 0
           drained == from # to /\ L.balances[t][from] = n
           H == L.holders[t]
<1>1. L.balances[t][from] > 0 /\ TokenExists(L, t)
  BY DEF CanTransferTokens, Consistent, Ledger
<1>2. M.infos = [L.infos EXCEPT ![t] = TransferredInfo(L.infos[t], joined, drained)]
  BY <1>1, TransferInfos
<1>3. L.infos \in [Txids -> TokenInfo] /\ L.infos[t].holder_count \in Nat
  BY Zenon DEF Ledger, TokenInfo
<1>4. L.infos[t].holder_count = Cardinality(H)
  BY Zenon DEF HolderExact
<1>5. IsFiniteSet(H) /\ Cardinality(H) \in Nat
  BY FiniteHolders, Zenon
<1>6. from \in H /\ (joined => to \notin H) /\ (~joined => to \in H)
  BY <1>1 DEF Consistent, Ledger
<1>7. IsFiniteSet(H \cup {to}) /\ Cardinality(H \cup {to}) = IF joined THEN Cardinality(H) + 1 ELSE Cardinality(H)
  <2> HIDE DEF H, joined
  <2> QED BY <1>5, <1>6, FS_AddElement, Zenon
<1>8. drained => Cardinality((H \cup {to}) \ {from}) = Cardinality(H \cup {to}) - 1
  BY <1>6, <1>7, FS_RemoveElement, Zenon
<1>9. M.holders[t] = IF drained THEN (H \cup {to}) \ {from} ELSE H \cup {to}
  <2>1. CASE from = to
    BY <1>6, <2>1, Zenon DEF TransferTokens, Ledger
  <2>2. CASE from # to
    <3>1. MovedTables(L, M, t, from, to, n)
      BY <2>2, TransferTables, Zenon
    <3> QED BY <2>2, <3>1 DEF MovedTables
  <2> QED BY <2>1, <2>2, Zenon
<1>10. \A s \in Txids : s # t => M.holders[s] = L.holders[s]
  BY Zenon DEF TransferTokens, Ledger
<1>11. Cardinality(H \cup {to}) > 0
  BY <1>5, <1>6, <1>7, FS_EmptySet
<1>12. M.infos[t].holder_count = Cardinality(M.holders[t])
  <2> HIDE DEF joined, drained, H
  <2>1. M.infos[t].holder_count = LET m == IF joined THEN L.infos[t].holder_count + 1 ELSE L.infos[t].holder_count
                                  IN  IF drained /\ m > 0 THEN m - 1 ELSE m
    BY <1>2, <1>3 DEF TransferredInfo, Stats
  <2> QED BY <1>4, <1>5, <1>7, <1>8, <1>9, <1>11, <2>1, Zenon
<1> QED BY <1>2, <1>3, <1>10, <1>12, Zenon DEF HolderExact

(* The TRANSFER case of DisconnectBlock takes back exactly what            *)
(* TransferTokens wrote.                                                   *)
LEMMA TransferUndone ==
    ASSUME NEW L \in Ledger, NEW t \in Txids, NEW from \in Addresses, NEW to \in Addresses,
           NEW n \in 1..INT64_MAX, NEW h \in Nat, NEW x \in Txids, NEW i \in Nat, NEW u,
           Consistent(L), CanTransferTokens(L, t, from, to, n), to # EmptyScript,
           FreshKey(L.transfers, t, h, x, i), TransferUndoOf(u, L, t, from, to, n, x, i)
    PROVE  UndoTransfer(TransferTokens(L, t, from, to, n, h, x, i), u, h) = L
<1> DEFINE M == TransferTokens(L, t, from, to, n, h, x, i)
           U == UndoTransfer(M, u, h)
<1>0. L.balances[t][from] > 0 /\ TokenExists(L, t) /\ from # EmptyScript
  BY DEF CanTransferTokens, Consistent, Ledger
<1>1. SameTokens(L, M)
  BY <1>0, TransferInfos, Zenon
<1>2. TokenExists(M, t)
  BY <1>0, <1>1, Zenon DEF SameTokens
<1>3. U.infos = L.infos
  <2> DEFINE info == TransferredInfo(L.infos[t], from # to /\ L.balances[t][to] = 0,
                                     from # to /\ L.balances[t][from] = n)
  <2>1. M.infos = [L.infos EXCEPT ![t] = info]
    BY <1>0, TransferInfos
  <2>2. U.infos = [M.infos EXCEPT ![t] = UntransferredInfo(M.infos[t], u)]
    BY <1>2, Zenon DEF TransferUndoOf, UndoTransfer
  <2>3. L.infos \in [Txids -> TokenInfo]
    BY LedgerFields, Zenon
  <2>4. UntransferredInfo(info, u) = L.infos[t]
    BY <2>3 DEF TransferUndoOf, UntransferredInfo, TransferredInfo, Stats, TokenInfo
  <2> HIDE DEF M, U, info
  <2> QED BY <2>1, <2>2, <2>3, <2>4, Zenon
<1>4. U.tickers = L.tickers
  <2>1. U.tickers = [M.tickers EXCEPT ![M.infos[t].ticker] = t]
    BY <1>2, Zenon DEF TransferUndoOf, UndoTransfer, RestoredTickers
  <2>2. L.tickers \in [Tickers -> Txids \cup {NoTxid}]
    BY LedgerFields, Zenon
  <2>3. L.infos[t].ticker \in Tickers /\ L.tickers[L.infos[t].ticker] = t
    BY <1>0, Zenon DEF Consistent
  <2> HIDE DEF M, U
  <2> QED BY <1>1, <2>1, <2>2, <2>3 DEF SameTokens
<1>5. U.transfers = L.transfers
  <2>1. U.transfers = EraseTransfer(M.transfers, t, h, x, i)
    BY Zenon DEF TransferUndoOf, UndoTransfer
  <2>2. M.transfers = WriteTransfer(L.transfers, Record(t, h, x, i, from, to, n))
    BY Zenon DEF TransferTokens
  <2>3. L.transfers \in SUBSET TransferRecord
    BY LedgerFields, Zenon
  <2> HIDE DEF M, U
  <2> QED BY <2>1, <2>2, <2>3, EraseWritten
<1>b. L.balances \in [Txids -> [Addresses -> 0..UINT64_MAX]]
  BY LedgerFields, Zenon
<1>h. L.holders \in [Txids -> SUBSET Addresses]
  BY LedgerFields, Zenon
<1>a. L.addr_tokens \in [Addresses -> SUBSET Txids]
  BY LedgerFields, Zenon
<1>c. \A a \in Addresses : /\ a \in L.holders[t] <=> L.balances[t][a] > 0
                           /\ t \in L.addr_tokens[a] <=> L.balances[t][a] > 0
  BY Zenon DEF Consistent
<1>d. from = to => /\ M.balances = L.balances /\ M.holders = L.holders
                   /\ M.addr_tokens = L.addr_tokens
  BY <1>b, <1>h, <1>a, Zenon DEF TransferTokens
<1>e. from # to => MovedTables(L, M, t, from, to, n)
  BY TransferTables, Zenon
<1>6. U.balances = L.balances
  <2>1. U.balances = [M.balances EXCEPT ![t] = [[M.balances[t] EXCEPT
                        ![from] = L.balances[t][from]] EXCEPT ![to] = L.balances[t][to]]]
    BY Zenon DEF TransferUndoOf, UndoTransfer
  <2> HIDE DEF M, U
  <2>2. M.balances \in [Txids -> [Addresses -> 0..UINT64_MAX]]
    BY <1>b, <1>d, <1>e, Zenon DEF MovedTables
  <2>3. \A s \in Txids : s # t => M.balances[s] = L.balances[s]
    BY <1>b, <1>d, <1>e, Zenon DEF MovedTables
  <2>4. \A a \in Addresses : a # from /\ a # to => M.balances[t][a] = L.balances[t][a]
    BY <1>b, <1>d, <1>e DEF MovedTables
  <2>5. [[M.balances[t] EXCEPT ![from] = L.balances[t][from]] EXCEPT ![to] = L.balances[t][to]]
          = L.balances[t]
    <3>1. L.balances[t] \in [Addresses -> 0..UINT64_MAX] /\ M.balances[t] \in [Addresses -> 0..UINT64_MAX]
      BY <1>b, <2>2, Zenon
    <3> QED BY <2>4, <3>1, PutBackTwo, Zenon
  <2>6. U.balances = [M.balances EXCEPT ![t] = L.balances[t]]
    BY <2>1, <2>5, Zenon
  <2>7. [M.balances EXCEPT ![t] = L.balances[t]] = L.balances
    <3> DEFINE f == M.balances
               g == L.balances
               T == [Addresses -> 0..UINT64_MAX]
    <3>1. f \in [Txids -> T] /\ g \in [Txids -> T]
      BY <1>b, <2>2, Zenon
    <3>2. \A s \in Txids : s # t => f[s] = g[s]
      BY <2>3, Zenon
    <3> HIDE DEF f, g, T
    <3>3. [f EXCEPT ![t] = g[t]] = g
      BY <3>1, <3>2, Zenon
    <3> QED BY <3>3, Zenon DEF f, g
  <2> QED BY <2>6, <2>7, Zenon
<1>7. U.holders = L.holders
  <2>1. U.holders = [M.holders EXCEPT ![t] =
           HolderKey(HolderKey(M.holders[t], from, L.balances[t][from]), to, L.balances[t][to])]
    BY Zenon DEF TransferUndoOf, UndoTransfer
  <2> HIDE DEF M, U
  <2>2. M.holders \in [Txids -> SUBSET Addresses] /\ \A s \in Txids : s # t => M.holders[s] = L.holders[s]
    BY <1>h, <1>d, <1>e, Zenon DEF MovedTables
  <2>3. HolderKey(HolderKey(M.holders[t], from, L.balances[t][from]), to, L.balances[t][to]) = L.holders[t]
    <3>1. CASE from = to
      <4>1. M.holders[t] = L.holders[t] /\ from \in L.holders[t] /\ L.balances[t][to] > 0
        BY <1>0, <1>c, <1>d, <3>1, Zenon
      <4>2. HolderKey(L.holders[t], from, L.balances[t][from]) = L.holders[t]
        BY <1>0, <4>1, Zenon DEF HolderKey
      <4> QED BY <3>1, <4>1, <4>2, Zenon
    <3>2. CASE from # to
      <4>1. M.holders[t] = (IF L.balances[t][from] = n THEN L.holders[t] \ {from} ELSE L.holders[t]) \cup {to}
        BY <1>e, <3>2, Zenon DEF MovedTables
      <4>2. from \in L.holders[t]
        BY <1>0, <1>c, Zenon
      <4>3. HolderKey(M.holders[t], from, L.balances[t][from]) = L.holders[t] \cup {to}
        BY <1>0, <4>1, <4>2, Zenon DEF HolderKey
      <4>4. L.balances[t][to] > 0 \/ L.balances[t][to] = 0
        BY <1>b
      <4> QED BY <1>h, <1>c, <4>3, <4>4, Zenon DEF HolderKey
    <3> QED BY <3>1, <3>2, Zenon
  <2> QED BY <1>h, <2>1, <2>2, <2>3, Zenon
<1>8. U.addr_tokens = L.addr_tokens
  <2> DEFINE A == M.addr_tokens
             R == [A EXCEPT ![from] = IF L.balances[t][from] = n THEN A[from] \cup {t} ELSE A[from]]
  <2>1. U.addr_tokens = [R EXCEPT ![to] = IF L.balances[t][to] = 0 THEN R[to] \ {t} ELSE R[to]]
    BY <1>0 DEF TransferUndoOf, UndoTransfer, Relisted, Unlisted
  <2> HIDE DEF M, U
  <2>2. A \in [Addresses -> SUBSET Txids] /\ \A a \in Addresses : a # from /\ a # to => A[a] = L.addr_tokens[a]
    BY <1>a, <1>d, <1>e, Zenon DEF MovedTables
  <2>3. /\ R \in [Addresses -> SUBSET Txids]
        /\ \A a \in Addresses : a # from => R[a] = A[a]
        /\ R[from] = IF L.balances[t][from] = n THEN A[from] \cup {t} ELSE A[from]
    BY <2>2, Zenon
  <2>4. t \in L.addr_tokens[from]
    BY <1>0, <1>c, Zenon
  <2>5. R[from] = L.addr_tokens[from]
    <3>1. CASE from = to
      <4>1. A[from] = L.addr_tokens[from]
        BY <1>d, <3>1, Zenon
      <4>2. L.addr_tokens[from] \cup {t} = L.addr_tokens[from]
        BY <2>4, Zenon
      <4> HIDE DEF A, R
      <4> QED BY <2>3, <4>1, <4>2, Zenon
    <3>2. CASE from # to
      <4>1. A[from] = IF L.balances[t][from] = n THEN L.addr_tokens[from] \ {t} ELSE L.addr_tokens[from]
        BY <1>e, <3>2, Zenon DEF MovedTables
      <4>2. (L.addr_tokens[from] \ {t}) \cup {t} = L.addr_tokens[from]
        BY <2>4, Zenon
      <4> HIDE DEF A, R
      <4> QED BY <2>3, <4>1, <4>2, Zenon
    <3> QED BY <3>1, <3>2, Zenon
  <2> HIDE DEF A, R
  <2>6. CASE from = to
    <3>1. L.balances[t][to] # 0
      BY <1>0, <2>6
    <3>2. U.addr_tokens = [R EXCEPT ![to] = L.addr_tokens[to]]
      BY <2>1, <2>5, <2>6, <3>1, Zenon
    <3>3. \A a \in Addresses : a # to => R[a] = L.addr_tokens[a]
      BY <2>2, <2>3, <2>6, Zenon
    <3>4. [R EXCEPT ![to] = L.addr_tokens[to]] = L.addr_tokens
      <4> DEFINE f == R
                 g == L.addr_tokens
                 T == SUBSET Txids
      <4>1. f \in [Addresses -> T] /\ g \in [Addresses -> T]
        BY <1>a, <2>3, Zenon
      <4>2. \A s \in Addresses : s # to => f[s] = g[s]
        BY <3>3, Zenon
      <4> HIDE DEF f, g, T
      <4>3. [f EXCEPT ![to] = g[to]] = g
        BY <4>1, <4>2, Zenon
      <4> QED BY <4>3, Zenon DEF f, g
    <3> QED BY <3>2, <3>4, Zenon
  <2>7. CASE from # to
    <3>1. R[to] = IF L.balances[t][to] = 0 THEN L.addr_tokens[to] \cup {t} ELSE L.addr_tokens[to]
      BY <1>e, <2>3, <2>7, Zenon DEF MovedTables, A
    <3>2. L.balances[t][to] = 0 => t \notin L.addr_tokens[to]
      BY <1>c
    <3>3. (IF L.balances[t][to] = 0 THEN R[to] \ {t} ELSE R[to]) = L.addr_tokens[to]
      BY <3>1, <3>2, Zenon
    <3>4. U.addr_tokens = [R EXCEPT ![to] = L.addr_tokens[to]]
      BY <2>1, <3>3, Zenon
    <3>5. \A a \in Addresses : a # to => R[a] = L.addr_tokens[a]
      BY <2>2, <2>3, <2>5, Zenon
    <3>6. [R EXCEPT ![to] = L.addr_tokens[to]] = L.addr_tokens
      <4> DEFINE f == R
                 g == L.addr_tokens
                 T == SUBSET Txids
      <4>1. f \in [Addresses -> T] /\ g \in [Addresses -> T]
        BY <1>a, <2>3, Zenon
      <4>2. \A s \in Addresses : s # to => f[s] = g[s]
        BY <3>5, Zenon
      <4> HIDE DEF f, g, T
      <4>3. [f EXCEPT ![to] = g[to]] = g
        BY <4>1, <4>2, Zenon
      <4> QED BY <4>3, Zenon DEF f, g
    <3> QED BY <3>4, <3>6, Zenon
  <2> QED BY <2>6, <2>7, Zenon
<1> QED BY <1>3, <1>4, <1>5, <1>6, <1>7, <1>8, Zenon DEF TransferUndoOf, UndoTransfer, Ledger

(* The tables that BurnTokens leaves.                                      *)
BurnedTables(L, M, t, from, n) ==
    /\ M.infos = [L.infos EXCEPT ![t] = BurnedInfo(L.infos[t], n, L.balances[t][from] = n)]
    /\ SameTokens(L, M)
    /\ M.balances = [L.balances EXCEPT ![t] = [L.balances[t] EXCEPT
                                                 ![from] = L.balances[t][from] - n]]
    /\ M.holders = [L.holders EXCEPT
          ![t] = IF L.balances[t][from] = n THEN L.holders[t] \ {from} ELSE L.holders[t]]
    /\ M.addr_tokens = [L.addr_tokens EXCEPT
          ![from] = IF L.balances[t][from] = n THEN L.addr_tokens[from] \ {t}
                    ELSE L.addr_tokens[from]]
    /\ M \in Ledger

(* The tables after BurnTokens.                                            *)
LEMMA BurnTables ==
    ASSUME NEW L \in Ledger, NEW t \in Txids, NEW from \in Addresses,
           NEW n \in 1..INT64_MAX, NEW h \in Nat, NEW x \in Txids, NEW i \in Nat,
           Consistent(L), CanBurnTokens(L, t, from, n),
           NEW M, M = BurnTokens(L, t, from, n, h, x, i)
    PROVE  BurnedTables(L, M, t, from, n)
<1> DEFINE info == BurnedInfo(L.infos[t], n, L.balances[t][from] = n)
<1>1. M.infos = [L.infos EXCEPT ![t] = info]
  BY Zenon DEF BurnTokens
<1>2. L.infos \in [Txids -> TokenInfo]
  BY LedgerFields, Zenon
<1>3. info \in TokenInfo /\ info.ticker = L.infos[t].ticker
  <2>1. L.infos[t].circulating_supply >= n
    BY Zenon DEF CanBurnTokens
  <2> QED BY <1>2, <2>1 DEF BurnedInfo, Stats, TokenInfo
<1>4. info # NoInfo
  BY <1>3, TablesAssumption DEF Consistent, NoInfo, CanBurnTokens
<1>5. M.tickers = L.tickers
  <2>1. M.tickers = [L.tickers EXCEPT ![L.infos[t].ticker] = t]
    BY Zenon DEF BurnTokens
  <2>2. L.tickers \in [Tickers -> Txids \cup {NoTxid}]
    BY LedgerFields, Zenon
  <2>3. L.infos[t].ticker \in Tickers /\ L.tickers[L.infos[t].ticker] = t
    BY Zenon DEF Consistent, CanBurnTokens
  <2> QED BY <2>1, <2>2, <2>3, Zenon
<1>6. M.transfers \subseteq TransferRecord
  <2>1. Record(t, h, x, i, from, EmptyScript, n) \in TransferRecord
    BY TablesAssumption DEF Record, TransferRecord, Addresses
  <2>2. M.transfers = WriteTransfer(L.transfers, Record(t, h, x, i, from, EmptyScript, n))
    BY Zenon DEF BurnTokens
  <2>3. L.transfers \subseteq TransferRecord
    BY LedgerFields, Zenon
  <2> QED BY <2>1, <2>2, <2>3, Zenon DEF WriteTransfer, EraseTransfer
<1> HIDE DEF info
<1>7. SameTokens(L, M)
  <2>1. \A s \in Txids : M.infos[s] = IF s = t THEN info ELSE L.infos[s]
    BY <1>1, <1>2, Zenon
  <2>2. M.infos \in [Txids -> TokenInfo]
    BY <1>1, <1>2, <1>3, Zenon
  <2>3. \A s \in Txids : TokenExists(M, s) <=> TokenExists(L, s)
    BY <1>4, <2>1, Zenon DEF TokenExists, CanBurnTokens
  <2> QED BY <1>3, <1>5, <1>6, <2>1, <2>2, <2>3, Zenon DEF SameTokens
<1>8. /\ L.balances \in [Txids -> [Addresses -> 0..UINT64_MAX]]
      /\ L.balances[t][from] - n \in 0..UINT64_MAX
      /\ L.balances[t][from] >= n
  BY TablesAssumption DEF Ledger, CanBurnTokens, UINT64_MAX
<1>9. M.balances = [L.balances EXCEPT ![t] = [L.balances[t] EXCEPT
                                                 ![from] = L.balances[t][from] - n]]
  BY Zenon DEF BurnTokens
<1>10. M.holders = [L.holders EXCEPT
          ![t] = IF L.balances[t][from] = n THEN L.holders[t] \ {from} ELSE L.holders[t]]
  <2>1. M.holders = [L.holders EXCEPT ![t] = HolderKey(L.holders[t], from, L.balances[t][from] - n)]
    BY Zenon DEF BurnTokens
  <2>2. from \in L.holders[t]
    BY <1>8 DEF Consistent
  <2>3. HolderKey(L.holders[t], from, L.balances[t][from] - n)
          = IF L.balances[t][from] = n THEN L.holders[t] \ {from} ELSE L.holders[t]
    <3>1. CASE L.balances[t][from] = n
      BY <3>1 DEF HolderKey
    <3>2. CASE L.balances[t][from] # n
      <4>1. L.balances[t][from] - n > 0
        BY <1>8, <3>2
      <4>2. L.holders[t] \cup {from} = L.holders[t]
        BY <2>2, Zenon
      <4> QED BY <3>2, <4>1, <4>2, Zenon DEF HolderKey
    <3> QED BY <3>1, <3>2, Zenon
  <2> QED BY <2>1, <2>3, Zenon
<1>11. M.addr_tokens = [L.addr_tokens EXCEPT
          ![from] = IF L.balances[t][from] = n THEN L.addr_tokens[from] \ {t}
                    ELSE L.addr_tokens[from]]
  BY Zenon DEF BurnTokens
<1>12. M \in Ledger
  <2>1. M = [infos |-> M.infos, tickers |-> M.tickers, balances |-> M.balances,
             holders |-> M.holders, addr_tokens |-> M.addr_tokens, transfers |-> M.transfers]
    BY Zenon DEF BurnTokens
  <2>2. M.balances \in [Txids -> [Addresses -> 0..UINT64_MAX]]
    BY <1>8, <1>9
  <2>3. M.holders \in [Txids -> SUBSET Addresses]
    BY <1>10, Zenon DEF Ledger
  <2>4. M.addr_tokens \in [Addresses -> SUBSET Txids]
    BY <1>11, Zenon DEF Ledger
  <2>5. M.tickers \in [Tickers -> Txids \cup {NoTxid}]
    BY <1>5, Zenon DEF Ledger
  <2> QED BY <1>7, <2>1, <2>2, <2>3, <2>4, <2>5, Zenon DEF Ledger, SameTokens
<1> QED BY <1>1, <1>7, <1>9, <1>10, <1>11, <1>12, Zenon DEF info, BurnedTables

(* BurnTokens keeps the tables in agreement.                               *)
LEMMA BurnConsistent ==
    ASSUME NEW L \in Ledger, NEW t \in Txids, NEW from \in Addresses,
           NEW n \in 1..INT64_MAX, NEW h \in Nat, NEW x \in Txids, NEW i \in Nat,
           Consistent(L), CanBurnTokens(L, t, from, n),
           NEW M, M = BurnTokens(L, t, from, n, h, x, i)
    PROVE  Consistent(M)
<1>0. BurnedTables(L, M, t, from, n)
  BY BurnTables, Zenon
<1>1. /\ SameTokens(L, M)
      /\ M.balances = [L.balances EXCEPT ![t] = [L.balances[t] EXCEPT
                                                   ![from] = L.balances[t][from] - n]]
      /\ M.holders = [L.holders EXCEPT
            ![t] = IF L.balances[t][from] = n THEN L.holders[t] \ {from} ELSE L.holders[t]]
      /\ M.addr_tokens = [L.addr_tokens EXCEPT
            ![from] = IF L.balances[t][from] = n THEN L.addr_tokens[from] \ {t}
                      ELSE L.addr_tokens[from]]
  BY <1>0, Zenon DEF BurnedTables
<1>2. L.balances \in [Txids -> [Addresses -> 0..UINT64_MAX]] /\ L.balances[t][from] >= n
  BY Zenon DEF Ledger, CanBurnTokens
<1>3. L.holders \in [Txids -> SUBSET Addresses] /\ L.addr_tokens \in [Addresses -> SUBSET Txids]
  BY LedgerFields, Zenon
<1>4. \A s \in Txids, a \in Addresses :
        /\ a \in M.holders[s] <=> M.balances[s][a] > 0
        /\ s \in M.addr_tokens[a] <=> M.balances[s][a] > 0
        /\ M.balances[s][a] > 0 => TokenExists(M, s)
  <2> SUFFICES ASSUME NEW s \in Txids, NEW a \in Addresses
               PROVE  /\ a \in M.holders[s] <=> M.balances[s][a] > 0
                      /\ s \in M.addr_tokens[a] <=> M.balances[s][a] > 0
                      /\ M.balances[s][a] > 0 => TokenExists(M, s)
    BY Zenon
  <2>1. /\ a \in L.holders[s] <=> L.balances[s][a] > 0
        /\ s \in L.addr_tokens[a] <=> L.balances[s][a] > 0
        /\ L.balances[s][a] > 0 => TokenExists(L, s)
    BY Zenon DEF Consistent
  <2>2. M.balances[s][a] = IF s = t /\ a = from THEN L.balances[s][a] - n ELSE L.balances[s][a]
    BY <1>1, <1>2
  <2>3. a \in M.holders[s] <=> a \in L.holders[s] /\ ~(s = t /\ a = from /\ L.balances[t][from] = n)
    BY <1>1, <1>3
  <2>4. s \in M.addr_tokens[a] <=> s \in L.addr_tokens[a] /\ ~(s = t /\ a = from /\ L.balances[t][from] = n)
    BY <1>1, <1>3
  <2>5. TokenExists(M, s) <=> TokenExists(L, s)
    BY <1>1, Zenon DEF SameTokens
  <2>6. CASE s = t /\ a = from
    <3>1. M.balances[s][a] = L.balances[s][a] - n
      BY <2>2, <2>6, Zenon
    <3>2. L.balances[s][a] \in Nat /\ L.balances[s][a] = L.balances[t][from] /\ L.balances[s][a] >= n
      BY <1>2, <2>6
    <3> QED BY <2>1, <2>3, <2>4, <2>5, <2>6, <3>1, <3>2
  <2>7. CASE ~(s = t /\ a = from)
    BY <2>1, <2>2, <2>3, <2>4, <2>5, <2>7, Zenon
  <2> QED BY <2>6, <2>7, Zenon
<1>5. \A s \in Txids : M.balances[s][EmptyScript] = 0
  <2>1. from # EmptyScript
    BY <1>2 DEF Consistent
  <2> QED BY <1>1, <1>2, <2>1 DEF Consistent, Addresses
<1> QED BY <1>1, <1>4, <1>5, SameTokensTickers DEF Consistent

(* BurnTokens counts the sender it drains.                                 *)
LEMMA BurnHolders ==
    ASSUME NEW L \in Ledger, NEW t \in Txids, NEW from \in Addresses,
           NEW n \in 1..INT64_MAX, NEW h \in Nat, NEW x \in Txids, NEW i \in Nat,
           Consistent(L), HolderExact(L), CanBurnTokens(L, t, from, n),
           NEW M, M = BurnTokens(L, t, from, n, h, x, i)
    PROVE  HolderExact(M)
<1> DEFINE drained == L.balances[t][from] = n
           H == L.holders[t]
<1>0. BurnedTables(L, M, t, from, n)
  BY BurnTables, Zenon
<1>1. M.infos = [L.infos EXCEPT ![t] = BurnedInfo(L.infos[t], n, drained)]
  BY <1>0, Zenon DEF BurnedTables
<1>2. L.infos \in [Txids -> TokenInfo] /\ L.infos[t].holder_count \in Nat
  BY Zenon DEF Ledger, TokenInfo
<1>3. L.infos[t].holder_count = Cardinality(H)
  BY Zenon DEF HolderExact
<1>4. IsFiniteSet(H) /\ Cardinality(H) \in Nat
  BY FiniteHolders, Zenon
<1>5. from \in H
  BY DEF Consistent, CanBurnTokens, Ledger
<1>6. M.holders[t] = IF drained THEN H \ {from} ELSE H
  BY <1>0, Zenon DEF BurnedTables, Ledger
<1>7. \A s \in Txids : s # t => M.holders[s] = L.holders[s]
  BY <1>0 DEF BurnedTables, Ledger
<1>8. Cardinality(H) > 0
  BY <1>4, <1>5, FS_EmptySet
<1>9. Cardinality(H \ {from}) = Cardinality(H) - 1
  BY <1>4, <1>5, FS_RemoveElement, Zenon
<1>10. M.infos[t].holder_count = Cardinality(M.holders[t])
  <2> HIDE DEF drained, H
  <2>1. M.infos[t].holder_count = IF drained /\ L.infos[t].holder_count > 0
                                  THEN L.infos[t].holder_count - 1 ELSE L.infos[t].holder_count
    BY <1>1, <1>2 DEF BurnedInfo, Stats
  <2> QED BY <1>3, <1>4, <1>6, <1>8, <1>9, <2>1, Zenon
<1> QED BY <1>1, <1>2, <1>7, <1>10, Zenon DEF HolderExact

(* The BURN case of DisconnectBlock takes back exactly what BurnTokens     *)
(* wrote.                                                                  *)
LEMMA BurnUndone ==
    ASSUME NEW L \in Ledger, NEW t \in Txids, NEW from \in Addresses,
           NEW n \in 1..INT64_MAX, NEW h \in Nat, NEW x \in Txids, NEW i \in Nat, NEW u,
           Consistent(L), CanBurnTokens(L, t, from, n),
           FreshKey(L.transfers, t, h, x, i), BurnUndoOf(u, L, t, from, n, x, i)
    PROVE  UndoBurn(BurnTokens(L, t, from, n, h, x, i), u, h) = L
<1> DEFINE M == BurnTokens(L, t, from, n, h, x, i)
           U == UndoBurn(M, u, h)
<1>0. BurnedTables(L, M, t, from, n)
  BY BurnTables, Zenon
<1>1. /\ L.balances[t][from] > 0 /\ L.balances[t][from] \in Nat
      /\ TokenExists(L, t) /\ from # EmptyScript
  BY DEF CanBurnTokens, Consistent, Ledger
<1>2. SameTokens(L, M) /\ TokenExists(M, t)
  BY <1>0, <1>1, Zenon DEF BurnedTables, SameTokens
<1>3. U.infos = L.infos
  <2> DEFINE info == BurnedInfo(L.infos[t], n, L.balances[t][from] = n)
  <2>1. M.infos = [L.infos EXCEPT ![t] = info]
    BY <1>0, Zenon DEF BurnedTables
  <2>2. U.infos = [M.infos EXCEPT ![t] = UnburnedInfo(M.infos[t], u)]
    BY <1>2, Zenon DEF BurnUndoOf, UndoBurn
  <2>3. L.infos \in [Txids -> TokenInfo]
    BY LedgerFields, Zenon
  <2>4. UnburnedInfo(info, u) = L.infos[t]
    BY <2>3, Zenon DEF BurnUndoOf, UnburnedInfo, BurnedInfo, Stats, TokenInfo
  <2> HIDE DEF M, U, info
  <2> QED BY <2>1, <2>2, <2>3, <2>4, Zenon
<1>4. U.tickers = L.tickers
  <2>1. U.tickers = [M.tickers EXCEPT ![M.infos[t].ticker] = t]
    BY <1>2, Zenon DEF BurnUndoOf, UndoBurn, RestoredTickers
  <2>2. L.tickers \in [Tickers -> Txids \cup {NoTxid}]
    BY LedgerFields, Zenon
  <2>3. L.infos[t].ticker \in Tickers /\ L.tickers[L.infos[t].ticker] = t
    BY <1>1, Zenon DEF Consistent
  <2> HIDE DEF M, U
  <2> QED BY <1>2, <2>1, <2>2, <2>3 DEF SameTokens
<1>5. U.transfers = L.transfers
  <2>1. U.transfers = EraseTransfer(M.transfers, t, h, x, i)
    BY Zenon DEF BurnUndoOf, UndoBurn
  <2>2. M.transfers = WriteTransfer(L.transfers, Record(t, h, x, i, from, EmptyScript, n))
    BY Zenon DEF BurnTokens
  <2>3. L.transfers \in SUBSET TransferRecord
    BY LedgerFields, Zenon
  <2> HIDE DEF M, U
  <2> QED BY <2>1, <2>2, <2>3, EraseWritten
<1>6. U.balances = L.balances
  <2>1. U.balances = [M.balances EXCEPT ![t] = [M.balances[t] EXCEPT ![from] = L.balances[t][from]]]
    BY Zenon DEF BurnUndoOf, UndoBurn
  <2>2. M.balances = [L.balances EXCEPT ![t] = [L.balances[t] EXCEPT ![from] = L.balances[t][from] - n]]
    BY <1>0, Zenon DEF BurnedTables
  <2>3. L.balances \in [Txids -> [Addresses -> 0..UINT64_MAX]]
    BY LedgerFields, Zenon
  <2> HIDE DEF M, U
  <2> QED BY <2>1, <2>2, <2>3
<1>7. U.holders = L.holders
  <2>1. U.holders = [M.holders EXCEPT ![t] = M.holders[t] \cup {from}]
    BY <1>1, Zenon DEF BurnUndoOf, UndoBurn, HolderKey
  <2>2. M.holders = [L.holders EXCEPT
           ![t] = IF L.balances[t][from] = n THEN L.holders[t] \ {from} ELSE L.holders[t]]
    BY <1>0, Zenon DEF BurnedTables
  <2>3. L.holders \in [Txids -> SUBSET Addresses]
    BY LedgerFields, Zenon
  <2>4. from \in L.holders[t]
    BY <1>1, Zenon DEF Consistent
  <2>5. (L.holders[t] \ {from}) \cup {from} = L.holders[t] /\ L.holders[t] \cup {from} = L.holders[t]
    BY <2>4, Zenon
  <2> HIDE DEF M, U
  <2> QED BY <2>1, <2>2, <2>3, <2>5, Zenon
<1>8. U.addr_tokens = L.addr_tokens
  <2>1. U.addr_tokens = [M.addr_tokens EXCEPT ![from] =
           IF L.balances[t][from] = n THEN M.addr_tokens[from] \cup {t} ELSE M.addr_tokens[from]]
    BY <1>1, Zenon DEF BurnUndoOf, UndoBurn, Relisted
  <2>2. M.addr_tokens = [L.addr_tokens EXCEPT
           ![from] = IF L.balances[t][from] = n THEN L.addr_tokens[from] \ {t}
                     ELSE L.addr_tokens[from]]
    BY <1>0, Zenon DEF BurnedTables
  <2>3. L.addr_tokens \in [Addresses -> SUBSET Txids]
    BY LedgerFields, Zenon
  <2>4. t \in L.addr_tokens[from]
    BY <1>1, Zenon DEF Consistent
  <2>5. (L.addr_tokens[from] \ {t}) \cup {t} = L.addr_tokens[from]
    BY <2>4, Zenon
  <2> HIDE DEF M, U
  <2> QED BY <2>1, <2>2, <2>3, <2>5, Zenon
<1> QED BY <1>3, <1>4, <1>5, <1>6, <1>7, <1>8, Zenon DEF BurnUndoOf, UndoBurn, Ledger

(* What the proofs about blocks need to know of an accepted operation: M   *)
(* are the tables after it, u its undo record, x and i its txid and index. *)
Applied(L, M, u, x, i, h) ==
    /\ M \in Ledger /\ Consistent(M) /\ HolderExact(M)
    /\ UndoOperation(M, u, h) = L
    /\ \A r \in M.transfers : r \in L.transfers \/ (r.height = h /\ r.txid = x /\ r.op_index = i)

(* Writing a history record adds nothing but that record.                  *)
LEMMA WrittenHistory ==
    ASSUME NEW T, NEW t, NEW h, NEW x, NEW i, NEW f, NEW g, NEW n,
           NEW r \in WriteTransfer(T, Record(t, h, x, i, f, g, n))
    PROVE  r \in T \/ (r.height = h /\ r.txid = x /\ r.op_index = i)
BY DEF WriteTransfer, EraseTransfer, Record

(* RegisterToken on sound tables leaves sound tables that its undo record  *)
(* takes back, and one new history record.                                 *)
LEMMA IssueApplied ==
    ASSUME NEW L \in Ledger, NEW t \in Txids, NEW k \in Tickers, NEW n \in 1..INT64_MAX,
           NEW a \in Addresses, NEW h \in Nat, NEW i \in Nat, NEW u,
           Consistent(L), HolderExact(L), ~TokenExists(L, t), ~TickerExists(L, k),
           a # EmptyScript, FreshKey(L.transfers, t, h, t, i),
           u.op_type = "ISSUE", IssueUndoOf(u, t, k, a, i),
           NEW M, M = RegisterToken(L, t, k, n, a, h, i)
    PROVE  Applied(L, M, u, t, i, h)
<1>1. M \in Ledger
  BY IssueType, Zenon
<1>2. Consistent(M)
  BY IssueConsistent, Zenon
<1>3. HolderExact(M)
  BY IssueHolders, Zenon
<1>4. UndoIssue(RegisterToken(L, t, k, n, a, h, i), u, h) = L
  BY IssueUndone
<1>5. UndoOperation(M, u, h) = UndoIssue(M, u, h)
  BY DEF UndoOperation
<1>6. M.transfers = WriteTransfer(L.transfers, Record(t, h, t, i, EmptyScript, a, n))
  BY Zenon DEF RegisterToken
<1>7. \A r \in M.transfers : r \in L.transfers \/ (r.height = h /\ r.txid = t /\ r.op_index = i)
  BY <1>6, WrittenHistory
<1> QED BY <1>1, <1>2, <1>3, <1>4, <1>5, <1>7, Zenon DEF Applied

(* The same for TransferTokens.                                            *)
LEMMA TransferApplied ==
    ASSUME NEW L \in Ledger, NEW t \in Txids, NEW from \in Addresses, NEW to \in Addresses,
           NEW n \in 1..INT64_MAX, NEW h \in Nat, NEW x \in Txids, NEW i \in Nat, NEW u,
           Consistent(L), HolderExact(L), CanTransferTokens(L, t, from, to, n),
           to # EmptyScript, FreshKey(L.transfers, t, h, x, i),
           u.op_type = "TRANSFER", TransferUndoOf(u, L, t, from, to, n, x, i),
           NEW M, M = TransferTokens(L, t, from, to, n, h, x, i)
    PROVE  Applied(L, M, u, x, i, h)
<1>1. M \in Ledger /\ Consistent(M)
  BY TransferConsistent, Zenon
<1>2. HolderExact(M)
  BY TransferHolders, Zenon
<1>3. UndoTransfer(TransferTokens(L, t, from, to, n, h, x, i), u, h) = L
  BY TransferUndone
<1>4. UndoOperation(M, u, h) = UndoTransfer(M, u, h)
  BY DEF UndoOperation
<1>5. M.transfers = WriteTransfer(L.transfers, Record(t, h, x, i, from, to, n))
  BY Zenon DEF TransferTokens
<1>6. \A r \in M.transfers : r \in L.transfers \/ (r.height = h /\ r.txid = x /\ r.op_index = i)
  BY <1>5, WrittenHistory
<1> QED BY <1>1, <1>2, <1>3, <1>4, <1>6, Zenon DEF Applied

(* The same for BurnTokens.                                                *)
LEMMA BurnApplied ==
    ASSUME NEW L \in Ledger, NEW t \in Txids, NEW from \in Addresses,
           NEW n \in 1..INT64_MAX, NEW h \in Nat, NEW x \in Txids, NEW i \in Nat, NEW u,
           Consistent(L), HolderExact(L), CanBurnTokens(L, t, from, n),
           FreshKey(L.transfers, t, h, x, i),
           u.op_type = "BURN", BurnUndoOf(u, L, t, from, n, x, i),
           NEW M, M = BurnTokens(L, t, from, n, h, x, i)
    PROVE  Applied(L, M, u, x, i, h)
<1>1. M \in Ledger
  BY BurnTables, Zenon DEF BurnedTables
<1>2. Consistent(M)
  BY BurnConsistent, Zenon
<1>3. HolderExact(M)
  BY BurnHolders, Zenon
<1>4. UndoBurn(BurnTokens(L, t, from, n, h, x, i), u, h) = L
  BY BurnUndone
<1>5. UndoOperation(M, u, h) = UndoBurn(M, u, h)
  BY DEF UndoOperation
<1>6. M.transfers = WriteTransfer(L.transfers, Record(t, h, x, i, from, EmptyScript, n))
  BY Zenon DEF BurnTokens
<1>7. \A r \in M.transfers : r \in L.transfers \/ (r.height = h /\ r.txid = x /\ r.op_index = i)
  BY <1>6, WrittenHistory
<1> QED BY <1>1, <1>2, <1>3, <1>4, <1>5, <1>7, Zenon DEF Applied

=============================================================================
