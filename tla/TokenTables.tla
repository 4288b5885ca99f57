---------------------------- MODULE TokenTables ----------------------------
(***************************************************************************)
(* The tables of the SRC-20 token database (tokens/tokendb.cpp), the three *)
(* token operations on them, and what DisconnectBlock does to them for one *)
(* undo record.  A ledger is the content of LevelDB, or of LevelDB under a *)
(* pending batch and its overlay.                                          *)
(***************************************************************************)
EXTENDS Integers, FiniteSets

CONSTANTS
    Scripts,               \* scriptPubKeys that can own tokens
    EmptyScript,           \* the default-constructed CScript
    Txids, NoTxid,         \* transaction ids; a token id is its issuance txid
    Tickers, NoTicker,
    INT64_MAX              \* cap of supplies and amounts (IsValid)

ASSUME TablesAssumption ==
    /\ IsFiniteSet(Scripts)
    /\ EmptyScript \notin Scripts
    /\ NoTxid \notin Txids
    /\ NoTicker \notin Tickers
    /\ INT64_MAX \in Nat

UINT64_MAX == 2 * INT64_MAX + 1

Addresses == Scripts \cup {EmptyScript}

----------------------------------------------------------------------------
(* Tables.  A missing TokenInfo is NoInfo, a missing ticker key NoTxid, a  *)
(* missing balance key 0 and a missing address list {}, which is how the   *)
(* read functions report a missing key.                                    *)

TokenInfo == [ticker : Tickers \cup {NoTicker}, total_supply : Nat,
              circulating_supply : Nat, holder_count : Nat, transfer_count : Nat]

NoInfo == [ticker |-> NoTicker, total_supply |-> 0, circulating_supply |-> 0,
           holder_count |-> 0, transfer_count |-> 0]

(* A TokenInfo with new statistics.                                        *)
Stats(info, circulating, holders, transfers) ==
    [ticker |-> info.ticker, total_supply |-> info.total_supply,
     circulating_supply |-> circulating, holder_count |-> holders, transfer_count |-> transfers]

TransferRecord == [token_id : Txids, height : Nat, txid : Txids, op_index : Nat,
                   from : Addresses, to : Addresses, amount : Nat]

Ledger == [infos : [Txids -> TokenInfo],
           tickers : [Tickers -> Txids \cup {NoTxid}],
           balances : [Txids -> [Addresses -> 0..UINT64_MAX]],
           holders : [Txids -> SUBSET Addresses],
           addr_tokens : [Addresses -> SUBSET Txids],
           transfers : SUBSET TransferRecord]

TokenUndoRecord == [op_type : {"ISSUE", "TRANSFER", "BURN"}, txid : Txids, op_index : Nat,
                    token_id : Txids, ticker : Tickers \cup {NoTicker},
                    from_address : Addresses, to_address : Addresses, amount : Nat,
                    prev_from_balance : Nat, prev_to_balance : Nat,
                    prev_holder_count : Nat, prev_circulating_supply : Nat]

EmptyLedger == [infos |-> [t \in Txids |-> NoInfo],
                tickers |-> [k \in Tickers |-> NoTxid],
                balances |-> [t \in Txids |-> [a \in Addresses |-> 0]],
                holders |-> [t \in Txids |-> {}],
                addr_tokens |-> [a \in Addresses |-> {}],
                transfers |-> {}]

TokenExists(L, t) == L.infos[t] # NoInfo

TickerExists(L, k) == L.tickers[k] # NoTxid

(* WriteBalanceToBatch on the holders of one token: a zero balance erases. *)
HolderKey(S, a, v) == IF v > 0 THEN S \cup {a} ELSE S \ {a}

(* Mutant: DisconnectBlock leaves the history record in place.             *)
EraseTransferKeeps(T, t, h, txid, i) == T

(* Batch.Erase and Batch.Write at TransferKey(token, height, txid, index). *)
EraseTransfer(T, t, h, txid, i) ==
    {r \in T : ~(r.token_id = t /\ r.height = h /\ r.txid = txid /\ r.op_index = i)}

WriteTransfer(T, r) ==
    EraseTransfer(T, r.token_id, r.height, r.txid, r.op_index) \cup {r}

Record(t, h, txid, i, from, to, amount) ==
    [token_id |-> t, height |-> h, txid |-> txid, op_index |-> i,
     from |-> from, to |-> to, amount |-> amount]

----------------------------------------------------------------------------
(* The token operations: each has a guard, the checks that return before   *)
(* anything is written, and its effect on the batch.                       *)

CanRegisterToken(committed, L, t, k) ==
    /\ ~TickerExists(committed, k)
    /\ ~TokenExists(committed, t)
    /\ ~TokenExists(L, t)

IssuedInfo(k, supply) ==
    [ticker |-> k, total_supply |-> supply, circulating_supply |-> supply,
     holder_count |-> 1, transfer_count |-> 0]

RegisterToken(L, t, k, supply, issuer, h, i) ==
    [infos |-> [L.infos EXCEPT ![t] = IssuedInfo(k, supply)],
     tickers |-> [L.tickers EXCEPT ![k] = t],
     balances |-> [L.balances EXCEPT ![t][issuer] = supply],
     holders |-> [L.holders EXCEPT ![t] = @ \cup {issuer}],
     addr_tokens |-> [L.addr_tokens EXCEPT ![issuer] = @ \cup {t}],
     transfers |-> WriteTransfer(L.transfers, Record(t, h, t, i, EmptyScript, issuer, supply))]

CanTransferTokens(L, t, from, to, amount) ==
    /\ amount # 0
    /\ L.balances[t][from] >= amount
    /\ from # to => L.balances[t][to] + amount <= UINT64_MAX

(* info.holder_count++ for a new holder, then a guarded -- for a drained   *)
(* one.                                                                    *)
TransferredInfo(info, joined, drained) ==
    LET n == IF joined THEN info.holder_count + 1 ELSE info.holder_count
    IN  Stats(info, info.circulating_supply,
              IF drained /\ n > 0 THEN n - 1 ELSE n, info.transfer_count + 1)

TransferTokens(L, t, from, to, amount, h, txid, i) ==
    LET drained == from # to /\ L.balances[t][from] = amount
        joined  == from # to /\ L.balances[t][to] = 0
        paid    == [L.balances EXCEPT ![t][from] = @ - amount]
        listed  == [L.addr_tokens EXCEPT ![from] = IF drained THEN @ \ {t} ELSE @]
    IN  [infos |-> [L.infos EXCEPT
            ![t] = IF TokenExists(L, t) THEN TransferredInfo(@, joined, drained) ELSE @],
         tickers |-> L.tickers,
         balances |-> IF from = to THEN L.balances ELSE [paid EXCEPT ![t][to] = @ + amount],
         holders |-> [L.holders EXCEPT
            ![t] = IF from = to THEN @ ELSE (IF drained THEN @ \ {from} ELSE @) \cup {to}],
         addr_tokens |-> [listed EXCEPT ![to] = IF joined THEN @ \cup {t} ELSE @],
         transfers |-> WriteTransfer(L.transfers, Record(t, h, txid, i, from, to, amount))]

CanBurnTokens(L, t, from, amount) ==
    /\ L.balances[t][from] >= amount
    /\ TokenExists(L, t)
    /\ L.infos[t].circulating_supply >= amount

BurnedInfo(info, amount, drained) ==
    LET n == info.holder_count
    IN  Stats(info, info.circulating_supply - amount,
              IF drained /\ n > 0 THEN n - 1 ELSE n, info.transfer_count)

BurnTokens(L, t, from, amount, h, txid, i) ==
    LET drained == L.balances[t][from] = amount
    IN  [infos |-> [L.infos EXCEPT ![t] = BurnedInfo(@, amount, drained)],
         tickers |-> [L.tickers EXCEPT ![L.infos[t].ticker] = t],
         balances |-> [L.balances EXCEPT ![t][from] = @ - amount],
         holders |-> [L.holders EXCEPT
            ![t] = HolderKey(@, from, L.balances[t][from] - amount)],
         addr_tokens |-> [L.addr_tokens EXCEPT ![from] = IF drained THEN @ \ {t} ELSE @],
         transfers |-> WriteTransfer(L.transfers,
                                     Record(t, h, txid, i, from, EmptyScript, amount))]

(* DisconnectBlock's switch: what one undo record does to the batch.       *)
UndoIssue(L, u, h) ==
    LET t == u.token_id
        issuer == u.from_address
        known == issuer # EmptyScript
    IN  [infos |-> [L.infos EXCEPT ![t] = NoInfo],
         tickers |-> [L.tickers EXCEPT ![u.ticker] = NoTxid],
         balances |-> [L.balances EXCEPT ![t][issuer] = IF known THEN 0 ELSE @],
         holders |-> [L.holders EXCEPT ![t] = IF known THEN @ \ {issuer} ELSE @],
         addr_tokens |-> [L.addr_tokens EXCEPT ![issuer] = IF known THEN @ \ {t} ELSE @],
         transfers |-> EraseTransfer(L.transfers, t, h, u.txid, u.op_index)]

(* WriteTokenInfoToBatch with the restored statistics, if the token is     *)
(* there; it writes the ticker key again too.                              *)
RestoredTickers(L, t) ==
    IF TokenExists(L, t) THEN [L.tickers EXCEPT ![L.infos[t].ticker] = t] ELSE L.tickers

Relisted(addr_tokens, u) ==
    [addr_tokens EXCEPT ![u.from_address] =
        IF u.prev_from_balance = u.amount /\ u.from_address # EmptyScript
        THEN @ \cup {u.token_id} ELSE @]

Unlisted(addr_tokens, u) ==
    [addr_tokens EXCEPT ![u.to_address] =
        IF u.prev_to_balance = 0 /\ u.to_address # EmptyScript THEN @ \ {u.token_id} ELSE @]

UntransferredInfo(info, u) ==
    LET n == info.transfer_count
    IN  Stats(info, info.circulating_supply, u.prev_holder_count, IF n > 0 THEN n - 1 ELSE n)

UndoTransfer(L, u, h) ==
    LET t == u.token_id
        from == u.from_address
        to == u.to_address
    IN  [infos |-> [L.infos EXCEPT
            ![t] = IF TokenExists(L, t) THEN UntransferredInfo(@, u) ELSE @],
         tickers |-> RestoredTickers(L, t),
         balances |-> [L.balances EXCEPT
            ![t] = [@ EXCEPT ![from] = u.prev_from_balance, ![to] = u.prev_to_balance]],
         holders |-> [L.holders EXCEPT
            ![t] = HolderKey(HolderKey(@, from, u.prev_from_balance), to, u.prev_to_balance)],
         addr_tokens |-> Unlisted(Relisted(L.addr_tokens, u), u),
         transfers |-> EraseTransfer(L.transfers, t, h, u.txid, u.op_index)]

(* Mutant: undo of a burn keeps the lowered circulating supply.            *)
UnburnedInfoLowered(info, u) ==
    Stats(info, info.circulating_supply, u.prev_holder_count, info.transfer_count)

UnburnedInfo(info, u) ==
    Stats(info, u.prev_circulating_supply, u.prev_holder_count, info.transfer_count)

UndoBurn(L, u, h) ==
    LET t == u.token_id
        from == u.from_address
    IN  [infos |-> [L.infos EXCEPT
            ![t] = IF TokenExists(L, t) THEN UnburnedInfo(@, u) ELSE @],
         tickers |-> RestoredTickers(L, t),
         balances |-> [L.balances EXCEPT ![t][from] = u.prev_from_balance],
         holders |-> [L.holders EXCEPT ![t] = HolderKey(@, from, u.prev_from_balance)],
         addr_tokens |-> Relisted(L.addr_tokens, u),
         transfers |-> EraseTransfer(L.transfers, t, h, u.txid, u.op_index)]

UndoOperation(L, u, h) ==
    CASE u.op_type = "ISSUE" -> UndoIssue(L, u, h)
      [] u.op_type = "TRANSFER" -> UndoTransfer(L, u, h)
      [] u.op_type = "BURN" -> UndoBurn(L, u, h)

----------------------------------------------------------------------------
(* The tables of a ledger agree with each other: the holder index and the  *)
(* per-address token lists name exactly the positive balances, the empty   *)
(* script owns nothing, only registered tokens have balances, and the      *)
(* ticker index is the inverse of the tickers in the token infos.          *)
Consistent(L) ==
    /\ \A t \in Txids, a \in Addresses :
          /\ a \in L.holders[t] <=> L.balances[t][a] > 0
          /\ t \in L.addr_tokens[a] <=> L.balances[t][a] > 0
          /\ L.balances[t][a] > 0 => TokenExists(L, t)
    /\ \A t \in Txids : L.balances[t][EmptyScript] = 0
    /\ \A t \in Txids : TokenExists(L, t) => /\ L.infos[t].ticker \in Tickers
                                             /\ L.tickers[L.infos[t].ticker] = t
    /\ \A k \in Tickers : TickerExists(L, k) => /\ TokenExists(L, L.tickers[k])
                                                /\ L.infos[L.tickers[k]].ticker = k

(* holder_count is the number of addresses in the holder index.            *)
HolderExact(L) == \A t \in Txids : L.infos[t].holder_count = Cardinality(L.holders[t])

=============================================================================
