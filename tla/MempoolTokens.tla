--------------------------- MODULE MempoolTokens ---------------------------
(***************************************************************************)
(* The pending token operations of the mempool: MempoolTokenState, the     *)
(* checks of MemPoolAccept that read it, and the validation callbacks that *)
(* clean it up later on the scheduler thread (TokenValidationInterface).   *)
(* A step of Accept, SubmitPackage, ConnectBlock or Reorg holds cs_main    *)
(* and the mempool's lock.  A block holds one token transaction.           *)
(***************************************************************************)
EXTENDS Integers, SequencesExt

CONSTANTS
    Tx, NoTx,
    sender, recipient,    \* scriptPubKey of the first input; of output 1
    ops,                  \* sequence of [action, id, amount] of each transaction
    coin, parent, fee,    \* outpoint spent, transaction that created it, fee
    Addr, Tickers, Tokens,
    supply,               \* confirmed balances before the first block
    Int64Max,
    MAX_PENDING_OPS_PER_ADDRESS, MAX_PENDING_ISSUANCES, MAX_TOTAL_PENDING_OPS,
    RATE_LIMIT_WINDOW_SECONDS, MAX_OPS_PER_ADDRESS_PER_WINDOW,
    Packages,             \* pairs of a parent and its child, submitted together
    MaxTime, MaxBlocks, MaxReorgs, MaxQueue    \* bounds

ASSUME MempoolAssumption ==
    /\ sender \in [Tx -> Addr] /\ recipient \in [Tx -> Addr]
    /\ parent \in [Tx -> Tx \cup {NoTx}] /\ NoTx \notin Tx /\ fee \in [Tx -> Nat]
    /\ supply \in [Addr \X Tokens -> 0..Int64Max]
    /\ \A p \in Packages : parent[p[2]] = p[1]

VARIABLES
    chain,      \* the token transactions of the active chain
    pool,       \* CTxMemPool
    overlay,    \* g_mempool_tokens
    queue,      \* events of the scheduler thread
    now, reorgs

vars == <<chain, pool, overlay, queue, now, reorgs>>

----------------------------------------------------------------------------
(* MempoolTokenState.                                                      *)

Wrap(x) == ((x + Int64Max + 1) % (2 * Int64Max + 2)) - Int64Max - 1

Issues(t) == {ops[t][i].id : i \in {j \in DOMAIN ops[t] : ops[t][j].action = "ISSUE"}}

Debit(t, op, a, k) ==
    IF op.action # "ISSUE" /\ op.id = k /\ sender[t] = a THEN -op.amount ELSE 0

Credit(t, op, a, k) ==
    IF op.action = "TRANSFER" /\ op.id = k /\ recipient[t] = a THEN op.amount ELSE 0

(* m_tx_balance_deltas of t.                                               *)
Delta(t, a, k) ==
    MapThenSumSet(LAMBDA i : Debit(t, ops[t][i], a, k) + Credit(t, ops[t][i], a, k), DOMAIN ops[t])

(* An op of t applied to the pending balances, with its range checks.      *)
AddOp(t, op, s) ==
    LET debited == [x \in DOMAIN s.balances |-> s.balances[x] + Debit(t, op, x[1], x[2])]
        all == [x \in DOMAIN s.balances |-> debited[x] + Credit(t, op, x[1], x[2])]
    IN  [balances |-> all,
         fits |-> /\ s.fits /\ op.amount <= Int64Max
                  /\ \A x \in DOMAIN all : debited[x] >= -Int64Max - 1 /\ all[x] <= Int64Max]

Pending(o, t) == FoldLeft(LAMBDA s, op : AddOp(t, op, s), [balances |-> o.balances, fits |-> TRUE], ops[t])

InWindow(ts) == SelectSeq(ts, LAMBDA x : x >= now - RATE_LIMIT_WINDOW_SECONDS)

IsRateLimited(o, a) == Len(InWindow(o.rate[a])) >= MAX_OPS_PER_ADDRESS_PER_WINDOW

(* Mutant: the operations of t itself are not counted.                     *)
LimitReachedLate(o, t) ==
    \/ Cardinality(o.txs) >= MAX_TOTAL_PENDING_OPS
    \/ o.ops_per_address[sender[t]] > MAX_PENDING_OPS_PER_ADDRESS
    \/ IsRateLimited(o, sender[t])

LimitReached(o, t) ==
    \/ Cardinality(o.txs) >= MAX_TOTAL_PENDING_OPS
    \/ o.ops_per_address[sender[t]] + Len(ops[t]) > MAX_PENDING_OPS_PER_ADDRESS
    \/ IsRateLimited(o, sender[t])

Duplicate(t) ==
    \E i, j \in DOMAIN ops[t] :
        i # j /\ ops[t][i].action = "ISSUE" /\ ops[t][j].action = "ISSUE" /\ ops[t][i].id = ops[t][j].id

Tracks(o, t) ==
    /\ t \notin o.txs /\ ops[t] # <<>> /\ ~LimitReached(o, t)
    /\ \A k \in Issues(t) : o.tickers[k] = NoTx
    /\ ~Duplicate(t) /\ Pending(o, t).fits

(* A transaction that is tracked already, has no token operation, or is    *)
(* refused changes nothing.                                                *)
AddTransaction(o, t) ==
    IF Tracks(o, t)
    THEN [tickers |-> [k \in Tickers |-> IF k \in Issues(t) THEN t ELSE o.tickers[k]],
          balances |-> Pending(o, t).balances,
          txs |-> o.txs \cup {t},
          ops_per_address |-> [o.ops_per_address EXCEPT ![sender[t]] = @ + Len(ops[t])],
          rate |-> [o.rate EXCEPT ![sender[t]] = Append(InWindow(@), now)]]
    ELSE o

(* Mutant: the pending balances are not reversed.                          *)
RemoveTransactionsUnreversed(o, S) ==
    LET R == S \cap o.txs
    IN  [o EXCEPT
          !.tickers = [k \in Tickers |-> IF \E t \in R : k \in Issues(t) THEN NoTx ELSE @[k]],
          !.txs = @ \ R,
          !.ops_per_address = [a \in Addr |->
              Max({0, @[a] - MapThenSumSet(LAMBDA t : Len(ops[t]), {t \in R : sender[t] = a})})]]

(* RemoveTransaction for each transaction of S.                            *)
RemoveTransactions(o, S) ==
    LET R == S \cap o.txs
    IN  [o EXCEPT
          !.tickers = [k \in Tickers |-> IF \E t \in R : k \in Issues(t) THEN NoTx ELSE @[k]],
          !.balances = [x \in Addr \X Tokens |-> Wrap(@[x] - MapThenSumSet(LAMBDA t : Delta(t, x[1], x[2]), R))],
          !.txs = @ \ R,
          !.ops_per_address = [a \in Addr |->
              Max({0, @[a] - MapThenSumSet(LAMBDA t : Len(ops[t]), {t \in R : sender[t] = a})})]]

Empty ==
    [tickers |-> [k \in Tickers |-> NoTx],
     balances |-> [x \in Addr \X Tokens |-> 0],
     txs |-> {},
     ops_per_address |-> [a \in Addr |-> 0],
     rate |-> [a \in Addr |-> <<>>]]

(* The timestamps survive.                                                 *)
Clear(o) == [Empty EXCEPT !.rate = o.rate]

PruneStaleRateLimitEntries(o) == [o EXCEPT !.rate = [a \in Addr |-> InWindow(@[a])]]

CheckDoSLimits(o, t) ==
    /\ ~LimitReached(o, t)
    /\ Issues(t) # {} =>
          Cardinality({k \in Tickers : o.tickers[k] # NoTx}) + Cardinality(Issues(t)) <= MAX_PENDING_ISSUANCES

CanTransfer(o, confirmed, a, op) ==
    LET p == o.balances[<<a, op.id>>]
        c == confirmed[<<a, op.id>>]
    IN  IF p < 0 THEN (IF c > -p THEN c + p ELSE 0) >= op.amount
        ELSE Min({c + p, 2 * Int64Max + 1}) >= op.amount

----------------------------------------------------------------------------
(* The confirmed state: operations that are not valid are skipped.         *)

Apply(t, op, c) ==
    CASE op.action = "ISSUE" -> [c EXCEPT !.tickers = @ \cup {op.id}]
      [] op.action # "ISSUE" /\ c.balances[<<sender[t], op.id>>] >= op.amount ->
            [c EXCEPT !.balances = [x \in DOMAIN @ |->
                @[x] + Debit(t, op, x[1], x[2]) + Credit(t, op, x[1], x[2])]]
      [] OTHER -> c

Confirmed(ch) ==
    FoldLeft(LAMBDA c, t : FoldLeft(LAMBDA d, op : Apply(t, op, d), c, ops[t]),
             [tickers |-> {}, balances |-> supply], ch)

----------------------------------------------------------------------------
(* CTxMemPool.  The state of a step in progress is a record [pool, overlay, *)
(* queue].                                                                 *)

State == [pool |-> pool, overlay |-> overlay, queue |-> queue]

Ancestors[t \in Tx] == IF parent[t] = NoTx THEN {} ELSE {parent[t]} \cup Ancestors[parent[t]]

WithDescendants(p, S) == {t \in p : t \in S \/ Ancestors[t] \cap S # {}}

Conflicts(p, t) == WithDescendants(p, {u \in p : coin[u] = coin[t]})

Event(t, prune) == [tx |-> t, prune |-> prune]

(* Mutant: only one of the removed transactions is signalled.              *)
UnlinkOne(s, S) ==
    [s EXCEPT !.pool = @ \ S, !.queue = IF S = {} THEN @ ELSE Append(@, Event(SetToSeq(S)[1], FALSE))]

(* The mempool removes S and signals it.                                   *)
Unlink(s, S) ==
    [s EXCEPT !.pool = @ \ S, !.queue = @ \o [i \in 1..Cardinality(S) |-> Event(SetToSeq(S)[i], FALSE)]]

(* CheckMempoolAccept: against the confirmed state, each op by itself.     *)
CheckMempoolAccept(c, t) ==
    \A i \in DOMAIN ops[t] :
        LET op == ops[t][i] IN
        IF op.action = "ISSUE" THEN op.id \notin c.tickers
        ELSE c.balances[<<sender[t], op.id>>] >= op.amount

TokenChecks(o, c, t) ==
    ops[t] # <<>> =>
        /\ CheckDoSLimits(o, t)
        /\ CheckMempoolAccept(c, t)
        /\ \A k \in Issues(t) : o.tickers[k] = NoTx
        /\ Cardinality({i \in DOMAIN ops[t] : ops[t][i].action = "ISSUE"}) <= 1
        /\ \A i \in DOMAIN ops[t] :
              ops[t][i].action # "ISSUE" => CanTransfer(o, c.balances, sender[t], ops[t][i])

(* The inputs of t are unspent on the chain, or created by the mempool.    *)
Available(p, ch, t) ==
    /\ t \notin p /\ ~Contains(ch, t)
    /\ \A i \in DOMAIN ch : coin[ch[i]] # coin[t]
    /\ parent[t] = NoTx \/ parent[t] \in p \/ Contains(ch, parent[t])

PreChecks(s, ch, t) == Available(s.pool, ch, t) /\ TokenChecks(s.overlay, Confirmed(ch), t)

PaysMore(S, replaced) ==
    replaced # {} => MapThenSumSet(LAMBDA t : fee[t], S) > MapThenSumSet(LAMBDA t : fee[t], replaced)

(* The token state of replaced transactions is removed before the mempool  *)
(* changes.                                                                *)
FinalizeSubpackage(s, S, replaced) ==
    LET u == Unlink([s EXCEPT !.overlay = RemoveTransactions(@, replaced)], replaced)
    IN  [u EXCEPT !.pool = @ \cup S]

Accepted(s, t) ==
    LET u == FinalizeSubpackage(s, {t}, Conflicts(s.pool, t))
    IN  [u EXCEPT !.overlay = AddTransaction(@, t)]

Becomes(s) == pool' = s.pool /\ overlay' = s.overlay /\ queue' = s.queue

AcceptSingleTransaction(t) ==
    /\ Len(queue) < MaxQueue
    /\ PreChecks(State, chain, t) /\ PaysMore({t}, Conflicts(pool, t))
    /\ \/ Becomes(Accepted(State, t))
       \/ Becomes(Unlink(FinalizeSubpackage(State, {t}, Conflicts(pool, t)), {t}))  \* "mempool full"
    /\ UNCHANGED <<chain, now, reorgs>>

(* All PreChecks of a package come before the first AddTransaction.        *)
SubmitPackage(p) ==
    LET S == {p[1], p[2]}
        replaced == Conflicts(pool, p[1]) \cup Conflicts(pool, p[2])
        s == FinalizeSubpackage(State, S, replaced)
    IN  /\ Len(queue) < MaxQueue
        /\ Available(pool, chain, p[1]) /\ Available(pool \cup {p[1]}, chain, p[2])
        /\ \A t \in S : TokenChecks(overlay, Confirmed(chain), t)
        /\ PaysMore(S, replaced)
        /\ Becomes([s EXCEPT !.overlay = AddTransaction(AddTransaction(@, p[1]), p[2])])
        /\ UNCHANGED <<chain, now, reorgs>>

(* LimitMempoolSize, expiry, removeForReorg.                               *)
Evict(t) ==
    /\ Len(queue) < MaxQueue /\ t \in pool
    /\ Becomes(Unlink(State, WithDescendants(pool, {t})))
    /\ UNCHANGED <<chain, now, reorgs>>

----------------------------------------------------------------------------

(* removeForBlock: the conflicts are signalled one by one, the transaction *)
(* of the block afterwards.                                                *)
RemoveForBlock(s, b) ==
    LET u == Unlink([s EXCEPT !.pool = @ \ {b}], Conflicts(s.pool \ {b}, b))
    IN  IF b \in s.pool THEN [u EXCEPT !.queue = Append(@, Event(b, FALSE))] ELSE u

BlockConnected(s, b) == [s EXCEPT !.queue = Append(@, Event(b, TRUE))]

Mineable(ch, b) == Available({}, ch, b)

ConnectBlock(b) ==
    /\ Len(queue) < MaxQueue /\ Len(chain) < MaxBlocks /\ Mineable(chain, b)
    /\ chain' = Append(chain, b)
    /\ Becomes(BlockConnected(RemoveForBlock(State, b), b))
    /\ UNCHANGED <<now, reorgs>>

(* A transaction of a disconnected block returns to the mempool, or its    *)
(* descendants leave it.                                                   *)
Resurrect(s, ch, d, ok) ==
    IF Contains(ch, d) THEN s
    ELSE IF ok /\ PreChecks(s, ch, d) /\ PaysMore({d}, Conflicts(s.pool, d)) THEN Accepted(s, d)
    ELSE Unlink(s, WithDescendants(s.pool, {d}))

DisconnectTip(s) == [s EXCEPT !.overlay = Clear(@)]

(* The tip is disconnected, block b (or only blocks without tokens)        *)
(* connected in its place, and MaybeUpdateMempoolForReorg run.             *)
Reorg(b, ok) ==
    LET d == Last(chain)
        ch == Front(chain) \o IF b = NoTx THEN <<>> ELSE <<b>>
        s == IF b = NoTx THEN DisconnectTip(State) ELSE RemoveForBlock(DisconnectTip(State), b)
        r == Resurrect(s, ch, d, ok)
    IN  /\ Len(queue) < MaxQueue /\ chain # <<>> /\ reorgs < MaxReorgs
        /\ b # NoTx => Mineable(Front(chain), b)
        /\ chain' = ch /\ reorgs' = reorgs + 1
        /\ Becomes(IF b = NoTx THEN r ELSE BlockConnected(r, b))
        /\ UNCHANGED now

(* Mutant: transactions are removed for connected blocks only.             *)
RunCallbackBlocks ==
    LET e == Head(queue)
        o == RemoveTransactions(overlay, {e.tx})
    IN  /\ queue # <<>>
        /\ queue' = Tail(queue)
        /\ overlay' = IF e.prune THEN PruneStaleRateLimitEntries(o) ELSE overlay
        /\ UNCHANGED <<chain, pool, now, reorgs>>

(* The scheduler thread runs the next callback: TransactionRemovedFrom-    *)
(* Mempool, MempoolTransactionsRemovedForBlock, or BlockConnected.         *)
RunCallback ==
    LET e == Head(queue)
        o == RemoveTransactions(overlay, {e.tx})
    IN  /\ queue # <<>>
        /\ queue' = Tail(queue)
        /\ overlay' = IF e.prune THEN PruneStaleRateLimitEntries(o) ELSE o
        /\ UNCHANGED <<chain, pool, now, reorgs>>

TimePasses ==
    /\ now < MaxTime
    /\ now' = now + 1
    /\ UNCHANGED <<chain, pool, overlay, queue, reorgs>>

Init ==
    /\ chain = <<>> /\ pool = {} /\ overlay = Empty /\ queue = <<>>
    /\ now = 0 /\ reorgs = 0

Next ==
    \/ \E t \in Tx : AcceptSingleTransaction(t) \/ Evict(t) \/ ConnectBlock(t)
    \/ \E p \in Packages : SubmitPackage(p)
    \/ \E b \in Tx \cup {NoTx}, ok \in BOOLEAN : Reorg(b, ok)
    \/ RunCallback
    \/ TimePasses

Spec == Init /\ [][Next]_vars

(* The scheduler thread serves its queue.                                  *)
FairSpec == Spec /\ WF_vars(RunCallback)

----------------------------------------------------------------------------
(* Type invariant; the pending balances are int64.                         *)
TypeOK ==
    /\ chain \in Seq(Tx) /\ pool \subseteq Tx
    /\ overlay.tickers \in [Tickers -> Tx \cup {NoTx}]
    /\ overlay.balances \in [Addr \X Tokens -> (-Int64Max - 1)..Int64Max]
    /\ overlay.txs \subseteq Tx
    /\ overlay.ops_per_address \in [Addr -> 0..MAX_PENDING_OPS_PER_ADDRESS]
    /\ \A a \in Addr : Len(InWindow(overlay.rate[a])) <= MAX_OPS_PER_ADDRESS_PER_WINDOW
    /\ queue \in Seq([tx : Tx, prune : BOOLEAN])
    /\ now \in 0..MaxTime /\ reorgs \in 0..MaxReorgs

(* The overlay never drifts: whatever order transactions are added,        *)
(* replaced, mined, reorganised and removed in, a second time included,    *)
(* the reserved tickers, pending balances and counts are those of the      *)
(* transactions it tracks (AddTransaction, RemoveTransaction, Clear).      *)
OverlayExact ==
    LET o == overlay IN
    /\ \A k \in Tickers : {t \in o.txs : k \in Issues(t)} = {o.tickers[k]} \ {NoTx}
    /\ \A x \in Addr \X Tokens :
          o.balances[x] = Wrap(MapThenSumSet(LAMBDA t : Delta(t, x[1], x[2]), o.txs))
    /\ \A a \in Addr :
          o.ops_per_address[a] = MapThenSumSet(LAMBDA t : Len(ops[t]), {t \in o.txs : sender[t] = a})

(* A transaction that left the mempool is tracked only as long as the      *)
(* callback that removes it is still queued.                               *)
NoLeak == \A t \in overlay.txs \ pool : \E i \in DOMAIN queue : queue[i].tx = t

(* A ticker reserved by a transaction that left the mempool becomes free   *)
(* (or the transaction returns).                                           *)
TickerFreed ==
    \A k \in Tickers :
        overlay.tickers[k] \notin pool \cup {NoTx} ~> overlay.tickers[k] \in pool \cup {NoTx}

=============================================================================
