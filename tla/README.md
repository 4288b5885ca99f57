# TLA+ verification of OpenSY

OpenSY is a Bitcoin Core derived node with a memory-hard proof of work (SHA256d at first,
RandomX from a fork height on, Argon2id as an emergency replacement) and a token layer,
SRC-20: operations travel in OP_RETURN outputs, and their effect is kept in a LevelDB
database beside the chain state. The models here are about what OpenSY adds to upstream or
changes in it: the token layer, the RandomX contexts for validation and for mining, and the
difficulty rules with the header synchronisation that relies on them. Source paths are
relative to the repository's `src/`.

## The system

| Part | State | Operations | Hard behaviours |
|---|---|---|---|
| Token tables (`tokens/tokendb.cpp`) | infos, tickers, balances, two indexes, history, undo records, BlockTokens, BestBlock | `RegisterToken`, `TransferTokens`, `BurnTokens`, `ProcessBlock`, `DisconnectBlock` | one batch per block read back through overlays; exact undo in reorganisations |
| Cache and counters (same file, `util/lru_cache.h`) | LRU cache, token and transfer counter, `m_cs`, `m_count_cs` | `ReadTokenInfo`, `UpdateCache`, `InvalidateCache`, `GetTokenCount`, `GetTransferCount` | readers between commit and cache update; a batch that fails |
| Token database beside the chain (`validation.cpp`, `init.cpp`) | tip and block index in memory and on disk, token database | connect, disconnect, flush, crash, restart, import, reconcile, `invalidateblock`, `verifychain`, `-reindex` | the two stores are written at different times |
| Mempool token state (`tokens/tokenvalidation.cpp`, `tokennotifications.cpp`, `validation.cpp`) | pending tickers, balances, tracked transactions, limits, callback queue | `PreChecks`, `AddTransaction`, `RemoveTransaction`, `Clear`, packages, replacement, callbacks | late callbacks; reorganisations; several paths in and out |
| RandomX pool (`crypto/randomx_pool.cpp`) | entries with key, use flag, VM; waiting counts | `Acquire`, `Return` | condition variable, priorities, timeouts, failed initialisation |
| RandomX mining (`crypto/randomx_context.cpp`, `rpc/mining.cpp`) | dataset with its owners, key, epoch; locals of calls and threads | `generateBlocks`, `GenerateBlock`, `Initialize`, `Cleanup`, `CreateVM`, miner threads | key rotation under running miners; epoch read without the lock; failed initialisation; shutdown |
| Difficulty and key choice (`pow.cpp`, `consensus/params.h`) | none | `GetNextWorkRequired`, `PermittedDifficultyTransition`, `CheckProofOfWork...`, `GetRandomXKeyBlockHash` | algorithm changes, bootstrap phase, word size and compact rounding |
| Header chain (`validation.cpp`, `node/miner.cpp`, `node/chainstate.cpp`, `node/blockstorage.cpp`) | chain, clock | `ContextualCheckBlockHeader`, block template, load at startup | four pieces of code apply the same rules |
| Headers sync (`headerssync.cpp`, `net_processing.cpp`) | two-phase download, block index, requests and answers in flight | `ProcessHeadersMessage`, `ProcessNextHeaders`, `getheaders`, `inv` | the peer reorganises between the downloads; late and missing answers |
| Argon2 (`crypto/argon2_context.cpp`) | context created once | `CalculateArgon2Hash` | none |
| Token RPCs, wallet tokens | call windows; none | queries, transaction building | confirmed balances only |
| Everything else | upstream | upstream | upstream |

How they meet: `ConnectTip` calls `TokenDB::ProcessBlock` under `cs_main` and then takes the
block's transactions out of the mempool; `DisconnectTip` calls `DisconnectBlock` and clears
the mempool token state. The callbacks that clean that state up run later, on the scheduler
thread. Block validation and the RPCs share the RandomX pool; the mining RPCs share one
mining context of their own. Header validation demands the nBits of `GetNextWorkRequired`,
while the headers sync, which does not have the chain, checks each step with
`PermittedDifficultyTransition`. At startup `AppInitMain`
compares the token database's best block with the tip. `PROJECT.json` lists every part, the
hazards at their lines, and the lines each definition models.

## Modules

- `TokenTables` - the tables and the three operations on them, with their undo.
- `TokenDB` - the block level. One action per operation of a block and one per undo record;
  `CommitBlock` and `CommitDisconnect` are the two `WriteBatch` calls. A block is named by
  the chain it ends, as its hash commits to it. `trail` is a history variable.
- `TokenLedger` - what the database promises: accounts that are a function of the chain.
  `TokenDBRefinement` maps `TokenDB` to it; `TokenDBInvariant` holds the inductive invariant.
- `TokenCache` - one writer (`cs_main` holder) and readers, at the grain of the locks; an
  info is reduced to its transfer count.
- `TokenSync` - chain state in memory and on disk, and the token database reduced to the
  sequence of applied blocks and the record of each height.
- `MempoolTokens` - mempool, pending state, callback queue and chain of token transactions.
  A step holds `cs_main` and the mempool's lock; the confirmed state is computed from the
  chain, so the token database is taken to be right (that is what the other modules are for).
- `RandomXPool` - the pool. What runs under `m_mutex` between two waits is one step; the
  notification of `Return` is a step of its own because the code sends it after the unlock.
- `RandomXMining` - mining over RPC. A call goes from one lock or shared access to the next;
  its threads take one step to create their VM, one per look at the loop condition and one per
  hash. A dataset carries the set of its `shared_ptr` owners and the items filled. Calls and
  threads read `m_dataset_epoch` between any two steps of others, as the code does without the
  lock. `left`, `solved` and `stale` are history variables.
- `Pow` - `pow.cpp` as operators on integers below `Modulus` (the 2^256 of `arith_uint256`),
  overflow included, with `GetCompact` as rounding to `Mantissa` values in one of `Units`.
  Whether a hash meets its target is an input.
- `HeaderChain` - one growing chain under `ContextualCheckBlockHeader` and a clock, with the
  template the node would build and the checks of a restart as predicates on it.
- `HeadersSync` - the node's handlers and `HeadersSyncState` against one peer; a block is named
  by the headers up to it, as its hash commits to them. Uses `Pow` for the difficulty checks.
- `MC*` instantiate these for TLC; `*_proofs` hold the theorems.

Operators that say "Mutant" in their comment are not part of a specification. Each is a
wrong version of the definition after it, and substituting it must break a property.

## What the runs show

Passing runs:

- `token_db` - every chain of up to three blocks of up to two transactions over six
  transactions (colliding tickers, two operations in a transaction, a drained balance, a
  self-transfer, underpaid and uncovered operations), with every reorganisation. Indexes
  agree, holder counts are exact, supply is conserved, undo keys have no gap, history
  matches the chain, a disconnect restores the tables exactly, and `TokenDB` implements
  `TokenLedger`. The inductive invariant of the proofs is checked with them. Three blocks suffice to have a predecessor, a block under change and a
  competing branch; the operations of interest involve at most two owners.
- `token_cache` - two tokens, a cache of one entry (so that it evicts), two readers, two
  blocks of two operations, failing batches. A cache entry differs from the database only
  between a commit and the update of that token; the committed infos are exact; the token
  counter is exact unless a scan fell into a commit window.
- `token_sync` - a tree of six blocks with two branches, two crashes, a lost token write, an
  invalidation, a `verifychain` and a `-reindex`. A running node has exactly the operations
  of its chain in the token tables, unless a token write was lost; a start is refused only
  after a crash, a failed write or an invalidation; a process that stays up ends on the
  heaviest chain (liveness). It is checked for a reconciliation that comes before the import
  thread; `token_import_twice` covers the other order.
- `mempool_tokens` - six transactions, two addresses, one ticker and one token; limits small
  enough to bind. The pending state is always that of the tracked transactions, within its
  limits, and lets go of every transaction that left the mempool (liveness for tickers).
- `randomx_pool` - four threads of three priorities, two keys, two contexts, four calls. No
  two guards share a VM, none is lost, no header is hashed with another key's VM, waiting
  counts are exact, and every `Acquire` returns (liveness).

- `randomx_mining` - two calls with two threads each across a key rotation: the dataset of
  three items does not divide evenly, the nonce space is small enough to be exhausted, one
  call has enough tries for several rounds and one fewer tries than threads. No VM reads a
  freed or half-filled dataset, stale hashing is bounded, a wrong key and a refused block have
  their named causes only, a found block is submitted, and a shutdown ends all calls
  (liveness). That the threads of a call share one dataset is proved. The invariants were also checked once on instances of
  5 and 24 million states with more tries and a longer epoch interval.
- `header_chain` - all chains of up to nine headers on four scaled-down networks (main, test,
  signet, regtest), with relaxed and hard nBits on offer, jumps of the timestamps in both
  directions and three readings of the clock. Nine headers reach past the fork, the end of the
  bootstrap phase, the Argon2id switch and three retargets of three-block periods. The strict
  part of a chain passes the header-sync check, a restart loads the chain, the node's template
  extends it, RandomX inherits no difficulty from another algorithm, the sum of measured
  times is bounded under BIP94, and keys are buried.
- `headers_sync` - eight chains the peer can be on (two of enough work, a long slow one and a
  prefix of it, one too short, three that break a rule at different checks), messages of two
  headers, a commitment every second header, a buffer of two, and two faults: the peer
  reorganises at any moment, answers after the request expired, or ignores a request. Memory
  stays bounded, the buffer is always a chain, commitments stay aligned, nothing is stored
  without a chain of enough work behind it, and the peer's chain is stored in the end
  (liveness).

Runs that end in a counterexample, each to a sentence of the repository (quoted under
`findings` in `PROJECT.json`):

- `token_import_twice` - after a crash with two unflushed blocks, the import thread may
  apply them a second time before the reconciliation.
- `token_verifychain` - `verifychain` at level 4 applies blocks to the live token database.
- `header_permitted` - `PermittedDifficultyTransition` refuses headers that validation accepts
  (a retarget boundary within the bootstrap phase) or demands (the reset after it).
- `mining_tries` - when maxtries is no multiple of the number of threads, the remainder is
  never used up, and the call asks for new templates forever without hashing.

Fairness. `TokenSync`: a process that is up keeps connecting blocks and its init thread runs
on; crashes are never forced or excluded. `MempoolTokens`: the scheduler thread serves its
queue. `RandomXPool`: woken threads run, timers expire, holders return their context (the
guard is released at the end of one hash). `RandomXMining`: calls and threads run on; that a
free mutex is granted is part of it, that a hash ever meets the target is not. `mining_tries`
adds that memory for a VM is found again and again, so that its counterexample does not rest
on failing allocations. `HeadersSync`: messages are delivered and handled, a request expires,
and the peer announces its tip; faults are never forced. No fairness is assumed of callers or
of the network's blocks. `CHECK_DEADLOCK FALSE` stands where the bounded instance runs out of
requests, blocks or heights, or where all calls have returned.

## What is proved

TLAPS proves the following for every value of the constants that satisfies the named
assumptions, which say that constants have their types and limits their ranges
(`TablesAssumption`, `ConstantsAssumption`, `PoolAssumption`, `MiningAssumption`,
`NamesAssumption`, `SyncAssumption`), how the compact form is built (`FormatAssumption`), and
what `kernel/chainparams.cpp` guarantees of every network (`NetworksAssumption`). Each
inductive invariant `IInv` was first checked with TLC on the instance of the run. Type
invariants and inductive invariants that are proved are not repeated in the runs, except
`IInv` of `TokenDB`, which contains the agreement of the tables.

`TokenDB_proofs`, on `TokenTables_proofs`: `Inductive`, `TypeCorrect`, `IndexesAgree`,
`HolderCounts`, `GuardSafe` and `ReorgExact`. The properties are not inductive: that a
disconnect restores the tables depends on undo records written blocks earlier. `IInv`
therefore carries, for every block of the chain, the tables before each of its operations
(the history variable `trail`) and says that each undo record takes the tables after its
operation back to those before it (`Linked`). The core is one lemma per operation in
`TokenTables_proofs`: applied to sound tables it gives sound tables, and its undo record
inverts it. Connecting extends the trail, disconnecting walks it back, and the restored
tables are by definition those at its head. `BestInv` (BestBlock is never behind the tip)
gives `GuardSafe`.

`RandomXPool_proofs`: `Inductive`, `TypeCorrect`, `Exclusive` and `RightKey`. `IInv` adds to
exclusive use that entries in use exist, that a VM has the key of its entry or none, and
that an entry keeps its key while it is checked out.

`RandomXMining_proofs`: `Invariant`, `TypeCorrect` (no thread reports the nonce that stands for
an exhausted search), `Safe`, `SameDataset`, `BoundedStaleness` and `RightKey`. What a thread
relies on was decided when its call read the epoch, possibly several rotations ago. `IInv`
makes the epoch a name for the dataset: no two datasets have one epoch, and the dataset the
context owns has the current one. A thread that compared epochs under the lock therefore got
the dataset of its call, complete and with a share that keeps it alive; a call that was not
overtaken asked for its key. The bound on stale hashes counts the tries since the last look
at the epoch. The division of items and nonces among threads rests on a few lemmas about
`\div` and `%`.

`HeaderChain_proofs`: `TypeCorrect`, `StrictPart`, `RestartSafe` and `KeyChoice`.
`GetNextWorkRequired` adjusts the target of the last block of a period, and
`PermittedDifficultyTransition` bounds what it may become from the block before, without the
chain. `IInv` says that where nBits are enforced they change only at adjustments and resets
(`Segments`), so that both start from one target, and lemmas show that clamping, scaling and
rounding to the compact form are monotone, so that the result lies between the two bounds.
For `RestartSafe` it adds that the tip is no further in the future than its height allows.

`HeadersSync_proofs`: `Invariant`, `Bounded` and `Connected`, for any peer chains, message
size, buffer and number of faults. `IInv` relates the fields of `HeadersSyncState` between two
messages and says that every request names genesis, so that every answer continues a chain;
released headers are stored, or the peer is disconnected.

Only model-checked: sums and counts over tables, which need induction over data
(`SupplyConserved`, `UndoKeysContiguous`, `HistoryMatchesChain`, `WaitingExact`), the
refinement `ImplementsLedger` (its abstract step folds over a block), all liveness,
`CommitmentsAligned` and `StoredIsVouched` of `HeadersSync`, `RefusedOnlyIfOvertaken` and
`FoundNotLost` of `RandomXMining`, `TemplateAccepted`, `NoInheritedDifficulty` and
`MeasuredTimeBounded` of `HeaderChain`, and the modules `TokenCache`, `TokenSync` and
`MempoolTokens`.

## Bounds and abstractions

Every bound is a constant named `Max...` or a limit of the code set small. `Int64Max` and
`INT64_MAX` stand for the range of `int64_t`. In `Pow` a 256-bit word is `Modulus`, 1024 in the
runs, and the compact form has two digits of base 4; limits and heights of the networks keep
their order. Periods, key intervals, buffers and the epoch interval are two or three: long
enough to have a first, a middle and a last element.

Left out of the modules on purpose:

- `TokenSync`: a power failure that loses the unsynced tail of LevelDB; assumeutxo snapshots.
- `TokenDB`: the older `ProcessBlock` overload that looks senders up in a coins view; queries.
- `TokenCache`: the transfer counter is modelled, but no property relates its scan, which
  includes issuances, to its updates, which do not.
- `MempoolTokens`: one token transaction per block; tokens issued in a run are not moved in
  it; size limits are an eviction that may happen at any time; reload of `mempool.dat`. That
  `DisconnectTip` clears the pending state of transactions that stay in the mempool, that a
  package is checked as a whole before it is tracked, and that a replacement is checked
  against the transaction it replaces, are behaviours of the model; no property judges them.
- `RandomXPool`: the hash itself. `m_max_contexts` is a constant because `SetMaxContexts`
  only succeeds while the pool is empty. A request that yielded may time out beside a free
  context; `AcquireReturns` asks only that it returns.
- `RandomXMining`: one growing chain, so no reorganisation between template and submission;
  the SHA256d and Argon2id loops, which are sequential; the RPC `generateblock`, which is one
  round of the same; a thread that cannot be started; `m_mutex`, always nested in the other.
- `HeaderChain`: forks and checkpoints; one header at a time.
- `HeadersSync`: several peers and the presync statistics they share; NoBan; the sync timeout;
  the time rules of headers; a node whose own chain advances meanwhile; the exponential part
  of a locator; compact-block announcements.

## Not modelled

- Token RPCs and their rate limiter, wallet tokens: argument checks, formatting, and the
  construction of one transaction under one lock. The wallet looks at confirmed balances only.
- SRC-20 script format, `ConsensusTokenValidator`: stateless byte formats and wrappers.
- The Argon2 context: created once under a mutex with parameters that never change in a
  process; the choice of the algorithm is in `Pow`.
- Scripts, coins, transport, peer selection, wallet, indexes and GUI: upstream code that the
  fork leaves as it is.

Next steps would be a composition of `MempoolTokens` with `TokenSync` (a restart empties the
pending state), two peers in `HeadersSync`, reorganisations in `RandomXMining`, and proofs of
`NoLeak`, `CacheCoherent` and `RecordsMatchTables`.
