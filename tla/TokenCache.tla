---------------------------- MODULE TokenCache ----------------------------
(***************************************************************************)
(* The token database seen by several threads: the validation thread runs  *)
(* ProcessBlock and DisconnectBlock under cs_main, RPC threads call        *)
(* GetTokenInfo, GetTokenCount and GetTransferCount without it.  They      *)
(* share the LRU cache of token infos (mutex m_cs) and the two lazily      *)
(* initialised counters (mutex m_count_cs).                                *)
(*                                                                         *)
(* Of a TokenInfo only transfer_count is kept: it is the field that is     *)
(* read, incremented and written back, so a stale cache entry corrupts it. *)
(***************************************************************************)
EXTENDS Integers, FiniteSets, SequencesExt

CONSTANTS
    Tokens,
    Readers,          \* RPC threads
    None,             \* no token info; no owner of a mutex
    MAX_CACHE_SIZE,
    MaxBlocks,        \* bound: blocks with token operations
    MaxOps            \* bound: operations per block

ASSUME CacheAssumption ==
    /\ MAX_CACHE_SIZE \in Nat \ {0}
    /\ MaxBlocks \in Nat /\ MaxOps \in Nat

Op == [action : {"ISSUE", "TRANSFER", "BURN"}, token : Tokens]

VARIABLES
    infos,            \* committed token infos: transfer_count, or None
    chain,            \* committed operations of each block
    cache,            \* m_token_cache: pairs (key, value), most recent first
    m_cs, m_count_cs, \* reader that holds the mutex between two steps
    counter,          \* m_token_count_*, m_transfer_count_*
    writer,           \* the validation thread
    reader,           \* the RPC threads
    raced             \* history variable: a count was scanned inside a commit window

vars == <<infos, chain, cache, m_cs, m_count_cs, counter, writer, reader, raced>>

----------------------------------------------------------------------------
(* util/lru_cache.h                                                        *)

Cached(t) == \E i \in DOMAIN cache : cache[i][1] = t

Lookup(t) == (CHOOSE e \in ToSet(cache) : e[1] = t)[2]

Erased(c, t) == SelectSeq(c, LAMBDA e : e[1] # t)

(* Mutant: no eviction when the cache is full.                             *)
InsertedUnbounded(c, t, v) == <<<<t, v>>>> \o Erased(c, t)

(* An existing entry moves to the front, a new one may evict the last.     *)
Inserted(c, t, v) ==
    LET rest == Erased(c, t)
    IN  <<<<t, v>>>> \o IF Len(rest) >= MAX_CACHE_SIZE THEN Front(rest) ELSE rest

(* ReadTokenInfo as one step of the validation thread: the cache first,    *)
(* then the database, and what was found goes to the front of the cache.   *)
ReadTokenInfo(t) == IF Cached(t) THEN Lookup(t) ELSE infos[t]

CacheAfterRead(t) ==
    IF ReadTokenInfo(t) = None THEN cache ELSE Inserted(cache, t, ReadTokenInfo(t))

----------------------------------------------------------------------------
(* The validation thread.                                                  *)

NoWork == [pc |-> "idle", todo |-> <<>>, done |-> <<>>, overlay |-> <<>>, flush |-> {}]

Blocks == UNION {[1..n -> Op] : n \in 1..MaxOps}

StartProcessBlock ==
    /\ writer.pc = "idle" /\ Len(chain) < MaxBlocks
    /\ \E b \in Blocks : writer' = [NoWork EXCEPT !.pc = "process", !.todo = b]
    /\ UNCHANGED <<infos, chain, cache, m_cs, m_count_cs, counter, reader, raced>>

StartDisconnectBlock ==
    /\ writer.pc = "idle" /\ chain # <<>>
    /\ writer' = [NoWork EXCEPT !.pc = "undo", !.todo = Reverse(Last(chain))]
    /\ UNCHANGED <<infos, chain, cache, m_cs, m_count_cs, counter, reader, raced>>

Pending(t) == t \in DOMAIN writer.overlay

(* What the overlay, the cache and the database say of a token, in this    *)
(* order; the read of the last two is a cached one.                        *)
KnownInfo(t) == IF Pending(t) THEN writer.overlay[t] ELSE ReadTokenInfo(t)

ReadForOp(t) == cache' = IF Pending(t) THEN cache ELSE CacheAfterRead(t)

WithInfo(t, v) == [x \in DOMAIN writer.overlay \cup {t} |->
                      IF x = t THEN v ELSE writer.overlay[x]]

Skipped == [writer EXCEPT !.todo = Tail(@)]

Applied(op, v) == [Skipped EXCEPT !.done = Append(@, op), !.overlay = WithInfo(op.token, v)]

(* RegisterToken: TokenExists asks the cache and then the database.        *)
ProcessIssue(op) ==
    /\ op.action = "ISSUE"
    /\ writer' = IF Cached(op.token) \/ infos[op.token] # None \/ Pending(op.token)
                 THEN Skipped ELSE Applied(op, 0)
    /\ UNCHANGED cache

(* TransferTokens and BurnTokens of an owner of the token.                 *)
ProcessSpend(op) ==
    LET t == op.token
        n == IF op.action = "TRANSFER" THEN 1 ELSE 0
    IN  /\ op.action # "ISSUE"
        /\ IF infos[t] # None \/ Pending(t)
           THEN writer' = Applied(op, KnownInfo(t) + n) /\ ReadForOp(t)
           ELSE writer' = Skipped /\ UNCHANGED cache

ProcessOp ==
    /\ writer.pc = "process" /\ writer.todo # <<>> /\ m_cs = None
    /\ ProcessIssue(Head(writer.todo)) \/ ProcessSpend(Head(writer.todo))
    /\ UNCHANGED <<infos, chain, m_cs, m_count_cs, counter, reader, raced>>

(* DisconnectBlock: an undone issuance erases the info, an undone transfer *)
(* decrements the transfer count it finds, unless that is 0 already.       *)
UndoneInfo(op) ==
    LET v == KnownInfo(op.token) IN
    CASE op.action = "ISSUE" -> None
      [] op.action = "TRANSFER" -> IF v \in Nat /\ v > 0 THEN v - 1 ELSE v
      [] op.action = "BURN" -> v

UndoOp ==
    /\ writer.pc = "undo" /\ writer.todo # <<>> /\ m_cs = None
    /\ LET op == Head(writer.todo) IN
          /\ writer' = Applied(op, UndoneInfo(op))
          /\ IF op.action = "ISSUE" THEN UNCHANGED cache ELSE ReadForOp(op.token)
    /\ UNCHANGED <<infos, chain, m_cs, m_count_cs, counter, reader, raced>>

WriteBatch ==
    /\ writer.pc \in {"process", "undo"} /\ writer.todo = <<>>
    /\ infos' = [t \in Tokens |-> IF Pending(t) THEN writer.overlay[t] ELSE infos[t]]
    /\ chain' = IF writer.pc = "process" THEN Append(chain, writer.done) ELSE Front(chain)
    /\ writer' = [writer EXCEPT !.pc = IF writer.pc = "process" THEN "count" ELSE "invalidate",
                                !.flush = DOMAIN writer.overlay]
    /\ UNCHANGED <<cache, m_cs, m_count_cs, counter, reader, raced>>

(* Mutant: the cache is updated before WriteBatch, which then fails.       *)
WriteBatchFailsCached ==
    /\ writer.pc \in {"process", "undo"} /\ writer.todo = <<>>
    /\ writer' = NoWork
    /\ cache' = IF writer.pc = "undo" \/ writer.done = <<>> THEN cache
                ELSE LET t == Last(writer.done).token IN Inserted(cache, t, writer.overlay[t])
    /\ UNCHANGED <<infos, chain, m_cs, m_count_cs, counter, reader, raced>>

(* WriteBatch throws: the block has no effect.                             *)
WriteBatchFails ==
    /\ writer.pc \in {"process", "undo"} /\ writer.todo = <<>>
    /\ writer' = NoWork
    /\ UNCHANGED <<infos, chain, cache, m_cs, m_count_cs, counter, reader, raced>>

Issues(ops) == Len(SelectSeq(ops, LAMBDA op : op.action = "ISSUE"))

Spends(ops) == Len(SelectSeq(ops, LAMBDA op : op.action # "ISSUE"))

(* fetch_add in ProcessBlock; in DisconnectBlock a subtraction that stops  *)
(* at 0.  A counter that is not initialised yet is left alone.             *)
Counted(c, n) ==
    IF ~c.initialized THEN c
    ELSE [c EXCEPT !.cache = IF writer.pc = "count" THEN @ + n
                             ELSE IF @ >= n THEN @ - n ELSE 0]

(* Mutant: the counters are updated without taking m_count_cs.             *)
UpdateCountersUnlocked ==
    /\ writer.pc = "count" \/ (writer.pc = "invalidate" /\ writer.flush = {})
    /\ counter' = [token |-> Counted(counter.token, Issues(writer.done)),
                   transfer |-> Counted(counter.transfer, Spends(writer.done))]
    /\ writer' = IF writer.pc = "count" THEN [writer EXCEPT !.pc = "update"] ELSE NoWork
    /\ UNCHANGED <<infos, chain, cache, m_cs, m_count_cs, reader, raced>>

(* ProcessBlock counts before it updates the cache, DisconnectBlock after  *)
(* it has invalidated the entries; both under m_count_cs.                  *)
UpdateCounters ==
    /\ writer.pc = "count" \/ (writer.pc = "invalidate" /\ writer.flush = {})
    /\ m_count_cs = None
    /\ counter' = [token |-> Counted(counter.token, Issues(writer.done)),
                   transfer |-> Counted(counter.transfer, Spends(writer.done))]
    /\ writer' = IF writer.pc = "count" THEN [writer EXCEPT !.pc = "update"] ELSE NoWork
    /\ UNCHANGED <<infos, chain, cache, m_cs, m_count_cs, reader, raced>>

Flushed(t) ==
    IF writer.flush = {t} /\ writer.pc = "update" THEN NoWork
    ELSE [writer EXCEPT !.flush = @ \ {t}]

(* Mutant: UpdateCache does not wait for a reader that holds m_cs.         *)
UpdateCacheUnlocked ==
    /\ writer.pc = "update"
    /\ \E t \in writer.flush :
          cache' = Inserted(cache, t, writer.overlay[t]) /\ writer' = Flushed(t)
    /\ UNCHANGED <<infos, chain, m_cs, m_count_cs, counter, reader, raced>>

UpdateCache ==
    /\ writer.pc = "update" /\ m_cs = None
    /\ \E t \in writer.flush :
          cache' = Inserted(cache, t, writer.overlay[t]) /\ writer' = Flushed(t)
    /\ UNCHANGED <<infos, chain, m_cs, m_count_cs, counter, reader, raced>>

InvalidateCache ==
    /\ writer.pc = "invalidate" /\ m_cs = None
    /\ \E t \in writer.flush : cache' = Erased(cache, t) /\ writer' = Flushed(t)
    /\ UNCHANGED <<infos, chain, m_cs, m_count_cs, counter, reader, raced>>

(* A block none of whose operations was accepted has nothing to flush.     *)
NothingToUpdate ==
    /\ writer.pc = "update" /\ writer.flush = {}
    /\ writer' = NoWork
    /\ UNCHANGED <<infos, chain, cache, m_cs, m_count_cs, counter, reader, raced>>

----------------------------------------------------------------------------
(* The RPC threads.                                                        *)

AtRest == [pc |-> "idle", arg |-> None, value |-> None]

Step(r, pc, arg, value) ==
    reader' = [reader EXCEPT ![r] = [pc |-> pc, arg |-> arg, value |-> value]]

Return(r) == reader' = [reader EXCEPT ![r] = AtRest]

(* ReadTokenInfo takes m_cs; a hit returns at once, a miss reads the       *)
(* database and still holds m_cs.                                          *)
GetTokenInfoHit(r, t) ==
    /\ reader[r].pc = "idle" /\ m_cs = None /\ Cached(t)
    /\ cache' = Inserted(cache, t, Lookup(t))
    /\ UNCHANGED <<infos, chain, m_cs, m_count_cs, counter, writer, reader, raced>>

GetTokenInfoMiss(r, t) ==
    /\ reader[r].pc = "idle" /\ m_cs = None /\ ~Cached(t) /\ infos[t] # None
    /\ m_cs' = r
    /\ Step(r, "insert", t, infos[t])
    /\ UNCHANGED <<infos, chain, cache, m_count_cs, counter, writer, raced>>

GetTokenInfoInsert(r) ==
    /\ reader[r].pc = "insert"
    /\ cache' = Inserted(cache, reader[r].arg, reader[r].value)
    /\ m_cs' = None
    /\ Return(r)
    /\ UNCHANGED <<infos, chain, m_count_cs, counter, writer, raced>>

(* GetTokenCount and GetTransferCount.  The first, unlocked check failed.  *)
CountRequested(r, which) ==
    /\ reader[r].pc = "idle" /\ ~counter[which].initialized
    /\ Step(r, "lock", which, None)
    /\ UNCHANGED <<infos, chain, cache, m_cs, m_count_cs, counter, writer, raced>>

(* What the iterator's snapshot holds: token infos, or history records, of *)
(* which every operation wrote one.                                        *)
Scanned(which) ==
    IF which = "token" THEN Cardinality({t \in Tokens : infos[t] # None})
    ELSE Len(FlattenSeq(chain))

(* Committed by WriteBatch, and not yet in the counters.                   *)
InCommitWindow == writer.pc \in {"count", "invalidate"}

(* The second check, under m_count_cs, and the snapshot.                   *)
CountLocked(r) ==
    /\ reader[r].pc = "lock" /\ m_count_cs = None
    /\ IF counter[reader[r].arg].initialized
       THEN Return(r) /\ UNCHANGED <<m_count_cs, raced>>
       ELSE /\ m_count_cs' = r /\ raced' = (raced \/ InCommitWindow)
            /\ Step(r, "scan", reader[r].arg, Scanned(reader[r].arg))
    /\ UNCHANGED <<infos, chain, cache, m_cs, counter, writer>>

CountStored(r) ==
    /\ reader[r].pc = "scan"
    /\ counter' = [counter EXCEPT ![reader[r].arg] =
                      [initialized |-> TRUE, cache |-> reader[r].value]]
    /\ m_count_cs' = None
    /\ Return(r)
    /\ UNCHANGED <<infos, chain, cache, m_cs, writer, raced>>

----------------------------------------------------------------------------
Init ==
    /\ infos = [t \in Tokens |-> None] /\ chain = <<>> /\ cache = <<>>
    /\ m_cs = None /\ m_count_cs = None
    /\ counter = [which \in {"token", "transfer"} |-> [initialized |-> FALSE, cache |-> 0]]
    /\ writer = NoWork
    /\ reader = [r \in Readers |-> AtRest]
    /\ raced = FALSE

Writer ==
    \/ StartProcessBlock
    \/ ProcessOp
    \/ StartDisconnectBlock
    \/ UndoOp
    \/ WriteBatch
    \/ WriteBatchFails
    \/ UpdateCounters
    \/ UpdateCache
    \/ InvalidateCache
    \/ NothingToUpdate

Reader(r) ==
    \/ \E t \in Tokens : GetTokenInfoHit(r, t) \/ GetTokenInfoMiss(r, t)
    \/ GetTokenInfoInsert(r)
    \/ \E which \in {"token", "transfer"} : CountRequested(r, which)
    \/ CountLocked(r)
    \/ CountStored(r)

Next == Writer \/ \E r \in Readers : Reader(r)

Spec == Init /\ [][Next]_vars

----------------------------------------------------------------------------
(* Properties                                                              *)

Applications(action, t) ==
    Len(SelectSeq(FlattenSeq(chain), LAMBDA op : op.action = action /\ op.token = t))

(* Every variable stays in its type, the cache within MAX_CACHE_SIZE and   *)
(* with one entry per token, and both mutexes with the thread that is      *)
(* inside them.                                                            *)
TypeOK ==
    /\ infos \in [Tokens -> Nat \cup {None}]
    /\ Len(chain) <= MaxBlocks
    /\ Len(cache) <= MAX_CACHE_SIZE
    /\ \A i, j \in DOMAIN cache : i # j => cache[i][1] # cache[j][1]
    /\ m_cs = None \/ reader[m_cs].pc = "insert"
    /\ m_count_cs = None \/ reader[m_count_cs].pc = "scan"

(* R14-F07: an entry of the LRU cache differs from the database only       *)
(* between a WriteBatch and the UpdateCache or InvalidateCache of that     *)
(* same token, whatever readers insert meanwhile.                          *)
CacheCoherent ==
    \A i \in DOMAIN cache : cache[i][2] = infos[cache[i][1]] \/ cache[i][1] \in writer.flush

(* ProcessBlock and DisconnectBlock read token infos through the cache and *)
(* write back what they computed: the committed transfer_count of a token  *)
(* is the number of its transfers on the chain, and there is an info       *)
(* exactly for the tokens issued on it, never a remnant of another branch. *)
InfoExact ==
    \A t \in Tokens :
        infos[t] = IF Applications("ISSUE", t) = 0 THEN None ELSE Applications("TRANSFER", t)

(* R13-03, R5-03: an initialised token counter is exact whenever no block  *)
(* is between its WriteBatch and its counter update, if no scan took its   *)
(* snapshot inside such a window.                                          *)
CountExact ==
    counter.token.initialized /\ ~raced /\ ~InCommitWindow =>
        counter.token.cache = Scanned("token")

=============================================================================
