----------------------------- MODULE TokenSync -----------------------------
(***************************************************************************)
(* The token database beside the chain state.  TokenDB commits every block *)
(* at once, the chain state (block index and coins) is written now and     *)
(* then, so a crash leaves the two at different blocks.  The module models *)
(* ActivateBestChain, FlushStateToDisk, crashes, the restart with its      *)
(* import thread, and the reconciliation AppInitMain does at startup.      *)
(*                                                                         *)
(* What a block does to the token tables is abstracted to the fact that it *)
(* was applied: module TokenDB has the tables.  A block applied twice has  *)
(* its transfers and burns done twice (its issuances are rejected).        *)
(***************************************************************************)
EXTENDS Integers, FiniteSets, SequencesExt

CONSTANTS
    Block,            \* every block of the block tree
    Genesis,
    Parent,           \* function from Block \ {Genesis} to Block
    TokenBlock,       \* blocks that hold token operations
    None,             \* no block
    ImportFirst,      \* can the import thread lock cs_main before the reconciliation?
    MaxCrashes, MaxFailures, MaxInvalidations, MaxVerifications, MaxReindexes  \* bounds

ASSUME SyncAssumption ==
    /\ Genesis \in Block /\ None \notin Block
    /\ Parent \in [Block \ {Genesis} -> Block]
    /\ TokenBlock \subseteq Block \ {Genesis}
    /\ ImportFirst \in BOOLEAN

(* CBlockIndex: the blocks from the first one after the genesis block.     *)
Chain[b \in Block] == IF b = Genesis THEN <<>> ELSE Append(Chain[Parent[b]], b)

nHeight(b) == Len(Chain[b])

ChainContains(tip, b) == b = Genesis \/ b \in ToSet(Chain[tip])

VARIABLES
    phase,            \* "running", "starting", or how the last process ended
    mem,              \* chain state in memory: tip, block index, invalid blocks
    disk,             \* the same, as last flushed
    db,               \* the token database
    step,             \* the ActivateBestChainStep that holds cs_main
    used,             \* how often each bounded event has happened
    clean             \* history variable: no lost write and no replay by verifychain

vars == <<phase, mem, disk, db, step, used, clean>>

NoStep == [from |-> None, to |-> None]

Events == {"crash", "failure", "verification", "reindex"}

Bound == [crash |-> MaxCrashes, failure |-> MaxFailures,
          verification |-> MaxVerifications, reindex |-> MaxReindexes]

Uses(e) == used[e] < Bound[e] /\ used' = [used EXCEPT ![e] = @ + 1]

----------------------------------------------------------------------------
(* The token database: applied are the blocks whose operations the tables  *)
(* hold, records the BlockTokens record of each height.                    *)

EmptyTokenDB ==
    [best |-> None, applied |-> <<>>,
     records |-> [h \in {nHeight(b) : b \in Block} |-> None]]

ProcessBlock(d, b) ==
    IF d.best = b THEN d
    ELSE IF b \notin TokenBlock THEN [d EXCEPT !.best = b]
    ELSE [best |-> b, applied |-> Append(d.applied, b),
          records |-> [d.records EXCEPT ![nHeight(b)] = b]]

Without(s, b) == RemoveAt(s, CHOOSE i \in DOMAIN s :
                               s[i] = b /\ \A j \in DOMAIN s : s[j] = b => j <= i)

(* Mutant: the record of the block is not erased.                          *)
DisconnectBlockKeepsRecord(d, b) ==
    LET c == d.records[nHeight(b)] IN
    IF d.best = Parent[b] \/ c = None THEN d
    ELSE [d EXCEPT !.best = Parent[b], !.applied = Without(@, c)]

(* The transactions undone are those of the record of the height.          *)
DisconnectBlock(d, b) ==
    LET c == d.records[nHeight(b)] IN
    IF d.best = Parent[b] \/ c = None THEN d
    ELSE [best |-> Parent[b], applied |-> Without(d.applied, c),
          records |-> [d.records EXCEPT ![nHeight(b)] = None]]

(* A write that fails leaves the database as it is; the exception is       *)
(* caught and logged, and the chain goes on.                               *)
Commits(d) ==
    \/ db' = d /\ UNCHANGED <<used, clean>>
    \/ d # db /\ Uses("failure") /\ clean' = FALSE /\ UNCHANGED db

----------------------------------------------------------------------------
(* Chainstate: connecting and disconnecting the tip.                       *)

Up == phase \in {"running", "starting"}

Active == phase = "running" \/ (phase = "starting" /\ ImportFirst)

Candidates == {b \in mem.index : mem.invalid \cap ToSet(Chain[b]) = {}}

(* A block is received, checked and stored.                                *)
AcceptBlock ==
    /\ phase = "running" /\ step = NoStep
    /\ \E b \in Block \ mem.index :
          /\ Parent[b] \in Candidates
          /\ mem' = [mem EXCEPT !.index = @ \cup {b}]
    /\ UNCHANGED <<phase, disk, db, step, used, clean>>


(* The tip is kept when no candidate has more work.                        *)
FindMostWorkChain ==
    {b \in Candidates : /\ nHeight(b) > nHeight(mem.tip)
                        /\ \A c \in Candidates : nHeight(c) <= nHeight(b)}

ActivateBestChain ==
    /\ Active /\ step = NoStep
    /\ \E b \in FindMostWorkChain : step' = [from |-> mem.tip, to |-> b]
    /\ UNCHANGED <<phase, mem, disk, db, used, clean>>

DisconnectTip ==
    /\ step # NoStep /\ ~ChainContains(step.to, mem.tip)
    /\ Commits(DisconnectBlock(db, mem.tip))
    /\ mem' = [mem EXCEPT !.tip = Parent[@]]
    /\ UNCHANGED <<phase, disk, step>>

(* cs_main is released once the new tip has more work than the old one.    *)
ConnectTip ==
    /\ step # NoStep /\ ChainContains(step.to, mem.tip)
    /\ LET b == Chain[step.to][nHeight(mem.tip) + 1] IN
         /\ Commits(ProcessBlock(db, b))
         /\ mem' = [mem EXCEPT !.tip = b]
         /\ step' = IF nHeight(b) > nHeight(step.from) THEN NoStep ELSE step
    /\ UNCHANGED <<phase, disk>>

(* The RPC invalidateblock of the tip (of an older block: repeatedly).     *)
InvalidateBlock ==
    /\ phase = "running" /\ step = NoStep /\ mem.tip # Genesis
    /\ Cardinality(mem.invalid) < MaxInvalidations
    /\ Commits(DisconnectBlock(db, mem.tip))
    /\ mem' = [mem EXCEPT !.tip = Parent[@], !.invalid = @ \cup {mem.tip}]
    /\ UNCHANGED <<phase, disk, step>>

(* The RPC verifychain at level 4: ConnectBlock of the last n blocks, on a *)
(* scratch coins view, and with it ProcessBlock of the token database.     *)
VerifyDB ==
    /\ phase = "running" /\ step = NoStep /\ Uses("verification")
    /\ \E n \in 1..nHeight(mem.tip) :
          db' = FoldLeft(ProcessBlock, db, SubSeq(Chain[mem.tip], nHeight(mem.tip) - n + 1, nHeight(mem.tip)))
    /\ clean' = (clean /\ db' = db)
    /\ UNCHANGED <<phase, mem, disk, step>>

----------------------------------------------------------------------------
(* Flushes, the end of the process and the next start.                     *)

FlushStateToDisk ==
    /\ Up /\ disk # mem
    /\ disk' = mem
    /\ UNCHANGED <<phase, mem, db, step, used, clean>>

(* A crash may come after FlushStateToDisk wrote the block index and       *)
(* before it wrote the coins; a partial coins write is completed or        *)
(* redone by ReplayBlocks.                                                 *)
Crash ==
    /\ Up /\ Uses("crash")
    /\ phase' = "crashed"
    /\ \/ UNCHANGED disk
       \/ disk' = [mem EXCEPT !.tip = disk.tip]
    /\ step' = NoStep /\ mem' = disk'
    /\ UNCHANGED <<db, clean>>

(* Shutdown ends with ForceFlushStateToDisk.                               *)
EndsFlushed(reason) ==
    /\ phase' = reason /\ disk' = mem /\ UNCHANGED <<mem, step>>

Shutdown ==
    /\ phase = "running" /\ step = NoStep
    /\ EndsFlushed("stopped")
    /\ UNCHANGED <<db, used, clean>>

Restart ==
    /\ ~Up
    /\ phase' = "starting" /\ mem' = disk
    /\ UNCHANGED <<disk, db, step, used, clean>>

(* -reindex wipes both databases and rebuilds them from the block files.   *)
Reindex ==
    /\ ~Up /\ Uses("reindex")
    /\ phase' = "starting" /\ clean' = TRUE
    /\ db' = EmptyTokenDB
    /\ mem' = [tip |-> Genesis, index |-> disk.index, invalid |-> {}] /\ disk' = mem'
    /\ UNCHANGED step

(* Mutant: a token database ahead of the tip is taken to be in sync.       *)
InSyncAhead == db.best \in {None, mem.tip} \/ (db.best \in mem.index /\ ChainContains(db.best, mem.tip))

(* Mutant: a database that has seen no block is not in sync.               *)
InSyncKnown == db.best = mem.tip

InSync == db.best \in {None, mem.tip}

Behind == ~InSync /\ db.best \in mem.index /\ ChainContains(mem.tip, db.best)

Missing == SubSeq(Chain[mem.tip], nHeight(db.best) + 1, nHeight(mem.tip))

Reconciled ==
    /\ phase = "starting" /\ step = NoStep /\ InSync
    /\ phase' = "running"
    /\ UNCHANGED <<mem, disk, db, step, used, clean>>

(* Mutant: the replay starts at the best block's child's child.            *)
ReplayedShort ==
    /\ phase = "starting" /\ step = NoStep /\ Behind
    /\ db' = FoldLeft(ProcessBlock, db, Tail(Missing))
    /\ phase' = "running"
    /\ UNCHANGED <<mem, disk, step, used, clean>>

Replayed ==
    /\ phase = "starting" /\ step = NoStep /\ Behind
    /\ db' = FoldLeft(ProcessBlock, db, Missing)
    /\ phase' = "running"
    /\ UNCHANGED <<mem, disk, step, used, clean>>

(* A write fails after n blocks: InitError, and nothing to undo.           *)
ReplayFailed ==
    /\ phase = "starting" /\ step = NoStep /\ Behind /\ Uses("failure")
    /\ \E n \in 0..Len(Missing) - 1 : db' = FoldLeft(ProcessBlock, db, SubSeq(Missing, 1, n))
    /\ EndsFlushed("refused")
    /\ UNCHANGED clean

(* InitError: the best block is unknown, or not an ancestor of the tip.    *)
Refused ==
    /\ phase = "starting" /\ step = NoStep /\ ~InSync /\ ~Behind
    /\ EndsFlushed("refused")
    /\ UNCHANGED <<db, used, clean>>

----------------------------------------------------------------------------

Init ==
    /\ phase = "running"
    /\ mem = [tip |-> Genesis, index |-> {Genesis}, invalid |-> {}]
    /\ disk = mem
    /\ db = EmptyTokenDB
    /\ step = NoStep
    /\ used = [e \in Events |-> 0]
    /\ clean = TRUE

Import == ActivateBestChain \/ DisconnectTip \/ ConnectTip

Reconcile == Reconciled \/ Replayed \/ ReplayFailed \/ Refused

Next ==
    \/ AcceptBlock \/ Import \/ InvalidateBlock \/ VerifyDB
    \/ FlushStateToDisk \/ Crash \/ Shutdown \/ Restart \/ Reindex
    \/ Reconcile

Spec == Init /\ [][Next]_vars

(* A process that is up keeps connecting blocks, and init runs to its end. *)
FairSpec == Spec /\ WF_vars(Import) /\ WF_vars(Reconcile)

----------------------------------------------------------------------------
ChainState == [tip : Block, index : SUBSET Block, invalid : SUBSET Block]

(* Type invariant: a step that holds cs_main works from a tip towards a    *)
(* heavier candidate, and both chain states know their own tip.            *)
TypeOK ==
    /\ phase \in {"running", "starting", "crashed", "stopped", "refused"}
    /\ mem \in ChainState /\ disk \in ChainState
    /\ mem.tip \in mem.index /\ disk.tip \in disk.index
    /\ db.best \in Block \cup {None} /\ ToSet(db.applied) \subseteq TokenBlock
    /\ step # NoStep => /\ Up /\ step.to \in Candidates
                        /\ nHeight(step.from) < nHeight(step.to)
    /\ used \in [Events -> Nat] /\ clean \in BOOLEAN

TokensOf(tip) == SelectSeq(Chain[tip], LAMBDA b : b \in TokenBlock)

(* A node that runs has exactly the operations of its active chain in the  *)
(* token tables, in order and each once, whatever reorganisations, flushes *)
(* and crashes came before and wherever a crash fell between the commit of *)
(* the token database and the flush of the chain state: what the R5-01     *)
(* guards and the reconciliation at startup are there for.  It does not    *)
(* hold once a token write was lost, until the database is rebuilt.        *)
TokensMatchChain == clean /\ phase = "running" => db.applied = TokensOf(mem.tip)

(* No block is ever in the token tables twice (ProcessBlock, R5-01).       *)
AppliedOnce == IsInjective(db.applied)

(* Reorganisations, flushes and stops alone, wherever they fall and        *)
(* whichever blocks have no token operations, never leave a token database *)
(* that the next start refuses: it takes a crash, a failed write or a tip  *)
(* that was invalidated by hand (the reconciliation in AppInitMain; the    *)
(* best block of ProcessBlock and DisconnectBlock).                        *)
RefusedOnlyAfterFault ==
    phase = "refused" => used["crash"] + used["failure"] > 0 \/ mem.invalid # {}

(* The BlockTokens records name the blocks to undo: exactly the applied    *)
(* ones, each at its own height.                                           *)
RecordsMatchTables ==
    clean => ToSet(db.applied) = {db.records[h] : h \in DOMAIN db.records} \ {None}

(* Verifying the chain does not change what is verified (VerifyDB).        *)
VerifyReadsOnly == [][used'["verification"] # used["verification"] => db' = db]_vars

(* A process that stays up ends with the heaviest valid chain it knows     *)
(* connected, and with the token tables of that chain unless a write was   *)
(* lost (ActivateBestChain and the reconciliation of AppInitMain).         *)
Converges ==
    <>[]Up => <>[](/\ phase = "running" /\ step = NoStep /\ FindMostWorkChain = {}
                   /\ clean => db.applied = TokensOf(mem.tip))

=============================================================================
