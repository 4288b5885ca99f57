--------------------------- MODULE RandomXMining ---------------------------
(***************************************************************************)
(* Mining over RPC: generateBlocks and GenerateBlock of rpc/mining.cpp, the *)
(* threads GenerateBlock starts, and RandomXMiningContext, whose 2 GB       *)
(* dataset all threads of all calls share and a change of the key block     *)
(* replaces.  A call is an RPC handler; the key of a dataset is the height  *)
(* of its key block on one growing chain.  m_mutex of the context is only   *)
(* taken with g_mining_context_mutex held and is left out; what is read     *)
(* without a lock, m_dataset_epoch, may be read between any two steps.      *)
(***************************************************************************)
EXTENDS Integers, FiniteSets, Sequences

CONSTANTS
    Calls,                     \* concurrent calls of generatetoaddress
    nGenerate, nMaxTries,      \* their arguments
    numThreads,                \* hardware_concurrency()
    MaxNonce,                  \* the largest uint32_t
    EPOCH_CHECK_INTERVAL,
    nRandomXKeyBlockInterval,
    datasetItemCount,          \* randomx_dataset_item_count()
    InitialTip, MaxTip,        \* bound: height the network's blocks reach
    Context,                   \* the owner of m_dataset
    NoCall                     \* nobody holds g_mining_context_mutex

ASSUME MiningAssumption ==
    /\ nGenerate \in [Calls -> Nat] /\ nMaxTries \in [Calls -> Nat]
    /\ numThreads \in Nat \ {0} /\ MaxNonce \in Nat \ {0}
    /\ EPOCH_CHECK_INTERVAL \in Nat \ {0} /\ nRandomXKeyBlockInterval \in Nat \ {0}
    /\ datasetItemCount \in Nat \ {0}
    /\ InitialTip \in Nat /\ MaxTip \in Nat

Workers == Calls \X (0 .. numThreads - 1)

ASSUME NamesAssumption == NoCall \notin Calls /\ Context \notin Workers

NoKey == -1                           \* uint256()

VARIABLES
    tip,                       \* height of the active chain
    m_interrupt,
    g_mining_context_mutex,    \* the call that holds it, from one step to another
    m_keyBlockHash, m_initialized, m_dataset, m_dataset_epoch,
    datasets,                  \* all allocated; refs are the owners of the shared_ptr
    call,                      \* locals of GenerateBlock of each call
    worker                     \* locals of each of its threads

context == <<m_keyBlockHash, m_initialized, m_dataset, m_dataset_epoch>>

vars == <<tip, m_interrupt, g_mining_context_mutex, context, datasets, call, worker>>

----------------------------------------------------------------------------

GetRandomXKeyBlockHeight(height) ==
    LET keyHeight == (height \div nRandomXKeyBlockInterval) * nRandomXKeyBlockInterval
                         - nRandomXKeyBlockInterval
    IN  IF keyHeight >= 0 THEN keyHeight ELSE 0

Items == 0 .. datasetItemCount - 1

initThreads_count == IF numThreads < 4 THEN numThreads ELSE 4

(* The items init thread i fills.                                          *)
InitRange(i) ==
    LET itemsPerThread == datasetItemCount \div initThreads_count
        startItem == i * itemsPerThread
        itemCount == IF i = initThreads_count - 1 THEN datasetItemCount - startItem
                     ELSE itemsPerThread
    IN  startItem .. startItem + itemCount - 1

Idle == [pc |-> "done", vm |-> 0, tries |-> 0, stale |-> 0]

NoLocals ==
    [pc |-> "generate", result |-> "none", nGenerate |-> 0, max_tries |-> 0, template |-> 0,
     keyBlockHash |-> NoKey, left |-> 0, mining_epoch |-> 0, found |-> FALSE,
     winning_nonce |-> 0, total_tries |-> 0, solved |-> {}]

Alive(d) == datasets[d].refs # {}

Locked == g_mining_context_mutex # NoCall

(* Destruction of a shared_ptr: the last one frees the dataset.            *)
Drop(holder, d) == [datasets EXCEPT ![d].refs = @ \ {holder}]

Goto(c, s) == call' = [call EXCEPT ![c].pc = s]

(* The handler returns or throws.                                          *)
Done(c, r) == call' = [call EXCEPT ![c] = [@ EXCEPT !.pc = "done", !.result = r]]

(* GenerateBlock returns, and its locals are gone.                         *)
Return(c, s, tries, blocks) ==
    call' = [call EXCEPT ![c] = [NoLocals EXCEPT
                !.pc = s, !.result = IF s = "done" THEN "returned" ELSE "none",
                !.max_tries = tries, !.nGenerate = blocks]]

Cleanup ==
    /\ m_dataset_epoch' = IF m_dataset = 0 THEN m_dataset_epoch ELSE m_dataset_epoch + 1
    /\ datasets' = IF m_dataset = 0 THEN datasets ELSE Drop(Context, m_dataset)
    /\ m_dataset' = 0 /\ m_initialized' = FALSE /\ m_keyBlockHash' = NoKey

----------------------------------------------------------------------------
(* The calls.                                                              *)

(* The head of the loop of generateBlocks; the template is for the block   *)
(* after the tip.                                                          *)
CreateNewBlock(c) ==
    /\ call[c].pc = "generate"
    /\ IF call[c].nGenerate > 0 /\ ~m_interrupt
       THEN call' = [call EXCEPT ![c] = [@ EXCEPT !.pc = "height", !.template = tip + 1]]
       ELSE Return(c, "done", call[c].max_tries, call[c].nGenerate)
    /\ UNCHANGED <<tip, m_interrupt, g_mining_context_mutex, context, datasets, worker>>

(* GenerateBlock reads the tip again.                                      *)
GetRandomXKeyBlockHash(c) ==
    /\ call[c].pc = "height"
    /\ call' = [call EXCEPT ![c] = [@ EXCEPT !.pc = "context",
                                             !.keyBlockHash = GetRandomXKeyBlockHeight(tip + 1)]]
    /\ UNCHANGED <<tip, m_interrupt, g_mining_context_mutex, context, datasets, worker>>

(* A section under g_mining_context_mutex, at once if the key is the same; *)
(* otherwise Initialize keeps the mutex until the dataset is filled.       *)
UseContext(c) ==
    /\ call[c].pc = "context" /\ ~Locked
    /\ \/ /\ m_keyBlockHash = call[c].keyBlockHash
          /\ call' = [call EXCEPT ![c] = [@ EXCEPT !.pc = "start", !.left = m_dataset_epoch]]
          /\ UNCHANGED <<g_mining_context_mutex, context, datasets>>
       \/ /\ m_keyBlockHash # call[c].keyBlockHash
          /\ g_mining_context_mutex' = c
          /\ Cleanup
          /\ Goto(c, "allocate")
    /\ UNCHANGED <<tip, m_interrupt, worker>>

Allocate(c) ==
    /\ call[c].pc = "allocate"
    /\ datasets' = Append(datasets, [key |-> call[c].keyBlockHash, epoch |-> m_dataset_epoch,
                                     items |-> {}, refs |-> {Context}])
    /\ m_dataset' = Len(datasets) + 1
    /\ Goto(c, "fill")
    /\ UNCHANGED <<tip, m_interrupt, g_mining_context_mutex, m_keyBlockHash, m_initialized,
                   m_dataset_epoch, worker>>

(* The init threads fill their ranges and are joined.                      *)
Fill(c) ==
    /\ call[c].pc = "fill"
    /\ datasets' = [datasets EXCEPT
           ![m_dataset].items = UNION {InitRange(i) : i \in 0 .. initThreads_count - 1}]
    /\ m_keyBlockHash' = call[c].keyBlockHash
    /\ m_initialized' = TRUE
    /\ g_mining_context_mutex' = NoCall
    /\ call' = [call EXCEPT ![c] = [@ EXCEPT !.pc = "start", !.left = m_dataset_epoch]]
    /\ UNCHANGED <<tip, m_interrupt, m_dataset, m_dataset_epoch, worker>>

(* Mutant: the mutex is not released when Initialize fails.                *)
InitializeFailsLocked(c) ==
    /\ call[c].pc \in {"allocate", "fill"}
    /\ call[c].pc = "fill" => numThreads > 1
    /\ Done(c, "failed")
    /\ UNCHANGED <<tip, m_interrupt, g_mining_context_mutex, context, datasets, worker>>

(* No memory for cache or dataset, or an init thread cannot be started:    *)
(* then the dataset stays, half filled, and m_initialized is false.        *)
InitializeFails(c) ==
    /\ call[c].pc \in {"allocate", "fill"}
    /\ call[c].pc = "fill" => numThreads > 1
    /\ g_mining_context_mutex' = NoCall
    /\ Done(c, "failed")
    /\ UNCHANGED <<tip, m_interrupt, context, datasets, worker>>

(* The epoch is read after the mutex was released; the threads start.      *)
StartThreads(c) ==
    /\ call[c].pc = "start"
    /\ call' = [call EXCEPT ![c] = [@ EXCEPT !.pc = "join", !.mining_epoch = m_dataset_epoch,
                   !.found = FALSE, !.winning_nonce = 0, !.total_tries = 0, !.solved = {}]]
    /\ worker' = [w \in Workers |-> IF w[1] = c THEN [Idle EXCEPT !.pc = "create"] ELSE worker[w]]
    /\ UNCHANGED <<tip, m_interrupt, g_mining_context_mutex, context, datasets>>

(* Mutant: winning_nonce is read as soon as a thread reports a block.      *)
JoinedEarly(c) ==
    \/ call[c].found
    \/ \A w \in Workers : w[1] = c => worker[w].pc = "done"

Joined(c) == \A w \in Workers : w[1] = c => worker[w].pc = "done"

(* The end of GenerateBlock, up to ProcessNewBlock.                        *)
Join(c) ==
    LET left == IF call[c].total_tries >= call[c].max_tries THEN 0
                ELSE call[c].max_tries - call[c].total_tries
    IN
    /\ call[c].pc = "join" /\ Joined(c)
    /\ IF left = 0 \/ m_interrupt THEN Return(c, "done", left, call[c].nGenerate)
       ELSE IF ~call[c].found \/ call[c].winning_nonce = MaxNonce
       THEN Return(c, "generate", left, call[c].nGenerate)
       ELSE call' = [call EXCEPT ![c] = [@ EXCEPT !.pc = "submit", !.max_tries = left]]
    /\ UNCHANGED <<tip, m_interrupt, g_mining_context_mutex, context, datasets, worker>>

(* The block is accepted if its hash, with the key of its own height, met  *)
(* the target; it becomes the tip if the tip is still its parent.          *)
ProcessNewBlock(c) ==
    /\ call[c].pc = "submit"
    /\ IF <<call[c].winning_nonce, GetRandomXKeyBlockHeight(call[c].template)>> \in call[c].solved
       THEN /\ Return(c, "generate", call[c].max_tries, call[c].nGenerate - 1)
            /\ tip' = IF call[c].template = tip + 1 THEN tip + 1 ELSE tip
       ELSE Done(c, "refused") /\ UNCHANGED tip
    /\ UNCHANGED <<m_interrupt, g_mining_context_mutex, context, datasets, worker>>

----------------------------------------------------------------------------
(* The threads.                                                            *)

nonce_range == MaxNonce \div numThreads

nNonce(w) == w[2] * nonce_range + worker[w].tries

end_nonce(w) == IF w[2] = numThreads - 1 THEN MaxNonce ELSE (w[2] + 1) * nonce_range

SameEpoch(w) == m_dataset_epoch = call[w[1]].mining_epoch

Finish(w) == worker' = [worker EXCEPT ![w] = Idle]

(* Mutant: the VM comes without a reference to the dataset.                *)
CreateVMUnowned(w) ==
    /\ worker[w].pc = "create" /\ ~Locked
    /\ SameEpoch(w) /\ m_initialized
    /\ worker' = [worker EXCEPT ![w] = [@ EXCEPT !.pc = "loop", !.vm = m_dataset]]
    /\ UNCHANGED <<tip, m_interrupt, g_mining_context_mutex, context, datasets, call>>

(* Mutant: the epoch is not compared before the VM is created.             *)
CreateVMUnchecked(w) ==
    /\ worker[w].pc = "create" /\ ~Locked
    /\ m_initialized
    /\ worker' = [worker EXCEPT ![w] = [@ EXCEPT !.pc = "loop", !.vm = m_dataset]]
    /\ datasets' = [datasets EXCEPT ![m_dataset].refs = @ \cup {w}]
    /\ UNCHANGED <<tip, m_interrupt, g_mining_context_mutex, context, call>>

CreateVM(w) ==
    /\ worker[w].pc = "create" /\ ~Locked
    /\ SameEpoch(w) /\ m_initialized
    /\ worker' = [worker EXCEPT ![w] = [@ EXCEPT !.pc = "loop", !.vm = m_dataset]]
    /\ datasets' = [datasets EXCEPT ![m_dataset].refs = @ \cup {w}]
    /\ UNCHANGED <<tip, m_interrupt, g_mining_context_mutex, context, call>>

(* The epoch has changed, the context is not initialised, or there is no   *)
(* memory for the VM.                                                      *)
NoVM(w) ==
    /\ worker[w].pc = "create" /\ ~Locked
    /\ Finish(w)
    /\ UNCHANGED <<tip, m_interrupt, g_mining_context_mutex, context, datasets, call>>

InRange(w) == nNonce(w) < end_nonce(w)

(* Mutant: the epoch is compared before the first hash only.               *)
EpochCheckedOnce(w) == worker[w].tries = 0 => SameEpoch(w)

EpochChecked(w) == worker[w].tries % EPOCH_CHECK_INTERVAL = 0 => SameEpoch(w)

(* The loop goes on.                                                       *)
KeepMining(w) ==
    /\ ~call[w[1]].found
    /\ InRange(w)
    /\ worker[w].tries < call[w[1]].max_tries \div numThreads
    /\ ~m_interrupt
    /\ EpochChecked(w)

(* The head of the loop; at its end the VM is destroyed, then dataset_ref. *)
Loop(w) ==
    /\ worker[w].pc = "loop"
    /\ \/ /\ KeepMining(w)
          /\ worker' = [worker EXCEPT ![w].pc = "hash"]
          /\ UNCHANGED datasets
       \/ /\ ~KeepMining(w)
          /\ Finish(w)
          /\ datasets' = Drop(w, worker[w].vm)
    /\ UNCHANGED <<tip, m_interrupt, g_mining_context_mutex, context, call>>

Staleness(w) == worker[w].stale + (IF SameEpoch(w) THEN 0 ELSE 1)

(* A hash that misses the target.                                          *)
Miss(w) ==
    /\ worker[w].pc = "hash"
    /\ worker' = [worker EXCEPT ![w] = [worker[w] EXCEPT !.pc = "loop", !.tries = @ + 1,
                                                           !.stale = Staleness(w)]]
    /\ call' = [call EXCEPT ![w[1]].total_tries = @ + 1]
    /\ UNCHANGED <<tip, m_interrupt, g_mining_context_mutex, context, datasets>>

(* Mutant: the try that succeeds is counted like the others.               *)
CountedWin(w) == call[w[1]].total_tries + 1

UncountedWin(w) == call[w[1]].total_tries

(* A hash that meets the target; the first thread sets found.              *)
Hit(w) ==
    LET c == w[1]
        solution == <<nNonce(w), datasets[worker[w].vm].key>>
    IN
    /\ worker[w].pc = "hash"
    /\ call' = [call EXCEPT ![c] = [call[c] EXCEPT !.found = TRUE, !.solved = @ \cup {solution},
                                                   !.total_tries = UncountedWin(w)]]
    /\ \/ /\ ~call[c].found
          /\ worker' = [worker EXCEPT ![w] = [@ EXCEPT !.pc = "store", !.stale = Staleness(w)]]
          /\ UNCHANGED datasets
       \/ /\ call[c].found
          /\ Finish(w)
          /\ datasets' = Drop(w, worker[w].vm)
    /\ UNCHANGED <<tip, m_interrupt, g_mining_context_mutex, context>>

Store(w) ==
    /\ worker[w].pc = "store"
    /\ call' = [call EXCEPT ![w[1]].winning_nonce = nNonce(w)]
    /\ Finish(w)
    /\ datasets' = Drop(w, worker[w].vm)
    /\ UNCHANGED <<tip, m_interrupt, g_mining_context_mutex, context>>

----------------------------------------------------------------------------

(* A block of the network.                                                 *)
BlockConnected ==
    /\ tip < MaxTip
    /\ tip' = tip + 1
    /\ UNCHANGED <<m_interrupt, g_mining_context_mutex, context, datasets, call, worker>>

Interrupt ==
    /\ ~m_interrupt
    /\ m_interrupt' = TRUE
    /\ UNCHANGED <<tip, g_mining_context_mutex, context, datasets, call, worker>>

Init ==
    /\ tip = InitialTip
    /\ m_interrupt = FALSE
    /\ g_mining_context_mutex = NoCall
    /\ m_keyBlockHash = NoKey /\ m_initialized = FALSE /\ m_dataset = 0 /\ m_dataset_epoch = 0
    /\ datasets = <<>>
    /\ call = [c \in Calls |->
           [NoLocals EXCEPT !.nGenerate = nGenerate[c], !.max_tries = nMaxTries[c]]]
    /\ worker = [w \in Workers |-> Idle]

CallStep(c) ==
    \/ CreateNewBlock(c) \/ GetRandomXKeyBlockHash(c) \/ UseContext(c) \/ Allocate(c) \/ Fill(c)
    \/ InitializeFails(c) \/ StartThreads(c) \/ Join(c) \/ ProcessNewBlock(c)

WorkerStep(w) == CreateVM(w) \/ NoVM(w) \/ Loop(w) \/ Miss(w) \/ Hit(w) \/ Store(w)

Next ==
    \/ \E c \in Calls : CallStep(c)
    \/ \E w \in Workers : WorkerStep(w)
    \/ BlockConnected \/ Interrupt

Spec == Init /\ [][Next]_vars

(* The operating system runs every thread; the mutex is kept from one step *)
(* to the next by Initialize only, and keys rotate finitely often.         *)
Fairness ==
    /\ \A c \in Calls : WF_vars(CallStep(c))
    /\ \A w \in Workers : WF_vars(WorkerStep(w))

FairSpec == Spec /\ Fairness

(* Memory does not stay short: a VM that can be created again and again is *)
(* created at last.                                                        *)
AmpleSpec == FairSpec /\ \A w \in Workers : SF_vars(CreateVM(w))

----------------------------------------------------------------------------

Keys == Nat \cup {NoKey}

Nonces == 0 .. MaxNonce - 1

Datasets == [key : Keys, epoch : Nat, items : SUBSET Items, refs : SUBSET (Workers \cup {Context})]

CallStates ==
    [pc : {"generate", "height", "context", "allocate", "fill", "start", "join", "submit", "done"},
     result : {"none", "returned", "failed", "refused"}, nGenerate : Nat, max_tries : Nat,
     template : Nat, keyBlockHash : Keys, left : Nat, mining_epoch : Nat, found : BOOLEAN,
     winning_nonce : Nonces, total_tries : Nat, solved : SUBSET (Nonces \X Keys)]

WorkerStates ==
    [pc : {"create", "loop", "hash", "store", "done"}, vm : Nat, tries : Nat, stale : Nat]

(* Type invariant; no thread reports the nonce 0xffffffff, with which      *)
(* GenerateBlock would take the search for exhausted.                      *)
TypeOK ==
    /\ tip \in Nat /\ m_interrupt \in BOOLEAN
    /\ g_mining_context_mutex \in Calls \cup {NoCall}
    /\ m_keyBlockHash \in Keys /\ m_initialized \in BOOLEAN
    /\ m_dataset \in 0 .. Len(datasets) /\ m_dataset_epoch \in Nat
    /\ datasets \in Seq(Datasets)
    /\ call \in [Calls -> CallStates]
    /\ worker \in [Workers -> WorkerStates]
    /\ \A w \in Workers : worker[w].vm <= Len(datasets)

HasVM(w) == worker[w].pc \in {"loop", "hash", "store"}

(* A VM reads a dataset that was filled to the last item and that is not   *)
(* freed before the VM is destroyed, whatever key rotations, failures and  *)
(* calls come in between (dataset_ref in GenerateBlock; the reset of       *)
(* m_dataset in Cleanup; the ranges of the init threads).                  *)
VMSafe == \A w \in Workers : HasVM(w) => Alive(worker[w].vm) /\ datasets[worker[w].vm].items = Items

(* All threads of a GenerateBlock hash with one dataset, although each     *)
(* creates its VM at another time: m_dataset_epoch names the dataset, also *)
(* after an Initialize that failed halfway.                                *)
OneDataset ==
    \A v, w \in Workers : HasVM(v) /\ HasVM(w) /\ v[1] = w[1] => worker[v].vm = worker[w].vm

(* After the dataset was replaced a thread computes no more than           *)
(* EPOCH_CHECK_INTERVAL hashes with the old one.                           *)
StaleBounded == \A w \in Workers : worker[w].stale <= EPOCH_CHECK_INTERVAL

(* The context was initialised again after the call left its section under *)
(* g_mining_context_mutex and before it read mining_epoch.                 *)
Overtaken(c) == call[c].mining_epoch # call[c].left

(* A thread hashes with the key its call asked for, unless the call was    *)
(* overtaken: no rotation at any other time gives it another key.          *)
KeyUnlessOvertaken ==
    \A w \in Workers :
        HasVM(w) => \/ datasets[worker[w].vm].key = call[w[1]].keyBlockHash
                    \/ Overtaken(w[1])

(* ProcessNewBlock refuses a mined block only if the call was overtaken or *)
(* the key changed between the template and GenerateBlock's own look at    *)
(* the tip; the races of the threads for found and winning_nonce never     *)
(* spoil a block.                                                          *)
RefusedOnlyIfOvertaken ==
    \A c \in Calls :
        call[c].result = "refused" =>
            \/ Overtaken(c)
            \/ call[c].keyBlockHash # GetRandomXKeyBlockHeight(call[c].template)

(* The inductive invariant of the proofs.  The epoch orders the datasets:  *)
(* at most one was allocated in each epoch, and the one the context owns   *)
(* in the current one.                                                     *)
EpochsOrdered ==
    /\ \A d \in 1 .. Len(datasets) :
           /\ datasets[d].epoch <= m_dataset_epoch
           /\ datasets[d].epoch = m_dataset_epoch => d = m_dataset
    /\ \A d, e \in 1 .. Len(datasets) : datasets[d].epoch = datasets[e].epoch => d = e

ContextOK ==
    /\ m_dataset # 0 => /\ Context \in datasets[m_dataset].refs
                        /\ datasets[m_dataset].epoch = m_dataset_epoch
    /\ m_initialized => /\ m_dataset # 0
                        /\ datasets[m_dataset].items = Items
                        /\ datasets[m_dataset].key = m_keyBlockHash
    /\ ~m_initialized => m_keyBlockHash = NoKey

CallOK(c) ==
    /\ call[c].pc \in {"allocate", "fill"} <=> g_mining_context_mutex = c
    /\ call[c].pc \notin {"generate", "done"} => call[c].nGenerate > 0
    /\ call[c].pc = "allocate" => m_dataset = 0 /\ ~m_initialized
    /\ call[c].pc = "fill" => /\ m_dataset # 0 /\ ~m_initialized
                              /\ datasets[m_dataset].key = call[c].keyBlockHash
    /\ call[c].pc \in {"context", "allocate", "fill", "start", "join"} => call[c].keyBlockHash \in Nat
    /\ call[c].pc \in {"start", "join"} =>
           /\ call[c].left <= m_dataset_epoch
           /\ m_dataset = 0 => call[c].left < m_dataset_epoch
           /\ \A d \in 1 .. Len(datasets) :
                  datasets[d].epoch = call[c].left => datasets[d].key = call[c].keyBlockHash
    /\ call[c].pc = "join" => call[c].mining_epoch <= m_dataset_epoch

(* tries since the last look at the epoch, as an upper bound of stale      *)
WorkerOK(w) ==
    LET since == worker[w].tries % EPOCH_CHECK_INTERVAL IN
    /\ worker[w].pc # "done" => call[w[1]].pc = "join"
    /\ worker[w].stale # 0 => ~SameEpoch(w)
    /\ worker[w].pc \in {"create", "done"} => worker[w].stale = 0
    /\ worker[w].pc = "loop" => worker[w].stale <= IF since = 0 THEN EPOCH_CHECK_INTERVAL ELSE since
    /\ worker[w].pc = "hash" => worker[w].stale <= since /\ InRange(w)
    /\ worker[w].pc = "store" => worker[w].stale <= EPOCH_CHECK_INTERVAL /\ InRange(w)
    /\ HasVM(w) => /\ worker[w].vm # 0
                   /\ w \in datasets[worker[w].vm].refs
                   /\ datasets[worker[w].vm].items = Items
                   /\ datasets[worker[w].vm].epoch = call[w[1]].mining_epoch

IInv ==
    /\ TypeOK
    /\ EpochsOrdered
    /\ ContextOK
    /\ \A c \in Calls : CallOK(c)
    /\ \A w \in Workers : WorkerOK(w)

(* A block that was found is submitted: the tries used up beside it never  *)
(* make GenerateBlock give it away, only a shutdown does.                  *)
FoundNotLost ==
    [][\A c \in Calls :
          call[c].pc = "join" /\ call'[c].pc # "join" /\ call[c].found /\ ~m_interrupt
              => call'[c].pc = "submit"]_vars

(* A shutdown ends all calls, also those that wait for the mutex or in a   *)
(* join, and the ones that would otherwise retry.                          *)
ShutdownStops == m_interrupt ~> \A c \in Calls : call[c].pc = "done"

(* maxtries: "How many iterations to try."  A call ends once its tries are *)
(* used up, without a shutdown.                                            *)
TriesEnd == \A c \in Calls : <>(call[c].pc = "done")
============================================================================
