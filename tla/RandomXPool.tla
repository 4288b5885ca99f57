---------------------------- MODULE RandomXPool ----------------------------
(***************************************************************************)
(* The bounded pool of RandomX contexts that threads check out to hash     *)
(* block headers: RandomXContextPool.  Everything between two waits runs   *)
(* under m_mutex and is one step; the condition variable m_cv is modelled  *)
(* by the set of threads asleep on it.  A context is the key its VM was    *)
(* initialised with.                                                       *)
(***************************************************************************)
EXTENDS Integers, FiniteSets

CONSTANTS
    Threads,
    priority,         \* the priority each thread asks with
    Keys,             \* hashes of key blocks
    Null,             \* the null hash; no VM
    m_max_contexts,
    MaxRequests       \* bound: calls of Acquire

LOW == 0
NORMAL == 1
HIGH == 2
CONSENSUS_CRITICAL == 3

AcquisitionPriority == LOW..CONSENSUS_CRITICAL

ASSUME PoolAssumption ==
    /\ priority \in [Threads -> AcquisitionPriority]
    /\ Null \notin Keys
    /\ m_max_contexts \in 1..64
    /\ MaxRequests \in Nat

Slot == 1..m_max_contexts

NoSlot == 0           \* SIZE_MAX

VARIABLES
    size,             \* m_pool.size()
    key_hash, in_use, \* of each entry of m_pool
    context,          \* the key the VM of each entry was initialised with
    waiting,          \* m_waiting_low .. m_waiting_consensus_critical
    pc, want, slot,   \* of each thread: where it is, its key, its context
    starved,          \* has the thread waited STARVATION_PREVENTION_THRESHOLD?
    result,           \* what the last call of Acquire returned
    requests          \* calls of Acquire so far

pool == <<size, key_hash, in_use, context>>

vars == <<pool, waiting, pc, want, slot, starved, result, requests>>

----------------------------------------------------------------------------

First(S) == CHOOSE i \in S : \A j \in S : i <= j

Free == {i \in 1..size : ~in_use[i]}

(* Mutant: an entry with the right key is taken even when it is in use.    *)
FindOrCreateContextShared(k) ==
    LET match == {i \in 1..size : key_hash[i] = k}
    IN  IF match # {} THEN First(match)
        ELSE IF Free # {} THEN First(Free)
        ELSE IF size < m_max_contexts THEN size + 1
        ELSE NoSlot

(* A free context with this key, else any free one, else a new one.        *)
FindOrCreateContext(k) ==
    LET match == {i \in Free : key_hash[i] = k}
    IN  IF match # {} THEN First(match)
        ELSE IF Free # {} THEN First(Free)
        ELSE IF size < m_max_contexts THEN size + 1
        ELSE NoSlot

Created(i) == size' = IF i > size THEN i ELSE size

(* w are the waiting counts with t itself counted.                         *)
ShouldYieldWithStarvationCheck(t, w) ==
    ~starved[t] /\ \E p \in AcquisitionPriority : p > priority[t] /\ w[p] > 0

DecrementWaitingCount(t, w) == waiting' = [w EXCEPT ![priority[t]] = @ - 1]

(* notify_all, while thread t goes to state s.                             *)
NotifyAll(t, s) ==
    pc' = [u \in Threads |-> IF u = t THEN s ELSE IF pc[u] = "asleep" THEN "woken" ELSE pc[u]]

----------------------------------------------------------------------------
(* One iteration of the loop of Acquire, up to the return or the wait.     *)

(* Mutant: a context that has been initialised is not initialised again.   *)
GrantedStale(t, k, w) ==
    LET i == FindOrCreateContext(k) IN
    /\ i # NoSlot /\ ~ShouldYieldWithStarvationCheck(t, w)
    /\ Created(i)
    /\ in_use' = [in_use EXCEPT ![i] = TRUE]
    /\ context' = [context EXCEPT ![i] = IF @ = Null THEN k ELSE @]
    /\ key_hash' = [key_hash EXCEPT ![i] = k]
    /\ DecrementWaitingCount(t, w)
    /\ pc' = [pc EXCEPT ![t] = "holding"]
    /\ slot' = [slot EXCEPT ![t] = i]
    /\ result' = [result EXCEPT ![t] = "guard"]
    /\ starved' = [starved EXCEPT ![t] = FALSE]

Granted(t, k, w) ==
    LET i == FindOrCreateContext(k) IN
    /\ i # NoSlot /\ ~ShouldYieldWithStarvationCheck(t, w)
    /\ Created(i)
    /\ in_use' = [in_use EXCEPT ![i] = TRUE]
    /\ context' = [context EXCEPT ![i] = IF key_hash[i] = k THEN @ ELSE k]
    /\ key_hash' = [key_hash EXCEPT ![i] = k]
    /\ DecrementWaitingCount(t, w)
    /\ pc' = [pc EXCEPT ![t] = "holding"]
    /\ slot' = [slot EXCEPT ![t] = i]
    /\ result' = [result EXCEPT ![t] = "guard"]
    /\ starved' = [starved EXCEPT ![t] = FALSE]

(* Mutant: the entry stays in use when its initialisation fails.           *)
InitializeFailsLeaks(t, k, w) ==
    LET i == FindOrCreateContext(k) IN
    /\ i # NoSlot /\ ~ShouldYieldWithStarvationCheck(t, w)
    /\ Created(i)
    /\ key_hash[i] # k
    /\ context' = [context EXCEPT ![i] = Null]
    /\ in_use' = [in_use EXCEPT ![i] = TRUE]
    /\ DecrementWaitingCount(t, w)
    /\ NotifyAll(t, "idle")
    /\ result' = [result EXCEPT ![t] = "nullopt"]
    /\ starved' = [starved EXCEPT ![t] = FALSE]
    /\ UNCHANGED <<key_hash, slot>>

(* RandomXContext::Initialize destroys the old VM before it can fail; the  *)
(* entry keeps its key_hash.                                               *)
InitializeFails(t, k, w) ==
    LET i == FindOrCreateContext(k) IN
    /\ i # NoSlot /\ ~ShouldYieldWithStarvationCheck(t, w)
    /\ Created(i)
    /\ key_hash[i] # k
    /\ context' = [context EXCEPT ![i] = Null]
    /\ DecrementWaitingCount(t, w)
    /\ NotifyAll(t, "idle")
    /\ result' = [result EXCEPT ![t] = "nullopt"]
    /\ starved' = [starved EXCEPT ![t] = FALSE]
    /\ UNCHANGED <<in_use, key_hash, slot>>

Blocked(t, k, w) ==
    LET i == FindOrCreateContext(k) IN
    /\ i = NoSlot \/ ShouldYieldWithStarvationCheck(t, w)
    /\ Created(i)
    /\ waiting' = w
    /\ pc' = [pc EXCEPT ![t] = "asleep"]
    /\ UNCHANGED <<in_use, key_hash, context, slot, result, starved>>

Iteration(t, k, w) == Granted(t, k, w) \/ InitializeFails(t, k, w) \/ Blocked(t, k, w)

IncrementWaitingCount(t) == [waiting EXCEPT ![priority[t]] = @ + 1]

Acquire(t) ==
    /\ pc[t] = "idle" /\ requests < MaxRequests
    /\ requests' = requests + 1
    /\ \E k \in Keys : want' = [want EXCEPT ![t] = k] /\ Iteration(t, k, IncrementWaitingCount(t))

Retry(t) ==
    /\ pc[t] = "woken"
    /\ Iteration(t, want[t], waiting)
    /\ UNCHANGED <<want, requests>>

(* A consensus-critical request wakes up every 5 seconds.                  *)
Poll(t) ==
    /\ pc[t] = "asleep" /\ priority[t] = CONSENSUS_CRITICAL
    /\ pc' = [pc EXCEPT ![t] = "woken"]
    /\ UNCHANGED <<pool, waiting, want, slot, starved, result, requests>>

(* Mutant: the waiting count is not decremented.                           *)
TimeoutCounted(t) ==
    /\ pc[t] = "asleep" /\ priority[t] # CONSENSUS_CRITICAL
    /\ pc' = [pc EXCEPT ![t] = "idle"]
    /\ result' = [result EXCEPT ![t] = "nullopt"]
    /\ starved' = [starved EXCEPT ![t] = FALSE]
    /\ UNCHANGED <<pool, waiting, want, slot, requests>>

(* The others give up at their deadline, without another look at the pool. *)
Timeout(t) ==
    /\ pc[t] = "asleep" /\ priority[t] # CONSENSUS_CRITICAL
    /\ DecrementWaitingCount(t, waiting)
    /\ pc' = [pc EXCEPT ![t] = "idle"]
    /\ result' = [result EXCEPT ![t] = "nullopt"]
    /\ starved' = [starved EXCEPT ![t] = FALSE]
    /\ UNCHANGED <<pool, want, slot, requests>>

(* Time passes: a request that waits stops to yield.                       *)
ThresholdPasses(t) ==
    /\ pc[t] \in {"asleep", "woken"} /\ ~starved[t]
    /\ starved' = [starved EXCEPT ![t] = TRUE]
    /\ UNCHANGED <<pool, waiting, pc, want, slot, result, requests>>

(* The destructor of ContextGuard: the entry is given back under m_mutex,  *)
(* the waiters are notified after it is unlocked.                          *)
Return(t) ==
    /\ pc[t] = "holding"
    /\ in_use' = [in_use EXCEPT ![slot[t]] = FALSE]
    /\ slot' = [slot EXCEPT ![t] = NoSlot]
    /\ pc' = [pc EXCEPT ![t] = "returned"]
    /\ UNCHANGED <<size, key_hash, context, waiting, want, starved, result, requests>>

NotifyWaiters(t) ==
    /\ pc[t] = "returned"
    /\ NotifyAll(t, "idle")
    /\ UNCHANGED <<pool, waiting, want, slot, starved, result, requests>>

----------------------------------------------------------------------------

Init ==
    /\ size = 0
    /\ key_hash = [i \in Slot |-> Null]
    /\ in_use = [i \in Slot |-> FALSE]
    /\ context = [i \in Slot |-> Null]
    /\ waiting = [p \in AcquisitionPriority |-> 0]
    /\ pc = [t \in Threads |-> "idle"]
    /\ want = [t \in Threads |-> Null]
    /\ slot = [t \in Threads |-> NoSlot]
    /\ starved = [t \in Threads |-> FALSE]
    /\ result = [t \in Threads |-> "none"]
    /\ requests = 0

Thread(t) ==
    \/ Acquire(t) \/ Retry(t) \/ Poll(t) \/ Timeout(t) \/ ThresholdPasses(t)
    \/ Return(t) \/ NotifyWaiters(t)

Next == \E t \in Threads : Thread(t)

Spec == Init /\ [][Next]_vars

(* A thread that holds a context returns it, one that was woken up runs,   *)
(* and the timers of the waits run out.                                    *)
Fairness ==
    \A t \in Threads : /\ WF_vars(Retry(t)) /\ WF_vars(Poll(t)) /\ WF_vars(Timeout(t))
                       /\ WF_vars(Return(t)) /\ WF_vars(NotifyWaiters(t))

FairSpec == Spec /\ Fairness

----------------------------------------------------------------------------
(* Type invariant; the pool never grows beyond m_max_contexts.             *)
TypeOK ==
    /\ size \in 0..m_max_contexts
    /\ key_hash \in [Slot -> Keys \cup {Null}]
    /\ in_use \in [Slot -> BOOLEAN]
    /\ context \in [Slot -> Keys \cup {Null}]
    /\ waiting \in [AcquisitionPriority -> Int]
    /\ pc \in [Threads -> {"idle", "asleep", "woken", "holding", "returned"}]
    /\ want \in [Threads -> Keys \cup {Null}]
    /\ slot \in [Threads -> Slot \cup {NoSlot}]
    /\ starved \in [Threads -> BOOLEAN]
    /\ result \in [Threads -> {"none", "guard", "nullopt"}]
    /\ requests \in Nat

Holds(t) == pc[t] = "holding"

(* A context in use belongs to exactly one guard, and every guard has one: *)
(* no two threads run the same VM, and no context is lost (in_use, set by  *)
(* Acquire and cleared by Return and on a failed initialisation).          *)
ExclusiveUse ==
    /\ \A t \in Threads : Holds(t) => slot[t] \in 1..size /\ in_use[slot[t]]
    /\ \A t, u \in Threads : Holds(t) /\ Holds(u) /\ slot[t] = slot[u] => t = u
    /\ \A i \in Slot : in_use[i] => \E t \in Threads : Holds(t) /\ slot[t] = i

(* A header is never hashed with the VM of another key: the context of a   *)
(* guard has the key that was asked for, or no VM, and then CalculateHash  *)
(* throws.                                                                 *)
NeverWrongKey == \A t \in Threads : Holds(t) => context[slot[t]] \in {want[t], Null}

(* The inductive invariant of the proofs: beyond the above, entries are    *)
(* marked in use only once they exist, a VM has the key of its entry or    *)
(* was destroyed by a failed Initialize, and an entry is not given another *)
(* key while it is checked out.                                            *)
IInv ==
    /\ TypeOK
    /\ ExclusiveUse
    /\ \A i \in Slot : in_use[i] => i <= size
    /\ \A i \in Slot : context[i] \in {key_hash[i], Null}
    /\ \A t \in Threads : Holds(t) => key_hash[slot[t]] = want[t]

(* The waiting counts that decide who yields are exact on every path out   *)
(* of Acquire (IncrementWaitingCount, DecrementWaitingCount).              *)
WaitingExact ==
    \A p \in AcquisitionPriority :
        waiting[p] = Cardinality({t \in Threads : priority[t] = p /\ pc[t] \in {"asleep", "woken"}})

(* Every call of Acquire returns, once the other threads ask no more.      *)
AcquireReturns ==
    \A t \in Threads : pc[t] \in {"asleep", "woken"} ~> pc[t] \notin {"asleep", "woken"}

=============================================================================
