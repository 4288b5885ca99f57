------------------------ MODULE RandomXPool_proofs -------------------------
(***************************************************************************)
(* Proofs about RandomXPool, for every number of threads and contexts: a   *)
(* context is never shared, and never used with a wrong key.               *)
(***************************************************************************)
EXTENDS RandomXPool, WellFoundedInduction, TLAPS

(* The lowest index of a non-empty set exists: the loops of                *)
(* FindOrCreateContext stop at the first entry that fits.                  *)
LEMMA FirstInSet ==
    ASSUME NEW S \in SUBSET Nat, S # {}
    PROVE  First(S) \in S
<1>1. \E x \in S : \A y \in S : ~ (<<y, x>> \in OpToRel(<, Nat))
  BY NatLessThanWellFounded, WFMin, Zenon
<1>2. \A x, y \in Nat : y < x => <<y, x>> \in OpToRel(<, Nat)
  BY DEF OpToRel
<1>3. \A x, y \in Nat : ~(y < x) => x <= y
  OBVIOUS
<1>4. \E x \in S : \A y \in S : x <= y
  BY <1>1, <1>2, <1>3, Zenon
<1> QED
  BY <1>4, Zenon DEF First

(* FindOrCreateContext returns an entry that nobody uses, or none, and     *)
(* lets the pool grow up to m_max_contexts only.                           *)
LEMMA FoundFree ==
    ASSUME IInv, NEW k, FindOrCreateContext(k) # NoSlot
    PROVE  /\ FindOrCreateContext(k) \in Slot
           /\ ~in_use[FindOrCreateContext(k)]
           /\ FindOrCreateContext(k) <= size + 1
<1> DEFINE match == {i \in Free : key_hash[i] = k}
           f == FindOrCreateContext(k)
<1>1. size \in 0..m_max_contexts /\ m_max_contexts \in Nat
  BY PoolAssumption DEF IInv, TypeOK
<1>2. Free \in SUBSET Nat /\ match \in SUBSET Nat
  BY <1>1 DEF Free
<1>3. \A i \in Free : i \in Slot /\ i <= size /\ ~in_use[i]
  BY <1>1 DEF Free, Slot
<1>4. CASE match # {}
  <2>1. f = First(match)
    BY <1>4 DEF FindOrCreateContext
  <2>2. f \in match
    BY <2>1, <1>2, <1>4, FirstInSet
  <2> QED
    BY <2>2, <1>1, <1>3 DEF Slot
<1>5. CASE match = {} /\ Free # {}
  <2>1. f = First(Free)
    BY <1>5 DEF FindOrCreateContext
  <2>2. f \in Free
    BY <2>1, <1>2, <1>5, FirstInSet
  <2> QED
    BY <2>2, <1>1, <1>3 DEF Slot
<1>6. CASE match = {} /\ Free = {}
  <2>1. f = size + 1 /\ size < m_max_contexts
    BY <1>6 DEF FindOrCreateContext
  <2>2. f \in Slot /\ ~(f <= size)
    BY <2>1, <1>1 DEF Slot
  <2> QED
    BY <2>1, <2>2, <1>1 DEF IInv
<1> QED
  BY <1>4, <1>5, <1>6

(* The pool is as large as its highest entry after FindOrCreateContext.    *)
LEMMA CreatedSize ==
    ASSUME IInv, NEW k, Created(FindOrCreateContext(k))
    PROVE  /\ size' \in 0..m_max_contexts
           /\ size <= size'
           /\ FindOrCreateContext(k) # NoSlot => FindOrCreateContext(k) <= size'
<1>1. size \in 0..m_max_contexts /\ m_max_contexts \in Nat
  BY PoolAssumption DEF IInv, TypeOK
<1>2. CASE FindOrCreateContext(k) = NoSlot
  BY <1>1, <1>2 DEF Created, NoSlot
<1>3. CASE FindOrCreateContext(k) # NoSlot
  BY <1>1, <1>3, FoundFree DEF Created, Slot
<1> QED
  BY <1>2, <1>3

(* An iteration of Acquire that is granted a context keeps the invariant.  *)
LEMMA GrantedKeeps ==
    ASSUME IInv, NEW t \in Threads, NEW k \in Keys \cup {Null},
           NEW w \in [AcquisitionPriority -> Int],
           pc[t] # "holding", Granted(t, k, w),
           want' = [want EXCEPT ![t] = k], requests' \in Nat
    PROVE  IInv'
<1> DEFINE i == FindOrCreateContext(k)
<1>1. i \in Slot /\ ~in_use[i]
  BY FoundFree DEF Granted
<1>2. size' \in 0..m_max_contexts /\ size <= size' /\ i <= size'
  BY CreatedSize DEF Granted
<1> HIDE DEF i
<1>3. /\ in_use' = [in_use EXCEPT ![i] = TRUE]
      /\ context' = [context EXCEPT ![i] = IF key_hash[i] = k THEN @ ELSE k]
      /\ key_hash' = [key_hash EXCEPT ![i] = k]
      /\ waiting' = [w EXCEPT ![priority[t]] = @ - 1]
      /\ pc' = [pc EXCEPT ![t] = "holding"]
      /\ slot' = [slot EXCEPT ![t] = i]
      /\ result' = [result EXCEPT ![t] = "guard"]
      /\ starved' = [starved EXCEPT ![t] = FALSE]
  BY DEF Granted, DecrementWaitingCount, i
<1>4. TypeOK'
  <2>1. waiting' \in [AcquisitionPriority -> Int]
    BY <1>3, PoolAssumption
  <2>2. in_use' \in [Slot -> BOOLEAN] /\ starved' \in [Threads -> BOOLEAN]
    BY <1>3, Zenon DEF IInv, TypeOK
  <2>3. key_hash' \in [Slot -> Keys \cup {Null}] /\ context' \in [Slot -> Keys \cup {Null}]
    BY <1>1, <1>3 DEF IInv, TypeOK
  <2>4. /\ pc' \in [Threads -> {"idle", "asleep", "woken", "holding", "returned"}]
        /\ want' \in [Threads -> Keys \cup {Null}]
        /\ slot' \in [Threads -> Slot \cup {NoSlot}]
        /\ result' \in [Threads -> {"none", "guard", "nullopt"}]
    BY <1>1, <1>3 DEF IInv, TypeOK
  <2> QED
    BY <2>1, <2>2, <2>3, <2>4, <1>2 DEF TypeOK
<1>5. ExclusiveUse'
  <2>1. \A u \in Threads : Holds(u)' => slot'[u] \in 1..size' /\ in_use'[slot'[u]]
    BY <1>1, <1>2, <1>3 DEF IInv, TypeOK, ExclusiveUse, Holds, Slot
  <2>2. \A u, v \in Threads : Holds(u)' /\ Holds(v)' /\ slot'[u] = slot'[v] => u = v
    BY <1>1, <1>3 DEF IInv, TypeOK, ExclusiveUse, Holds
  <2>3. \A j \in Slot : in_use'[j] => \E u \in Threads : Holds(u)' /\ slot'[u] = j
    BY <1>1, <1>3 DEF IInv, TypeOK, ExclusiveUse, Holds
  <2> QED
    BY <2>1, <2>2, <2>3 DEF ExclusiveUse
<1>6. \A j \in Slot : in_use'[j] => j <= size'
  BY <1>1, <1>2, <1>3 DEF IInv, TypeOK, Slot
<1>7. \A j \in Slot : context'[j] \in {key_hash'[j], Null}
  BY <1>1, <1>3 DEF IInv, TypeOK
<1>8. \A u \in Threads : Holds(u)' => key_hash'[slot'[u]] = want'[u]
  BY <1>1, <1>3 DEF IInv, TypeOK, ExclusiveUse, Holds
<1> QED
  BY <1>4, <1>5, <1>6, <1>7, <1>8 DEF IInv

(* A step that gives out and takes back no context keeps the invariant if  *)
(* it destroys VMs at most, and changes the keys of threads without guard. *)
LEMMA QuietKeeps ==
    ASSUME IInv, TypeOK', size <= size',
           UNCHANGED <<key_hash, in_use, slot>>,
           \A i \in Slot : context'[i] \in {context[i], Null},
           \A u \in Threads : Holds(u)' <=> Holds(u),
           \A u \in Threads : Holds(u) => want'[u] = want[u]
    PROVE  IInv'
<1>1. \A u \in Threads : Holds(u)' => slot'[u] \in 1..size' /\ in_use'[slot'[u]]
  BY DEF IInv, TypeOK, ExclusiveUse
<1>2. \A u, v \in Threads : Holds(u)' /\ Holds(v)' /\ slot'[u] = slot'[v] => u = v
  BY DEF IInv, ExclusiveUse
<1>3. \A j \in Slot : in_use'[j] => \E u \in Threads : Holds(u)' /\ slot'[u] = j
  BY DEF IInv, ExclusiveUse
<1>4. ExclusiveUse'
  BY <1>1, <1>2, <1>3 DEF ExclusiveUse
<1>5. \A j \in Slot : in_use'[j] => j <= size'
  BY DEF IInv, TypeOK, Slot
<1>6. \A j \in Slot : context'[j] \in {key_hash'[j], Null}
  BY DEF IInv
<1>7. \A u \in Threads : Holds(u)' => key_hash'[slot'[u]] = want'[u]
  BY DEF IInv
<1> QED
  BY <1>4, <1>5, <1>6, <1>7 DEF IInv

(* A failed initialisation keeps the invariant.                            *)
LEMMA InitializeFailsKeeps ==
    ASSUME IInv, NEW t \in Threads, NEW k \in Keys \cup {Null},
           NEW w \in [AcquisitionPriority -> Int],
           pc[t] # "holding", InitializeFails(t, k, w),
           want' = [want EXCEPT ![t] = k], requests' \in Nat
    PROVE  IInv'
<1>1. size' \in 0..m_max_contexts /\ size <= size'
  BY CreatedSize DEF InitializeFails
<1>2. /\ \E i : context' = [context EXCEPT ![i] = Null]
      /\ waiting' = [w EXCEPT ![priority[t]] = @ - 1]
      /\ pc' = [u \in Threads |-> IF u = t THEN "idle"
                                  ELSE IF pc[u] = "asleep" THEN "woken" ELSE pc[u]]
      /\ result' = [result EXCEPT ![t] = "nullopt"]
      /\ starved' = [starved EXCEPT ![t] = FALSE]
      /\ UNCHANGED <<in_use, key_hash, slot>>
  BY Zenon DEF InitializeFails, DecrementWaitingCount, NotifyAll
<1>3. context' \in [Slot -> Keys \cup {Null}] /\ \A i \in Slot : context'[i] \in {context[i], Null}
  BY <1>2, Zenon DEF IInv, TypeOK
<1>4. waiting' \in [AcquisitionPriority -> Int]
  BY <1>2, PoolAssumption
<1>5. starved' \in [Threads -> BOOLEAN]
  BY <1>2 DEF IInv, TypeOK
<1>6. /\ pc' \in [Threads -> {"idle", "asleep", "woken", "holding", "returned"}]
      /\ want' \in [Threads -> Keys \cup {Null}]
      /\ result' \in [Threads -> {"none", "guard", "nullopt"}]
  BY <1>2 DEF IInv, TypeOK
<1>7. TypeOK'
  BY <1>1, <1>2, <1>3, <1>4, <1>5, <1>6 DEF IInv, TypeOK
<1>8. \A u \in Threads : (Holds(u)' <=> Holds(u)) /\ (Holds(u) => want'[u] = want[u])
  BY <1>2 DEF IInv, TypeOK, Holds
<1> QED
  BY <1>1, <1>2, <1>3, <1>7, <1>8, QuietKeeps

(* An iteration that ends in a wait keeps the invariant.                   *)
LEMMA BlockedKeeps ==
    ASSUME IInv, NEW t \in Threads, NEW k \in Keys \cup {Null},
           NEW w \in [AcquisitionPriority -> Int],
           pc[t] # "holding", Blocked(t, k, w),
           want' = [want EXCEPT ![t] = k], requests' \in Nat
    PROVE  IInv'
<1>1. size' \in 0..m_max_contexts /\ size <= size'
  BY CreatedSize DEF Blocked
<1>2. /\ waiting' = w /\ pc' = [pc EXCEPT ![t] = "asleep"]
      /\ UNCHANGED <<in_use, key_hash, context, slot, result, starved>>
  BY DEF Blocked
<1>3. TypeOK'
  BY <1>1, <1>2 DEF IInv, TypeOK
<1>4. \A u \in Threads : (Holds(u)' <=> Holds(u)) /\ (Holds(u) => want'[u] = want[u])
  BY <1>2 DEF IInv, TypeOK, Holds
<1>5. \A i \in Slot : context'[i] \in {context[i], Null}
  BY <1>2
<1> QED
  BY <1>1, <1>2, <1>3, <1>4, <1>5, QuietKeeps

(* Returning a context keeps the invariant.                                *)
LEMMA ReturnKeeps ==
    ASSUME IInv, NEW t \in Threads, Return(t)
    PROVE  IInv'
<1> DEFINE i == slot[t]
<1>1. /\ Holds(t) /\ i \in Slot
      /\ in_use' = [in_use EXCEPT ![i] = FALSE]
      /\ slot' = [slot EXCEPT ![t] = NoSlot]
      /\ pc' = [pc EXCEPT ![t] = "returned"]
      /\ UNCHANGED <<size, key_hash, context, waiting, want, starved, result, requests>>
  BY PoolAssumption DEF Return, Holds, IInv, TypeOK, ExclusiveUse, Slot
<1> HIDE DEF i
<1>2. TypeOK'
  BY <1>1 DEF IInv, TypeOK
<1>3. \A u \in Threads : Holds(u)' <=> Holds(u) /\ u # t
  BY <1>1 DEF IInv, TypeOK, Holds
<1>4. \A u \in Threads \ {t} : slot'[u] = slot[u] /\ (Holds(u) => slot[u] # i)
  BY <1>1 DEF IInv, TypeOK, ExclusiveUse, i
<1>5. \A u \in Threads : Holds(u)' => slot'[u] \in 1..size' /\ in_use'[slot'[u]]
  BY <1>1, <1>3, <1>4 DEF IInv, TypeOK, ExclusiveUse, Slot
<1>6. \A u, v \in Threads : Holds(u)' /\ Holds(v)' /\ slot'[u] = slot'[v] => u = v
  BY <1>3, <1>4 DEF IInv, ExclusiveUse
<1>7. \A j \in Slot : in_use'[j] => \E u \in Threads : Holds(u)' /\ slot'[u] = j
  BY <1>1, <1>3, <1>4 DEF IInv, TypeOK, ExclusiveUse, i
<1>8. ExclusiveUse'
  BY <1>5, <1>6, <1>7 DEF ExclusiveUse
<1>9. \A j \in Slot : in_use'[j] => j <= size'
  BY <1>1 DEF IInv, TypeOK
<1>10. \A u \in Threads : Holds(u)' => key_hash'[slot'[u]] = want'[u]
  BY <1>1, <1>3, <1>4 DEF IInv
<1> QED
  BY <1>1, <1>2, <1>8, <1>9, <1>10 DEF IInv

(* An iteration of the loop of Acquire keeps the invariant, however it ends. *)
LEMMA IterationKeeps ==
    ASSUME IInv, NEW t \in Threads, NEW k \in Keys \cup {Null},
           NEW w \in [AcquisitionPriority -> Int],
           pc[t] # "holding", Iteration(t, k, w),
           want' = [want EXCEPT ![t] = k], requests' \in Nat
    PROVE  IInv'
<1>1. CASE Granted(t, k, w)
  BY <1>1, GrantedKeeps, Zenon
<1>2. CASE InitializeFails(t, k, w)
  BY <1>2, InitializeFailsKeeps, Zenon
<1>3. CASE Blocked(t, k, w)
  BY <1>3, BlockedKeeps, Zenon
<1> QED
  BY <1>1, <1>2, <1>3 DEF Iteration

(* A step that leaves the pool, the guards and the keys alone.             *)
LEMMA WaitKeeps ==
    ASSUME IInv, NEW t \in Threads,
           Poll(t) \/ Timeout(t) \/ ThresholdPasses(t) \/ NotifyWaiters(t)
    PROVE  IInv'
<1>1. /\ UNCHANGED <<size, key_hash, in_use, context, want, slot, requests>>
      /\ pc' \in [Threads -> {"idle", "asleep", "woken", "holding", "returned"}]
      /\ \A u \in Threads : pc'[u] = "holding" <=> pc[u] = "holding"
      /\ result' \in [Threads -> {"none", "guard", "nullopt"}]
  BY DEF Poll, Timeout, ThresholdPasses, NotifyWaiters, NotifyAll, pool, IInv, TypeOK
<1>2. starved' \in [Threads -> BOOLEAN]
  BY Zenon DEF Poll, Timeout, ThresholdPasses, NotifyWaiters, pool, IInv, TypeOK
<1>3. waiting' \in [AcquisitionPriority -> Int]
  BY PoolAssumption
     DEF Poll, Timeout, ThresholdPasses, NotifyWaiters, DecrementWaitingCount, IInv, TypeOK
<1>4. TypeOK'
  BY <1>1, <1>2, <1>3 DEF IInv, TypeOK
<1>5. size <= size'
  BY <1>1 DEF IInv, TypeOK
<1>6. \A u \in Threads : (Holds(u)' <=> Holds(u)) /\ (Holds(u) => want'[u] = want[u])
  BY <1>1 DEF Holds
<1>7. \A i \in Slot : context'[i] \in {context[i], Null}
  BY <1>1
<1> QED
  BY <1>1, <1>4, <1>5, <1>6, <1>7, QuietKeeps

----------------------------------------------------------------------------

(* The inductive invariant holds in every state of the pool, for any number *)
(* of threads, keys and contexts.                                          *)
THEOREM Inductive == Spec => []IInv
<1>1. Init => IInv
  BY PoolAssumption
     DEF Init, IInv, TypeOK, ExclusiveUse, Holds, Slot, NoSlot, AcquisitionPriority,
         LOW, CONSENSUS_CRITICAL
<1>2. IInv /\ [Next]_vars => IInv'
  <2> SUFFICES ASSUME IInv, [Next]_vars PROVE IInv'
    OBVIOUS
  <2>1. ASSUME NEW t \in Threads, Acquire(t) PROVE IInv'
    <3>1. PICK k \in Keys : want' = [want EXCEPT ![t] = k] /\ Iteration(t, k, IncrementWaitingCount(t))
      BY <2>1, Zenon DEF Acquire
    <3>2. IncrementWaitingCount(t) \in [AcquisitionPriority -> Int]
      BY PoolAssumption DEF IncrementWaitingCount, IInv, TypeOK
    <3>3. pc[t] # "holding" /\ requests' \in Nat
      BY <2>1 DEF Acquire, IInv, TypeOK
    <3> QED
      BY <3>1, <3>2, <3>3, IterationKeeps, Zenon
  <2>2. ASSUME NEW t \in Threads, Retry(t) PROVE IInv'
    <3>1. want' = [want EXCEPT ![t] = want[t]] /\ want[t] \in Keys \cup {Null}
      BY <2>2 DEF Retry, IInv, TypeOK
    <3>2. pc[t] # "holding" /\ requests' \in Nat /\ waiting \in [AcquisitionPriority -> Int]
      BY <2>2 DEF Retry, IInv, TypeOK
    <3>3. Iteration(t, want[t], waiting)
      BY <2>2 DEF Retry
    <3> QED
      BY <3>1, <3>2, <3>3, IterationKeeps, Zenon
  <2>3. ASSUME NEW t \in Threads, Poll(t) \/ Timeout(t) \/ ThresholdPasses(t) \/ NotifyWaiters(t)
        PROVE  IInv'
    BY <2>3, WaitKeeps
  <2>4. ASSUME NEW t \in Threads, Return(t) PROVE IInv'
    BY <2>4, ReturnKeeps
  <2>5. CASE UNCHANGED vars
    BY <2>5 DEF vars, pool, IInv, TypeOK, ExclusiveUse, Holds
  <2> QED
    BY <2>1, <2>2, <2>3, <2>4, <2>5 DEF Next, Thread
<1> QED
  BY <1>1, <1>2, PTL DEF Spec

(* The variables have their types, and the pool keeps to m_max_contexts.   *)
THEOREM TypeCorrect == Spec => []TypeOK
<1>1. IInv => TypeOK
  BY DEF IInv
<1> QED
  BY <1>1, Inductive, PTL

(* A context is used by one thread at a time, and none is lost.            *)
THEOREM Exclusive == Spec => []ExclusiveUse
<1>1. IInv => ExclusiveUse
  BY DEF IInv
<1> QED
  BY <1>1, Inductive, PTL

(* No guard ever holds the VM of another key than the one asked for.       *)
THEOREM RightKey == Spec => []NeverWrongKey
<1>1. ASSUME IInv PROVE NeverWrongKey
  <2>1. \A t \in Threads : Holds(t) => slot[t] \in Slot
    BY <1>1, PoolAssumption DEF IInv, TypeOK, ExclusiveUse, Slot
  <2>2. \A t \in Threads : Holds(t) => context[slot[t]] \in {want[t], Null}
    BY <1>1, <2>1 DEF IInv
  <2> QED
    BY <2>2 DEF NeverWrongKey
<1> QED
  BY <1>1, Inductive, PTL

=============================================================================
