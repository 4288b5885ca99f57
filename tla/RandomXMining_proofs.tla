----------------------- MODULE RandomXMining_proofs -----------------------
(***************************************************************************)
(* Proofs about RandomXMining: VMs are safe, the threads of a call share a *)
(* dataset, stale hashing is bounded, and a wrong key has one cause.       *)
(***************************************************************************)
EXTENDS RandomXMining, SequenceTheorems, TLAPS

(* Quotient and remainder.                                                 *)
LEMMA Division ==
    ASSUME NEW a \in Nat, NEW n \in Nat \ {0}
    PROVE  /\ a \div n \in Nat /\ a % n \in 0 .. n - 1
           /\ a = n * (a \div n) + (a % n)
           /\ n * (a \div n) <= a
OBVIOUS

(* Products keep the order.                                                *)
LEMMA Products ==
    ASSUME NEW a \in Nat, NEW b \in Nat, NEW k \in Nat, a <= b
    PROVE  a * k <= b * k /\ a * k \in Nat
OBVIOUS

(* The ranges of the init threads cover the dataset and nothing else.      *)
LEMMA RangesCover == UNION {InitRange(i) : i \in 0 .. initThreads_count - 1} = Items
<1> DEFINE n == initThreads_count
           p == datasetItemCount \div n
<1>1. n \in Nat \ {0} /\ datasetItemCount \in Nat \ {0}
  BY MiningAssumption DEF initThreads_count
<1>2. p \in Nat /\ n * p <= datasetItemCount
  BY <1>1, Division
<1>3. ASSUME NEW i \in 0 .. n - 1, NEW x \in InitRange(i) PROVE x \in Items
  <2>1. i * p \in Nat /\ (i + 1) * p <= n * p /\ (i + 1) * p = i * p + p
    <3>1. i \in Nat /\ i + 1 \in Nat /\ i + 1 <= n
      BY <1>1
    <3>2. (i + 1) * p <= n * p
      BY <1>1, <1>2, <3>1, Products
    <3>3. i * p \in Nat /\ (i + 1) * p = i * p + p
      BY <1>2, <3>1
    <3> QED BY <3>2, <3>3
  <2>2. n * p \in Nat
    BY <1>1, <1>2
  <2> HIDE DEF n, p
  <2>3. x \in i * p .. i * p + (IF i = n - 1 THEN datasetItemCount - i * p ELSE p) - 1
    BY <1>3 DEF InitRange, n, p
  <2> QED BY <1>1, <1>2, <2>1, <2>2, <2>3 DEF Items
<1>4. ASSUME NEW x \in Items PROVE \E i \in 0 .. n - 1 : x \in InitRange(i)
  <2>1. x \in Nat /\ x < datasetItemCount
    BY <1>1, <1>4 DEF Items
  <2>2. CASE (n - 1) * p <= x
    <3>1. (n - 1) * p \in Nat
      BY <1>1, <1>2
    <3>2. n - 1 \in 0 .. n - 1
      BY <1>1
    <3>3. x \in InitRange(n - 1)
      <4>1. InitRange(n - 1) = (n - 1) * p .. (n - 1) * p + (datasetItemCount - (n - 1) * p) - 1
        BY DEF InitRange
      <4> HIDE DEF n, p
      <4> QED BY <1>1, <2>1, <2>2, <3>1, <4>1
    <3> QED BY <3>2, <3>3
  <2>3. CASE x < (n - 1) * p
    <3> DEFINE i == x \div p
    <3>1. p \in Nat \ {0}
      BY <1>1, <1>2, <2>1, <2>3
    <3>2. i \in Nat /\ x % p \in 0 .. p - 1 /\ x = p * i + (x % p)
      BY <2>1, <3>1, Division, Zenon
    <3> HIDE DEF p, i
    <3>3. i < n - 1
      <4> SUFFICES ASSUME n - 1 <= i PROVE FALSE
        BY <1>1, <3>2
      <4>1. (n - 1) * p <= i * p /\ (n - 1) * p \in Nat
        BY <1>1, <3>1, <3>2, Products
      <4>2. i * p = p * i /\ i * p \in Nat
        BY <3>1, <3>2
      <4> QED BY <2>1, <2>3, <3>1, <3>2, <4>1, <4>2
    <3>4. i \in 0 .. n - 1 /\ i # n - 1
      BY <1>1, <3>2, <3>3
    <3>5. InitRange(i) = i * p .. i * p + p - 1
      BY <3>4 DEF InitRange, n, p
    <3>6. x \in InitRange(i)
      <4>1. i * p = p * i /\ i * p \in Nat
        BY <3>1, <3>2
      <4> QED BY <2>1, <3>1, <3>2, <3>5, <4>1
    <3> QED BY <3>4, <3>6
  <2>4. (n - 1) * p \in Nat
    BY <1>1, <1>2
  <2> QED BY <2>1, <2>2, <2>3, <2>4
<1> HIDE DEF n
<1> QED BY <1>3, <1>4 DEF n

(* A nonce of a thread's range is not the largest uint32_t.                *)
LEMMA NonceInRange ==
    ASSUME NEW w \in Workers, worker[w] \in WorkerStates, InRange(w)
    PROVE  nNonce(w) \in Nonces
<1> DEFINE r == nonce_range
           t == w[2]
<1>1. t \in Nat /\ t <= numThreads - 1 /\ numThreads \in Nat \ {0} /\ MaxNonce \in Nat \ {0}
  BY MiningAssumption DEF Workers
<1>2. r \in Nat /\ numThreads * r <= MaxNonce
  <2>1. r = MaxNonce \div numThreads
    BY DEF nonce_range
  <2>2. MaxNonce \div numThreads \in Nat /\ numThreads * (MaxNonce \div numThreads) <= MaxNonce
    BY <1>1, Division, Zenon
  <2> QED BY <2>1, <2>2
<1>3. (t + 1) * r <= numThreads * r /\ (t + 1) * r \in Nat /\ numThreads * r \in Nat /\ t * r \in Nat
  <2> HIDE DEF r, t
  <2>1. t + 1 \in Nat /\ t + 1 <= numThreads
    BY <1>1
  <2>2. (t + 1) * r <= numThreads * r /\ (t + 1) * r \in Nat
    BY <1>1, <1>2, <2>1, Products
  <2> QED BY <1>1, <1>2, <2>2
<1>4. worker[w].tries \in Nat
  BY DEF WorkerStates
<1>5. nNonce(w) = t * r + worker[w].tries
  BY DEF nNonce
<1>6. nNonce(w) < IF t = numThreads - 1 THEN MaxNonce ELSE (t + 1) * r
  BY DEF InRange, end_nonce
<1> HIDE DEF r, t
<1> QED BY <1>1, <1>2, <1>3, <1>4, <1>5, <1>6 DEF Nonces

(* Quotient and remainder are determined.                                  *)
LEMMA Remainder ==
    ASSUME NEW a \in Nat, NEW n \in Nat \ {0}, NEW q \in Nat, NEW r \in 0 .. n - 1, a = n * q + r
    PROVE  a % n = r
<1> DEFINE Q == a \div n
           R == a % n
<1>1. Q \in Nat /\ R \in 0 .. n - 1 /\ a = n * Q + R
  BY Division, Zenon
<1> HIDE DEF Q, R
<1>2. n * q \in Nat /\ n * Q \in Nat
  BY <1>1
<1>3. ASSUME NEW x \in Nat, NEW y \in Nat, x < y PROVE n * x + n <= n * y
  <2>1. (x + 1) * n <= y * n
    BY <1>3, Products
  <2>2. (x + 1) * n = n * x + n /\ y * n = n * y
    BY <1>3
  <2> QED BY <2>1, <2>2
<1>4. ~(q < Q)
  <2> SUFFICES ASSUME q < Q PROVE FALSE
    OBVIOUS
  <2>1. n * q + n <= n * Q
    BY <1>1, <1>3
  <2> QED BY <1>1, <1>2, <2>1
<1>5. ~(Q < q)
  <2> SUFFICES ASSUME Q < q PROVE FALSE
    OBVIOUS
  <2>1. n * Q + n <= n * q
    BY <1>1, <1>3
  <2> QED BY <1>1, <1>2, <2>1
<1>6. q = Q
  BY <1>1, <1>4, <1>5
<1>7. R = r
  BY <1>1, <1>2, <1>6
<1> QED BY <1>7 DEF R

(* One more try since the last look at the epoch.                          *)
LEMMA NextTry ==
    ASSUME NEW tries \in Nat, NEW stale \in Nat, stale <= tries % EPOCH_CHECK_INTERVAL
    PROVE  stale + 1 <= IF (tries + 1) % EPOCH_CHECK_INTERVAL = 0 THEN EPOCH_CHECK_INTERVAL
                        ELSE (tries + 1) % EPOCH_CHECK_INTERVAL
<1> DEFINE k == EPOCH_CHECK_INTERVAL
<1>1. k \in Nat \ {0}
  BY MiningAssumption
<1> HIDE DEF k
<1>2. tries % k \in 0 .. k - 1
  BY <1>1, Division
<1>3. (tries + 1) % k = IF tries % k = k - 1 THEN 0 ELSE (tries % k) + 1
  <2> DEFINE q == tries \div k
             r == tries % k
  <2>1. q \in Nat /\ r \in 0 .. k - 1 /\ tries = k * q + r
    BY <1>1, Division, Zenon
  <2> HIDE DEF q, r
  <2>2. CASE r = k - 1
    <3>1. k * (q + 1) = k * q + k /\ k * q \in Nat
      BY <1>1, <2>1
    <3>2. tries + 1 = k * (q + 1) + 0 /\ 0 \in 0 .. k - 1 /\ q + 1 \in Nat
      BY <1>1, <2>1, <2>2, <3>1
    <3>3. (tries + 1) % k = 0
      <4> DEFINE a == tries + 1
                 s == q + 1
      <4>1. a \in Nat /\ s \in Nat /\ 0 \in 0 .. k - 1 /\ a = k * s + 0
        BY <3>2
      <4> HIDE DEF a, s
      <4>2. a % k = 0
        BY <1>1, <4>1, Remainder
      <4> QED BY <4>2 DEF a
    <3> QED BY <2>2, <3>3 DEF r
  <2>3. CASE r # k - 1
    <3>1. k * q \in Nat
      BY <1>1, <2>1
    <3>2. tries + 1 = k * q + (r + 1) /\ r + 1 \in 0 .. k - 1
      BY <1>1, <2>1, <2>3, <3>1
    <3>3. (tries + 1) % k = r + 1
      <4> DEFINE a == tries + 1
                 s == r + 1
      <4>1. a \in Nat /\ s \in 0 .. k - 1 /\ a = k * q + s
        BY <3>2
      <4> HIDE DEF a, s
      <4>2. a % k = s
        BY <1>1, <2>1, <4>1, Remainder
      <4> QED BY <4>2 DEF a, s
    <3> QED BY <2>3, <3>3 DEF r
  <2> QED BY <2>2, <2>3
<1>4. stale <= tries % k
  BY DEF k
<1>5. stale + 1 <= IF (tries + 1) % k = 0 THEN k ELSE (tries + 1) % k
  BY <1>1, <1>2, <1>3, <1>4
<1> QED BY <1>5 DEF k

----------------------------------------------------------------------------

(* The key of a block is the height of a block.                            *)
LEMMA KeyHeight ==
    ASSUME NEW h \in Nat
    PROVE  GetRandomXKeyBlockHeight(h) \in Nat
<1> DEFINE k == h \div nRandomXKeyBlockInterval
<1>1. k \in Nat /\ nRandomXKeyBlockInterval \in Nat
  BY MiningAssumption, Division, Zenon
<1> HIDE DEF k
<1>2. k * nRandomXKeyBlockInterval \in Nat
  BY <1>1
<1> QED BY <1>1, <1>2 DEF GetRandomXKeyBlockHeight, k

(* The initial state satisfies the invariant.                              *)
LEMMA InitIInv == Init => IInv
<1> SUFFICES ASSUME Init PROVE IInv
  OBVIOUS
<1>1. NoLocals \in CallStates
  BY MiningAssumption DEF NoLocals, CallStates, Nonces, Keys, NoKey
<1>2. \A c \in Calls : /\ call[c] \in CallStates /\ call[c].pc = "generate"
  BY <1>1, MiningAssumption, Zenon DEF Init, NoLocals, CallStates
<1>3. \A w \in Workers : worker[w] = Idle
  BY Zenon DEF Init
<1>4. Idle \in WorkerStates /\ Idle.pc = "done" /\ Idle.vm = 0 /\ Idle.stale = 0
  BY DEF Idle, WorkerStates
<1>5. datasets = <<>> /\ Len(datasets) = 0 /\ datasets \in Seq(Datasets)
  BY EmptySeq, Zenon DEF Init
<1>6. TypeOK
  <2>1. m_interrupt \in BOOLEAN /\ m_initialized \in BOOLEAN
    BY Zenon DEF Init
  <2>2. call \in [Calls -> CallStates] /\ worker \in [Workers -> WorkerStates]
    BY <1>2, <1>3, <1>4, Zenon DEF Init
  <2>3. /\ tip \in Nat /\ g_mining_context_mutex \in Calls \cup {NoCall}
        /\ m_keyBlockHash \in Keys /\ m_dataset_epoch \in Nat /\ m_dataset = 0
    BY MiningAssumption, Zenon DEF Init, Keys
  <2>4. \A w \in Workers : worker[w].vm <= Len(datasets)
    BY <1>3, <1>4, <1>5
  <2>5. m_dataset \in 0 .. Len(datasets)
    BY <1>5, <2>3
  <2> QED BY <1>5, <2>1, <2>2, <2>3, <2>4, <2>5 DEF TypeOK
<1>7. EpochsOrdered /\ ContextOK
  <2>1. 1 .. Len(datasets) = {}
    BY <1>5
  <2>2. m_dataset = 0 /\ ~m_initialized /\ m_keyBlockHash = NoKey
    BY Zenon DEF Init
  <2> QED BY <2>1, <2>2 DEF EpochsOrdered, ContextOK
<1>8. \A c \in Calls : CallOK(c)
  BY <1>2, NamesAssumption, Zenon DEF Init, CallOK
<1>9. \A w \in Workers : WorkerOK(w)
  BY <1>3, <1>4 DEF WorkerOK, HasVM
<1> QED BY <1>6, <1>7, <1>8, <1>9 DEF IInv

(* Facts about one call and one thread that the type invariant contains.   *)
LEMMA Types ==
    ASSUME TypeOK
    PROVE  /\ \A c \in Calls : call[c] \in CallStates
           /\ \A w \in Workers : worker[w] \in WorkerStates /\ w[1] \in Calls
           /\ \A d \in 1 .. Len(datasets) : datasets[d] \in Datasets
           /\ Len(datasets) \in Nat /\ DOMAIN datasets = 1 .. Len(datasets)
<1>1. Len(datasets) \in Nat /\ DOMAIN datasets = 1 .. Len(datasets)
  BY LenProperties DEF TypeOK
<1>2. \A d \in 1 .. Len(datasets) : datasets[d] \in Datasets
  BY ElementOfSeq DEF TypeOK
<1> QED BY <1>1, <1>2 DEF TypeOK, Workers

(* A step of call c that leaves datasets, context and threads alone: it    *)
(* gives up the mutex if c held it, and c's threads are joined.            *)
LEMMA LocalStep ==
    ASSUME IInv, NEW c \in Calls, NEW s \in CallStates,
           call' = [call EXCEPT ![c] = s], tip' \in Nat, m_interrupt' \in BOOLEAN,
           UNCHANGED <<context, datasets, worker>>,
           g_mining_context_mutex' = IF call[c].pc \in {"allocate", "fill"} THEN NoCall
                                     ELSE g_mining_context_mutex,
           call[c].pc = "join" => Joined(c),
           s.pc \notin {"allocate", "fill", "start", "join"},
           s.pc = "context" => s.keyBlockHash \in Nat,
           s.pc \notin {"generate", "done"} => s.nGenerate > 0
    PROVE  IInv'
<1>1. TypeOK'
  BY DEF IInv, TypeOK, context
<1>2. EpochsOrdered' /\ ContextOK'
  BY DEF IInv, EpochsOrdered, ContextOK, context
<1>3. ASSUME NEW x \in Calls PROVE CallOK(x)'
  <2>0. g_mining_context_mutex' = x <=> x # c /\ g_mining_context_mutex = x
    BY NamesAssumption DEF IInv, CallOK
  <2>1. CASE x = c
    BY <2>0, <2>1, Types DEF IInv, TypeOK, CallOK, context
  <2>2. CASE x # c
    BY <2>0, <2>2 DEF IInv, TypeOK, CallOK, context
  <2> QED BY <2>1, <2>2
<1>4. ASSUME NEW w \in Workers PROVE WorkerOK(w)'
  <2>1. CASE w[1] = c
    <3>1. worker[w].pc = "done" /\ worker[w].stale = 0
      BY <2>1 DEF IInv, WorkerOK, Joined
    <3> QED BY <3>1 DEF WorkerOK, HasVM
  <2>2. CASE w[1] # c
    <3>1. call'[w[1]] = call[w[1]]
      BY <2>2, Types DEF IInv, TypeOK
    <3> QED BY <3>1 DEF IInv, WorkerOK, HasVM, SameEpoch, InRange, nNonce, end_nonce, context
  <2> QED BY <2>1, <2>2
<1> QED BY <1>1, <1>2, <1>3, <1>4 DEF IInv

(* The steps of a call that leave context, datasets and threads alone.     *)
LEMMA LocalSteps ==
    ASSUME IInv, NEW c \in Calls,
           \/ CreateNewBlock(c) \/ GetRandomXKeyBlockHash(c) \/ ProcessNewBlock(c)
           \/ InitializeFails(c) \/ Join(c)
    PROVE  IInv'
<1>1. call[c] \in CallStates /\ tip \in Nat /\ tip + 1 \in Nat /\ m_interrupt \in BOOLEAN
  BY Types DEF IInv, TypeOK
<1>2. NoLocals \in CallStates
  BY MiningAssumption DEF NoLocals, CallStates, Nonces, Keys, NoKey
<1>3. ASSUME NEW n \in Nat, NEW t \in Nat, NEW p \in {"generate", "done"}, Return(c, p, t, n)
      PROVE  \E s \in CallStates : call' = [call EXCEPT ![c] = s] /\ s.pc = p
  <2> DEFINE s == [NoLocals EXCEPT !.pc = p, !.result = IF p = "done" THEN "returned" ELSE "none",
                                   !.max_tries = t, !.nGenerate = n]
  <2>1. s \in CallStates /\ s.pc = p
    BY <1>1, <1>2, Zenon DEF CallStates, NoLocals
  <2>2. call' = [call EXCEPT ![c] = s]
    BY <1>3 DEF Return
  <2> HIDE DEF s
  <2> QED BY <2>1, <2>2, Zenon
<1>4. CASE CreateNewBlock(c)
  <2>1. CASE call[c].nGenerate > 0 /\ ~m_interrupt
    <3> DEFINE s == [call[c] EXCEPT !.pc = "height", !.template = tip + 1]
    <3>1. s \in CallStates /\ s.pc = "height" /\ s.nGenerate > 0
      BY <1>1, <2>1, Zenon DEF CallStates
    <3>2. call' = [call EXCEPT ![c] = s]
      BY <1>4, <2>1 DEF CreateNewBlock
    <3> HIDE DEF s
    <3> QED BY <1>1, <1>4, <3>1, <3>2, LocalStep, Zenon DEF CreateNewBlock
  <2>2. CASE ~(call[c].nGenerate > 0 /\ ~m_interrupt)
    <3>1. PICK s \in CallStates : call' = [call EXCEPT ![c] = s] /\ s.pc = "done"
      BY <1>1, <1>3, <1>4, <2>2 DEF CreateNewBlock, CallStates
    <3> QED BY <1>1, <1>4, <3>1, LocalStep, Zenon DEF CreateNewBlock
  <2> QED BY <2>1, <2>2
<1>5. CASE GetRandomXKeyBlockHash(c)
  <2> DEFINE s == [call[c] EXCEPT !.pc = "context",
                                  !.keyBlockHash = GetRandomXKeyBlockHeight(tip + 1)]
  <2>1. GetRandomXKeyBlockHeight(tip + 1) \in Nat
    BY <1>1, KeyHeight
  <2>0. call[c].nGenerate > 0
    BY <1>5 DEF IInv, CallOK, GetRandomXKeyBlockHash
  <2>2. /\ s \in CallStates /\ s.pc = "context" /\ s.keyBlockHash \in Nat
        /\ s.nGenerate > 0
    BY <1>1, <2>0, <2>1, Zenon DEF CallStates, Keys
  <2>3. call' = [call EXCEPT ![c] = s]
    BY <1>5 DEF GetRandomXKeyBlockHash
  <2> HIDE DEF s
  <2> QED BY <1>1, <1>5, <2>2, <2>3, LocalStep, Zenon DEF GetRandomXKeyBlockHash
<1>6. CASE ProcessNewBlock(c)
  <2>1. tip' \in Nat
    BY <1>1, <1>6 DEF ProcessNewBlock
  <2>2. PICK s \in CallStates : call' = [call EXCEPT ![c] = s] /\ s.pc \in {"generate", "done"}
    <3>1. CASE Done(c, "refused")
      <4> DEFINE s == [call[c] EXCEPT !.pc = "done", !.result = "refused"]
      <4>1. s \in CallStates /\ s.pc = "done"
        BY <1>1, Zenon DEF CallStates
      <4>2. call' = [call EXCEPT ![c] = s]
        BY <3>1 DEF Done
      <4> HIDE DEF s
      <4> QED BY <4>1, <4>2, Zenon
    <3>2. CASE Return(c, "generate", call[c].max_tries, call[c].nGenerate - 1)
      <4>1. call[c].nGenerate > 0 /\ call[c].nGenerate \in Nat
        BY <1>1, <1>6 DEF IInv, CallOK, ProcessNewBlock, CallStates
      <4>2. call[c].nGenerate - 1 \in Nat
        BY <4>1
      <4>3. call[c].max_tries \in Nat
        BY <1>1 DEF CallStates
      <4> QED BY <1>3, <3>2, <4>2, <4>3
    <3> QED BY <1>6, <3>1, <3>2 DEF ProcessNewBlock
  <2> QED BY <1>1, <1>6, <2>1, <2>2, LocalStep, Zenon DEF ProcessNewBlock
<1>7. CASE InitializeFails(c)
  <2> DEFINE s == [call[c] EXCEPT !.pc = "done", !.result = "failed"]
  <2>1. s \in CallStates /\ s.pc = "done"
    BY <1>1, Zenon DEF CallStates
  <2>2. call' = [call EXCEPT ![c] = s]
    BY <1>7 DEF InitializeFails, Done
  <2> HIDE DEF s
  <2> QED BY <1>1, <1>7, <2>1, <2>2, LocalStep, Zenon DEF InitializeFails
<1>8. CASE Join(c)
  <2> DEFINE left == IF call[c].total_tries >= call[c].max_tries THEN 0
                     ELSE call[c].max_tries - call[c].total_tries
  <2>1. left \in Nat /\ call[c].nGenerate \in Nat /\ call[c].nGenerate > 0
    BY <1>1, <1>8 DEF CallStates, IInv, CallOK, Join
  <2> DEFINE s == [call[c] EXCEPT !.pc = "submit", !.max_tries = left]
  <2>2. s \in CallStates /\ s.pc = "submit" /\ s.nGenerate = call[c].nGenerate
    BY <1>1, <2>1, Zenon DEF CallStates
  <2>3. \/ Return(c, "done", left, call[c].nGenerate)
        \/ Return(c, "generate", left, call[c].nGenerate)
        \/ call' = [call EXCEPT ![c] = s]
    BY <1>8 DEF Join
  <2> HIDE DEF s, left
  <2>4. \E r \in CallStates : /\ call' = [call EXCEPT ![c] = r]
                              /\ r.pc \in {"generate", "done", "submit"}
                              /\ r.pc = "submit" => r.nGenerate > 0
    <3>1. CASE call' = [call EXCEPT ![c] = s]
      BY <2>1, <2>2, <3>1, Zenon
    <3>2. CASE Return(c, "done", left, call[c].nGenerate)
      <4>1. \E r \in CallStates : call' = [call EXCEPT ![c] = r] /\ r.pc = "done"
        BY <1>3, <2>1, <3>2
      <4> QED BY <4>1, Zenon
    <3>3. CASE Return(c, "generate", left, call[c].nGenerate)
      <4>1. \E r \in CallStates : call' = [call EXCEPT ![c] = r] /\ r.pc = "generate"
        BY <1>3, <2>1, <3>3
      <4> QED BY <4>1, Zenon
    <3> QED BY <2>3, <3>1, <3>2, <3>3
  <2>5. PICK r \in CallStates : /\ call' = [call EXCEPT ![c] = r]
                                /\ r.pc \in {"generate", "done", "submit"}
                                /\ r.pc = "submit" => r.nGenerate > 0
    BY <2>4, Zenon
  <2>6. /\ call[c].pc = "join" /\ Joined(c)
        /\ UNCHANGED <<tip, m_interrupt, g_mining_context_mutex, context, datasets, worker>>
    BY <1>8 DEF Join
  <2>7. /\ r.pc \notin {"allocate", "fill", "start", "join"}
        /\ r.pc = "context" => r.keyBlockHash \in Nat
        /\ r.pc \notin {"generate", "done"} => r.nGenerate > 0
    BY <2>5
  <2>8. /\ tip' \in Nat /\ m_interrupt' \in BOOLEAN
        /\ g_mining_context_mutex' = IF call[c].pc \in {"allocate", "fill"} THEN NoCall
                                     ELSE g_mining_context_mutex
    BY <1>1, <2>6
  <2> QED BY <2>5, <2>6, <2>7, <2>8, LocalStep, Zenon
<1> QED BY <1>4, <1>5, <1>6, <1>7, <1>8

----------------------------------------------------------------------------

(* The datasets new differ from the present ones in their owners only, and *)
(* of these only holder may have come or gone.                             *)
SameData(new, holder) ==
    /\ new \in Seq(Datasets) /\ Len(new) = Len(datasets)
    /\ \A d \in 1 .. Len(datasets) :
           /\ new[d].key = datasets[d].key /\ new[d].epoch = datasets[d].epoch
           /\ new[d].items = datasets[d].items
           /\ \A h : h # holder => (h \in new[d].refs <=> h \in datasets[d].refs)

(* Copies and destructions of shared_ptr.                                  *)
LEMMA RefsChange ==
    ASSUME TypeOK, NEW d \in 1 .. Len(datasets), NEW holder \in Workers \cup {Context}
    PROVE  /\ SameData(Drop(holder, d), holder)
           /\ SameData([datasets EXCEPT ![d].refs = @ \cup {holder}], holder)
           /\ [datasets EXCEPT ![d].refs = @ \cup {holder}][d].refs = datasets[d].refs \cup {holder}
<1>1. /\ \A e \in 1 .. Len(datasets) : datasets[e] \in Datasets
      /\ Len(datasets) \in Nat /\ DOMAIN datasets = 1 .. Len(datasets) /\ datasets \in Seq(Datasets)
  BY Types DEF TypeOK
<1>2. ASSUME NEW r \in SUBSET (Workers \cup {Context}),
             \A h : h # holder => (h \in r <=> h \in datasets[d].refs)
      PROVE  /\ SameData([datasets EXCEPT ![d].refs = r], holder)
             /\ [datasets EXCEPT ![d].refs = r][d].refs = r
  <2> DEFINE x == [datasets[d] EXCEPT !.refs = r]
             new == [datasets EXCEPT ![d] = x]
  <2>1. /\ x \in Datasets /\ x.refs = r /\ x.key = datasets[d].key /\ x.epoch = datasets[d].epoch
        /\ x.items = datasets[d].items
    BY <1>1 DEF Datasets
  <2>2. new = [datasets EXCEPT ![d].refs = r]
    OBVIOUS
  <2> HIDE DEF x
  <2>3. new \in Seq(Datasets) /\ Len(new) = Len(datasets)
    BY <1>1, <2>1, ExceptSeq
  <2>4. new[d] = x /\ \A e \in 1 .. Len(datasets) : e # d => new[e] = datasets[e]
    BY <1>1
  <2> HIDE DEF new
  <2>5. SameData(new, holder) /\ new[d].refs = r
    BY <1>2, <2>1, <2>3, <2>4 DEF SameData
  <2> QED BY <2>2, <2>5
<1>3. datasets[d].refs \in SUBSET (Workers \cup {Context})
  BY <1>1 DEF Datasets
<1> QED BY <1>2, <1>3, Zenon DEF Drop

(* A thread that takes no step keeps its part of the invariant while the   *)
(* epoch only grows and its dataset stays filled and owned.                *)
LEMMA WorkerKept ==
    ASSUME IInv, NEW w \in Workers, worker'[w] = worker[w],
           worker[w].pc # "done" => /\ call'[w[1]].pc = call[w[1]].pc
                                    /\ call'[w[1]].mining_epoch = call[w[1]].mining_epoch,
           m_dataset_epoch' \in Nat, m_dataset_epoch <= m_dataset_epoch',
           HasVM(w) => /\ datasets'[worker[w].vm].epoch = datasets[worker[w].vm].epoch
                       /\ datasets'[worker[w].vm].items = Items
                       /\ w \in datasets'[worker[w].vm].refs
    PROVE  WorkerOK(w)'
<1>1. CASE worker[w].pc = "done"
  <2>1. worker[w].stale = 0
    BY <1>1 DEF IInv, WorkerOK
  <2> QED BY <1>1, <2>1 DEF WorkerOK, HasVM
<1>2. CASE worker[w].pc # "done"
  <2>1. WorkerOK(w) /\ call[w[1]].pc = "join" /\ w[1] \in Calls
    BY <1>2, Types DEF IInv, WorkerOK
  <2>2. call[w[1]].mining_epoch <= m_dataset_epoch /\ call[w[1]].mining_epoch \in Nat
        /\ m_dataset_epoch \in Nat
    BY <2>1, Types DEF IInv, CallOK, CallStates, TypeOK
  <2>3. (~SameEpoch(w)) => (~SameEpoch(w))'
    BY <1>2, <2>2 DEF SameEpoch
  <2>4. InRange(w)' <=> InRange(w)
    BY DEF InRange, nNonce, end_nonce
  <2> QED BY <1>2, <2>1, <2>3, <2>4 DEF WorkerOK, HasVM
<1> QED BY <1>1, <1>2

(* Another call keeps its part when the datasets it could have left behind *)
(* keep their keys, and the epoch grows when the context gives its own up. *)
LEMMA CallKept ==
    ASSUME IInv, NEW x \in Calls, call'[x].pc = call[x].pc,
           call'[x].keyBlockHash = call[x].keyBlockHash, call'[x].left = call[x].left,
           call'[x].mining_epoch = call[x].mining_epoch, call'[x].nGenerate = call[x].nGenerate,
           x # g_mining_context_mutex, x # g_mining_context_mutex',
           m_dataset_epoch' \in Nat, m_dataset_epoch <= m_dataset_epoch',
           m_dataset' = 0 => m_dataset = 0 \/ m_dataset_epoch < m_dataset_epoch',
           \A d \in 1 .. Len(datasets') :
               \/ /\ d \in 1 .. Len(datasets)
                  /\ datasets'[d].epoch = datasets[d].epoch /\ datasets'[d].key = datasets[d].key
               \/ datasets'[d].epoch = m_dataset_epoch /\ m_dataset = 0
    PROVE  CallOK(x)'
<1>1. call[x].pc \notin {"allocate", "fill"}
  BY DEF IInv, CallOK
<1>2. call[x] \in CallStates /\ m_dataset_epoch \in Nat
  BY Types DEF IInv, TypeOK
<1>3. call[x].left \in Nat /\ call[x].mining_epoch \in Nat
  BY <1>2 DEF CallStates
<1>4. ASSUME call[x].pc \in {"start", "join"}
      PROVE  /\ call[x].left <= m_dataset_epoch'
             /\ m_dataset' = 0 => call[x].left < m_dataset_epoch'
             /\ \A d \in 1 .. Len(datasets') :
                    datasets'[d].epoch = call[x].left => datasets'[d].key = call[x].keyBlockHash
  <2>1. /\ call[x].left <= m_dataset_epoch
        /\ m_dataset = 0 => call[x].left < m_dataset_epoch
        /\ \A d \in 1 .. Len(datasets) :
               datasets[d].epoch = call[x].left => datasets[d].key = call[x].keyBlockHash
    BY <1>4 DEF IInv, CallOK
  <2> QED BY <1>2, <1>3, <2>1
<1>5. call[x].pc = "join" => call[x].mining_epoch <= m_dataset_epoch'
  BY <1>2, <1>3 DEF IInv, CallOK
<1>6. /\ call[x].pc \notin {"generate", "done"} => call[x].nGenerate > 0
      /\ call[x].pc \in {"context", "allocate", "fill", "start", "join"} => call[x].keyBlockHash \in Nat
  BY DEF IInv, CallOK
<1> QED BY <1>1, <1>4, <1>5, <1>6 DEF CallOK

(* The key is that of the context.                                         *)
LEMMA SameKeyStep ==
    ASSUME IInv, NEW c \in Calls, UseContext(c), m_keyBlockHash = call[c].keyBlockHash
    PROVE  IInv'
<1> DEFINE s == [call[c] EXCEPT !.pc = "start", !.left = m_dataset_epoch]
<1>1. /\ call' = [call EXCEPT ![c] = s] /\ call[c].pc = "context" /\ g_mining_context_mutex = NoCall
      /\ UNCHANGED <<tip, m_interrupt, g_mining_context_mutex, context, datasets, worker>>
  BY DEF UseContext, Locked
<1>2. call[c] \in CallStates /\ m_dataset_epoch \in Nat /\ call \in [Calls -> CallStates]
  BY Types DEF IInv, TypeOK
<1>3. call[c].keyBlockHash \in Nat /\ call[c].nGenerate > 0
  BY <1>1 DEF IInv, CallOK
<1>4. /\ s \in CallStates /\ s.pc = "start" /\ s.left = m_dataset_epoch
      /\ s.keyBlockHash = call[c].keyBlockHash /\ s.nGenerate = call[c].nGenerate
  BY <1>2, Zenon DEF CallStates
<1> HIDE DEF s
<1>5. call'[c] = s /\ \A x \in Calls : x # c => call'[x] = call[x]
  BY <1>1, <1>2
<1>6. TypeOK'
  BY <1>1, <1>2, <1>4 DEF IInv, TypeOK, context
<1>7. EpochsOrdered' /\ ContextOK'
  BY <1>1 DEF IInv, EpochsOrdered, ContextOK, context
<1>8. m_initialized /\ m_dataset # 0 /\ datasets[m_dataset].key = call[c].keyBlockHash
  <2>1. m_keyBlockHash # NoKey
    BY <1>3 DEF NoKey
  <2> QED BY <2>1 DEF IInv, ContextOK
<1>9. ASSUME NEW x \in Calls PROVE CallOK(x)'
  <2>1. CASE x = c
    <3>1. \A d \in 1 .. Len(datasets) :
              datasets[d].epoch = m_dataset_epoch => datasets[d].key = call[c].keyBlockHash
      BY <1>8 DEF IInv, EpochsOrdered
    <3>2. g_mining_context_mutex' # c
      BY <1>1, NamesAssumption
    <3> QED BY <1>1, <1>2, <1>3, <1>4, <1>5, <1>8, <2>1, <3>1, <3>2 DEF CallOK, context
  <2>2. CASE x # c
    <3>1. x # g_mining_context_mutex
      BY <1>1, NamesAssumption
    <3> QED BY <1>1, <1>2, <1>5, <2>2, <3>1, CallKept DEF context
  <2> QED BY <2>1, <2>2
<1>10. ASSUME NEW w \in Workers PROVE WorkerOK(w)'
  <2>1. worker[w].pc # "done" => w[1] # c
    BY <1>1 DEF IInv, WorkerOK
  <2>2. w[1] \in Calls
    BY Types DEF IInv
  <2>3. HasVM(w) => /\ datasets[worker[w].vm].items = Items /\ w \in datasets[worker[w].vm].refs
    BY DEF IInv, WorkerOK
  <2> QED BY <1>1, <1>2, <1>5, <2>1, <2>2, <2>3, WorkerKept DEF context
<1> QED BY <1>6, <1>7, <1>9, <1>10 DEF IInv

(* The key is another: Initialize begins with Cleanup.                     *)
LEMMA CleanupStep ==
    ASSUME IInv, NEW c \in Calls, UseContext(c), m_keyBlockHash # call[c].keyBlockHash
    PROVE  IInv'
<1> DEFINE s == [call[c] EXCEPT !.pc = "allocate"]
<1>1. /\ call' = [call EXCEPT ![c] = s] /\ call[c].pc = "context" /\ g_mining_context_mutex = NoCall
      /\ g_mining_context_mutex' = c /\ Cleanup /\ UNCHANGED <<tip, m_interrupt, worker>>
  BY DEF UseContext, Locked, Goto
<1>2. call[c] \in CallStates /\ m_dataset_epoch \in Nat /\ call \in [Calls -> CallStates]
      /\ m_dataset \in 0 .. Len(datasets) /\ Len(datasets) \in Nat
  BY Types DEF IInv, TypeOK
<1>3. call[c].keyBlockHash \in Nat /\ call[c].nGenerate > 0
  BY <1>1 DEF IInv, CallOK
<1>4. /\ s \in CallStates /\ s.pc = "allocate"
      /\ s.keyBlockHash = call[c].keyBlockHash /\ s.nGenerate = call[c].nGenerate
  BY <1>2, Zenon DEF CallStates
<1> HIDE DEF s
<1>5. call'[c] = s /\ \A x \in Calls : x # c => call'[x] = call[x]
  BY <1>1, <1>2
<1>6. SameData(datasets', Context)
  <2>1. CASE m_dataset = 0
    BY <1>1, <2>1 DEF Cleanup, SameData, IInv, TypeOK
  <2>2. CASE m_dataset # 0
    <3>1. m_dataset \in 1 .. Len(datasets)
      BY <1>2, <2>2
    <3> QED BY <1>1, <2>2, <3>1, RefsChange, Zenon DEF Cleanup, IInv
  <2> QED BY <2>1, <2>2
<1>7. /\ m_dataset' = 0 /\ ~m_initialized' /\ m_keyBlockHash' = NoKey
      /\ m_dataset_epoch' \in Nat /\ m_dataset_epoch <= m_dataset_epoch'
      /\ m_dataset = 0 \/ m_dataset_epoch < m_dataset_epoch'
      /\ m_dataset = 0 => m_dataset_epoch' = m_dataset_epoch
  <2>1. /\ m_dataset' = 0 /\ m_initialized' = FALSE /\ m_keyBlockHash' = NoKey
        /\ m_dataset_epoch' = IF m_dataset = 0 THEN m_dataset_epoch ELSE m_dataset_epoch + 1
    BY <1>1 DEF Cleanup
  <2> QED BY <1>2, <2>1
<1>8. TypeOK'
  <2>1. m_initialized' \in BOOLEAN
    BY <1>1, Zenon DEF Cleanup
  <2>2. call' \in [Calls -> CallStates]
    BY <1>1, <1>2, <1>4
  <2> QED BY <1>1, <1>2, <1>6, <1>7, <2>1, <2>2 DEF IInv, TypeOK, SameData, Keys
<1>9. EpochsOrdered'
  <2>1. \A d \in 1 .. Len(datasets) : /\ datasets[d].epoch \in Nat
                                     /\ datasets'[d].epoch = datasets[d].epoch
    BY <1>6, Types DEF SameData, IInv, Datasets
  <2>2. \A d \in 1 .. Len(datasets) : datasets[d].epoch < m_dataset_epoch'
    BY <1>2, <1>7, <2>1 DEF IInv, EpochsOrdered
  <2> QED BY <1>6, <1>7, <2>1, <2>2 DEF IInv, EpochsOrdered, SameData
<1>10. ContextOK'
  BY <1>7 DEF ContextOK
<1>11. ASSUME NEW x \in Calls PROVE CallOK(x)'
  <2>1. CASE x = c
    BY <1>1, <1>3, <1>4, <1>5, <1>7, <2>1 DEF CallOK
  <2>2. CASE x # c
    <3>1. x # g_mining_context_mutex /\ x # g_mining_context_mutex'
      BY <1>1, <2>2, NamesAssumption
    <3> QED BY <1>5, <1>6, <1>7, <2>2, <3>1, CallKept DEF SameData
  <2> QED BY <2>1, <2>2
<1>12. ASSUME NEW w \in Workers PROVE WorkerOK(w)'
  <2>1. worker[w].pc # "done" => w[1] # c
    BY <1>1 DEF IInv, WorkerOK
  <2>2. w[1] \in Calls /\ w # Context /\ worker[w].vm \in Nat /\ worker[w].vm <= Len(datasets)
    BY Types, NamesAssumption, Zenon DEF IInv, TypeOK, WorkerStates
  <2>3. HasVM(w) => /\ datasets[worker[w].vm].items = Items /\ w \in datasets[worker[w].vm].refs
                    /\ worker[w].vm \in 1 .. Len(datasets)
    BY <1>2, <2>2 DEF IInv, WorkerOK
  <2>4. HasVM(w) => /\ datasets'[worker[w].vm].epoch = datasets[worker[w].vm].epoch
                    /\ datasets'[worker[w].vm].items = Items
                    /\ w \in datasets'[worker[w].vm].refs
    BY <1>6, <2>2, <2>3 DEF SameData
  <2> QED BY <1>1, <1>5, <1>7, <2>1, <2>2, <2>4, WorkerKept
<1> QED BY <1>8, <1>9, <1>10, <1>11, <1>12 DEF IInv

(* A new dataset, the first of its epoch.                                  *)
LEMMA AllocateStep ==
    ASSUME IInv, NEW c \in Calls, Allocate(c)
    PROVE  IInv'
<1> DEFINE s == [call[c] EXCEPT !.pc = "fill"]
           new == [key |-> call[c].keyBlockHash, epoch |-> m_dataset_epoch,
                   items |-> {}, refs |-> {Context}]
           n == Len(datasets) + 1
<1>1. /\ call' = [call EXCEPT ![c] = s] /\ call[c].pc = "allocate"
      /\ datasets' = Append(datasets, new) /\ m_dataset' = n
      /\ UNCHANGED <<tip, m_interrupt, g_mining_context_mutex, m_keyBlockHash, m_initialized,
                     m_dataset_epoch, worker>>
  BY DEF Allocate, Goto
<1>2. call[c] \in CallStates /\ m_dataset_epoch \in Nat /\ call \in [Calls -> CallStates]
      /\ Len(datasets) \in Nat /\ datasets \in Seq(Datasets)
  BY Types DEF IInv, TypeOK
<1>3. /\ call[c].keyBlockHash \in Nat /\ call[c].nGenerate > 0
      /\ g_mining_context_mutex = c /\ m_dataset = 0 /\ ~m_initialized
  BY <1>1 DEF IInv, CallOK
<1>4. /\ s \in CallStates /\ s.pc = "fill"
      /\ s.keyBlockHash = call[c].keyBlockHash /\ s.nGenerate = call[c].nGenerate
  BY <1>2, Zenon DEF CallStates
<1>5. /\ new \in Datasets /\ new.key = call[c].keyBlockHash /\ new.epoch = m_dataset_epoch
      /\ Context \in new.refs
  BY <1>2, <1>3 DEF Datasets, Keys
<1> HIDE DEF s, new
<1>6. call'[c] = s /\ \A x \in Calls : x # c => call'[x] = call[x]
  BY <1>1, <1>2
<1>7. /\ datasets' \in Seq(Datasets) /\ Len(datasets') = n /\ datasets'[n] = new
      /\ \A d \in 1 .. Len(datasets) : datasets'[d] = datasets[d]
  BY <1>1, <1>2, <1>5, AppendProperties
<1>8. TypeOK'
  <2>1. call' \in [Calls -> CallStates]
    BY <1>1, <1>2, <1>4
  <2>2. \A w \in Workers : worker[w].vm <= n
    <3> TAKE w \in Workers
    <3>1. worker[w].vm \in Nat /\ worker[w].vm <= Len(datasets)
      BY Types DEF IInv, TypeOK, WorkerStates
    <3> QED BY <1>2, <3>1
  <2>3. n \in 0 .. n
    BY <1>2
  <2> QED BY <1>1, <1>7, <2>1, <2>2, <2>3 DEF IInv, TypeOK
<1>9. \A d \in 1 .. Len(datasets) : datasets[d].epoch \in Nat /\ datasets[d].epoch < m_dataset_epoch
  <2> TAKE d \in 1 .. Len(datasets)
  <2>1. datasets[d].epoch \in Nat
    BY Types DEF IInv, Datasets
  <2>2. datasets[d].epoch <= m_dataset_epoch /\ datasets[d].epoch # m_dataset_epoch
    BY <1>2, <1>3 DEF IInv, EpochsOrdered
  <2> QED BY <1>2, <2>1, <2>2
<1>10. \A d \in 1 .. n : d \in 1 .. Len(datasets) \/ d = n
  BY <1>2
<1>11. EpochsOrdered'
  <2>1. \A d \in 1 .. n : /\ datasets'[d].epoch <= m_dataset_epoch
                          /\ datasets'[d].epoch = m_dataset_epoch => d = n
    BY <1>2, <1>5, <1>7, <1>9, <1>10
  <2>2. \A d, e \in 1 .. n : datasets'[d].epoch = datasets'[e].epoch => d = e
    <3> TAKE d, e \in 1 .. n
    <3>1. CASE d = n \/ e = n
      BY <1>5, <1>7, <2>1, <3>1
    <3>2. CASE d # n /\ e # n
      BY <1>7, <1>10, <3>2 DEF IInv, EpochsOrdered
    <3> QED BY <3>1, <3>2
  <2> QED BY <1>1, <1>7, <2>1, <2>2 DEF EpochsOrdered
<1>12. ContextOK'
  BY <1>1, <1>3, <1>5, <1>7 DEF IInv, ContextOK
<1>13. ASSUME NEW x \in Calls PROVE CallOK(x)'
  <2>1. CASE x = c
    <3>1. n # 0
      BY <1>2
    <3> QED BY <1>1, <1>3, <1>4, <1>5, <1>6, <1>7, <2>1, <3>1 DEF CallOK
  <2>2. CASE x # c
    <3>1. x # g_mining_context_mutex /\ x # g_mining_context_mutex'
      BY <1>1, <1>3, <2>2
    <3>2. m_dataset' # 0
      BY <1>1, <1>2
    <3>3. \A d \in 1 .. Len(datasets') :
              \/ /\ d \in 1 .. Len(datasets)
                 /\ datasets'[d].epoch = datasets[d].epoch /\ datasets'[d].key = datasets[d].key
              \/ datasets'[d].epoch = m_dataset_epoch /\ m_dataset = 0
      BY <1>3, <1>5, <1>7, <1>10
    <3>4. m_dataset_epoch' \in Nat /\ m_dataset_epoch <= m_dataset_epoch'
      BY <1>1, <1>2
    <3> QED BY <1>6, <2>2, <3>1, <3>2, <3>3, <3>4, CallKept
  <2> QED BY <2>1, <2>2
<1>14. ASSUME NEW w \in Workers PROVE WorkerOK(w)'
  <2>1. worker[w].pc # "done" => w[1] # c
    BY <1>1 DEF IInv, WorkerOK
  <2>2. w[1] \in Calls /\ worker[w].vm \in Nat /\ worker[w].vm <= Len(datasets)
    BY Types, Zenon DEF IInv, TypeOK, WorkerStates
  <2>3. HasVM(w) => /\ datasets[worker[w].vm].items = Items /\ w \in datasets[worker[w].vm].refs
                    /\ worker[w].vm \in 1 .. Len(datasets)
    BY <1>2, <2>2 DEF IInv, WorkerOK
  <2>4. m_dataset_epoch' \in Nat /\ m_dataset_epoch <= m_dataset_epoch'
    BY <1>1, <1>2
  <2> QED BY <1>1, <1>6, <1>7, <2>1, <2>2, <2>3, <2>4, WorkerKept
<1> QED BY <1>8, <1>11, <1>12, <1>13, <1>14 DEF IInv

(* The dataset is filled and published.                                    *)
LEMMA FillStep ==
    ASSUME IInv, NEW c \in Calls, Fill(c)
    PROVE  IInv'
<1> DEFINE s == [call[c] EXCEPT !.pc = "start", !.left = m_dataset_epoch]
           new == [datasets[m_dataset] EXCEPT !.items = Items]
<1>1. /\ call' = [call EXCEPT ![c] = s] /\ call[c].pc = "fill"
      /\ datasets' = [datasets EXCEPT ![m_dataset] = new]
      /\ m_keyBlockHash' = call[c].keyBlockHash /\ m_initialized' = TRUE
      /\ g_mining_context_mutex' = NoCall
      /\ UNCHANGED <<tip, m_interrupt, m_dataset, m_dataset_epoch, worker>>
  BY RangesCover, Zenon DEF Fill
<1>2. call[c] \in CallStates /\ m_dataset_epoch \in Nat /\ call \in [Calls -> CallStates]
      /\ Len(datasets) \in Nat /\ datasets \in Seq(Datasets)
  BY Types DEF IInv, TypeOK
<1>3. /\ call[c].keyBlockHash \in Nat /\ call[c].nGenerate > 0
      /\ g_mining_context_mutex = c /\ m_dataset # 0
      /\ datasets[m_dataset].key = call[c].keyBlockHash
  BY <1>1 DEF IInv, CallOK
<1>4. m_dataset \in 1 .. Len(datasets)
  BY <1>2, <1>3 DEF IInv, TypeOK
<1>5. /\ s \in CallStates /\ s.pc = "start" /\ s.left = m_dataset_epoch
      /\ s.keyBlockHash = call[c].keyBlockHash /\ s.nGenerate = call[c].nGenerate
  BY <1>2, Zenon DEF CallStates
<1>6. /\ new \in Datasets /\ new.items = Items /\ new.key = datasets[m_dataset].key
      /\ new.epoch = datasets[m_dataset].epoch /\ new.refs = datasets[m_dataset].refs
  BY <1>4, Types DEF IInv, Datasets
<1> HIDE DEF s, new
<1>7. call'[c] = s /\ \A x \in Calls : x # c => call'[x] = call[x]
  BY <1>1, <1>2
<1>8. datasets' \in Seq(Datasets) /\ Len(datasets') = Len(datasets)
  BY <1>1, <1>2, <1>4, <1>6, ExceptSeq
<1>9. \A d \in 1 .. Len(datasets) :
          /\ datasets'[d].key = datasets[d].key /\ datasets'[d].epoch = datasets[d].epoch
          /\ datasets'[d].refs = datasets[d].refs
          /\ datasets'[d].items = IF d = m_dataset THEN Items ELSE datasets[d].items
  <2>1. DOMAIN datasets = 1 .. Len(datasets)
    BY Types DEF IInv
  <2> QED BY <1>1, <1>4, <1>6, <2>1
<1>10. TypeOK'
  <2>1. call' \in [Calls -> CallStates] /\ call[c].keyBlockHash \in Keys
    BY <1>1, <1>2, <1>3, <1>5 DEF Keys
  <2>2. m_initialized' \in BOOLEAN
    BY <1>1
  <2> QED BY <1>1, <1>8, <2>1, <2>2 DEF IInv, TypeOK
<1>11. EpochsOrdered'
  BY <1>1, <1>8, <1>9 DEF IInv, EpochsOrdered
<1>12. ContextOK'
  <2>1. m_initialized'
    BY <1>1
  <2> QED BY <1>1, <1>3, <1>4, <1>9, <2>1 DEF IInv, ContextOK
<1>13. ASSUME NEW x \in Calls PROVE CallOK(x)'
  <2>1. CASE x = c
    <3>1. \A d \in 1 .. Len(datasets) :
              datasets'[d].epoch = m_dataset_epoch => datasets'[d].key = call[c].keyBlockHash
      BY <1>3, <1>9 DEF IInv, EpochsOrdered
    <3>2. g_mining_context_mutex' # c
      BY <1>1, NamesAssumption
    <3> QED BY <1>1, <1>2, <1>3, <1>5, <1>7, <1>8, <2>1, <3>1, <3>2 DEF CallOK
  <2>2. CASE x # c
    <3>1. x # g_mining_context_mutex /\ x # g_mining_context_mutex'
      BY <1>1, <1>3, <2>2, NamesAssumption
    <3> QED BY <1>1, <1>2, <1>3, <1>7, <1>8, <1>9, <2>2, <3>1, CallKept
  <2> QED BY <2>1, <2>2
<1>14. ASSUME NEW w \in Workers PROVE WorkerOK(w)'
  <2>1. worker[w].pc # "done" => w[1] # c
    BY <1>1 DEF IInv, WorkerOK
  <2>2. w[1] \in Calls /\ worker[w].vm \in Nat /\ worker[w].vm <= Len(datasets)
    BY Types DEF IInv, TypeOK, WorkerStates
  <2>3. HasVM(w) => /\ datasets[worker[w].vm].items = Items /\ w \in datasets[worker[w].vm].refs
                    /\ worker[w].vm \in 1 .. Len(datasets)
    BY <1>2, <2>2 DEF IInv, WorkerOK
  <2> QED BY <1>1, <1>2, <1>7, <1>9, <2>1, <2>2, <2>3, WorkerKept
<1> QED BY <1>10, <1>11, <1>12, <1>13, <1>14 DEF IInv

(* The threads of a call start; those of its last round are done.          *)
LEMMA StartStep ==
    ASSUME IInv, NEW c \in Calls, StartThreads(c)
    PROVE  IInv'
<1> DEFINE s == [call[c] EXCEPT !.pc = "join", !.mining_epoch = m_dataset_epoch, !.found = FALSE,
                                !.winning_nonce = 0, !.total_tries = 0, !.solved = {}]
           i == [Idle EXCEPT !.pc = "create"]
<1>1. /\ call' = [call EXCEPT ![c] = s] /\ call[c].pc = "start"
      /\ worker' = [w \in Workers |-> IF w[1] = c THEN i ELSE worker[w]]
      /\ UNCHANGED <<tip, m_interrupt, g_mining_context_mutex, context, datasets>>
  BY DEF StartThreads
<1>2. call[c] \in CallStates /\ m_dataset_epoch \in Nat /\ call \in [Calls -> CallStates]
      /\ Len(datasets) \in Nat
  BY Types DEF IInv, TypeOK
<1>3. /\ s \in CallStates /\ s.pc = "join" /\ s.left = call[c].left
      /\ s.mining_epoch = m_dataset_epoch
      /\ s.keyBlockHash = call[c].keyBlockHash /\ s.nGenerate = call[c].nGenerate
  <2>1. 0 \in Nonces /\ {} \in SUBSET (Nonces \X Keys)
    BY MiningAssumption DEF Nonces
  <2> QED BY <1>2, <2>1, Zenon DEF CallStates
<1>4. i \in WorkerStates /\ i.pc = "create" /\ i.stale = 0 /\ i.vm = 0
  BY DEF Idle, WorkerStates
<1> HIDE DEF s, i
<1>5. call'[c] = s /\ \A x \in Calls : x # c => call'[x] = call[x]
  BY <1>1, <1>2
<1>6. TypeOK'
  <2>1. call' \in [Calls -> CallStates] /\ worker' \in [Workers -> WorkerStates]
    BY <1>1, <1>2, <1>3, <1>4 DEF IInv, TypeOK
  <2>2. \A w \in Workers : worker'[w].vm <= Len(datasets)
    BY <1>1, <1>2, <1>4 DEF IInv, TypeOK
  <2> QED BY <1>1, <2>1, <2>2 DEF IInv, TypeOK, context
<1>7. EpochsOrdered' /\ ContextOK'
  BY <1>1 DEF IInv, EpochsOrdered, ContextOK, context
<1>8. ASSUME NEW x \in Calls PROVE CallOK(x)'
  <2>1. CASE x = c
    BY <1>1, <1>2, <1>3, <1>5, <2>1 DEF IInv, CallOK, context
  <2>2. CASE x # c
    BY <1>1, <1>5, <2>2 DEF IInv, CallOK, context
  <2> QED BY <2>1, <2>2
<1>9. ASSUME NEW w \in Workers PROVE WorkerOK(w)'
  <2>1. CASE w[1] = c
    BY <1>1, <1>3, <1>4, <1>5, <2>1 DEF WorkerOK, HasVM
  <2>2. CASE w[1] # c
    <3>1. w[1] \in Calls
      BY Types DEF IInv
    <3>2. HasVM(w) => /\ datasets[worker[w].vm].items = Items /\ w \in datasets[worker[w].vm].refs
      BY DEF IInv, WorkerOK
    <3> QED BY <1>1, <1>2, <1>5, <2>2, <3>1, <3>2, WorkerKept DEF context
  <2> QED BY <2>1, <2>2, Zenon
<1> QED BY <1>6, <1>7, <1>8, <1>9 DEF IInv

----------------------------------------------------------------------------

(* The fields of a call the invariant speaks of are not changed.           *)
SameCalls ==
    /\ call' \in [Calls -> CallStates]
    /\ \A x \in Calls :
           /\ call'[x].pc = call[x].pc /\ call'[x].keyBlockHash = call[x].keyBlockHash
           /\ call'[x].left = call[x].left /\ call'[x].mining_epoch = call[x].mining_epoch
           /\ call'[x].nGenerate = call[x].nGenerate

(* A step of thread w keeps what the others rely on.                       *)
LEMMA ThreadStep ==
    ASSUME IInv, NEW w \in Workers, NEW v \in WorkerStates,
           worker' = [worker EXCEPT ![w] = v], v.vm <= Len(datasets),
           SameData(datasets', w), SameCalls,
           UNCHANGED <<tip, m_interrupt, g_mining_context_mutex, context>>,
           WorkerOK(w)'
    PROVE  IInv'
<1>1. /\ m_dataset_epoch \in Nat /\ Len(datasets) \in Nat /\ m_dataset \in 0 .. Len(datasets)
      /\ worker \in [Workers -> WorkerStates] /\ w # Context
  BY Types, NamesAssumption DEF IInv, TypeOK
<1>2. worker'[w] = v /\ \A u \in Workers : u # w => worker'[u] = worker[u]
  BY <1>1, Zenon
<1>3. /\ datasets' \in Seq(Datasets) /\ Len(datasets') = Len(datasets)
      /\ \A d \in 1 .. Len(datasets) :
             /\ datasets'[d].key = datasets[d].key /\ datasets'[d].epoch = datasets[d].epoch
             /\ datasets'[d].items = datasets[d].items
             /\ \A h : h # w => (h \in datasets'[d].refs <=> h \in datasets[d].refs)
  BY Zenon DEF SameData
<1>4. TypeOK'
  <2>1. worker' \in [Workers -> WorkerStates]
    BY <1>1, Zenon
  <2>2. \A u \in Workers : worker'[u].vm <= Len(datasets')
    BY <1>2, <1>3 DEF IInv, TypeOK
  <2> QED BY <1>3, <2>1, <2>2 DEF IInv, TypeOK, context, SameCalls
<1>5. EpochsOrdered'
  BY <1>3 DEF IInv, EpochsOrdered, context
<1>6. m_dataset # 0 => m_dataset \in 1 .. Len(datasets)
  BY <1>1
<1>7. ContextOK'
  BY <1>1, <1>3, <1>6, Zenon DEF IInv, ContextOK, context
<1>8. ASSUME NEW x \in Calls PROVE CallOK(x)'
  <2>1. CallOK(x)
    BY Zenon DEF IInv
  <2>2. /\ call'[x].pc = call[x].pc /\ call'[x].keyBlockHash = call[x].keyBlockHash
        /\ call'[x].left = call[x].left /\ call'[x].mining_epoch = call[x].mining_epoch
        /\ call'[x].nGenerate = call[x].nGenerate
    BY Zenon DEF SameCalls
  <2>3. /\ g_mining_context_mutex' = g_mining_context_mutex /\ m_dataset' = m_dataset
        /\ m_initialized' = m_initialized /\ m_dataset_epoch' = m_dataset_epoch
    BY Zenon DEF context
  <2>4. m_dataset # 0 => datasets'[m_dataset].key = datasets[m_dataset].key
    BY <1>3, <1>6, Zenon
  <2>5. \A d \in 1 .. Len(datasets') : /\ datasets'[d].epoch = datasets[d].epoch
                                       /\ datasets'[d].key = datasets[d].key
                                       /\ d \in 1 .. Len(datasets)
    BY <1>3, Zenon
  <2> QED BY <2>1, <2>2, <2>3, <2>4, <2>5, Zenon DEF CallOK
<1>9. ASSUME NEW u \in Workers, u # w PROVE WorkerOK(u)'
  <2>1. u[1] \in Calls /\ worker[u].vm \in Nat /\ worker[u].vm <= Len(datasets)
    BY Types, Zenon DEF IInv, TypeOK, WorkerStates
  <2>2. HasVM(u) => /\ datasets[worker[u].vm].items = Items /\ u \in datasets[worker[u].vm].refs
                    /\ worker[u].vm \in 1 .. Len(datasets)
    <3>1. HasVM(u) => /\ datasets[worker[u].vm].items = Items
                      /\ u \in datasets[worker[u].vm].refs
                      /\ worker[u].vm # 0
      BY Zenon DEF IInv, WorkerOK, HasVM
    <3> QED BY <1>1, <2>1, <3>1
  <2>3. HasVM(u) => /\ datasets'[worker[u].vm].epoch = datasets[worker[u].vm].epoch
                    /\ datasets'[worker[u].vm].items = Items
                    /\ u \in datasets'[worker[u].vm].refs
    BY <1>3, <1>9, <2>2
  <2> QED BY <1>1, <1>2, <1>9, <2>1, <2>3, WorkerKept DEF SameCalls, context
<1>10. \A u \in Workers : WorkerOK(u)'
  <2> TAKE u \in Workers
  <2>1. CASE u = w
    BY <2>1
  <2>2. CASE u # w
    BY <1>9, <2>2
  <2> QED BY <2>1, <2>2
<1> QED BY <1>4, <1>5, <1>7, <1>8, <1>10, Zenon DEF IInv

(* The end of a thread, with or without a VM.                              *)
LEMMA FinishStep ==
    ASSUME IInv, NEW w \in Workers, Finish(w), SameData(datasets', w), SameCalls,
           UNCHANGED <<tip, m_interrupt, g_mining_context_mutex, context>>
    PROVE  IInv'
<1>1. /\ Idle \in WorkerStates /\ Idle.pc = "done" /\ Idle.vm = 0 /\ Idle.stale = 0
      /\ worker' = [worker EXCEPT ![w] = Idle]
  BY DEF Idle, WorkerStates, Finish
<1>2. Len(datasets) \in Nat /\ worker \in [Workers -> WorkerStates]
  BY Types DEF IInv, TypeOK
<1>3. worker'[w] = Idle
  BY <1>1, <1>2
<1>4. WorkerOK(w)'
  BY <1>1, <1>3 DEF WorkerOK, HasVM
<1>5. Idle.vm <= Len(datasets)
  BY <1>1, <1>2
<1> QED BY <1>1, <1>4, <1>5, ThreadStep, Zenon

(* A thread with a VM owns a share of an existing dataset.                 *)
LEMMA OwnDataset ==
    ASSUME IInv, NEW w \in Workers, HasVM(w)
    PROVE  /\ worker[w].vm \in 1 .. Len(datasets)
           /\ SameData(Drop(w, worker[w].vm), w)
           /\ SameData(datasets, w)
<1>1. /\ worker[w].vm \in Nat /\ worker[w].vm <= Len(datasets) /\ Len(datasets) \in Nat
      /\ worker[w].vm # 0 /\ datasets \in Seq(Datasets)
  BY Types DEF IInv, TypeOK, WorkerStates, WorkerOK
<1>2. worker[w].vm \in 1 .. Len(datasets)
  BY <1>1
<1> QED BY <1>1, <1>2, RefsChange, Zenon DEF IInv, SameData

(* Nothing of the calls is changed.                                        *)
LEMMA CallsUnchanged == TypeOK /\ call' = call => SameCalls
BY DEF TypeOK, SameCalls

(* A thread gets its VM, with a share of the dataset, or ends.             *)
LEMMA CreateSteps ==
    ASSUME IInv, NEW w \in Workers, CreateVM(w) \/ NoVM(w)
    PROVE  IInv'
<1>1. /\ worker[w] \in WorkerStates /\ worker \in [Workers -> WorkerStates] /\ TypeOK
      /\ Len(datasets) \in Nat /\ m_dataset \in 0 .. Len(datasets) /\ datasets \in Seq(Datasets)
  BY Types DEF IInv, TypeOK
<1>2. CASE NoVM(w)
  <2>1. /\ Finish(w) /\ datasets' = datasets /\ call' = call
        /\ UNCHANGED <<tip, m_interrupt, g_mining_context_mutex, context>>
    BY <1>2 DEF NoVM
  <2>2. SameData(datasets', w)
    BY <1>1, <2>1 DEF SameData
  <2> QED BY <1>1, <2>1, <2>2, FinishStep, CallsUnchanged
<1>3. CASE CreateVM(w)
  <2> DEFINE v == [worker[w] EXCEPT !.pc = "loop", !.vm = m_dataset]
             new == [datasets EXCEPT ![m_dataset].refs = @ \cup {w}]
  <2>1. /\ worker' = [worker EXCEPT ![w] = v] /\ datasets' = new
        /\ worker[w].pc = "create" /\ SameEpoch(w) /\ m_initialized /\ call' = call
        /\ UNCHANGED <<tip, m_interrupt, g_mining_context_mutex, context>>
    BY <1>3 DEF CreateVM
  <2>2. /\ m_dataset # 0 /\ datasets[m_dataset].items = Items
        /\ datasets[m_dataset].epoch = m_dataset_epoch
    BY <2>1 DEF IInv, ContextOK
  <2>3. m_dataset \in 1 .. Len(datasets)
    BY <1>1, <2>2
  <2>4. SameData(new, w) /\ w \in new[m_dataset].refs
    BY <1>1, <2>3, RefsChange
  <2>5. /\ v \in WorkerStates /\ v.pc = "loop" /\ v.vm = m_dataset /\ v.stale = worker[w].stale
        /\ v.tries = worker[w].tries
    <3>1. m_dataset \in Nat
      BY <1>1
    <3> QED BY <1>1, <3>1, Zenon DEF WorkerStates
  <2>6. worker[w].stale = 0 /\ call[w[1]].pc = "join"
    BY <2>1 DEF IInv, WorkerOK
  <2> HIDE DEF v, new
  <2>7. worker'[w] = v
    BY <1>1, <2>1
  <2>8. new[m_dataset].items = Items /\ new[m_dataset].epoch = m_dataset_epoch
    BY <2>2, <2>3, <2>4 DEF SameData
  <2>9. 0 <= IF v.tries % EPOCH_CHECK_INTERVAL = 0 THEN EPOCH_CHECK_INTERVAL
             ELSE v.tries % EPOCH_CHECK_INTERVAL
    <3>1. v.tries \in Nat /\ EPOCH_CHECK_INTERVAL \in Nat \ {0}
      BY <2>5, MiningAssumption DEF WorkerStates
    <3> DEFINE k == v.tries % EPOCH_CHECK_INTERVAL
    <3>2. k \in 0 .. EPOCH_CHECK_INTERVAL - 1
      BY <3>1, Division
    <3> HIDE DEF k
    <3>3. 0 <= IF k = 0 THEN EPOCH_CHECK_INTERVAL ELSE k
      BY <3>1, <3>2
    <3> QED BY <3>3 DEF k
  <2>10. WorkerOK(w)'
    <3>1. /\ SameEpoch(w)' /\ call'[w[1]].pc = "join"
          /\ datasets'[v.vm].epoch = call'[w[1]].mining_epoch
      BY <2>1, <2>5, <2>6, <2>8 DEF SameEpoch, context
    <3>2. /\ datasets'[v.vm].items = Items /\ w \in datasets'[v.vm].refs /\ v.vm # 0
      BY <2>1, <2>2, <2>4, <2>5, <2>8
    <3> QED BY <2>5, <2>6, <2>7, <2>9, <3>1, <3>2 DEF WorkerOK, HasVM
  <2>11. v.vm <= Len(datasets)
    BY <2>3, <2>5
  <2>12. SameData(datasets', w) /\ SameCalls
    BY <1>1, <2>1, <2>4, CallsUnchanged
  <2> QED BY <2>1, <2>5, <2>10, <2>11, <2>12, ThreadStep, Zenon
<1> QED BY <1>2, <1>3

(* The head of the loop: a thread that goes on with hashes of an old       *)
(* dataset has looked at the epoch since.                                  *)
LEMMA LoopStep ==
    ASSUME IInv, NEW w \in Workers, Loop(w)
    PROVE  IInv'
<1>1. /\ worker[w] \in WorkerStates /\ worker \in [Workers -> WorkerStates] /\ TypeOK
      /\ worker[w].pc = "loop" /\ HasVM(w) /\ WorkerOK(w) /\ call' = call
      /\ UNCHANGED <<tip, m_interrupt, g_mining_context_mutex, context>>
  BY Types DEF IInv, TypeOK, Loop, HasVM
<1>2. SameCalls /\ SameData(datasets, w) /\ SameData(Drop(w, worker[w].vm), w)
  BY <1>1, CallsUnchanged, OwnDataset
<1>3. CASE Finish(w) /\ datasets' = Drop(w, worker[w].vm)
  BY <1>1, <1>2, <1>3, FinishStep
<1>4. CASE KeepMining(w) /\ worker' = [worker EXCEPT ![w].pc = "hash"] /\ datasets' = datasets
  <2> DEFINE v == [worker[w] EXCEPT !.pc = "hash"]
             since == worker[w].tries % EPOCH_CHECK_INTERVAL
  <2>1. worker' = [worker EXCEPT ![w] = v]
    BY <1>4
  <2>2. /\ v \in WorkerStates /\ v.pc = "hash" /\ v.vm = worker[w].vm
        /\ v.stale = worker[w].stale /\ v.tries = worker[w].tries
    BY <1>1 DEF WorkerStates
  <2>3. worker[w].stale <= since
    <3>1. /\ worker[w].stale <= IF since = 0 THEN EPOCH_CHECK_INTERVAL ELSE since
          /\ worker[w].stale # 0 => ~SameEpoch(w)
      BY <1>1 DEF WorkerOK
    <3>2. since = 0 => SameEpoch(w)
      BY <1>4 DEF KeepMining, EpochChecked
    <3>3. since = 0 => worker[w].stale = 0
      BY <3>1, <3>2
    <3> HIDE DEF since
    <3>4. CASE since = 0
      BY <3>3, <3>4
    <3>5. CASE since # 0
      BY <3>1, <3>5
    <3> QED BY <3>4, <3>5
  <2> HIDE DEF v
  <2>4. worker'[w] = v
    BY <1>1, <2>1
  <2>5. InRange(w)'
    BY <1>4, <2>2, <2>4 DEF KeepMining, InRange, nNonce, end_nonce
  <2>6. (SameEpoch(w)' <=> SameEpoch(w))
    BY <1>1 DEF SameEpoch, context
  <2>7. WorkerOK(w)'
    BY <1>1, <1>4, <2>2, <2>3, <2>4, <2>5, <2>6 DEF WorkerOK, HasVM
  <2>8. v.vm <= Len(datasets)
    BY <1>1, <2>2 DEF TypeOK
  <2> QED BY <1>1, <1>2, <1>4, <2>1, <2>2, <2>7, <2>8, ThreadStep, Zenon
<1> QED BY <1>3, <1>4 DEF Loop

(* A hash that misses counts one more stale try at most.                   *)
LEMMA MissStep ==
    ASSUME IInv, NEW w \in Workers, Miss(w)
    PROVE  IInv'
<1> DEFINE v == [worker[w] EXCEPT !.pc = "loop", !.tries = @ + 1, !.stale = Staleness(w)]
           s == [call[w[1]] EXCEPT !.total_tries = @ + 1]
<1>1. /\ worker[w] \in WorkerStates /\ worker \in [Workers -> WorkerStates] /\ TypeOK
      /\ call \in [Calls -> CallStates] /\ w[1] \in Calls /\ call[w[1]] \in CallStates
      /\ worker[w].pc = "hash" /\ HasVM(w) /\ WorkerOK(w) /\ datasets' = datasets
      /\ worker' = [worker EXCEPT ![w] = v] /\ call' = [call EXCEPT ![w[1]] = s]
      /\ UNCHANGED <<tip, m_interrupt, g_mining_context_mutex, context>>
  <2>1. worker' = [worker EXCEPT ![w] = v]
    BY DEF Miss
  <2>2. call' = [call EXCEPT ![w[1]] = s]
    BY DEF Miss
  <2>3. /\ worker[w].pc = "hash" /\ HasVM(w) /\ datasets' = datasets
        /\ UNCHANGED <<tip, m_interrupt, g_mining_context_mutex, context>>
    BY DEF Miss, HasVM
  <2> HIDE DEF v, s
  <2> QED BY <2>1, <2>2, <2>3, Types DEF IInv, TypeOK
<1>2. SameData(datasets', w)
  BY <1>1, OwnDataset
<1>3. /\ s \in CallStates /\ s.pc = call[w[1]].pc /\ s.keyBlockHash = call[w[1]].keyBlockHash
      /\ s.left = call[w[1]].left /\ s.mining_epoch = call[w[1]].mining_epoch
      /\ s.nGenerate = call[w[1]].nGenerate
  BY <1>1 DEF CallStates
<1>4. /\ worker[w].stale \in Nat /\ worker[w].tries \in Nat
      /\ worker[w].stale <= worker[w].tries % EPOCH_CHECK_INTERVAL
  BY <1>1 DEF WorkerOK, WorkerStates
<1>5. /\ Staleness(w) \in Nat /\ Staleness(w) <= worker[w].stale + 1
      /\ Staleness(w) # 0 => ~SameEpoch(w)
  BY <1>1, <1>4 DEF Staleness, WorkerOK
<1>6. /\ v \in WorkerStates /\ v.pc = "loop" /\ v.vm = worker[w].vm
      /\ v.tries = worker[w].tries + 1 /\ v.stale = Staleness(w)
  <2>1. worker[w] \in WorkerStates
    BY <1>1
  <2> DEFINE t == worker[w].tries + 1
             b == Staleness(w)
  <2>2. t \in Nat /\ b \in Nat
    BY <1>4, <1>5
  <2>3. v = [worker[w] EXCEPT !.pc = "loop", !.tries = t, !.stale = b]
    OBVIOUS
  <2> HIDE DEF t, b, v
  <2>4. /\ v \in WorkerStates /\ v.pc = "loop" /\ v.vm = worker[w].vm
        /\ v.tries = t /\ v.stale = b
    BY <2>1, <2>2, <2>3, Zenon DEF WorkerStates
  <2> QED BY <2>4 DEF t, b
<1> HIDE DEF v, s
<1>7. call'[w[1]] = s /\ worker'[w] = v /\ \A x \in Calls : x # w[1] => call'[x] = call[x]
  BY <1>1
<1>8. SameCalls
  BY <1>1, <1>3, <1>7 DEF SameCalls
<1>9. v.stale <= IF v.tries % EPOCH_CHECK_INTERVAL = 0 THEN EPOCH_CHECK_INTERVAL
                 ELSE v.tries % EPOCH_CHECK_INTERVAL
  <2> DEFINE b == IF v.tries % EPOCH_CHECK_INTERVAL = 0 THEN EPOCH_CHECK_INTERVAL
                  ELSE v.tries % EPOCH_CHECK_INTERVAL
  <2>1. worker[w].stale + 1 <= b
    BY <1>4, <1>6, NextTry
  <2>2. b \in Nat
    <3>1. v.tries \in Nat /\ EPOCH_CHECK_INTERVAL \in Nat \ {0}
      BY <1>6, MiningAssumption DEF WorkerStates
    <3>2. v.tries % EPOCH_CHECK_INTERVAL \in Nat
      BY <3>1, Division
    <3> QED BY <3>1, <3>2
  <2> HIDE DEF b
  <2>3. v.stale <= b
    BY <1>4, <1>5, <1>6, <2>1, <2>2
  <2> QED BY <2>3 DEF b
<1>10. (SameEpoch(w)' <=> SameEpoch(w))
  BY <1>1, <1>3, <1>7 DEF SameEpoch, context
<1>11. WorkerOK(w)'
  BY <1>1, <1>3, <1>5, <1>6, <1>7, <1>9, <1>10, Zenon DEF WorkerOK, HasVM
<1>12. v.vm <= Len(datasets)
  BY <1>1, <1>6 DEF TypeOK
<1> QED BY <1>1, <1>2, <1>6, <1>8, <1>11, <1>12, ThreadStep, Zenon

(* A hash that meets the target, and the nonce the first finder reports.   *)
LEMMA WinSteps ==
    ASSUME IInv, NEW w \in Workers, Hit(w) \/ Store(w)
    PROVE  IInv'
<1> DEFINE d == worker[w].vm
<1>1. /\ worker[w] \in WorkerStates /\ worker \in [Workers -> WorkerStates] /\ TypeOK
      /\ call \in [Calls -> CallStates] /\ w[1] \in Calls /\ call[w[1]] \in CallStates
      /\ worker[w].pc \in {"hash", "store"} /\ HasVM(w) /\ WorkerOK(w)
      /\ UNCHANGED <<tip, m_interrupt, g_mining_context_mutex, context>>
  BY Types DEF IInv, TypeOK, Hit, Store, HasVM
<1>2. d \in 1 .. Len(datasets) /\ SameData(datasets, w) /\ SameData(Drop(w, d), w)
  BY <1>1, OwnDataset, Zenon
<1>3. nNonce(w) \in Nonces
  BY <1>1, NonceInRange DEF WorkerOK
<1>4. ASSUME NEW s \in CallStates, call' = [call EXCEPT ![w[1]] = s],
             s.pc = call[w[1]].pc, s.keyBlockHash = call[w[1]].keyBlockHash,
             s.left = call[w[1]].left, s.mining_epoch = call[w[1]].mining_epoch,
             s.nGenerate = call[w[1]].nGenerate
      PROVE  SameCalls
  BY <1>1, <1>4 DEF SameCalls
<1>5. CASE Store(w)
  <2> DEFINE s == [call[w[1]] EXCEPT !.winning_nonce = nNonce(w)]
  <2>1. /\ s \in CallStates /\ s.pc = call[w[1]].pc /\ s.keyBlockHash = call[w[1]].keyBlockHash
        /\ s.left = call[w[1]].left /\ s.mining_epoch = call[w[1]].mining_epoch
        /\ s.nGenerate = call[w[1]].nGenerate
    BY <1>1, <1>3 DEF CallStates
  <2>2. call' = [call EXCEPT ![w[1]] = s] /\ Finish(w) /\ datasets' = Drop(w, d)
    BY <1>5 DEF Store
  <2> HIDE DEF s
  <2>3. SameCalls
    BY <1>4, <2>1, <2>2, Zenon
  <2> QED BY <1>1, <1>2, <2>2, <2>3, FinishStep
<1>6. CASE Hit(w)
  <2> DEFINE solution == <<nNonce(w), datasets[d].key>>
             s == [call[w[1]] EXCEPT !.found = TRUE, !.solved = @ \cup {solution},
                                     !.total_tries = UncountedWin(w)]
  <2>1. solution \in Nonces \X Keys
    BY <1>1, <1>2, <1>3, Types DEF Datasets
  <2> HIDE DEF solution
  <2>2. /\ s \in CallStates /\ s.pc = call[w[1]].pc /\ s.keyBlockHash = call[w[1]].keyBlockHash
        /\ s.left = call[w[1]].left /\ s.mining_epoch = call[w[1]].mining_epoch
        /\ s.nGenerate = call[w[1]].nGenerate
    <3>1. call[w[1]] \in CallStates
      BY <1>1
    <3> DEFINE all == call[w[1]].solved \cup {solution}
               t == UncountedWin(w)
    <3>2. all \in SUBSET (Nonces \X Keys) /\ t \in Nat
      BY <2>1, <3>1 DEF CallStates, UncountedWin
    <3>3. s = [call[w[1]] EXCEPT !.found = TRUE, !.solved = all, !.total_tries = t]
      OBVIOUS
    <3> HIDE DEF all, t, s
    <3> QED BY <3>1, <3>2, <3>3, Zenon DEF CallStates
  <2>3. call' = [call EXCEPT ![w[1]] = s]
    BY <1>6 DEF Hit, solution
  <2> HIDE DEF s
  <2>4. SameCalls
    BY <1>4, <2>2, <2>3, Zenon
  <2>5. CASE Finish(w) /\ datasets' = Drop(w, d)
    BY <1>1, <1>2, <2>4, <2>5, FinishStep
  <2> DEFINE v == [worker[w] EXCEPT !.pc = "store", !.stale = Staleness(w)]
  <2>6. CASE worker' = [worker EXCEPT ![w] = v] /\ datasets' = datasets
    <3>1. worker[w].pc = "hash"
      BY <1>6, Zenon DEF Hit
    <3>2. /\ worker[w].stale \in Nat /\ worker[w].tries \in Nat
          /\ worker[w].stale <= worker[w].tries % EPOCH_CHECK_INTERVAL /\ InRange(w)
      BY <1>1, <3>1, Zenon DEF WorkerOK, WorkerStates
    <3>3. Staleness(w) \in Nat /\ Staleness(w) <= EPOCH_CHECK_INTERVAL
          /\ (Staleness(w) # 0 => ~SameEpoch(w))
      <4> DEFINE k == worker[w].tries % EPOCH_CHECK_INTERVAL
      <4>1. EPOCH_CHECK_INTERVAL \in Nat \ {0}
        BY MiningAssumption
      <4>2. k \in 0 .. EPOCH_CHECK_INTERVAL - 1 /\ worker[w].stale <= k
        BY <3>2, <4>1, Division, Zenon
      <4> HIDE DEF k
      <4> QED BY <1>1, <3>2, <4>1, <4>2 DEF Staleness, WorkerOK
    <3>4. /\ v \in WorkerStates /\ v.pc = "store" /\ v.vm = d /\ v.tries = worker[w].tries
          /\ v.stale = Staleness(w)
      BY <1>1, <3>3, Zenon DEF WorkerStates
    <3> HIDE DEF v
    <3>5. worker'[w] = v /\ call'[w[1]] = s
      BY <1>1, <2>3, <2>6, Zenon
    <3>6. (SameEpoch(w)' <=> SameEpoch(w)) /\ InRange(w)'
      BY <1>1, <2>2, <3>2, <3>4, <3>5 DEF SameEpoch, context, InRange, nNonce, end_nonce
    <3>7. WorkerOK(w)'
      BY <1>1, <2>2, <2>6, <3>3, <3>4, <3>5, <3>6, Zenon DEF WorkerOK, HasVM
    <3>8. v.vm <= Len(datasets)
      BY <1>2, <3>4
    <3> QED BY <1>1, <1>2, <2>4, <2>6, <3>4, <3>7, <3>8, ThreadStep, Zenon
  <2> QED BY <1>6, <2>5, <2>6, Zenon DEF Hit
<1> QED BY <1>5, <1>6

(* A new block and the shutdown change nothing the invariant speaks of.    *)
LEMMA Environment == IInv /\ (BlockConnected \/ Interrupt) => IInv'
<1> SUFFICES ASSUME IInv, BlockConnected \/ Interrupt PROVE IInv'
  OBVIOUS
<1>1. /\ UNCHANGED <<g_mining_context_mutex, context, datasets, call, worker>>
      /\ tip' \in Nat
  BY DEF IInv, TypeOK, BlockConnected, Interrupt
<1>2. m_interrupt' \in BOOLEAN
  BY Zenon DEF IInv, TypeOK, BlockConnected, Interrupt
<1>3. TypeOK'
  BY <1>1, <1>2 DEF IInv, TypeOK, context
<1>4. EpochsOrdered' /\ ContextOK'
  BY <1>1 DEF IInv, EpochsOrdered, ContextOK, context
<1>5. \A c \in Calls : CallOK(c)'
  BY <1>1, Zenon DEF IInv, CallOK, context
<1>6. \A w \in Workers : WorkerOK(w)'
  BY <1>1 DEF IInv, WorkerOK, context, HasVM, SameEpoch, InRange, nNonce, end_nonce
<1> QED BY <1>3, <1>4, <1>5, <1>6 DEF IInv

LEMMA Inductive == IInv /\ [Next]_vars => IInv'
<1> SUFFICES ASSUME IInv, [Next]_vars PROVE IInv'
  OBVIOUS
<1>1. CASE \E c \in Calls : CallStep(c)
  <2> PICK c \in Calls : CallStep(c)
    BY <1>1
  <2>1. CASE UseContext(c)
    BY <2>1, SameKeyStep, CleanupStep
  <2> QED BY <2>1, LocalSteps, AllocateStep, FillStep, StartStep DEF CallStep
<1>2. CASE \E w \in Workers : WorkerStep(w)
  <2> PICK w \in Workers : WorkerStep(w)
    BY <1>2
  <2> QED BY CreateSteps, LoopStep, MissStep, WinSteps DEF WorkerStep
<1>3. CASE BlockConnected \/ Interrupt
  BY <1>3, Environment
<1>4. CASE UNCHANGED vars
  <2>1. UNCHANGED <<tip, m_interrupt, g_mining_context_mutex, context, datasets, call, worker>>
    BY <1>4 DEF vars, context
  <2>2. TypeOK'
    BY <2>1, Zenon DEF IInv, TypeOK, context
  <2>3. EpochsOrdered' /\ ContextOK'
    BY <2>1 DEF IInv, EpochsOrdered, ContextOK, context
  <2>4. \A c \in Calls : CallOK(c)'
    BY <2>1, Zenon DEF IInv, CallOK, context
  <2>5. \A w \in Workers : WorkerOK(w)'
    BY <2>1 DEF IInv, WorkerOK, context, HasVM, SameEpoch, InRange, nNonce, end_nonce
  <2> QED BY <2>2, <2>3, <2>4, <2>5 DEF IInv
<1> QED BY <1>1, <1>2, <1>3, <1>4 DEF Next

----------------------------------------------------------------------------

(* The epochs order the datasets, the context owns the one of the current  *)
(* epoch, and a call and its threads hold what they hold of it.            *)
THEOREM Invariant == Spec => []IInv
<1> QED BY InitIInv, Inductive, PTL DEF Spec

(* The records of the calls and of the threads keep their types, and no    *)
(* thread reports the nonce 0xffffffff, which stands for an exhausted      *)
(* search.                                                                 *)
THEOREM TypeCorrect == Spec => []TypeOK
<1>1. IInv => TypeOK
  BY Zenon DEF IInv
<1> QED BY <1>1, Invariant, PTL

(* A VM reads a live dataset filled to the last item, for any number of    *)
(* calls, threads, items and key rotations.                                *)
THEOREM Safe == Spec => []VMSafe
<1>1. IInv => VMSafe
  BY Zenon DEF IInv, WorkerOK, VMSafe, Alive
<1> QED BY <1>1, Invariant, PTL

(* The threads of one GenerateBlock hash with one dataset: it is the only  *)
(* one allocated in the epoch the call read.                               *)
THEOREM SameDataset == Spec => []OneDataset
<1>1. IInv => OneDataset
  <2> SUFFICES ASSUME IInv, NEW v \in Workers, NEW w \in Workers, HasVM(v), HasVM(w), v[1] = w[1]
               PROVE  worker[v].vm = worker[w].vm
    BY Zenon DEF OneDataset
  <2>1. worker[v].vm \in 1 .. Len(datasets) /\ worker[w].vm \in 1 .. Len(datasets)
    BY OwnDataset, Zenon
  <2>2. datasets[worker[v].vm].epoch = datasets[worker[w].vm].epoch
    BY DEF IInv, WorkerOK
  <2> QED BY <2>1, <2>2, Zenon DEF IInv, EpochsOrdered
<1> QED BY <1>1, Invariant, PTL

(* A thread computes at most EPOCH_CHECK_INTERVAL hashes after the dataset *)
(* was replaced.                                                           *)
THEOREM BoundedStaleness == Spec => []StaleBounded
<1>1. IInv => StaleBounded
  <2> SUFFICES ASSUME IInv, NEW w \in Workers
               PROVE  worker[w].stale <= EPOCH_CHECK_INTERVAL
    BY DEF StaleBounded
  <2>1. worker[w] \in WorkerStates /\ WorkerOK(w)
    BY DEF IInv, TypeOK
  <2> DEFINE k == worker[w].tries % EPOCH_CHECK_INTERVAL
  <2>2. EPOCH_CHECK_INTERVAL \in Nat \ {0} /\ worker[w].tries \in Nat
    BY <2>1, MiningAssumption DEF WorkerStates
  <2>3. k \in 0 .. EPOCH_CHECK_INTERVAL - 1
    BY <2>2, Division, Zenon
  <2>4. /\ worker[w].stale \in Nat
        /\ worker[w].pc \in {"create", "loop", "hash", "store", "done"}
        /\ worker[w].pc \in {"create", "done"} => worker[w].stale = 0
        /\ worker[w].pc = "loop" => worker[w].stale <= IF k = 0 THEN EPOCH_CHECK_INTERVAL ELSE k
        /\ worker[w].pc = "hash" => worker[w].stale <= k
        /\ worker[w].pc = "store" => worker[w].stale <= EPOCH_CHECK_INTERVAL
    BY <2>1, Zenon DEF WorkerOK, WorkerStates
  <2> HIDE DEF k
  <2> QED BY <2>2, <2>3, <2>4
<1> QED BY <1>1, Invariant, PTL

(* A thread hashes with the key its call asked for, unless the context was *)
(* initialised again between the call's section under the mutex and its    *)
(* reading of the epoch.                                                   *)
THEOREM RightKey == Spec => []KeyUnlessOvertaken
<1>1. IInv => KeyUnlessOvertaken
  <2> SUFFICES ASSUME IInv, NEW w \in Workers, HasVM(w), ~Overtaken(w[1])
               PROVE  datasets[worker[w].vm].key = call[w[1]].keyBlockHash
    BY DEF KeyUnlessOvertaken
  <2>1. worker[w].vm \in 1 .. Len(datasets) /\ w[1] \in Calls
    BY OwnDataset DEF Workers
  <2>2. call[w[1]].pc = "join" /\ datasets[worker[w].vm].epoch = call[w[1]].left
    BY DEF IInv, WorkerOK, Overtaken, HasVM
  <2> QED BY <2>1, <2>2 DEF IInv, CallOK
<1> QED BY <1>1, Invariant, PTL
============================================================================
