-------------------------- MODULE HeadersSync_proofs ---------------------------
(***************************************************************************)
(* Proofs about HeadersSync for all peers' chains and all parameters: what *)
(* a synchronisation keeps is bounded, and the buffer always continues the *)
(* block index.                                                            *)
(***************************************************************************)
EXTENDS HeadersSync, SequenceTheorems, FiniteSetTheorems, WellFoundedInduction, TLAPS

\* The first header of a block alone.
LEMMA FirstHeader ==
    ASSUME NEW S, NEW seq \in Seq(S), Len(seq) \in Nat \ {0}
    PROVE  SubSeq(seq, 1, 1) = <<seq[1]>>
<1>1. SubSeq(seq, 1, 1) \in Seq(S) /\ Len(SubSeq(seq, 1, 1)) = 1
      /\ SubSeq(seq, 1, 1)[1] = seq[1]
  OBVIOUS
<1>2. <<seq[1]>> \in Seq(S) /\ Len(<<seq[1]>>) = 1 /\ <<seq[1]>>[1] = seq[1]
  OBVIOUS
<1>3. \A i \in 1 .. 1 : i = 1
  OBVIOUS
<1> QED BY <1>1, <1>2, <1>3, SeqEqual, Zenon

\* All chains of the peer start with the genesis block.
LEMMA ChainsStart ==
    /\ Genesis \in Chained
    /\ PeerChains \subseteq Chained
<1>1. PICK c \in PeerChains : TRUE
  BY SyncAssumption
<1>2. c \in Seq(Headers) /\ c # <<>> /\ Len(c) \in Nat \ {0}
  BY SyncAssumption
<1>3. SubSeq(c, 1, 1) \in Blocks /\ Len(SubSeq(c, 1, 1)) = 1
  BY <1>2 DEF Blocks
<1>4. Genesis \in Blocks /\ Len(Genesis) = 1
  BY <1>3, Zenon DEF Genesis
<1>5. PICK d \in PeerChains : Genesis \in {SubSeq(d, 1, n) : n \in 1 .. Len(d)}
  BY <1>4 DEF Blocks
<1>6. d \in Seq(Headers)
  BY SyncAssumption
<1>7. PICK n \in 1 .. Len(d) : Genesis = SubSeq(d, 1, n)
  BY <1>5
<1>8. n = 1
  BY <1>4, <1>6, <1>7
<1>9. Genesis \in Seq(Headers) /\ Genesis # <<>> /\ Genesis = <<d[1]>>
  BY <1>4, <1>6, <1>7, <1>8, FirstHeader
<1>10. ASSUME NEW e \in PeerChains PROVE e \in Chained
  BY <1>9, SyncAssumption DEF Chained
<1>11. Genesis \in Chained
  BY <1>9 DEF Chained
<1> QED BY <1>10, <1>11

\* A block followed by headers is a block of the same chain.
LEMMA Extension ==
    ASSUME NEW block \in Chained, NEW hdrs \in Seq(Headers)
    PROVE  /\ block \o hdrs \in Chained
           /\ block \in Seq(Headers) /\ Len(block) \in Nat \ {0}
           /\ Len(block \o hdrs) = Len(block) + Len(hdrs)
<1>1. block \in Seq(Headers) /\ block # <<>> /\ <<block[1]>> = Genesis
  BY DEF Chained
<1>2. Len(block) \in Nat \ {0}
  BY <1>1
<1>3. /\ block \o hdrs \in Seq(Headers) /\ Len(block \o hdrs) = Len(block) + Len(hdrs)
      /\ (block \o hdrs)[1] = block[1]
  BY <1>1, <1>2
<1>4. block \o hdrs # <<>>
  BY <1>2, <1>3
<1> QED BY <1>1, <1>2, <1>3, <1>4, Zenon DEF Chained

\* A locator made from a block of the chain ends in genesis.
LEMMA LocatorNamesGenesis ==
    ASSUME NEW block \in Chained
    PROVE  LocatorEntries(block) \in Locators
<1>1. block \in Seq(Headers) /\ Len(block) \in Nat \ {0} /\ <<block[1]>> = Genesis
  BY DEF Chained
<1>2. \A n \in 1 .. Len(block) : SubSeq(block, 1, n) \in Seq(Headers)
  BY <1>1
<1>3. SubSeq(block, 1, 1) = <<block[1]>>
  BY <1>1, FirstHeader
<1>4. 1 \in 1 .. Len(block)
  BY <1>1
<1>5. Genesis \in LocatorEntries(block)
  BY <1>1, <1>3, <1>4 DEF LocatorEntries
<1>6. LocatorEntries(block) \subseteq Seq(Headers)
  BY <1>2 DEF LocatorEntries
<1> QED BY <1>5, <1>6 DEF Locators

\* The quotient of a natural number is a natural number.
LEMMA QuotientNat ==
    ASSUME NEW a \in Nat, NEW d \in Nat \ {0}
    PROVE  a \div d \in Nat
OBVIOUS

\* The commitments to a range of heights are a sequence of bits.
LEMMA CommitmentsType ==
    ASSUME NEW sync, NEW block, NEW low \in Int, NEW high \in Int,
           sync.m_commit_offset \in Nat
    PROVE  Commitments(sync, block, low, high) \in Seq(BOOLEAN)
<1> DEFINE first == low + ((sync.m_commit_offset - low) % commitment_period)
           count == IF first > high THEN 0
                    ELSE ((high - first) \div commitment_period) + 1
<1>1. commitment_period \in Nat \ {0}
  BY SyncAssumption
<1>2. (sync.m_commit_offset - low) % commitment_period \in Int
  BY <1>1
<1>3. first \in Int
  BY <1>2
<1>4. count \in Nat
  <2>1. CASE first > high
    BY <2>1
  <2>2. CASE ~(first > high)
    <3> HIDE DEF first
    <3>1. high - first \in Nat
      BY <1>3, <2>2
    <3>2. (high - first) \div commitment_period \in Nat
      BY <1>1, <3>1, QuotientNat
    <3> QED BY <2>2, <3>2
  <2> QED BY <2>1, <2>2
<1> HIDE DEF count
<1>5. [i \in 1 .. count |-> SubSeq(block, 1, first + (i - 1) * commitment_period + 1)
                                \in sync.m_hasher] \in Seq(BOOLEAN)
  BY <1>4
<1> QED BY <1>5 DEF Commitments, count

\* Headers appended in two parts.
LEMMA AppendParts ==
    ASSUME NEW s \in Seq(Headers), NEW t \in Seq(Headers), NEW u \in Seq(Headers)
    PROVE  (s \o t) \o u = s \o (t \o u)
BY ConcatAssociative

\* A PRESYNC object that takes a message is again well formed, in either phase.
LEMMA PresyncStep ==
    ASSUME NEW sync, SyncOK(sync), sync.m_download_state = "PRESYNC",
           NEW msg \in Messages,
           ValidateAndStoreHeadersCommitments(sync, msg) # Final
    PROVE  LET next == ValidateAndStoreHeadersCommitments(sync, msg)
           IN  /\ SyncOK(next)
               /\ next.m_chain_start = sync.m_chain_start
               /\ next.m_download_state = "REDOWNLOAD" =>
                      next.m_redownload_buffer_first_prev_hash = sync.m_chain_start
<1> DEFINE height == sync.m_current_height + Len(msg.headers)
           work == sync.m_current_chain_work + CalculateClaimedHeadersWork(msg.headers)
           found == Commitments(sync, LastBlock(msg), sync.m_current_height + 1, height)
           commitments == sync.m_header_commitments \o found
           next == [sync EXCEPT !.m_current_height = height, !.m_current_chain_work = work,
                                !.m_last_header_received = LastBlock(msg),
                                !.m_header_commitments = commitments]
           start == sync.m_chain_start
           switched == [next EXCEPT !.m_download_state = "REDOWNLOAD",
                                    !.m_redownloaded_headers = <<>>,
                                    !.m_redownload_buffer_last_height = Height(start),
                                    !.m_redownload_buffer_first_prev_hash = start,
                                    !.m_redownload_buffer_last_hash = start,
                                    !.m_redownload_chain_work = nChainWork(start)]
<1>1. /\ msg.prev = sync.m_last_header_received
      /\ WithinMaxCommitments(commitments)
      /\ ValidateAndStoreHeadersCommitments(sync, msg) =
             IF work < MinimumChainWork THEN next ELSE switched
  BY DEF ValidateAndStoreHeadersCommitments
<1>2. Len(commitments) <= m_max_commitments
  BY <1>1, Zenon DEF WithinMaxCommitments
<1>3. /\ msg.headers \in Seq(Headers) /\ SubSeq(msg.headers, 1, Len(msg.headers)) = msg.headers
      /\ Len(msg.headers) \in Nat
  BY SubSeqFull DEF Messages
<1>4. LastBlock(msg) = msg.prev \o msg.headers
  BY <1>3, Zenon DEF LastBlock, BlockOf
<1>5. /\ LastBlock(msg) \in Chained
      /\ Len(LastBlock(msg)) = Len(msg.prev) + Len(msg.headers)
      /\ Len(msg.prev) \in Nat
  BY <1>1, <1>3, <1>4, Extension DEF SyncOK
<1>6. sync.m_current_height = Len(msg.prev) - 1
  BY <1>1 DEF SyncOK, Height
<1>7. height \in Int /\ height = Height(LastBlock(msg))
  BY <1>3, <1>5, <1>6 DEF Height
<1>8. found \in Seq(BOOLEAN)
  BY <1>5, <1>6, <1>7, CommitmentsType DEF SyncOK
<1>9. commitments \in Seq(BOOLEAN)
  BY <1>8, ConcatProperties DEF SyncOK
<1>10. start \in Chained /\ start \in Seq(Headers)
  BY DEF SyncOK, Chained
<1>11. start \o <<>> = start
  BY <1>10, ConcatEmptySeq
<1> HIDE DEF height, work, found, commitments, start
<1>12. /\ next = [field \in SyncFields |-> next[field]]
       /\ next.m_download_state = "PRESYNC" /\ next.m_chain_start = start
       /\ next.m_commit_offset = sync.m_commit_offset
       /\ next.m_last_header_received = LastBlock(msg) /\ next.m_current_height = height
       /\ next.m_header_commitments = commitments
       /\ next.m_process_all_remaining_headers = FALSE
       /\ next.m_redownloaded_headers = <<>>
  BY Zenon DEF SyncOK, SyncFields, PresyncOK, RedownloadOK, start
<1>13. SyncOK(next)
  BY <1>2, <1>5, <1>7, <1>9, <1>10, <1>12, Zenon DEF SyncOK, PresyncOK
<1>14. /\ switched = [field \in SyncFields |-> switched[field]]
       /\ switched.m_download_state = "REDOWNLOAD" /\ switched.m_chain_start = start
       /\ switched.m_commit_offset = sync.m_commit_offset
       /\ switched.m_last_header_received = LastBlock(msg)
       /\ switched.m_current_height = height
       /\ switched.m_header_commitments = commitments
       /\ switched.m_process_all_remaining_headers = FALSE
       /\ switched.m_redownloaded_headers = <<>>
       /\ switched.m_redownload_buffer_last_height = Height(start)
       /\ switched.m_redownload_buffer_first_prev_hash = start
       /\ switched.m_redownload_buffer_last_hash = start
  <2> HIDE DEF next
  <2> QED BY <1>12, Zenon DEF SyncFields
<1> HIDE DEF next, switched
<1>15. RedownloadOK(switched)
  <2>1. <<>> \in Seq(Headers) /\ Len(<<>>) <= redownload_buffer_size
    BY SyncAssumption, EmptySeq
  <2> QED BY <1>10, <1>11, <1>14, <2>1, Zenon DEF RedownloadOK
<1>16. SyncOK(switched)
  BY <1>2, <1>5, <1>7, <1>9, <1>10, <1>14, <1>15 DEF SyncOK
<1> QED BY <1>1, <1>12, <1>13, <1>14, <1>16 DEF start

\* A REDOWNLOAD object that buffers a message and releases what is ready is again well formed
\* unless it released everything; what it released follows the previous release.
LEMMA RedownloadStep ==
    ASSUME NEW sync, SyncOK(sync), sync.m_download_state = "REDOWNLOAD",
           NEW msg \in Messages,
           ValidateAndStoreRedownloadedHeaders(sync, msg) # Final
    PROVE  LET buffered == ValidateAndStoreRedownloadedHeaders(sync, msg)
               ready == ReadyForAcceptance(buffered)
               next == PopHeaders(buffered, ready)
               released == SubSeq(buffered.m_redownloaded_headers, 1, ready)
           IN  /\ buffered.m_redownload_buffer_first_prev_hash =
                      sync.m_redownload_buffer_first_prev_hash
               /\ released \in Seq(Headers)
               /\ next.m_chain_start = sync.m_chain_start
               /\ next.m_redownload_buffer_first_prev_hash =
                      sync.m_redownload_buffer_first_prev_hash \o released
               /\ \/ SyncOK(next) /\ next.m_download_state = "REDOWNLOAD"
                  \/ next.m_redownloaded_headers = <<>> /\ next.m_process_all_remaining_headers
<1> DEFINE n == Len(msg.headers)
           height == sync.m_redownload_buffer_last_height
           workAt(k) == sync.m_redownload_chain_work
                            + CalculateClaimedHeadersWork(SubSeq(msg.headers, 1, k))
           short == Cardinality({k \in 1 .. n : workAt(k) < MinimumChainWork})
           found == IF sync.m_process_all_remaining_headers THEN <<>>
                    ELSE Commitments(sync, LastBlock(msg), height + 1, height + short)
           last == sync.m_redownload_buffer_last_hash
           first == sync.m_redownload_buffer_first_prev_hash
           old == sync.m_redownloaded_headers
           all == old \o msg.headers
           enough == sync.m_process_all_remaining_headers \/ workAt(n) >= MinimumChainWork
           rest == PopCommitments(sync.m_header_commitments, Len(found))
           buffered == [sync EXCEPT
                 !.m_redownload_chain_work = workAt(n),
                 !.m_process_all_remaining_headers = enough,
                 !.m_header_commitments = rest,
                 !.m_redownloaded_headers = all,
                 !.m_redownload_buffer_last_height = height + n,
                 !.m_redownload_buffer_last_hash = LastBlock(msg)]
           ready == ReadyForAcceptance(buffered)
           next == PopHeaders(buffered, ready)
<1>1. /\ msg.prev = last
      /\ CommitmentsMatch(found, sync.m_header_commitments)
      /\ ValidateAndStoreRedownloadedHeaders(sync, msg) = buffered
  BY DEF ValidateAndStoreRedownloadedHeaders
<1>2. /\ msg.headers \in Seq(Headers) /\ SubSeq(msg.headers, 1, n) = msg.headers
      /\ n \in Nat
  BY SubSeqFull DEF Messages
<1>3. /\ sync = [field \in SyncFields |-> sync[field]]
      /\ RedownloadOK(sync) /\ sync.m_process_all_remaining_headers = FALSE
      /\ sync.m_commit_offset \in Nat /\ sync.m_header_commitments \in Seq(BOOLEAN)
      /\ Len(sync.m_header_commitments) <= m_max_commitments
  BY DEF SyncOK, PresyncOK
<1>4. /\ first \in Chained /\ first \in Seq(Headers) /\ old \in Seq(Headers)
      /\ last = first \o old /\ height = Height(last)
  BY <1>3, Zenon DEF RedownloadOK, Chained
<1>5. last \in Chained /\ last \in Seq(Headers) /\ Len(last) \in Nat
  <2>1. last \in Chained
    BY <1>4, Extension
  <2> QED BY <2>1 DEF Chained
<1>6. /\ LastBlock(msg) = last \o msg.headers
      /\ LastBlock(msg) = first \o all
      /\ Len(LastBlock(msg)) = Len(last) + n
      /\ all \in Seq(Headers)
  <2>1. LastBlock(msg) = last \o msg.headers
    BY <1>1, <1>2, Zenon DEF LastBlock, BlockOf
  <2>2. LastBlock(msg) = first \o all
    <3>1. (first \o old) \o msg.headers = first \o (old \o msg.headers)
      BY <1>2, <1>4, AppendParts, Zenon
    <3> QED BY <1>4, <2>1, <3>1
  <2>3. Len(last \o msg.headers) = Len(last) + n
    BY <1>2, <1>5, Extension
  <2> QED BY <1>2, <1>4, <2>1, <2>2, <2>3, ConcatProperties, Zenon
<1>7. height + n = Height(LastBlock(msg)) /\ height \in Int
  BY <1>2, <1>4, <1>5, <1>6 DEF Height
<1>8. short \in Nat
  <2> DEFINE K == {k \in 1 .. n : workAt(k) < MinimumChainWork}
  <2>1. IsFiniteSet(1 .. n)
    BY <1>2, FS_Interval
  <2>2. IsFiniteSet(K)
    BY <2>1, FS_Subset
  <2> QED BY <2>2, FS_CardinalityType
<1> HIDE DEF short, workAt
<1>9. found \in Seq(BOOLEAN)
  BY <1>3, <1>7, <1>8, CommitmentsType
<1> HIDE DEF found
<1>10. rest \in Seq(BOOLEAN) /\ Len(rest) <= m_max_commitments
  <2> DEFINE commitments == sync.m_header_commitments
  <2>1. Len(found) \in Nat /\ Len(commitments) \in Nat /\ Len(found) <= Len(commitments)
    BY <1>1, <1>3, <1>9 DEF CommitmentsMatch
  <2>2. \A i \in (Len(found) + 1) .. Len(commitments) : commitments[i] \in BOOLEAN
    BY <1>3, <2>1, ElementOfSeq
  <2>3. /\ rest \in Seq(BOOLEAN)
        /\ Len(rest) = IF Len(found) + 1 <= Len(commitments)
                       THEN Len(commitments) - (Len(found) + 1) + 1 ELSE 0
    BY <2>1, <2>2, SubSeqProperties DEF PopCommitments
  <2> QED BY <1>3, <2>1, <2>3, SyncAssumption
<1> HIDE DEF rest, all, enough
<1>11. /\ buffered = [field \in SyncFields |-> buffered[field]]
       /\ buffered.m_download_state = "REDOWNLOAD"
       /\ buffered.m_chain_start = sync.m_chain_start
       /\ buffered.m_commit_offset = sync.m_commit_offset
       /\ buffered.m_last_header_received = sync.m_last_header_received
       /\ buffered.m_current_height = sync.m_current_height
       /\ buffered.m_header_commitments = rest
       /\ buffered.m_process_all_remaining_headers = enough
       /\ buffered.m_redownloaded_headers = all
       /\ buffered.m_redownload_buffer_last_height = height + n
       /\ buffered.m_redownload_buffer_last_hash = LastBlock(msg)
       /\ buffered.m_redownload_buffer_first_prev_hash = first
  <2> HIDE DEF n, height, first
  <2> QED BY <1>3, Zenon DEF SyncFields, first
<1> HIDE DEF buffered
<1>12. /\ ready \in 0 .. Len(all) /\ Len(all) \in Nat
       /\ enough => ready = Len(all)
       /\ ~enough => Len(all) - ready <= redownload_buffer_size
  <2>1. Len(all) \in Nat /\ redownload_buffer_size \in Nat
    BY <1>6, SyncAssumption
  <2>2. ready = IF enough THEN Len(all)
                ELSE IF Len(all) > redownload_buffer_size
                     THEN Len(all) - redownload_buffer_size ELSE 0
    BY <1>11 DEF ReadyForAcceptance
  <2> HIDE DEF ready
  <2> QED BY <2>1, <2>2
<1> HIDE DEF ready
<1> DEFINE released == SubSeq(all, 1, ready)
           kept == SubSeq(all, ready + 1, Len(all))
<1>13. /\ released \in Seq(Headers) /\ kept \in Seq(Headers)
       /\ Len(kept) = Len(all) - ready
       /\ released \o kept = all
  <2>1. \A i \in 1 .. Len(all) : all[i] \in Headers
    BY <1>6, ElementOfSeq
  <2>2. released \in Seq(Headers)
    BY <1>12, <2>1, SubSeqProperties
  <2>3. kept \in Seq(Headers) /\ Len(kept) = IF ready + 1 <= Len(all)
                                              THEN Len(all) - (ready + 1) + 1 ELSE 0
    BY <1>12, <2>1, SubSeqProperties
  <2>4. SubSeq(all, 1, ready) \o SubSeq(all, ready + 1, Len(all)) = SubSeq(all, 1, Len(all))
    <3>1. /\ 1 \in 1 .. Len(all) + 1 /\ ready \in 1 - 1 .. Len(all)
          /\ Len(all) \in ready .. Len(all)
      BY <1>12
    <3> QED BY <1>6, <3>1, ConcatAdjacentSubSeq, Zenon
  <2>5. SubSeq(all, 1, Len(all)) = all
    BY <1>6, SubSeqFull
  <2>6. Len(kept) = Len(all) - ready
    BY <1>12, <2>3
  <2> QED BY <2>2, <2>3, <2>4, <2>5, <2>6, Zenon
<1> HIDE DEF released, kept
<1>14. /\ next = [field \in SyncFields |-> next[field]]
       /\ next.m_download_state = "REDOWNLOAD"
       /\ next.m_chain_start = sync.m_chain_start
       /\ next.m_commit_offset = sync.m_commit_offset
       /\ next.m_last_header_received = sync.m_last_header_received
       /\ next.m_current_height = sync.m_current_height
       /\ next.m_header_commitments = rest
       /\ next.m_process_all_remaining_headers = enough
       /\ next.m_redownloaded_headers = kept
       /\ next.m_redownload_buffer_last_height = height + n
       /\ next.m_redownload_buffer_last_hash = LastBlock(msg)
       /\ next.m_redownload_buffer_first_prev_hash = first \o released
  <2> HIDE DEF n, height, first
  <2> QED BY <1>11, Zenon DEF SyncFields, PopHeaders, released, kept
<1> HIDE DEF next
<1>15. CASE enough
  <2>1. Len(kept) = 0
    BY <1>12, <1>13, <1>15
  <2>2. kept = <<>>
    BY <1>13, <2>1, EmptySeq, Zenon
  <2> QED
    BY <1>1, <1>11, <1>13, <1>14, <1>15, <2>2, Zenon DEF ready, released, buffered, next
<1>16. CASE ~enough
  <2>1. first \o released \in Chained
    BY <1>4, <1>13, Extension
  <2>2. LastBlock(msg) = (first \o released) \o kept
    <3>1. (first \o released) \o kept = first \o (released \o kept)
      BY <1>4, <1>13, AppendParts, Zenon
    <3> QED BY <1>6, <1>13, <3>1
  <2>3. RedownloadOK(next)
    BY <1>7, <1>12, <1>13, <1>14, <1>16, <2>1, <2>2, Zenon DEF RedownloadOK
  <2>4. next.m_process_all_remaining_headers = FALSE
    BY <1>14, <1>16, Zenon DEF enough
  <2>5. SyncOK(next)
    BY <1>10, <1>14, <2>3, <2>4 DEF SyncOK
  <2> QED
    BY <1>1, <1>11, <1>13, <1>14, <2>5, Zenon DEF ready, released, buffered, next
<1> QED BY <1>15, <1>16, Zenon

\* What ProcessNextHeaders guarantees: it keeps a sync only if it asks for more, and then a well
\* formed one, and releases headers that follow the previous release.
Continues(sync, result) ==
    LET validated == result.pow_validated_headers
        first == sync.m_redownload_buffer_first_prev_hash
    IN  /\ validated.headers \in Seq(Headers)
        /\ validated.headers # <<>> =>
               sync.m_download_state = "REDOWNLOAD" /\ validated.prev = first
        /\ result.success => sync # Final
        /\ result.sync # Final =>
               /\ result.success /\ SyncOK(result.sync)
               /\ result.sync.m_chain_start = sync.m_chain_start
               /\ result.sync.m_download_state = "REDOWNLOAD" =>
                      \/ /\ sync.m_download_state = "PRESYNC"
                         /\ result.sync.m_redownload_buffer_first_prev_hash =
                                sync.m_chain_start
                      \/ /\ sync.m_download_state = "REDOWNLOAD"
                         /\ result.sync.m_redownload_buffer_first_prev_hash =
                                first \o validated.headers
        /\ result.request_more =>
               result.success /\ SyncOK(result.sync) /\ result.sync # Final

\* ProcessNextHeaders keeps its promise on a well formed sync and on no sync at all.
LEMMA NextHeaders ==
    ASSUME NEW sync, sync = Final \/ SyncOK(sync), NEW msg \in Messages
    PROVE  Continues(sync, ProcessNextHeaders(sync, msg))
<1> DEFINE result == ProcessNextHeaders(sync, msg)
<1>1. <<>> \in Seq(Headers)
  BY EmptySeq
<1>2. \A s : SyncOK(s) => s # Final
  <2>1. Final.m_download_state = "FINAL"
    BY DEF Final
  <2>2. ASSUME NEW s, SyncOK(s) PROVE s.m_download_state # "FINAL"
    BY <2>2, Zenon DEF SyncOK, PresyncOK, RedownloadOK
  <2> QED BY <2>1, <2>2, Zenon
<1>3. /\ Failure.success = FALSE /\ Failure.request_more = FALSE /\ Failure.sync = Final
      /\ Failure.pow_validated_headers.headers = <<>>
  BY DEF Failure, Result
<1>4. CASE result = Failure
  BY <1>1, <1>3, <1>4, Zenon DEF Continues
<1>5. CASE sync = Final
  <2>1. Final.m_download_state = "FINAL"
    BY DEF Final
  <2>2. result = Failure
    BY <1>5, <2>1 DEF ProcessNextHeaders
  <2> QED BY <1>4, <2>2
<1>6. CASE SyncOK(sync) /\ sync.m_download_state = "PRESYNC" /\ result # Failure
  <2> DEFINE next == ValidateAndStoreHeadersCommitments(sync, msg)
             more == \/ Len(msg.headers) = max_headers_result
                     \/ next.m_download_state = "REDOWNLOAD"
  <2>1. result = ProcessPresync(sync, msg)
    BY <1>6 DEF ProcessNextHeaders
  <2>2. next # Final /\ result = Result(TRUE, more, [prev |-> <<>>, headers |-> <<>>], next)
    BY <1>6, <2>1, Zenon DEF ProcessPresync
  <2>3. /\ SyncOK(next) /\ next.m_chain_start = sync.m_chain_start
        /\ next.m_download_state = "REDOWNLOAD" =>
               next.m_redownload_buffer_first_prev_hash = sync.m_chain_start
    BY <1>6, <2>2, PresyncStep
  <2> HIDE DEF next, more
  <2>4. /\ result.success = TRUE /\ result.request_more = more
        /\ result.pow_validated_headers.headers = <<>>
        /\ result.sync = IF more THEN next ELSE Final
    BY <2>2 DEF Result
  <2> HIDE DEF result
  <2>5. CASE more
    BY <1>1, <1>2, <1>6, <2>3, <2>4, <2>5 DEF result, Continues
  <2>6. CASE ~more
    BY <1>1, <1>2, <1>6, <2>3, <2>4, <2>6 DEF result, Continues
  <2> QED BY <2>5, <2>6
<1>7. CASE SyncOK(sync) /\ sync.m_download_state = "REDOWNLOAD" /\ result # Failure
  <2> DEFINE buffered == ValidateAndStoreRedownloadedHeaders(sync, msg)
             ready == ReadyForAcceptance(buffered)
             next == PopHeaders(buffered, ready)
             complete == /\ next.m_redownloaded_headers = <<>>
                         /\ next.m_process_all_remaining_headers
             more == ~complete /\ Len(msg.headers) = max_headers_result
             first == buffered.m_redownload_buffer_first_prev_hash
             released == SubSeq(buffered.m_redownloaded_headers, 1, ready)
  <2>1. result = ProcessRedownload(sync, msg)
    BY <1>7 DEF ProcessNextHeaders
  <2>2. /\ buffered # Final
        /\ result = Result(TRUE, more, [prev |-> first, headers |-> released], next)
    BY <1>7, <2>1, Zenon DEF ProcessRedownload
  <2>3. /\ first = sync.m_redownload_buffer_first_prev_hash
        /\ released \in Seq(Headers)
        /\ next.m_chain_start = sync.m_chain_start
        /\ next.m_redownload_buffer_first_prev_hash =
               sync.m_redownload_buffer_first_prev_hash \o released
        /\ SyncOK(next) \/ complete
    BY <1>7, <2>2, RedownloadStep
  <2> HIDE DEF next, first, released, complete
  <2>4. /\ result.success = TRUE /\ result.request_more = more
        /\ result.pow_validated_headers.headers = released
        /\ result.pow_validated_headers.prev = first
        /\ result.sync = IF more THEN next ELSE Final
    BY <2>2 DEF Result
  <2>5. more => SyncOK(next)
    BY <2>3
  <2> HIDE DEF result, more
  <2>6. CASE more
    BY <1>2, <1>7, <2>3, <2>4, <2>5, <2>6 DEF result, Continues
  <2>7. CASE ~more
    BY <1>2, <1>7, <2>3, <2>4, <2>7 DEF result, Continues
  <2> QED BY <2>6, <2>7
<1>8. SyncOK(sync) => sync.m_download_state \in {"PRESYNC", "REDOWNLOAD"}
  BY Zenon DEF SyncOK, PresyncOK, RedownloadOK
<1> QED BY <1>4, <1>5, <1>6, <1>7, <1>8

\* A new sync is well formed.
LEMMA NewSync ==
    ASSUME NEW start \in Chained, NEW offset \in Nat, NEW salt
    PROVE  /\ SyncOK(HeadersSyncState(start, offset, salt))
           /\ HeadersSyncState(start, offset, salt).m_chain_start = start
           /\ HeadersSyncState(start, offset, salt).m_download_state = "PRESYNC"
<1> DEFINE sync == HeadersSyncState(start, offset, salt)
<1>1. <<>> \in Seq(BOOLEAN) /\ Len(<<>>) <= m_max_commitments
  BY EmptySeq, SyncAssumption
<1>2. /\ sync = [field \in SyncFields |-> sync[field]]
      /\ sync.m_chain_start = start /\ sync.m_commit_offset = offset
      /\ sync.m_last_header_received = start /\ sync.m_current_height = Height(start)
      /\ sync.m_header_commitments = <<>> /\ sync.m_process_all_remaining_headers = FALSE
      /\ sync.m_download_state = "PRESYNC" /\ sync.m_redownloaded_headers = <<>>
  BY DEF HeadersSyncState, SyncFields
<1> HIDE DEF sync
<1>3. SyncOK(sync)
  BY <1>1, <1>2, Zenon DEF SyncOK, PresyncOK
<1> QED BY <1>2, <1>3 DEF sync

\* The requests of a sync name genesis.
LEMMA SyncLocator ==
    ASSUME NEW sync, SyncOK(sync)
    PROVE  NextHeadersRequestLocator(sync) \in Locators
<1>1. LocatorEntries(sync.m_chain_start) \in Locators
  BY LocatorNamesGenesis DEF SyncOK
<1>2. sync.m_last_header_received \in Seq(Headers)
  BY DEF SyncOK, Chained
<1>3. sync.m_download_state # "PRESYNC" => sync.m_redownload_buffer_last_hash \in Seq(Headers)
  <2>1. sync.m_download_state # "PRESYNC" => RedownloadOK(sync)
    BY DEF SyncOK, PresyncOK
  <2>2. RedownloadOK(sync) => sync.m_redownload_buffer_last_hash \in Chained
    BY Extension DEF RedownloadOK
  <2> QED BY <2>1, <2>2 DEF Chained
<1> QED BY <1>1, <1>2, <1>3 DEF NextHeadersRequestLocator, Locators

\* A set of natural numbers has a least element.
LEMMA LeastElement ==
    ASSUME NEW S \in SUBSET Nat, S # {}
    PROVE  \E x \in S : \A y \in S : x <= y
<1>1. \E x \in S : \A y \in S : ~(<<y, x>> \in OpToRel(<, Nat))
  BY NatLessThanWellFounded, WFMin, Zenon
<1>2. \A x, y \in Nat : y < x => <<y, x>> \in OpToRel(<, Nat)
  BY DEF OpToRel
<1>3. \A x, y \in Nat : ~(y < x) => x <= y
  OBVIOUS
<1> QED BY <1>1, <1>2, <1>3, Zenon

\* A bounded set of natural numbers has a greatest element.
LEMMA GreatestElement ==
    ASSUME NEW n \in Nat, NEW S \in SUBSET (0 .. n), S # {}
    PROVE  \E x \in S : \A y \in S : y <= x
<1> DEFINE T == {n - x : x \in S}
<1>1. T \in SUBSET Nat /\ T # {}
  OBVIOUS
<1>2. PICK t \in T : \A u \in T : t <= u
  BY <1>1, LeastElement, Zenon
<1>3. PICK x \in S : t = n - x
  OBVIOUS
<1>4. \A y \in S : n - x <= n - y
  BY <1>2, <1>3
<1>5. ASSUME NEW y \in S PROVE y <= x
  <2> HIDE DEF T
  <2>1. x \in 0 .. n /\ y \in 0 .. n
    BY Zenon
  <2>2. n - x <= n - y
    BY <1>4, Zenon
  <2> QED BY <2>1, <2>2, SMT
<1> QED BY <1>5

\* The blocks of a message that follows a block of the chain.
LEMMA MessageBlocks ==
    ASSUME NEW msg, msg.prev \in Chained, msg.headers \in Seq(Headers),
           NEW k \in 0 .. Len(msg.headers)
    PROVE  BlockOf(msg, k) \in Chained
<1>1. \A i \in 1 .. k : msg.headers[i] \in Headers
  BY ElementOfSeq
<1>2. SubSeq(msg.headers, 1, k) \in Seq(Headers)
  BY <1>1, SubSeqProperties
<1> QED BY <1>2, Extension, Zenon DEF BlockOf

\* An answer to a request that names genesis is a headers message.
LEMMA AnswerType ==
    ASSUME peer \in PeerChains, NEW locator \in Locators
    PROVE  Answer(locator) \in Messages
<1> DEFINE fork == FindForkInGlobalIndex(locator)
           last == Least(Len(fork) + max_headers_result, Len(peer))
           lengths == {Len(block) : block \in {b \in locator : IsAncestor(b, peer)}}
<1>1. peer \in Chained /\ peer \in Seq(Headers) /\ Len(peer) \in Nat \ {0}
  BY ChainsStart DEF Chained
<1>2. /\ Genesis \in locator /\ \A block \in locator : block \in Seq(Headers)
      /\ \A block \in locator : Len(block) \in Nat
  BY DEF Locators
<1>3. IsAncestor(Genesis, peer)
  <2>1. Genesis = <<peer[1]>> /\ Len(Genesis) = 1
    BY <1>1 DEF Chained
  <2>2. SubSeq(peer, 1, 1) = <<peer[1]>>
    BY <1>1, FirstHeader
  <2> QED BY <1>1, <2>1, <2>2 DEF IsAncestor
<1>4. lengths \in SUBSET (0 .. Len(peer)) /\ lengths # {}
  BY <1>1, <1>2, <1>3 DEF IsAncestor
<1>5. PICK n \in lengths : \A other \in lengths : other <= n
  BY <1>1, <1>4, GreatestElement, Zenon
<1>6. \E block \in locator :
          /\ IsAncestor(block, peer)
          /\ \A other \in locator : IsAncestor(other, peer) => Len(other) <= Len(block)
  BY <1>5
<1>7. fork \in Seq(Headers)
  BY <1>1, <1>2, <1>6 DEF FindForkInGlobalIndex
<1> HIDE DEF fork
<1>8. last \in Int /\ last <= Len(peer) /\ Len(fork) + 1 \in Int /\ Len(fork) + 1 >= 1
  BY <1>1, <1>7, SyncAssumption DEF Least
<1> HIDE DEF last
<1>9. \A i \in (Len(fork) + 1) .. last : peer[i] \in Headers
  BY <1>1, <1>8, ElementOfSeq
<1>10. SubSeq(peer, Len(fork) + 1, last) \in Seq(Headers)
  BY <1>8, <1>9, SubSeqProperties
<1>11. <<>> \in Seq(Headers)
  BY EmptySeq
<1> QED BY <1>7, <1>10, <1>11 DEF Answer, Messages, fork, last
-------------------------------------------------------------------------------
\* The initial state satisfies the invariant.
LEMMA InitIInv == Init => IInv
<1> SUFFICES ASSUME Init PROVE IInv
  OBVIOUS
<1>1. LocatorEntries(Genesis) \in Locators /\ Genesis \in Chained
  BY ChainsStart, LocatorNamesGenesis
<1>2. <<LocatorEntries(Genesis)>> \in Seq(Locators) /\ <<>> \in Seq(Messages)
  BY <1>1, EmptySeq
<1> QED BY <1>1, <1>2, Zenon DEF Init, IInv

\* What a sync that survives a message guarantees.
KeptOK(sync, index, disconnect) ==
    sync # Final =>
        /\ SyncOK(sync) /\ sync.m_chain_start \in index
        /\ sync.m_download_state = "REDOWNLOAD" /\ ~disconnect =>
               sync.m_redownload_buffer_first_prev_hash \in index

\* The last clause of the invariant, by itself.
LEMMA KeptClause ==
    IInv <=> /\ m_block_index \subseteq Chained /\ m_best_header \in m_block_index
             /\ Genesis \in m_block_index
             /\ getheaders \in Seq(Locators) /\ headers \in Seq(Messages)
             /\ peer \in PeerChains /\ fDisconnect \in BOOLEAN
             /\ KeptOK(m_headers_sync, m_block_index, fDisconnect)
BY DEF IInv, KeptOK, Redownloading

\* The requests IsContinuationOfLowWorkHeadersSync sends name genesis.
LEMMA RequestsType ==
    ASSUME getheaders \in Seq(Locators), NEW result,
           result.request_more => SyncOK(result.sync)
    PROVE  Requests(result) \in Seq(Locators)
BY SyncLocator, AppendProperties DEF Requests, Locate

\* A headers message keeps the invariant.
LEMMA HeadersStep ==
    ASSUME IInv, ProcessHeadersMessage
    PROVE  IInv'
<1> DEFINE msg == Head(headers)
           result == ProcessNextHeaders(m_headers_sync, msg)
           left == IF result.success THEN result.pow_validated_headers ELSE msg
           full == Len(msg.headers) = max_headers_result
<1>1. /\ headers # <<>> /\ ~fDisconnect /\ headers' = Tail(headers)
      /\ peer' = peer
      /\ \/ EmptyMessage(msg)
         \/ InvalidPoW(msg)
         \/ Absorbed(result)
         \/ left.headers # <<>> /\ HandleUnconnectingHeaders(result, left)
         \/ TryLowWorkHeadersSync(result, left)
         \/ left.headers # <<>> /\ ProcessNewBlockHeaders(result, left, full)
  BY DEF ProcessHeadersMessage
<1>2. /\ m_block_index \subseteq Chained /\ m_best_header \in m_block_index
      /\ Genesis \in m_block_index
      /\ getheaders \in Seq(Locators) /\ headers \in Seq(Messages)
      /\ peer \in PeerChains
      /\ KeptOK(m_headers_sync, m_block_index, FALSE)
  <2>1. KeptOK(m_headers_sync, m_block_index, fDisconnect)
    BY KeptClause
  <2> QED BY <1>1, <2>1 DEF IInv, KeptOK
<1>3. msg \in Messages /\ headers' \in Seq(Messages) /\ peer' \in PeerChains
  BY <1>1, <1>2, HeadTailProperties
<1>4. m_headers_sync = Final \/ SyncOK(m_headers_sync)
  BY <1>2 DEF KeptOK
<1> HIDE DEF msg
<1> DEFINE validated == result.pow_validated_headers
<1>5. Continues(m_headers_sync, result)
  BY <1>3, <1>4, NextHeaders
<1> HIDE DEF result
<1>6. Requests(result) \in Seq(Locators)
  BY <1>2, <1>5, RequestsType DEF Continues
<1>7. left.headers \in Seq(Headers)
  BY <1>3, <1>5 DEF Messages, Continues
<1>8. m_headers_sync # Final => m_headers_sync.m_chain_start \in m_block_index
  BY <1>2 DEF KeptOK
<1>9. \A block \in m_block_index : LocatorEntries(block) \in Locators
  BY <1>2, LocatorNamesGenesis
<1>10. ASSUME result.success, left.headers # <<>>
       PROVE  /\ left.prev \in m_block_index
              /\ left.prev = m_headers_sync.m_redownload_buffer_first_prev_hash
  BY <1>2, <1>5, <1>10 DEF KeptOK, Continues
<1>11. CASE EmptyMessage(msg)
  BY <1>2, <1>3, <1>11 DEF EmptyMessage, IInv
<1>12. CASE InvalidPoW(msg)
  <2>1. KeptOK(m_headers_sync', m_block_index', fDisconnect')
    BY <1>2, <1>12 DEF InvalidPoW, KeptOK
  <2> QED BY <1>2, <1>3, <1>12, <2>1 DEF InvalidPoW, IInv, KeptOK, Redownloading
<1>13. CASE Absorbed(result)
  <2>1. /\ validated.headers = <<>> /\ m_headers_sync' = result.sync
        /\ getheaders' = Requests(result)
        /\ UNCHANGED <<m_block_index, m_best_header, fDisconnect>>
    BY <1>13 DEF Absorbed
  <2>2. m_headers_sync # Final /\ m_headers_sync.m_download_state = "REDOWNLOAD" =>
            m_headers_sync.m_redownload_buffer_first_prev_hash \in m_block_index
    BY <1>2 DEF KeptOK
  <2>3. \A block \in m_block_index : block \o <<>> = block
    BY <1>2, ConcatEmptySeq DEF Chained
  <2>4. KeptOK(result.sync, m_block_index, FALSE)
    BY <1>5, <1>8, <2>1, <2>2, <2>3 DEF KeptOK, Continues
  <2> QED BY <1>1, <1>2, <1>3, <1>6, <2>1, <2>4 DEF IInv, KeptOK, Redownloading
<1>14. CASE left.headers # <<>> /\ HandleUnconnectingHeaders(result, left)
  <2>1. /\ left.prev \notin m_block_index /\ m_headers_sync' = result.sync
        /\ \/ getheaders' = Requests(result)
           \/ getheaders' = Append(Requests(result), LocatorEntries(m_best_header))
        /\ UNCHANGED <<m_block_index, m_best_header, fDisconnect>>
    BY <1>14 DEF HandleUnconnectingHeaders, Locate
  <2>2. result.sync = Final
    <3>1. result.sync # Final => result.success
      BY <1>5, Zenon DEF Continues
    <3> QED BY <1>10, <1>14, <2>1, <3>1
  <2>3. getheaders' \in Seq(Locators)
    <3>1. LocatorEntries(m_best_header) \in Locators
      BY <1>2, <1>9
    <3>2. Append(Requests(result), LocatorEntries(m_best_header)) \in Seq(Locators)
      BY <1>6, <3>1, AppendProperties
    <3> QED BY <1>6, <2>1, <3>2
  <2> QED BY <1>1, <1>2, <1>3, <2>1, <2>2, <2>3 DEF IInv
<1>15. CASE TryLowWorkHeadersSync(result, left)
  <2>1. /\ left.prev \in m_block_index /\ ~result.success
        /\ UNCHANGED <<m_block_index, m_best_header, fDisconnect>>
    BY <1>15 DEF TryLowWorkHeadersSync, HasSufficientWork
  <2>2. left = msg
    BY <2>1, Zenon
  <2>3. CASE m_headers_sync' = Final /\ UNCHANGED getheaders
    BY <1>1, <1>2, <1>3, <2>1, <2>3 DEF IInv
  <2>4. ASSUME NEW offset \in 0 .. (commitment_period - 1), NEW salt \in Salts,
               m_headers_sync' = ProcessNextHeaders(
                   HeadersSyncState(msg.prev, offset, salt), msg).sync,
               getheaders' = Requests(ProcessNextHeaders(
                   HeadersSyncState(msg.prev, offset, salt), msg))
        PROVE  IInv'
    <3> DEFINE new == HeadersSyncState(msg.prev, offset, salt)
               first == ProcessNextHeaders(new, msg)
    <3>1. offset \in Nat
      BY SyncAssumption
    <3>2. SyncOK(new) /\ new.m_chain_start = msg.prev /\ new.m_download_state = "PRESYNC"
      BY <1>2, <2>1, <2>2, <3>1, NewSync
    <3> HIDE DEF new
    <3>3. /\ first.sync # Final =>
                /\ SyncOK(first.sync) /\ first.sync.m_chain_start = new.m_chain_start
                /\ first.sync.m_download_state = "REDOWNLOAD" =>
                       first.sync.m_redownload_buffer_first_prev_hash = new.m_chain_start
          /\ first.request_more => SyncOK(first.sync)
      BY <1>3, <3>2, NextHeaders, Zenon DEF Continues
    <3> HIDE DEF first
    <3>4. Requests(first) \in Seq(Locators)
      BY <1>2, <3>3, RequestsType
    <3>5. m_headers_sync' = first.sync /\ getheaders' = Requests(first)
      BY <2>4 DEF first, new
    <3>6. KeptOK(first.sync, m_block_index, FALSE)
      BY <2>1, <2>2, <3>2, <3>3 DEF KeptOK
    <3> QED BY <1>1, <1>2, <1>3, <2>1, <3>4, <3>5, <3>6 DEF IInv, KeptOK, Redownloading
  <2> QED BY <1>15, <2>2, <2>3, <2>4 DEF TryLowWorkHeadersSync
<1>16. CASE left.headers # <<>> /\ ProcessNewBlockHeaders(result, left, full)
  <2> DEFINE accepted == AcceptedHeaders(left)
             best == CHOOSE k \in accepted : \A i \in accepted : i <= k
             last == BlockOf(left, best)
             valid == Len(left.headers) \in accepted
  <2>1. /\ left.prev \in m_block_index
        /\ m_headers_sync' = result.sync
        /\ m_block_index' = m_block_index \cup {BlockOf(left, k) : k \in accepted}
        /\ m_best_header' \in {last, m_best_header}
        /\ fDisconnect' = ~valid
        /\ \/ getheaders' = Requests(result)
           \/ getheaders' = Append(Requests(result), LocatorEntries(last))
    BY <1>16 DEF ProcessNewBlockHeaders, Locate
  <2>2. Len(left.headers) \in Nat
    BY <1>7
  <2>3. accepted \in SUBSET (0 .. Len(left.headers)) /\ 0 \in accepted
    BY <2>2 DEF AcceptedHeaders
  <2>4. best \in accepted
    <3>1. \E k \in accepted : \A i \in accepted : i <= k
      BY <2>2, <2>3, GreatestElement, Zenon
    <3> QED BY <3>1
  <2>5. \A k \in accepted : BlockOf(left, k) \in Chained
    BY <1>2, <1>7, <2>1, <2>3, MessageBlocks
  <2> HIDE DEF accepted, best
  <2>6. m_block_index' \subseteq Chained /\ last \in m_block_index'
    BY <1>2, <2>1, <2>4, <2>5
  <2>7. LocatorEntries(last) \in Locators
    BY <2>6, LocatorNamesGenesis
  <2>8. getheaders' \in Seq(Locators)
    BY <1>6, <2>1, <2>7, AppendProperties
  <2>9. valid => left.prev \o left.headers \in m_block_index'
    <3>1. SubSeq(left.headers, 1, Len(left.headers)) = left.headers
      BY <1>7, SubSeqFull
    <3> QED BY <2>1, <3>1, Zenon DEF BlockOf
  <2>10. KeptOK(result.sync, m_block_index', ~valid)
    <3> SUFFICES ASSUME result.sync # Final
                 PROVE  /\ SyncOK(result.sync) /\ result.sync.m_chain_start \in m_block_index'
                        /\ result.sync.m_download_state = "REDOWNLOAD" /\ valid =>
                               result.sync.m_redownload_buffer_first_prev_hash
                                   \in m_block_index'
      BY DEF KeptOK
    <3>1. result.success /\ left = validated
      BY <1>5 DEF Continues
    <3>2. /\ SyncOK(result.sync) /\ m_headers_sync # Final
          /\ result.sync.m_chain_start \in m_block_index'
      BY <1>5, <1>8, <2>1 DEF Continues
    <3>3. m_headers_sync.m_download_state = "REDOWNLOAD"
      BY <1>5, <1>16, <3>1 DEF Continues
    <3>4. result.sync.m_download_state = "REDOWNLOAD" =>
              result.sync.m_redownload_buffer_first_prev_hash = left.prev \o left.headers
      BY <1>5, <1>10, <1>16, <3>1, <3>3, Zenon DEF Continues
    <3> QED BY <2>9, <3>2, <3>4, Zenon
  <2> HIDE DEF valid, last
  <2>11. fDisconnect' \in BOOLEAN /\ m_best_header' \in m_block_index'
         /\ Genesis \in m_block_index'
    BY <1>2, <2>1, <2>6
  <2>12. KeptOK(m_headers_sync', m_block_index', fDisconnect')
    BY <2>1, <2>10
  <2> QED BY <1>3, <2>6, <2>8, <2>11, <2>12 DEF IInv, KeptOK, Redownloading
<1> QED BY <1>1, <1>11, <1>12, <1>13, <1>14, <1>15, <1>16

\* Every step keeps the invariant.
LEMMA Inductive == IInv /\ [Next]_vars => IInv'
<1> SUFFICES ASSUME IInv, [Next]_vars PROVE IInv'
  OBVIOUS
<1>1. CASE ProcessHeadersMessage
  BY <1>1, HeadersStep
<1>2. CASE Inv
  <2>1. m_best_header \in Chained
    BY DEF IInv
  <2>2. LocatorEntries(m_best_header) \in Locators
    BY <2>1, LocatorNamesGenesis
  <2>3. getheaders' = Append(getheaders, LocatorEntries(m_best_header))
    BY <1>2 DEF Inv, Locate
  <2>4. getheaders' \in Seq(Locators)
    BY <2>2, <2>3, AppendProperties DEF IInv
  <2> QED BY <1>2, <2>4 DEF Inv, IInv, Redownloading
<1>3. CASE GetHeaders
  <2>1. getheaders # <<>> /\ getheaders \in Seq(Locators) /\ headers \in Seq(Messages)
    BY <1>3 DEF GetHeaders, IInv
  <2>2. Head(getheaders) \in Locators /\ Tail(getheaders) \in Seq(Locators)
    BY <2>1, HeadTailProperties
  <2>3. Answer(Head(getheaders)) \in Messages
    BY <2>2, AnswerType DEF IInv
  <2>4. Append(headers, Answer(Head(getheaders))) \in Seq(Messages)
    BY <2>1, <2>3, AppendProperties
  <2> QED BY <1>3, <2>2, <2>4 DEF GetHeaders, IInv, Redownloading
<1>4. CASE RequestExpires
  BY <1>4 DEF RequestExpires, Expire, IInv, Redownloading
<1>5. CASE LateAnswer
  BY <1>5 DEF LateAnswer, Expire, IInv, Redownloading
<1>6. CASE GetHeadersIgnored
  <2>1. getheaders # <<>> /\ getheaders \in Seq(Locators)
    BY <1>6 DEF GetHeadersIgnored, IInv
  <2>2. Tail(getheaders) \in Seq(Locators)
    BY <2>1, HeadTailProperties
  <2> QED BY <1>6, <2>2 DEF GetHeadersIgnored, IInv, Redownloading
<1>7. CASE Reorganize
  BY <1>7 DEF Reorganize, IInv, Redownloading
<1>8. CASE UNCHANGED vars
  BY <1>8 DEF vars, IInv, Redownloading
<1> QED BY <1>1, <1>2, <1>3, <1>4, <1>5, <1>6, <1>7, <1>8 DEF Next

\* The inductive invariant of HeadersSync holds for all chains a peer can serve.
THEOREM Invariant == Spec => []IInv
BY InitIInv, Inductive, PTL DEF Spec

\* No peer, whatever chains it switches between, makes HeadersSyncState keep more commitments
\* than m_max_commitments or more headers than redownload_buffer_size between two messages.
THEOREM Bounded == Spec => []MemoryBounded
<1>1. IInv => MemoryBounded
  <2> SUFFICES ASSUME IInv, Syncing PROVE MemoryBounded
    BY DEF MemoryBounded
  <2>1. Final.m_download_state = "FINAL"
    BY DEF Final
  <2>2. SyncOK(m_headers_sync)
    BY <2>1 DEF IInv, Syncing
  <2>3. Len(m_headers_sync.m_redownloaded_headers) <= redownload_buffer_size
    <3>1. CASE PresyncOK(m_headers_sync)
      BY <3>1, EmptySeq, SyncAssumption DEF PresyncOK
    <3>2. CASE RedownloadOK(m_headers_sync)
      BY <3>2 DEF RedownloadOK
    <3> QED BY <2>2, <3>1, <3>2 DEF SyncOK
  <2> QED BY <2>2, <2>3 DEF MemoryBounded, SyncOK
<1> QED BY <1>1, Invariant, PTL

\* The headers buffered by a second download continue a stored block up to the block the next
\* request starts from, though the buffer keeps no hashes of previous blocks.
THEOREM Connected == Spec => []BufferConnects
<1>1. IInv => BufferConnects
  <2> SUFFICES ASSUME IInv, Redownloading, ~fDisconnect PROVE BufferConnects
    BY Zenon DEF BufferConnects
  <2>1. Final.m_download_state = "FINAL"
    BY DEF Final
  <2>2. SyncOK(m_headers_sync)
        /\ m_headers_sync.m_redownload_buffer_first_prev_hash \in m_block_index
    BY <2>1 DEF IInv, Redownloading
  <2>3. RedownloadOK(m_headers_sync)
    BY <2>2 DEF SyncOK, PresyncOK, Redownloading
  <2> QED BY <2>2, <2>3, Zenon DEF BufferConnects, SyncOK, RedownloadOK
<1> QED BY <1>1, Invariant, PTL
===============================================================================
