------------------------------ MODULE HeadersSync ------------------------------
(***************************************************************************)
(* Low-work headers synchronisation with one peer: HeadersSyncState        *)
(* (headerssync.cpp) inside the headers, inv and getheaders handlers of    *)
(* net_processing.cpp.  A chain is downloaded twice: once to see its work, *)
(* keeping one bit every commitment_period headers, and once to store it.  *)
(*                                                                         *)
(* A block is named by the headers from genesis to it, which is what its   *)
(* hash commits to.  A headers message is a block and the headers that     *)
(* follow it; a locator is the set of blocks it names.  A finished         *)
(* HeadersSyncState is reset by the handler that finishes it, so FINAL     *)
(* also stands for the null pointer.                                       *)
(***************************************************************************)
EXTENDS Pow, FiniteSets

CONSTANTS m_consensus_params,
          PeerChains,              \* the active chains the peer can have
          PeerMinimumChainWork,    \* the peer's own -minimumchainwork
          MinimumChainWork,        \* GetAntiDoSWorkThreshold() during the initial download
          max_headers_result, commitment_period, redownload_buffer_size,
          m_max_commitments,       \* the bound the constructor derives from the clock
          Salts,                   \* outcomes of the salted hash: the blocks it maps to 1
          MaxFaults                \* reorganisations, late answers and ignored requests

Blocks == UNION {{SubSeq(chain, 1, n) : n \in 1 .. Len(chain)} : chain \in PeerChains}

Genesis == CHOOSE block \in Blocks : Len(block) = 1

ASSUME SyncAssumption ==
    /\ m_consensus_params \in Params
    /\ PeerChains # {} /\ \A chain \in PeerChains : chain \in Seq(Headers) /\ chain # <<>>
    /\ \A c, d \in PeerChains : c[1] = d[1]
    /\ MinimumChainWork \in Nat /\ PeerMinimumChainWork \in Nat /\ MaxFaults \in Nat
    /\ max_headers_result \in Nat \ {0} /\ commitment_period \in Nat \ {0}
    /\ redownload_buffer_size \in Nat \ {0} /\ m_max_commitments \in Nat
    /\ Salts # {}

VARIABLES m_block_index,    \* the headers stored
          m_best_header,
          m_headers_sync,   \* Peer::m_headers_sync
          recent,           \* m_last_getheaders_timestamp is within HEADERS_RESPONSE_TIME
          fDisconnect,
          getheaders,       \* requests on their way to the peer
          headers,          \* answers on their way back
          peer,             \* the peer's active chain
          faults

vars == <<m_block_index, m_best_header, m_headers_sync, recent, fDisconnect, getheaders,
          headers, peer, faults>>

Final == [m_download_state |-> "FINAL"]

IsAncestor(block, other) ==
    Len(block) <= Len(other) /\ block = SubSeq(other, 1, Len(block))

GetBlockProof(nBits) == IF nBits = 0 THEN 0 ELSE Modulus \div (nBits + 1)

CalculateClaimedHeadersWork(hdrs) ==
    LET total[i \in 0 .. Len(hdrs)] ==
            IF i = 0 THEN 0 ELSE total[i - 1] + GetBlockProof(hdrs[i].nBits)
    IN  total[Len(hdrs)]

nChainWork(block) == CalculateClaimedHeadersWork(block)

LocatorEntries(block) == {SubSeq(block, 1, n) : n \in 1 .. Len(block)}

\* The headers of a message, as blocks.
BlockOf(msg, k) == msg.prev \o SubSeq(msg.headers, 1, k)
LastBlock(msg) == BlockOf(msg, Len(msg.headers))
-------------------------------------------------------------------------------
\* HeadersSyncState

HeadersSyncState(chain_start, offset, salt) ==
    [m_download_state |-> "PRESYNC", m_chain_start |-> chain_start,
     m_commit_offset |-> offset, m_hasher |-> salt,
     m_current_chain_work |-> nChainWork(chain_start),
     m_last_header_received |-> chain_start, m_current_height |-> Height(chain_start),
     m_header_commitments |-> <<>>, m_redownloaded_headers |-> <<>>,
     m_redownload_buffer_last_height |-> 0, m_redownload_buffer_last_hash |-> <<>>,
     m_redownload_buffer_first_prev_hash |-> <<>>, m_redownload_chain_work |-> 0,
     m_process_all_remaining_headers |-> FALSE]

\* The commitments to the ancestors of a block with heights in low .. high: one for each height
\* that is m_commit_offset modulo commitment_period.
Commitments(sync, block, low, high) ==
    LET first == low + ((sync.m_commit_offset - low) % commitment_period)
        count == IF first > high THEN 0 ELSE ((high - first) \div commitment_period) + 1
        height(i) == first + (i - 1) * commitment_period
    IN  [i \in 1 .. count |-> SubSeq(block, 1, height(i) + 1) \in sync.m_hasher]

HeadersPermitted(height, nBits, hdrs) ==
    \A k \in 1 .. Len(hdrs) :
        PermittedDifficultyTransition(m_consensus_params, height + k,
            IF k = 1 THEN nBits ELSE hdrs[k - 1].nBits, hdrs[k].nBits)

\* Mutant: the number of commitments is not limited.
UnlimitedCommitments(commitments) == TRUE

WithinMaxCommitments(commitments) == Len(commitments) <= m_max_commitments

\* ValidateAndStoreHeadersCommitments, ValidateAndProcessSingleHeader: all headers of a
\* message; Final if one is refused.
ValidateAndStoreHeadersCommitments(sync, msg) ==
    LET height == sync.m_current_height + Len(msg.headers)
        work == sync.m_current_chain_work + CalculateClaimedHeadersWork(msg.headers)
        commitments == sync.m_header_commitments \o
            Commitments(sync, LastBlock(msg), sync.m_current_height + 1, height)
        next == [sync EXCEPT !.m_current_height = height, !.m_current_chain_work = work,
                             !.m_last_header_received = LastBlock(msg),
                             !.m_header_commitments = commitments]
    IN  IF \/ msg.prev # sync.m_last_header_received
           \/ ~HeadersPermitted(sync.m_current_height, Tip(sync.m_last_header_received).nBits,
                                msg.headers)
           \/ ~WithinMaxCommitments(commitments)
        THEN Final
        ELSE IF work < MinimumChainWork THEN next
        ELSE [next EXCEPT !.m_download_state = "REDOWNLOAD",
                          !.m_redownloaded_headers = <<>>,
                          !.m_redownload_buffer_last_height = Height(sync.m_chain_start),
                          !.m_redownload_buffer_first_prev_hash = sync.m_chain_start,
                          !.m_redownload_buffer_last_hash = sync.m_chain_start,
                          !.m_redownload_chain_work = nChainWork(sync.m_chain_start)]

\* Mutants: commitments are not compared; a commitment stays in the queue.
NothingExpected(found, expected) == TRUE
KeepCommitments(commitments, n) == commitments

CommitmentsMatch(found, expected) ==
    Len(found) <= Len(expected) /\ found = SubSeq(expected, 1, Len(found))

PopCommitments(commitments, n) == SubSeq(commitments, n + 1, Len(commitments))

\* ValidateAndStoreRedownloadedHeader, for all headers of a message.  Commitments are compared
\* up to the first header that brings enough work.
ValidateAndStoreRedownloadedHeaders(sync, msg) ==
    LET n == Len(msg.headers)
        height == sync.m_redownload_buffer_last_height
        workAt(k) == sync.m_redownload_chain_work
                         + CalculateClaimedHeadersWork(SubSeq(msg.headers, 1, k))
        short == Cardinality({k \in 1 .. n : workAt(k) < MinimumChainWork})
        found == IF sync.m_process_all_remaining_headers THEN <<>>
                 ELSE Commitments(sync, LastBlock(msg), height + 1, height + short)
        back == IF sync.m_redownloaded_headers = <<>> THEN Tip(sync.m_chain_start)
                ELSE Tip(sync.m_redownloaded_headers)
    IN  IF \/ msg.prev # sync.m_redownload_buffer_last_hash
           \/ ~HeadersPermitted(height, back.nBits, msg.headers)
           \/ ~CommitmentsMatch(found, sync.m_header_commitments)
        THEN Final
        ELSE [sync EXCEPT
                 !.m_redownload_chain_work = workAt(n),
                 !.m_process_all_remaining_headers = @ \/ workAt(n) >= MinimumChainWork,
                 !.m_header_commitments = PopCommitments(@, Len(found)),
                 !.m_redownloaded_headers = @ \o msg.headers,
                 !.m_redownload_buffer_last_height = height + n,
                 !.m_redownload_buffer_last_hash = LastBlock(msg)]

\* Mutant: the hash the next released header follows is not moved.
StaleFirstPrev(sync, ready) ==
    [sync EXCEPT !.m_redownloaded_headers = SubSeq(@, ready + 1, Len(@))]

PopHeaders(sync, ready) ==
    [sync EXCEPT !.m_redownloaded_headers = SubSeq(@, ready + 1, Len(@)),
                 !.m_redownload_buffer_first_prev_hash =
                     @ \o SubSeq(sync.m_redownloaded_headers, 1, ready)]

\* How many headers PopHeadersReadyForAcceptance releases.
ReadyForAcceptance(sync) ==
    LET size == Len(sync.m_redownloaded_headers)
    IN  IF sync.m_process_all_remaining_headers THEN size
        ELSE IF size > redownload_buffer_size THEN size - redownload_buffer_size ELSE 0

\* A ProcessingResult and the object it leaves behind.
Result(success, request_more, validated, sync) ==
    [success |-> success, request_more |-> request_more, pow_validated_headers |-> validated,
     sync |-> IF success /\ request_more THEN sync ELSE Final]

Failure == Result(FALSE, FALSE, [prev |-> <<>>, headers |-> <<>>], Final)

ProcessPresync(sync, msg) ==
    LET next == ValidateAndStoreHeadersCommitments(sync, msg)
    IN  IF next = Final THEN Failure
        ELSE Result(TRUE, \/ Len(msg.headers) = max_headers_result
                          \/ next.m_download_state = "REDOWNLOAD",
                    [prev |-> <<>>, headers |-> <<>>], next)

ProcessRedownload(sync, msg) ==
    LET buffered == ValidateAndStoreRedownloadedHeaders(sync, msg)
        ready == ReadyForAcceptance(buffered)
        next == PopHeaders(buffered, ready)
        complete == next.m_redownloaded_headers = <<>> /\ next.m_process_all_remaining_headers
    IN  IF buffered = Final THEN Failure
        ELSE Result(TRUE, ~complete /\ Len(msg.headers) = max_headers_result,
                    [prev |-> buffered.m_redownload_buffer_first_prev_hash,
                     headers |-> SubSeq(buffered.m_redownloaded_headers, 1, ready)],
                    next)

ProcessNextHeaders(sync, msg) ==
    CASE sync.m_download_state = "PRESYNC" -> ProcessPresync(sync, msg)
      [] sync.m_download_state = "REDOWNLOAD" -> ProcessRedownload(sync, msg)
      [] sync.m_download_state = "FINAL" -> Failure

\* Mutant: the second download continues where the first one ended.
LocatorOfLastReceived(sync) ==
    {sync.m_last_header_received} \cup LocatorEntries(sync.m_chain_start)

NextHeadersRequestLocator(sync) ==
    {IF sync.m_download_state = "PRESYNC" THEN sync.m_last_header_received
     ELSE sync.m_redownload_buffer_last_hash} \cup LocatorEntries(sync.m_chain_start)
-------------------------------------------------------------------------------
\* net_processing.cpp: the node's handlers

Locate(requests, locator) == Append(requests, locator)

\* What IsContinuationOfLowWorkHeadersSync asks for.
Requests(result) ==
    IF result.request_more THEN Locate(getheaders, NextHeadersRequestLocator(result.sync))
    ELSE getheaders

CheckHeadersPoW(msg) ==
    \A k \in 1 .. Len(msg.headers) :
        HasValidProofOfWork(m_consensus_params, msg.headers[k].nBits, TRUE)

\* The nBits rule of ContextualCheckBlockHeader; peers' chains keep the rules for time.
ContextualCheckBlockHeader(block) ==
    LET prev == SubSeq(block, 1, Len(block) - 1)
        height == Height(block)
    IN  IsRandomXActive(m_consensus_params, height) /\ ~IsBootstrap(m_consensus_params, height)
            => Tip(block).nBits =
                   GetNextWorkRequired(m_consensus_params, prev, Tip(block).nTime)

EmptyMessage(msg) ==
    /\ msg.headers = <<>>
    /\ m_headers_sync' = Final
    /\ recent' = FALSE
    /\ UNCHANGED <<m_block_index, m_best_header, fDisconnect, getheaders>>

InvalidPoW(msg) ==
    /\ msg.headers # <<>> /\ ~CheckHeadersPoW(msg)
    /\ fDisconnect' = TRUE
    /\ UNCHANGED <<m_block_index, m_best_header, m_headers_sync, recent, getheaders>>

\* The sync took the headers and has none to process yet.
Absorbed(result) ==
    /\ result.success /\ result.pow_validated_headers.headers = <<>>
    /\ m_headers_sync' = result.sync
    /\ getheaders' = Requests(result)
    /\ recent' = result.request_more
    /\ UNCHANGED <<m_block_index, m_best_header, fDisconnect>>

HandleUnconnectingHeaders(result, msg) ==
    /\ msg.prev \notin m_block_index
    /\ m_headers_sync' = result.sync
    /\ LET waiting == IF result.success THEN result.request_more ELSE recent
       IN  getheaders' = IF waiting THEN Requests(result)
                         ELSE Locate(Requests(result), LocatorEntries(m_best_header))
    /\ recent' = TRUE
    /\ UNCHANGED <<m_block_index, m_best_header, fDisconnect>>

\* Work is not checked again for headers of a sync and for ancestors of the best header.
HasSufficientWork(result, msg) ==
    \/ result.success
    \/ IsAncestor(LastBlock(msg), m_best_header)
    \/ nChainWork(LastBlock(msg)) >= MinimumChainWork

TryLowWorkHeadersSync(result, msg) ==
    /\ msg.prev \in m_block_index /\ ~HasSufficientWork(result, msg)
    /\ \/ /\ Len(msg.headers) < max_headers_result
          /\ m_headers_sync' = Final
          /\ recent' = FALSE
          /\ UNCHANGED getheaders
       \/ /\ Len(msg.headers) = max_headers_result
          /\ \E offset \in 0 .. (commitment_period - 1), salt \in Salts :
                 LET first == ProcessNextHeaders(HeadersSyncState(msg.prev, offset, salt), msg)
                 IN  /\ m_headers_sync' = first.sync
                     /\ getheaders' = Requests(first)
                     /\ recent' = first.request_more
    /\ UNCHANGED <<m_block_index, m_best_header, fDisconnect>>

\* Headers are accepted up to the first invalid one.
AcceptedHeaders(msg) ==
    {k \in 0 .. Len(msg.headers) :
        \A i \in 1 .. k : ContextualCheckBlockHeader(BlockOf(msg, i))}

ProcessNewBlockHeaders(result, msg, full) ==
    LET accepted == AcceptedHeaders(msg)
        last == BlockOf(msg, CHOOSE k \in accepted : \A i \in accepted : i <= k)
        valid == Len(msg.headers) \in accepted
        more == valid /\ full /\ result.sync = Final
    IN  /\ msg.prev \in m_block_index /\ HasSufficientWork(result, msg)
        /\ m_headers_sync' = result.sync
        /\ m_block_index' = m_block_index \cup {BlockOf(msg, k) : k \in accepted}
        /\ m_best_header' = IF nChainWork(last) > nChainWork(m_best_header) THEN last
                            ELSE m_best_header
        /\ fDisconnect' = ~valid
        /\ getheaders' = IF more THEN Locate(Requests(result), LocatorEntries(last))
                         ELSE Requests(result)
        /\ recent' = more

ProcessHeadersMessage ==
    /\ headers # <<>> /\ ~fDisconnect
    /\ headers' = Tail(headers)
    /\ UNCHANGED <<peer, faults>>
    /\ LET msg == Head(headers)
           result == ProcessNextHeaders(m_headers_sync, msg)
           left == IF result.success THEN result.pow_validated_headers ELSE msg
           full == Len(msg.headers) = max_headers_result
       IN  \/ EmptyMessage(msg)
           \/ InvalidPoW(msg)
           \/ /\ msg.headers # <<>> /\ CheckHeadersPoW(msg)
              /\ \/ Absorbed(result)
                 \/ /\ left.headers # <<>>
                    /\ \/ HandleUnconnectingHeaders(result, left)
                       \/ TryLowWorkHeadersSync(result, left)
                       \/ ProcessNewBlockHeaders(result, left, full)

\* The peer announces its tip, a block that is not known yet.
Inv ==
    /\ ~fDisconnect /\ ~recent /\ peer \notin m_block_index
    /\ getheaders' = Locate(getheaders, LocatorEntries(m_best_header))
    /\ recent' = TRUE
    /\ UNCHANGED <<m_block_index, m_best_header, m_headers_sync, fDisconnect, headers, peer,
                   faults>>

\* HEADERS_RESPONSE_TIME passes after the last request.
Expire(late) ==
    /\ recent /\ ~fDisconnect
    /\ late <=> getheaders \o headers # <<>>
    /\ recent' = FALSE
    /\ UNCHANGED <<m_block_index, m_best_header, m_headers_sync, fDisconnect, getheaders,
                   headers, peer>>
-------------------------------------------------------------------------------
\* The peer: its getheaders handler, and what may go wrong on its side

FindForkInGlobalIndex(locator) ==
    IF \E block \in locator : IsAncestor(peer, block) THEN peer
    ELSE CHOOSE block \in locator :
             /\ IsAncestor(block, peer)
             /\ \A other \in locator : IsAncestor(other, peer) => Len(other) <= Len(block)

Answer(locator) ==
    LET fork == FindForkInGlobalIndex(locator)
        last == Least(Len(fork) + max_headers_result, Len(peer))
    IN  [prev |-> fork, headers |-> IF nChainWork(peer) < PeerMinimumChainWork THEN <<>>
                                    ELSE SubSeq(peer, Len(fork) + 1, last)]

GetHeaders ==
    /\ getheaders # <<>> /\ ~fDisconnect
    /\ headers' = Append(headers, Answer(Head(getheaders)))
    /\ getheaders' = Tail(getheaders)
    /\ UNCHANGED <<m_block_index, m_best_header, m_headers_sync, recent, fDisconnect, peer,
                   faults>>

Fault == faults < MaxFaults /\ faults' = faults + 1

\* The peer ignores requests while it imports blocks.
GetHeadersIgnored ==
    /\ Fault /\ getheaders # <<>> /\ ~fDisconnect
    /\ getheaders' = Tail(getheaders)
    /\ UNCHANGED <<m_block_index, m_best_header, m_headers_sync, recent, fDisconnect, headers,
                   peer>>

Reorganize ==
    /\ Fault /\ ~fDisconnect
    /\ peer' \in PeerChains \ {peer}
    /\ UNCHANGED <<m_block_index, m_best_header, m_headers_sync, recent, fDisconnect,
                   getheaders, headers>>
-------------------------------------------------------------------------------
\* SendMessages has sent the initial request.
Init ==
    /\ m_block_index = {Genesis} /\ m_best_header = Genesis
    /\ m_headers_sync = Final /\ fDisconnect = FALSE
    /\ getheaders = <<LocatorEntries(Genesis)>> /\ recent = TRUE
    /\ headers = <<>>
    /\ peer \in PeerChains
    /\ faults = 0

LateAnswer == Fault /\ Expire(TRUE)
RequestExpires == Expire(FALSE) /\ UNCHANGED faults

Next ==
    \/ ProcessHeadersMessage \/ Inv \/ GetHeaders \/ RequestExpires
    \/ LateAnswer \/ GetHeadersIgnored \/ Reorganize

Spec == Init /\ [][Next]_vars

\* Only ProcessHeadersMessage takes an answer from the queue.
Handled == headers # <<>> /\ ~fDisconnect /\ headers' = Tail(headers)

\* Messages are delivered and handled, time passes, and the peer goes on announcing blocks.
FairSpec ==
    /\ Spec /\ WF_headers(Handled) /\ WF_vars(GetHeaders)
    /\ WF_vars(RequestExpires) /\ WF_vars(Inv)
-------------------------------------------------------------------------------
Messages == [prev : Seq(Headers), headers : Seq(Headers)]

Syncing == m_headers_sync.m_download_state # "FINAL"
Redownloading == m_headers_sync.m_download_state = "REDOWNLOAD"

\* What a peer can make the node keep between two messages is limited in both phases: the
\* commitments by the age of the chain, the headers by the size of the buffer.
MemoryBounded ==
    Syncing => /\ Len(m_headers_sync.m_header_commitments) <= m_max_commitments
               /\ Len(m_headers_sync.m_redownloaded_headers) <= redownload_buffer_size

\* The buffer of compressed headers, whose hashes of previous blocks were dropped, continues a
\* stored block and ends in the block the next request starts from; a sync that may release
\* all of it does so at once and is over.
BufferConnects ==
    Redownloading /\ ~fDisconnect =>
        LET sync == m_headers_sync
            last == sync.m_redownload_buffer_last_hash
        IN  /\ sync.m_redownload_buffer_first_prev_hash \in m_block_index
            /\ sync.m_redownload_buffer_first_prev_hash \o sync.m_redownloaded_headers = last
            /\ sync.m_redownload_buffer_last_height = Height(last)
            /\ ~sync.m_process_all_remaining_headers

\* The commitments still queued are those of the first download to the heights the second one
\* has not reached: none is skipped or compared with a header of another height.  The work
\* counted in both downloads is that of the chain.
CommitmentsAligned ==
    Syncing =>
        LET sync == m_headers_sync
            low == IF Redownloading THEN sync.m_redownload_buffer_last_height + 1
                   ELSE Height(sync.m_chain_start) + 1
        IN  /\ sync.m_current_height = Height(sync.m_last_header_received)
            /\ sync.m_current_chain_work = nChainWork(sync.m_last_header_received)
            /\ Redownloading <=> sync.m_current_chain_work >= MinimumChainWork
            /\ Redownloading =>
                   /\ sync.m_redownload_chain_work =
                          nChainWork(sync.m_redownload_buffer_last_hash)
                   /\ sync.m_redownload_chain_work < MinimumChainWork
            /\ sync.m_header_commitments =
                   Commitments(sync, sync.m_last_header_received, low, sync.m_current_height)

\* The chain the node has seen when it handles the next message.
Seen ==
    IF Redownloading /\ Head(headers).prev = m_headers_sync.m_redownload_buffer_last_hash
    THEN m_headers_sync.m_redownload_buffer_first_prev_hash
             \o m_headers_sync.m_redownloaded_headers \o Head(headers).headers
    ELSE LastBlock(Head(headers))

\* A header is stored only on a chain of enough work, or in a second download that agrees
\* with every commitment to a chain of enough work, up to redownload_buffer_size headers
\* beyond it: "these returned headers are on a chain with sufficient work".
StoredIsVouched ==
    [][\A block \in m_block_index' \ m_block_index :
           /\ IsAncestor(block, Seen)
           /\ \/ nChainWork(Seen) >= MinimumChainWork
              \/ LET sync == m_headers_sync
                     low == Height(sync.m_chain_start) + 1
                     first == Commitments(sync, sync.m_last_header_received, low,
                                          sync.m_current_height)
                     second == Commitments(sync, Seen, low, Height(Seen))
                 IN  /\ Redownloading /\ sync.m_current_chain_work >= MinimumChainWork
                     /\ second = SubSeq(first, 1, Len(second))
                     /\ Height(block) + redownload_buffer_size <= Height(Seen)]_vars

\* The peer's chain is valid, has enough work, passes the checks of both downloads and is not
\* too long for the commitments.
Acceptable(chain) ==
    /\ nChainWork(chain) >= MinimumChainWork /\ nChainWork(chain) >= PeerMinimumChainWork
    /\ \A n \in 2 .. Len(chain) : ContextualCheckBlockHeader(SubSeq(chain, 1, n))
    /\ HeadersPermitted(0, chain[1].nBits, SubSeq(chain, 2, Len(chain)))
    /\ Height(chain) <= m_max_commitments * commitment_period

\* Whatever reorganisations, late and missing answers interrupted it, the synchronisation ends:
\* the headers of an acceptable chain the peer stays on are stored.
ChainStored == <>[](Acceptable(peer) /\ ~fDisconnect => peer \in m_block_index)
-------------------------------------------------------------------------------
\* The inductive invariant behind MemoryBounded and BufferConnects.

Chained == {block \in Seq(Headers) : block # <<>> /\ <<block[1]>> = Genesis}

Locators == {locator \in SUBSET Seq(Headers) : Genesis \in locator}

SyncFields ==
    {"m_download_state", "m_chain_start", "m_commit_offset", "m_hasher",
     "m_current_chain_work", "m_last_header_received", "m_current_height",
     "m_header_commitments", "m_redownloaded_headers", "m_redownload_buffer_last_height",
     "m_redownload_buffer_last_hash", "m_redownload_buffer_first_prev_hash",
     "m_redownload_chain_work", "m_process_all_remaining_headers"}

PresyncOK(sync) ==
    /\ sync.m_download_state = "PRESYNC"
    /\ sync.m_redownloaded_headers = <<>>

RedownloadOK(sync) ==
    /\ sync.m_download_state = "REDOWNLOAD"
    /\ sync.m_redownloaded_headers \in Seq(Headers)
    /\ Len(sync.m_redownloaded_headers) <= redownload_buffer_size
    /\ sync.m_redownload_buffer_first_prev_hash \in Chained
    /\ sync.m_redownload_buffer_last_hash =
           sync.m_redownload_buffer_first_prev_hash \o sync.m_redownloaded_headers
    /\ sync.m_redownload_buffer_last_height = Height(sync.m_redownload_buffer_last_hash)

\* A sync kept between two messages: once all remaining headers may be released they have
\* been, and the sync is over.
SyncOK(sync) ==
    /\ sync = [field \in SyncFields |-> sync[field]]
    /\ sync.m_chain_start \in Chained /\ sync.m_commit_offset \in Nat
    /\ sync.m_last_header_received \in Chained
    /\ sync.m_current_height = Height(sync.m_last_header_received)
    /\ sync.m_header_commitments \in Seq(BOOLEAN)
    /\ Len(sync.m_header_commitments) <= m_max_commitments
    /\ sync.m_process_all_remaining_headers = FALSE
    /\ PresyncOK(sync) \/ RedownloadOK(sync)

\* Every request names genesis, so every answer continues a chain from genesis; a sync starts
\* from a stored block, and what it released is stored unless it was invalid.
IInv ==
    /\ m_block_index \subseteq Chained /\ m_best_header \in m_block_index
    /\ Genesis \in m_block_index
    /\ getheaders \in Seq(Locators) /\ headers \in Seq(Messages)
    /\ peer \in PeerChains /\ fDisconnect \in BOOLEAN
    /\ m_headers_sync # Final =>
           /\ SyncOK(m_headers_sync)
           /\ m_headers_sync.m_chain_start \in m_block_index
           /\ Redownloading /\ ~fDisconnect =>
                  m_headers_sync.m_redownload_buffer_first_prev_hash \in m_block_index
===============================================================================
